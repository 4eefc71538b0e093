SPECIFICATION Spec
CONSTANTS
    Requests = {q1, q2}
    Browsers = {b1}
    MaxTime = 1
    MaxDevices = 2
    MaxSessions = 2
    MaxTurns = 2
    MaxBatches = 2
    BatchSize = 1
SYMMETRY MCSymmetry
INVARIANTS OneGrantPerCredential OneAuthenticator
PROPERTIES RevokedForGood RecoveryEndsInItsSession
CHECK_DEADLOCK FALSE
