SPECIFICATION Spec
CONSTANTS
    Runs = {r1, r2}
    Profiles = {"workflow"}
    Profile <- MCProfile
    Unit = 1
    Months = {1}
    Tokens = {1}
    None = None
    LaneProfile = "workflow"
    Judgements = {}
    JudgeProfile = "workflow"
    Keys = {k1, k2}
    Workers = {w1, w2}
    Faults = {"crash", "redeliver", "commit", "dispatch", "dispatch_lost", "finish_lost", "revoke", "accounting", "config"}
    MaxFaults = 2
SYMMETRY MCSymmetry
INVARIANTS LaneAgreement NoStrayProcess SpentNeverReleased NothingOutlivesTheRun CancelWins
PROPERTIES EndedForGood LaunchedOnce
