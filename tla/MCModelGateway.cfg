SPECIFICATION FairGatewaySpec
CONSTANTS
    ScopedRuns = {r1, r2}
    MaxInferences = 2
    MaxTokens = 2
    LeaseTime = 2
    Window = 2
    MaxTime = 2
    MaxCalls = 2
    MaxRestarts = 2
INVARIANT AdmittedIsBooked
PROPERTY SlotComesFree
CHECK_DEADLOCK FALSE
