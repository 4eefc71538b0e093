SPECIFICATION FairSpec
CONSTANTS
    Runs = {r1}
    Profiles = {"workflow"}
    Profile <- MCProfile
    Unit = 1
    Months = {1}
    Tokens = {1}
    None = None
    LaneProfile = "workflow"
    Judgements = {j1}
    JudgeProfile = "workflow"
    Keys = {k1}
    Workers = {w1, w2}
    Faults = {"crash", "redeliver", "commit", "dispatch", "revoke"}
    MaxFaults = 2
INVARIANT ActiveRunIsFunded
PROPERTIES RunEnds ImplementsBudget
