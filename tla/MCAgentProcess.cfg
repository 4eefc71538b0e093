SPECIFICATION FairSpec
CONSTANTS
    Runs = {r1, r2}
    Cancellers = {c1}
    Launcher = launcher
    MaxRecords = 1
    None = None
INVARIANTS NoLostChild ScopeConfined SucceededIsOver ConfirmedIsContained
PROPERTIES EveryLaunchEnds LivesOnce
