SPECIFICATION ConnectionSpec
CONSTANTS
    OwnerTabs = {a1, a2}
    Writers = {w1, w2}
    MaxVersion = 5
    MaxSecrets = 2
SYMMETRY MCSymmetry
INVARIANT TestedBeforeUse
CHECK_DEADLOCK FALSE
