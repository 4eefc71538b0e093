SPECIFICATION Spec
CONSTANTS
    Runs = {r1, r2, r3}
    Profiles = {"workflow", "evaluation"}
    Profile <- MCProfile
    Unit = 2
    Months = {1, 2}
    Tokens = {0, 1, 2}
    None = None
SYMMETRY MCSymmetry
INVARIANTS BooksReconcile WithinLimit
PROPERTY ClosedForGood
CHECK_DEADLOCK FALSE
