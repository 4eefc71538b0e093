SPECIFICATION Spec
CONSTANTS
    Profiles = {"evaluation"}
    Profile <- MCProfile
    Unit = 1
    Months = {1}
    Tokens = {0, 1}
    None = None
    Requests = {q1, q2}
    Packages = {p1, p2}
    JudgeProfile = "evaluation"
SYMMETRY MCSymmetry
INVARIANT JudgementIsAccounted
PROPERTY JudgeImplementsBudget
