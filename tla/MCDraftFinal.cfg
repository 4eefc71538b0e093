SPECIFICATION Spec
CONSTANTS
    Create = Create
    Update = Update
    Template = Template
    Campaign = Campaign
    Ops = {Template}
    Kind <- MCKind
    TemplateOf <- MCTemplateOf
    Callers = {c1, c2}
    None = None
    MaxPosts = 2
SYMMETRY MCSymmetry
PROPERTY SucceededIsFinal
