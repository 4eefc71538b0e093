SPECIFICATION Spec
CONSTANTS
    Create = Create
    Update = Update
    Template = Template
    Campaign = Campaign
    Ops = {Create, Update, Template, Campaign}
    Kind <- MCKind
    TemplateOf <- MCTemplateOf
    Callers = {c1, c2}
    None = None
    MaxPosts = 2
SYMMETRY MCSymmetry
CONSTRAINT OneProvider
INVARIANTS AtMostOnce VerdictIsTrue CampaignHasTemplate
PROPERTY IdIsKept
