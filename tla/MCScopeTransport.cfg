SPECIFICATION FairSpec
CONSTANTS
    Scopes = {s1, s2}
    Handlers = {h1, h2}
    MaxActive = 1
    MaxRecords = 2
    MaxForwards = 2
    MaxRestarts = 1
    None = None
INVARIANTS SendsUnderAuthority AckedIsSilent SlotIsOwned
PROPERTY EveryRequestIsAnswered
