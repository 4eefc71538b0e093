SPECIFICATION Spec
CONSTANTS
    Tabs = {t1, t2}
    Refreshers = {f1}
    MaxRevisions = 3
    MaxSnapshots = 2
    MaxApprovals = 2
    First = First
    Second = Second
    Runs = {First, Second}
    Contents = {c1, c2}
    AgentKinds <- MCAgentKinds
    Disclosed <- MCDisclosed
SYMMETRY MCSymmetry
CONSTRAINT OneStory
INVARIANTS PackageIsOfItsRevision DeliveredAsApproved AcceptedIsWhole OneOperationPerIntent
CHECK_DEADLOCK FALSE
