SPECIFICATION FairSpec
CONSTANTS
    a = a
    n = n
    None = None
    Order <- MCOrder
    Held = {a}
    Queries = {"", "q"}
    Everything = ""
    Match <- MCMatch
    PageSize = 1
    MaxCalls = 2
    MaxDrafts = 1
    MaxActs = 3
INVARIANTS
    DraftSentOnce
PROPERTIES
    ReadsMatchSelection
    SearchesInOrder
    SelectionIsShown
CHECK_DEADLOCK FALSE
