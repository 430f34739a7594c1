SPECIFICATION Spec
CONSTANTS
    a = a
    n = n
    None = None
    Ids = {a, n}
    Held = {a}
    Last = a
    Routes = {"item", "order"}
    FormRoute = "item"
    Kinds = {"update", "fill", "preview", "source"}
    MaxCalls = 2
    MaxCardCalls = 2
    MaxActs = 4
INVARIANTS
    ShownIsSelected
    PendingIsOwned
    RefusedShowsNothing
    PollGoesOn
    CardTellsTruth
PROPERTIES
    ReadBeforeAskingAgain
CHECK_DEADLOCK FALSE
