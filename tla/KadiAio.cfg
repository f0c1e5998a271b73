SPECIFICATION FairSpec
CONSTANTS
    Reqs = {s1, a1, a2, n1, i1, e1}
    Sync = {s1, e1}
    Nested = {n1}
    Exist = {e1}
    Invalid = {i1}
    QDepth = 2
    MaxEvents = 1
    Threads = 2
    SubmitFails = TRUE
    FetchFails = TRUE
    None = None
INVARIANTS
    EventOwner
    Counted
PROPERTIES
    CallsReturn
    AsyncDelivered
    CloseEnds
CHECK_DEADLOCK FALSE
