SPECIFICATION FairSpec
CONSTANTS
    Reqs = {s1, e1}
    Sync = {s1, e1}
    Nested = {}
    Exist = {e1}
    Invalid = {}
    QDepth = 2
    MaxEvents = 1
    Threads = 2
    SubmitFails = TRUE
    FetchFails = FALSE
    None = None
PROPERTIES
    ExistReturns
CHECK_DEADLOCK FALSE
