SPECIFICATION FairSpec
CONSTANTS
    Cmds = {s1, a1, a2, a3, n1, i1}
    Sync = {s1}
    Nested = {n1}
    Invalid = {i1}
    Pools = {{c1, c2}, {c1, c2, c3, c4, c5}}
    Room = 1
    Threads = 2
    Null = Null
INVARIANTS
    PoolPartition
    OwnResult
    NeverStarved
PROPERTIES
    SyncReturns
    AsyncDelivered
    CloseEnds
CHECK_DEADLOCK FALSE
