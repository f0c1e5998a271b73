SPECIFICATION MCSpec
CONSTANTS
    Sizes = {2, 3}
    Ctxs = {c1, c2, c3}
    Procs = {p1, p2}
    Workers = {w1, w2}
    Cmds = {k1, k2}
    Second = p2
    Spare = w2
    Extra = k2
    MaxLeaks = 1
    Nr = 1
    None = None
INVARIANTS
    RefsExact
    IdsExact
    EventsPlaced
    OwnEvents
PROPERTIES
    CallsEnd
CHECK_DEADLOCK FALSE
