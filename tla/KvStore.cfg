SPECIFICATION MCSpec
CONSTANTS
    Lead = 2
    Spaces = {s, t}
    Keys <- AllKeys
    ValLens = {0, 1, 2, 6}
    Options = {"default", "idempotent"}
    Kinds = {"key", "kv", "kvdel"}
    Conds <- AllConds
    MaxIter = 2
    BufSize = 8
    Capacity = 10
    Word = 40
    None = None
VIEW View
INVARIANTS
    ScanComplete
    TableMatches
    AvailableExactAlone
PROPERTIES
    ScanAdvances
