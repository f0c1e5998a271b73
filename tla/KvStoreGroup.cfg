SPECIFICATION GroupSpec
CONSTANTS
    Lead = 2
    Spaces = {s, t}
    Keys <- AllKeys
    ValLens = {0, 1, 2, 6}
    Options = {"default", "idempotent"}
    Kinds = {"key", "kv", "kvdel"}
    Conds <- AllConds
    MaxIter = 1
    BufSize = 20
    Capacity = 10
    Word = 40
    None = None
VIEW View
INVARIANTS
    ScanComplete
