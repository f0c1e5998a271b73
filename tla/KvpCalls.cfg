SPECIFICATION MCSpec
CONSTANTS
    k = k
    l = l
    short = short
    long = long
    Spaces = {0, 1}
    Keys = {k, l, short, long}
    KeyLen <- Lengths
    Drivers = {"emul", "kernel", "user"}
    Bytes = {a, b}
    Lens = {0, 4, 6, 512, 600, 1024, 2097153}
    Offsets = {0, 512, 1024, 100}
    KeyLists <- Lists
    Sizes = {0, 1, 2}
    Depth = 2
    Word = 1073741824
    None = None
VIEW View
PROPERTIES
    MapImplemented
    RetrieveExact
    ExistExact
