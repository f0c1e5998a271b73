SPECIFICATION MCSpec
CONSTANTS
    Clients = {p, q}
    Lone = p
    Ending = x
    Stems = {a, b}
    Lasts = {x, y}
    MaxKs = 1
    MaxFaults = 1
    MaxCrashes = 2
    NoName = NoName
SYMMETRY Symm
VIEW View
INVARIANTS
    ListWithinMax
    ErrorUndoneAlone
    FlagTracksAlone
    DamageBoundedAlone
