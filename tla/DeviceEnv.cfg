SPECIFICATION EnvSpec
CONSTANTS
    Threads = {t1, t2}
    Paths = {p1, p2}
    Handles = {h1, h2, h3}
    Careful = TRUE
    None = None
SYMMETRY Symm
INVARIANTS
    CountExact
    OnePerPath
