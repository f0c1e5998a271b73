SPECIFICATION TableSpec
CONSTANTS
    Qids = {q1, q2, q3, q4}
    MaxQueues = 3
    MaxObjects = 5
    CqNamed = TRUE
    NoQueue = NoQueue
SYMMETRY Symm
INVARIANTS
    PairsMatch
    HandleExact
