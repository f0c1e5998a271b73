SPECIFICATION MCSpec
CONSTANTS
    Cmds = {1, 2, 3, 4, 11, 12}
    Chained = {11, 12}
    SqDepth = 2
    CqDepth = 1
    Polling = FALSE
    DrainFirst = FALSE
    CqFirst = FALSE
    NoCmd = NoCmd
INVARIANTS
    PipelineInOrder
    NoUseInOrder
PROPERTIES
    AcceptedCompletes
    WaitingReturns
    CloseCompletes
    ImplementsFifo
CHECK_DEADLOCK FALSE
