SPECIFICATION CommandSpec
CONSTANTS
    Cmds = {1, 2}
    MaxDrift = 1
INVARIANTS
    AllReturned
    DeviceMemory
    AcctExact
CHECK_DEADLOCK FALSE
