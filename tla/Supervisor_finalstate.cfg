SPECIFICATION Spec
CONSTANTS
    MaxFaults = 2
    StateBuf = 4
CHECK_DEADLOCK FALSE
INVARIANT FinalStateKept
