SPECIFICATION Spec
CONSTANTS
    N = 3
    JobMode = "replace"
    MissingAtStart = {}
    MaxPicks = 2
    MaxClicks = 1
    MaxCommands = 3
    MaxFaults = 1
    MaxInstalls = 0
    MayEnd = TRUE
INVARIANTS
    TypeOK
    AtMostOneInstance
CHECK_DEADLOCK FALSE
