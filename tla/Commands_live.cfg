SPECIFICATION FairSpec
CONSTANTS
    N = 2
    JobMode = "fail"
    MissingAtStart = {2}
    MaxPicks = 2
    MaxClicks = 2
    MaxCommands = 2
    MaxFaults = 1
    MaxInstalls = 1
    MayEnd = TRUE
PROPERTIES
    LastPickWins
    LastClickWins
    WorkersComeBack
CHECK_DEADLOCK FALSE
