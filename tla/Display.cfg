SPECIFICATION FairSpec
CONSTANTS
    QueueCap = 1
    ChangesCap = 1
    SigCap = 1
    MaxHelpers = 1
    StartModes = {"on"}
    MaxTrouble = 2
    MayEnd = TRUE
INVARIANTS TypeOK ControllersAccounted NewestGetsThrough
PROPERTIES PictureConverges RunEnds QuietAfterRun
CHECK_DEADLOCK FALSE
