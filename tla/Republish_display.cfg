SPECIFICATION FairSpec
CONSTANTS
    OutCap = 6
    Qos = {0}
    EventCap = 1
    MaxLosses = 0
    MaxDrops = 0
    MaxMoves = 3
PROPERTIES
    DisplayConverges
CHECK_DEADLOCK FALSE
