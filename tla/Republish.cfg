SPECIFICATION FairSpec
CONSTANTS
    OutCap = 4
    Qos = {0, 1}
    EventCap = 1
    MaxLosses = 1
    MaxDrops = 1
    MaxMoves = 1
INVARIANTS
    TypeOK
    CacheCoherent
    RepublishOwed
PROPERTIES
    UnitConverges
CHECK_DEADLOCK FALSE
