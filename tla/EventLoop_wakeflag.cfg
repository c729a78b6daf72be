SPECIFICATION FairSpec
CONSTANTS
    user = user
    Scopes = {user}
    QueueCap = 1
    StateBuf = 1
    MaxVersion = 3
    MaxFaults = 0
    MaxTimers = 1
PROPERTIES WakeFlagComesDown
