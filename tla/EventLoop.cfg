SPECIFICATION FairSpec
CONSTANTS
    user = user
    Scopes = {user}
    QueueCap = 2
    StateBuf = 1
    MaxVersion = 3
    MaxFaults = 1
    MaxTimers = 1
INVARIANTS TypeOK NoLostWake OneWakePerScope
PROPERTIES HintsSuffice Converges DebounceNeverWedges
