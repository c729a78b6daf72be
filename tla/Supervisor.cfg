SPECIFICATION FairSpec
CONSTANTS
    MaxFaults = 4
    StateBuf = 1
CHECK_DEADLOCK FALSE
INVARIANTS TypeOK OneConnection
PROPERTIES RedialDeserved ImplementsSession BusRecovers CancelClosesAll
