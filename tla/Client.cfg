SPECIFICATION FairSpec
CONSTANTS
    Filters = {f1}
    f1 = f1
    OutCap = 2
    MaxConns = 2
    MaxRefused = 1
    MaxStates = 1
INVARIANTS TypeOK FiltersKept OfflineInTheEnd
PROPERTIES CloseReturns
CHECK_DEADLOCK FALSE
