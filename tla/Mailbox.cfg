SPECIFICATION FairSpec
CONSTANTS
    MaxOffers = 12
INVARIANTS
    NewestKept
PROPERTIES
    LastClickWins
    ImplementsLatest
CHECK_DEADLOCK FALSE
