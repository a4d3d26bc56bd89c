SPECIFICATION FairSpec
CONSTANTS
    Clients = {c1, c2}
    Symbols <- AllTickers
    Registered <- AllTickers
    MaxOrders = 2
INVARIANTS
    TypeOK
    NoOrderLost
    MapsUnshared
    StopQuiesces
PROPERTIES
    BacklogCleared
    StopReturns
CHECK_DEADLOCK FALSE
