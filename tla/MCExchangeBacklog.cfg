SPECIFICATION Spec
CONSTANTS
    Clients = {c1}
    Symbols <- OneBucket
    Registered <- OneBucket
    MaxOrders = 2
INVARIANTS
    AllProcessed
CHECK_DEADLOCK FALSE
