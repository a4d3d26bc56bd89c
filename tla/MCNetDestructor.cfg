SPECIFICATION Spec
CONSTANTS
    ORDER_ID_LEN = 16
    TICKER_LEN = 4
    Peers = {p1}
    Symbols = {s1}
    Registered = {s1}
    Layouts <- BuysAndUpdates
    Cuts = {20}
    MaxSends = 1
    MaxErrors = 0
    MaxPublished = 1
INVARIANT DestroyedCleanly
CHECK_DEADLOCK FALSE
