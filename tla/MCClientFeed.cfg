SPECIFICATION Spec
CONSTANTS
    ORDER_ID_LEN = 16
    TICKER_LEN = 4
    Lines <- FeedLines
    MaxLines = 3
    Null = null
    Malformed = malformed
    Inexact <- ShortCents
INVARIANTS
    OrdersAsFiled
    FeedComplete
    LifecycleInOrder
CHECK_DEADLOCK FALSE
