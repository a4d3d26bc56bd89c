SPECIFICATION FairCallsSpec
CONSTANTS
    Clients = {c1}
    Symbols <- Tickers
    Registered <- Added
    MaxOrders = 3
INVARIANTS
    UnjoinedAreIdleBorn
    BucketsServed
PROPERTIES
    StoppedBooksUntouched
    ServedBacklogCleared
    StopAlwaysReturns
CHECK_DEADLOCK FALSE
