SPECIFICATION FairSpec
CONSTANTS
    Producers = {p1, p2}
    MaxEvents = 4
INVARIANTS
    TypeOK
    ClosedLogComplete
PROPERTIES
    EventuallyFlushed
    CloseReturns
CHECK_DEADLOCK FALSE
