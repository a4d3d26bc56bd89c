SPECIFICATION FairSpec
CONSTANTS
    ORDER_ID_LEN = 16
    TICKER_LEN = 4
    Peers = {p1}
    Symbols = {s1, s2}
    Registered = {s1}
    Layouts <- BuysAndUpdates
    Cuts = {20}
    MaxSends = 2
    MaxErrors = 1
    MaxPublished = 1
INVARIANTS
    ArrivedAsSent
    PublisherServed
    PublishedDrained
PROPERTIES
    NetStoppedQuiet
    PeersAccepted
    NetStopReturns
CHECK_DEADLOCK FALSE
