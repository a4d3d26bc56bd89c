SPECIFICATION FairSpec
CONSTANTS
    OrderIds = {o1, o2, o3, o4}
    Prices = {1}
    MaxPrice = 1
    Qtys = {0}
    SideBytes = {"BUY", "SELL"}
    Garbled = garbled
    BlockCapacity = 8
VIEW BookView
INVARIANT FreeListsExact
PROPERTIES
    MatchErases
    ExecuteReturns
