SPECIFICATION ReplaySpec
CONSTANTS
    OrderIds = {o1, o2, o3}
    Prices = {1, 2, 3}
    MaxPrice = 2
    Qtys = {1, 2}
    SideBytes = {"BUY", "SELL", "OTHER"}
    Garbled = garbled
    BlockCapacity = 8
VIEW ReplayView
SYMMETRY IdSymmetry
INVARIANTS
    TypeOK
    LookupConsistent
    LevelsConsistent
    TotalsExact
    RestingOrdersTraced
PROPERTY ImplementsMatchingBook
