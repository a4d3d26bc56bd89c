SPECIFICATION ReplaySpec
CONSTANTS
    OrderIds = {o1, o2, o3}
    Prices = {1, 2}
    MaxPrice = 2
    Qtys = {1, 2}
    SideBytes = {"BUY", "SELL"}
    Garbled = garbled
    BlockCapacity = 8
VIEW ReplayView
SYMMETRY IdSymmetry
PROPERTY LogTracesBook
