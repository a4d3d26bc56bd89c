SPECIFICATION Spec
CONSTANTS
    ORDER_ID_LEN = 16
    TICKER_LEN = 4
    Lines <- SymbolLines
    MaxLines = 2
    Null = null
    Malformed = malformed
    Inexact <- ShortCents
INVARIANT SymbolsIsolated
CHECK_DEADLOCK FALSE
