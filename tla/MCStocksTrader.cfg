SPECIFICATION Spec
CONSTANTS
    Symbols = {nvda, aapl, amd}
    Marginable = TRUE
    Qty = 1
    MaxOpen = 2
    LossCap = 2
    Pnls <- MCPnls
    MaxLoss = 2
    AllowShort = FALSE
    MaxEntries = 3
    MaxRestarts = 1
SYMMETRY SymbolSymmetry
INVARIANTS
    TypeOK
    LocksMatchTasks
    CapacityRespected
    BrokerMatchesBook
    SweptFlat
    CapHolds
    ExposureOwed
CHECK_DEADLOCK FALSE
