SPECIFICATION Spec
CONSTANTS
    Symbols = {nvda, aapl}
    Marginable = TRUE
    Qty = 1
    MaxOpen = 2
    LossCap = 2
    Pnls <- MCPnls
    MaxLoss = 2
    AllowShort = FALSE
    MaxEntries = 2
    MaxRestarts = 1
INVARIANTS
    EntriesHaltAtCap
CHECK_DEADLOCK FALSE
