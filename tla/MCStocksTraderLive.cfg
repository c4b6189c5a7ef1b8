SPECIFICATION FairSpec
CONSTANTS
    Symbols = {nvda, aapl}
    Marginable = TRUE
    Qty = 2
    MaxOpen = 2
    LossCap = 2
    Pnls <- MCPnls
    MaxLoss = 2
    AllowShort = TRUE
    MaxEntries = 2
    MaxRestarts = 0
INVARIANTS
    BrokerMatchesBook
PROPERTIES
    RoundTripEnds
    CloseAllEnds
CHECK_DEADLOCK FALSE
