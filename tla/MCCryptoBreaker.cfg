SPECIFICATION FairSpec
CONSTANTS
    Symbols = {btc, eth}
    Qty = 1
    Fee = 0
    Marginable = FALSE
    MaxOpen = 2
    LossLimit = 2
    Pnls <- MCPnls
    MaxOrders = 5
    MaxDays = 0
    MaxRestarts = 0
PROPERTIES
    BreakerHoldsUntilReset
CHECK_DEADLOCK FALSE
