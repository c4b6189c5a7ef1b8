SPECIFICATION Spec
CONSTANTS
    Symbols = {btc, eth}
    Qty = 1
    Fee = 0
    Marginable = FALSE
    MaxOpen = 1
    LossLimit = 2
    Pnls <- MCPnls
    MaxOrders = 3
    MaxDays = 0
    MaxRestarts = 0
INVARIANTS
    MaxOpenRespected
CHECK_DEADLOCK FALSE
