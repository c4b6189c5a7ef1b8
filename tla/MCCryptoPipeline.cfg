SPECIFICATION FairSpec
CONSTANTS
    Symbols = {btc, eth}
    Qty = 2
    Fee = 1
    Marginable = FALSE
    MaxOpen = 1
    LossLimit = 2
    Pnls <- MCPnls
    MaxOrders = 3
    MaxDays = 1
    MaxRestarts = 1
INVARIANTS
    TypeOK
    LockedWhileExecuting
    BookMatchesBroker
    ShutdownFlat
    ExposureOwed
PROPERTIES
    LockReleased
    ShutdownEnds
CHECK_DEADLOCK FALSE
