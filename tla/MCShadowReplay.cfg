SPECIFICATION ShadowSpec
CONSTANTS
    Horizon = 2
    Burst = 1
    MaxTime = 5
    MaxQuotes = 5
    FrameRegress = TRUE
INVARIANTS
    BooksMatchBacktest
CHECK_DEADLOCK FALSE
