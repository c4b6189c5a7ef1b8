SPECIFICATION ShadowSpec
CONSTANTS
    Horizon = 2
    Burst = 1
    MaxTime = 5
    MaxQuotes = 5
    FrameRegress = FALSE
INVARIANTS
    ShadowTypeOK
    NoLookahead
    QueueSound
    BooksMatchBacktest
    LabelsConserved
CHECK_DEADLOCK FALSE
