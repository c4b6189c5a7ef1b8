SPECIFICATION JobsSpec
CONSTANTS
    quotes = quotes
    trades = trades
    predictions = predictions
    MaxDay = 4
    KeepSessions = 2
    KeepDays = 2
    Window = 2
    DecisionN = 2
    PhaseVar = 1
    Net <- MCNet
    Excluded = {3}
    TABLES <- MCTables
    Filled = {quotes, predictions}
    MaxRows = 3
    MaxPaths = 2
    MaxJobs = 3
    SaveEvery = 2
    Signatures = {"A", "B"}
    LabelHorizon = 2
    MaxMoment = 5
    MaxStarts = 3
    MaxOrders = 2
    MaxProcs = 2
    QueueCap = 4
    QueueWarn = 2
    StatusEvery = 2
    MaxCount = 7
    MaxSessions = 2
    MaxDate = 3
    MaxRuns = 3
    Mids = {1, 3}
    Lag = 1
    warmup_quotes = 2
    vol_window = 2
    Unit = 2
    staleness = 1
    Steps = {0, 2}
    MaxInputs = 5
    horizon = 2
    wait = 2
    dead_zone = 1
    max_spread = 2
    Bids = {1, 2}
    Spreads = {0, 1}
    Predictions <- MCPredictions
    Gaps = {1, 2}
    MaxTape = 4
    ModelKinds = {"ev", "classifier", "meta", "regressor"}
    HeadValues <- MCHeadValues
    Targets <- MCTargets
    Band = 1
    Scale = 6
    Recent = 2
    MaxAhead = 2
    MaxLabels = 3
    HISTORY_KEEP = 2
    HISTORY_PRUNE_AT = 3
    ChartWindow = 4
    MaxTs = 8
    MaxDeaths = 2
INVARIANTS
    TapeKept
    TallyHonest
    LearningSound
    ReportsTruthful
    BlockedReported
    OneOrderADay
    FeaturesExact
    ResearchSound
CHECK_DEADLOCK FALSE
