SPECIFICATION FairSpec
CONSTANTS
    Tables = {quotes, orders}
    MaxBatch = 2
    QueueCap = 2
    Blocking = FALSE
    MaxRecords = 4
INVARIANTS
    TypeOK
    Conserved
    RowsWrittenExact
PROPERTIES
    ImplementsLog
    EventuallyStored
CHECK_DEADLOCK FALSE
