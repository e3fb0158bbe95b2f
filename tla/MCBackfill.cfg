SPECIFICATION BackfillFairSpec
CONSTANTS
    Jobs = {j1, j2, j3, j4, j5}
    Concurrency = 1
    QueueMax = 1
    FlushWorkers = 1
    ChildFactor = 2
    MaxErrors = 1
    MaxKills = 1
    LastBlock = 5
    LastTime = 3
    BatchSizes = {2, 4}
    MaxPriceLogs = 2
    MaxGaps = 2
CHECK_DEADLOCK FALSE
INVARIANTS
    MemoryBound
    NothingUnderWay
    CompleteRun
    RowsInOrder
    PricedInBatch
PROPERTIES
    Ends
