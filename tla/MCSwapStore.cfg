SPECIFICATION FairSpec
CONSTANTS
    Logs = {l1, l2}
    Times = {0}
    NoRow = NoRow
    Shards = {s1, s2, s3}
    NoShard = NoShard
    SkipMigrate = {s2, s3}
    SkipRebuild = {s3}
    MaxDeliveries = 2
    MaxAbandoned = 1
    MaxRuns = 2
CHECK_DEADLOCK FALSE
INVARIANTS
    CountedIsStored
    StoredIsCounted
    DoubleCountBound
    CopiedIsKept
PROPERTIES
    StreamGoesOn
    CopiedIsCounted
