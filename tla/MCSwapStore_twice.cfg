SPECIFICATION Spec
CONSTANTS
    Logs = {l1}
    Times = {0, 1}
    NoRow = NoRow
    Shards = {s1}
    NoShard = NoShard
    SkipMigrate = {}
    SkipRebuild = {}
    MaxDeliveries = 1
    MaxAbandoned = 0
    MaxRuns = 1
CHECK_DEADLOCK FALSE
INVARIANTS
    OneRowPerSwap
