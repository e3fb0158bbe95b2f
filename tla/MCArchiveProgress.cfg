SPECIFICATION ProgressSpec
CONSTANTS
    Interval = 1
    Silence = 1
    Cooldown = 2
    MaxChecks = 2
    MaxStartFaults = 3
    Fetcher = {f1, f2}
    Flusher = {w1, w2}
    QueueMax = 1
    MaxSpan = 4
    MaxBatch = 2
    Scanner = {s1, s2}
    MaxTo = 3
    MaxStep = 2
    MaxScanFaults = 2
    SwapFeed = {v3}
    Backlog = 1
    MaxLogs = 3
    MaxEnds = 2
    MaxStreamFaults = 1
    MaxRefresh = 1
INVARIANTS
    OneSubscription QueueBound AllBlocksAccounted DiscoveryComplete SwapsExplained
PROPERTIES DeafHeals QueueImplementsLedger HearsAgain
CHECK_DEADLOCK FALSE
