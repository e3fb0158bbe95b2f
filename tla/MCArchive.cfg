SPECIFICATION ArchiveSpec
CONSTANTS
    Key = {a, b, c}
    Value = {v, w}
    CacheMax = 2
    Ttl = 2
    MaxNow = 4
    Pool = {p, x, y}
    Alien = {x, y}
    Impostor = {y}
    Lookup = {l1, l2}
    PoolMax = 1
    MaxFaults = 1
    Token = {t1}
    MaxDbFaults = 1
    Log = {m1, m2}
    MaxDeliveries = 2
    Active = {c1, c2}
    TickSlot = {k1, k2}
    Slice = 1
    AlertCooldown = 1
    MaxTime = 2
    Shard = {h1, h2}
    PerMinute = 2
    MaxRetry = 2
    MaxStamp = 3
    MaxTableFaults = 2
INVARIANTS
    ArchiveTypeOK CacheKeepsLatest AliensStayOut OnlyFaultsHidePools StoredBeforeAlive
    AlertSpacing StagedIsKept RetriesWashOut
PROPERTIES MissedExplained
SYMMETRY LookupSymmetry
CHECK_DEADLOCK FALSE
