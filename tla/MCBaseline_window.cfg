SPECIFICATION Spec
CONSTANTS
    Minute = 2
    Window = 2
    Day = 6
    Ratio = 2
    Apr = 100
    MinCoverage = 3
    MinVolume = 1
    FeeInverse = 24
    Volumes = {0, 2}
    Horizon = 14
    MaxTrades = 4
CHECK_DEADLOCK FALSE
INVARIANTS
    WindowSpan
    Grace
    BurstIsSeen
