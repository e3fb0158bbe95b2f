SPECIFICATION SteadySpec
CONSTANTS
    Minute = 2
    Window = 5
    Day = 1440
    Ratio = 10
    Apr = 100
    MinCoverage = 60
    MinVolume = 1
    FeeInverse = 10000
    Volumes = {1}
    Horizon = 400
    MaxTrades = 200
CHECK_DEADLOCK FALSE
INVARIANTS
    NoColdStartAlarm
