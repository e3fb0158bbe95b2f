SPECIFICATION Spec
CONSTANTS
    Tokens = {t1}
    Cooldown = 1
    ChannelCap = 1
    Clock = {0}
    MaxFailures = 0
    MaxCrashes = 0
    MaxDbCrashes = 1
INVARIANTS
    NoRepeatAlert
