SPECIFICATION Spec
CONSTANTS
    Tokens = {t1}
    Cooldown = 1
    ChannelCap = 1
    Clock = {0, 1, 2}
    MaxFailures = 0
    MaxCrashes = 1
    MaxDbCrashes = 1
INVARIANTS
    CooldownSpacing
    ComboHasSpike
PROPERTIES
    Refinement
