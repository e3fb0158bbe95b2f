SPECIFICATION FairSpec
CONSTANTS
    Tokens = {t1, t2}
    Cooldown = 1
    ChannelCap = 1
    Clock = {0}
    MaxFailures = 1
    MaxCrashes = 1
    MaxDbCrashes = 0
INVARIANTS
    DeliveredInOrder
    LossBound
PROPERTIES
    TickEnds
    RecordedIsDelivered
