SPECIFICATION FairSpec
CONSTANTS
    c1 = c1
    c2 = c2
    p1 = p1
    p2 = p2
    i1 = i1
    i2 = i2
    NoItem = NoItem
    Producers <- TwoProducers
    Items <- TwoItems
    Consumers <- TwoConsumers
    MaxBacklog = 3
INVARIANTS
    WakeUpsSuffice
    OnlyPushedElementsUsed
PROPERTIES
    KeepsSafeChannel
    KeepsChannel
    QuitEndsConsumers
CHECK_DEADLOCK FALSE
