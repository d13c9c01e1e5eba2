SPECIFICATION FairSpec
CONSTANTS
    s1 = s1
    s2 = s2
    NoMsg = NoMsg
    TIMEOUT_THRESHOLD = 1
    RECONNECT_INTERVAL = 2
    MAX_RECONNECT_ATTEMPTS = 1
    Sats <- TwoSats
    Configured <- OneSat
    SocketOutcomes = {TRUE, FALSE}
    MaxStall = 1
    SilenceCap = 4
    MaxBacklog = 1
    MaxCommands = 1
INVARIANTS
    TypeOK
    StatusAgrees
    NoMuteConnection
    DeadOnlyAfterSilence
    HeardStaysConnected
PROPERTIES
    KeepsSafePromise
    KeepsPromise
    SilentIsShownDead
CHECK_DEADLOCK FALSE
