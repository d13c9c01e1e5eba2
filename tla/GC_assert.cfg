SPECIFICATION Spec
CONSTANTS
    s1 = s1
    s2 = s2
    NoMsg = NoMsg
    TIMEOUT_THRESHOLD = 1
    RECONNECT_INTERVAL = 2
    MAX_RECONNECT_ATTEMPTS = 1
    Sats <- OneSat
    Configured <- OneSat
    SocketOutcomes <- NeverFails
    MaxStall = 1
    SilenceCap = 4
    MaxBacklog = 1
    MaxCommands = 1
INVARIANTS
    NoAssertionFails
CHECK_DEADLOCK FALSE
