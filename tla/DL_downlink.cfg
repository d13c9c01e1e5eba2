SPECIFICATION FairSpec
CONSTANTS
    TIMEOUT_THRESHOLD = 4
    RECONNECT_INTERVAL = 2
    MAX_RECONNECT_ATTEMPTS = 1
    HEARTBEAT_INTERVAL = 1
    DUMP_INTERVAL = 2
    SocketOutcomes <- MayFail
    NoLink = NoLink
INVARIANTS
    TypeOK
    NoFalseAlarm
PROPERTIES
    Recovers
