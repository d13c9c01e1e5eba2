SPECIFICATION FairSpec
CONSTANTS
    s1 = s1
    s2 = s2
    TIMEOUT_THRESHOLD = 4
    RECONNECT_INTERVAL = 2
    MAX_RECONNECT_ATTEMPTS = 2
    HEARTBEAT_INTERVAL = 1
    Sats <- Two
    Peers <- OneWay
    SocketOutcomes <- MayFail
    SilenceCap = 11
INVARIANTS
    TypeOK
    LostOnlyAfterSilence
PROPERTIES
    LinkRecovers
    MuteEnds
