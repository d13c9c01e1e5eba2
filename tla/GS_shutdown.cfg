SPECIFICATION FairSpec
CONSTANTS
    Setup <- OneTwice
    FilesMayFail = TRUE
    MaxQueued = 1
INVARIANTS
    TypeOK
    UsedWhileAlive
PROPERTIES
    QuitEndsProcess
CHECK_DEADLOCK FALSE
