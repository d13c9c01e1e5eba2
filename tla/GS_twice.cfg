SPECIFICATION FairSpec
CONSTANTS
    Setup <- OneTwice
    FilesMayFail = FALSE
    MaxQueued = 1
PROPERTIES
    DestructorEnds
CHECK_DEADLOCK FALSE
