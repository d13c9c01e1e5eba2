SPECIFICATION Spec
CONSTANTS
    ChunkSize = 3
    MAX_FILE_CHUNKS = 2
    BlockSize = 3
    PacketLines <- Even
    Unreliable = TRUE
    MaxLines = 3
    MaxFlight = 1
    MaxAcks = 2
    MaxDuplicates = 1
INVARIANTS
    TypeOK
    StoredOnce
    StoredInOrder
PROPERTIES
    OverwritesNothing
