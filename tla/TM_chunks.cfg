SPECIFICATION Spec
CONSTANTS
    ChunkSize = 3
    MAX_FILE_CHUNKS = 1
    BlockSize = 20
    PacketLines <- Even
    Unreliable = FALSE
    MaxLines = 3
    MaxFlight = 1
    MaxAcks = 2
    MaxDuplicates = 1
INVARIANTS
    StoredIsLogged
