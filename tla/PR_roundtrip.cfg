SPECIFICATION Spec
CONSTANTS
    BUFFER_SIZE = 64
    FILE_CHUNK_SIZE = 44
    MAX_SIZE = 72
    Payload <- Bits
    Nothing = Nothing
    Messages <- FewMessages
INVARIANTS
    RoundTrip
