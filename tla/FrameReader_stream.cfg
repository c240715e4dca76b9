CONSTANTS
    Limit = 2
    ChunkSize = 2
    CompactAt = 2
    StreamBound = 6
SPECIFICATION Spec
CHECK_DEADLOCK FALSE
INVARIANTS
    Faithful
    RoundTrip
    BoundedMemory
PROPERTIES
    StreamEnds
