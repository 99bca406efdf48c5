\* A clean stream of six 2-byte packets, cut into chunks of 4 to 7 bytes.
\* The stream may end at any point, so a state with no further chunk is
\* not a deadlock of the driver.
CONSTANTS
    S = S
    X = X
    PacketSize = 2
    SyncCount = 2
    SyncByte = S
    Byte <- MCByte
    StreamBytes <- RefStreamBytes0
    ChunkLens = {4, 5, 6, 7}
SPECIFICATION Spec
CHECK_DEADLOCK FALSE
INVARIANT ChunkingInvariant
