\* Streams of up to 9 arbitrary bytes cut into chunks of 1 to 5 bytes:
\* every branch of the handler and of stream_process is reached.  The
\* stream may end at any point (capture stopped, device removed), so a
\* state with no further chunk is not a deadlock of the driver.
CONSTANTS
    S = S
    X = X
    PacketSize = 2
    SyncCount = 2
    SyncByte = S
    Byte <- MCByte
    StreamBytes <- MCStreamBytes
    ChunkLens = {1, 2, 3, 4, 5}
SPECIFICATION FairSpec
CHECK_DEADLOCK FALSE
INVARIANTS
    TypeOK
    CarryBound
    PacketAligned
    InStreamOrder
    CarryIsStreamTail
PROPERTIES
    HandlerReturns
