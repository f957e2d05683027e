CONSTANTS
    BYTE = 8
    SHORT = 2
    RECV_LEN = 10
    TEXT = 1
    BINARY = 2
    CLOSE = 5
    Shake = 5
    Xor <- MCXor
    Frames <- MCFrames
    Wire <- MCWire
    Start <- MCStart
SPECIFICATION FairSpec
INVARIANT
    TypeOK
PROPERTIES
    ImplementsChannel
    Settled
