CONSTANTS
    BYTE = 4
    RECV_LEN = 8
    Start <- MCStart
    Stream <- MCStream
SPECIFICATION Spec
INVARIANT
    RecvedIsReceived
