CONSTANTS
    Clients = {c1, c2, c3}
    NoClient = NoClient
    PoolSlots = {p1}
    HeapSlots = {h1}
    Stypes <- MCStypes
    Uids <- MCUids
    MaxQueue = 2
    MaxLost = 1
    MaxHeard = 2
SPECIFICATION FairSpec
INVARIANTS
    TypeOK
    HandlesAlive
    BroadcastOnce
PROPERTIES
    ImplementsLifecycle
    ClosedIsDestroyed
