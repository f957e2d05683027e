CONSTANTS
    Clients = {c1, c2, c3}
    NoClient = NoClient
    PoolSlots = {p1}
    HeapSlots = {}
    Stypes <- MCStypes
    Uids <- MCUids
    MaxQueue = 1
    MaxLost = 1
    MaxHeard = 2
SPECIFICATION Spec
PROPERTY
    FreshIdentity
