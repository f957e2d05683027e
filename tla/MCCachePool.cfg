CONSTANTS
    Capacity = 4
    ElemSize = 4
    Heap = {h1, h2}
    Requests <- MCRequests
    Words <- MCWords
SPECIFICATION Spec
SYMMETRY HeapSymmetry
INVARIANTS
    TypeOK
    FreeListExact
PROPERTY
    ImplementsAllocator
