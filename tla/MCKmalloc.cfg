CONSTANTS
    PAGE_SIZE = 12
    Start = 11
    End = 48
    HEAD = HEAD
    JUNK = JUNK
    HEADER = 2
    KMALLOC_ALIGN = 2
    Request = {0, 1, 4, 10, 11}
    MaxGrown = 2
SPECIFICATION Spec
INVARIANTS
    TypeOK
    FreeListIntact
    PagesAccounted
    HeapTiled
    HeapListIntact
    Coalesced
    LiveInside
PROPERTIES
    ImplementsPool
    AllocationsStable
