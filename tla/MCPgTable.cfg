CONSTANTS
    Page = {1, 2, 3, 4, 5}
    page_alloc <- First
    PTRS_PER_PT = 2
    PAGE_SIZE = 2
    MAXVA = 14
    Calls <- SomeCalls
    NULL = NULL
SPECIFICATION Spec
INVARIANTS
    TypeOK
    TablesHaveOneUse
    AssertsHold
PROPERTIES
    MapsRange
    ImplementsSpaces
