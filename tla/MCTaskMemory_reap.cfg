CONSTANTS
    t1 = t1
    t2 = t2
    t3 = t3
    t4 = t4
    Task <- Tasks
    NULL = NULL
    Page <- AllPages
    Sizes <- AllSizes
    page_alloc <- Lowest
    kmalloc <- FirstFit
    SlotsPerPage = 2
    ImagePages = 2
    Elfs <- Programs
    KernelTables = 1
    Written = {}
    MaxLost = 1
SPECIFICATION Spec
PROPERTIES
    ReapFreesAll
