CONSTANTS
    t1 = t1
    t2 = t2
    t3 = t3
    Task <- Tasks3
    NULL = NULL
    kmalloc <- AnyFit
    MaxPid = 5
    UserVal = {0, 1}
    ReadLen = {0, 2}
    RxCap = 1
SPECIFICATION Spec
SYMMETRY TaskSymmetry
INVARIANTS
    TypeOK
    RunQueueConsistent
    CpuCoherent
    NoAssertAfterBoot
    PidUnique
    HandlerLocals
PROPERTIES
    FreesOnlyStrangers
    ContextPreserved
    WaitersAdvance
    Refines
