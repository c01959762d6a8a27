CONSTANTS
    t1 = t1
    t2 = t2
    t3 = t3
    Task <- Tasks3
    NULL = NULL
    kmalloc <- FirstFit
    MaxPid = 4
    UserVal = {0}
    ReadLen = {2}
    RxCap = 1
SPECIFICATION Spec
PROPERTIES
    NoStarvation
    ZombiesReaped
