CONSTANTS
    LongBits = 8
    IntBits = 4
    BufSize = 3
    Cases <- AllCases
    NULL = NULL
SPECIFICATION Spec
PROPERTIES
    StopsAtEnd
    PrintsArguments
