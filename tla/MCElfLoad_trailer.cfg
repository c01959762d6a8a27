CONSTANTS
    Archives <- SomeArchives
    SizeOf <- FileSize
    Segments <- FileSegments
    IsElf <- FileIsElf
    EntryOf <- FileEntry
    KernelPages = {5}
    StackPage = 7
    Starts = {1000}
    NULL = NULL
    PAGE_SIZE = 4
    MAXVA = 40
SPECIFICATION Spec
INVARIANTS
    EndsAtTrailer
