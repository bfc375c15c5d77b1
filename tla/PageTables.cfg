CONSTANTS
    Levels = 3
    Index <- MCIndex
    Rec = 1
    Kern = 2
    FrameCount = 21
    BootP4 = 1
    BootMemory <- MCBootMemory
    BootFree <- MCBootFree
    Temp <- MCTemp
    Sections <- MCSections
    Remapped <- MCRemapped
    HeapPages <- MCHeapPages
    UserPages <- MCUserPages
    Device = 10
    TlbSize = 2
SPECIFICATION Spec
INVARIANTS StaleIsHarmless TablesExclusive
PROPERTY ImplementsAddressSpace
CHECK_DEADLOCK FALSE
