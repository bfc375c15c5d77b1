SPECIFICATION Spec
CONSTANTS
    PageBytes = 4
    PageSpace = 16
    PagesPerTable = 2
    LastUsablePage = 5
    FirstHigherPage = 12
    InitialStackSizePages = 2
    FrameCount = 8
    Images <- MCImages
    MapRequests <- MCMapRequests
    PrintRequests <- MCPrintRequests
    WrittenPages = {0, 3}
CHECK_DEADLOCK FALSE
INVARIANTS TypeOK FramesExclusive LoadedAsLinked NoFrameLeaked MapDelivers FreshPagesZeroed PrintReadsExactlyUserMemory
PROPERTIES MapKeepsWhatIsMapped
