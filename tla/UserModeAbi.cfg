CONSTANTS
    Width = 3
    Height = 2
    Label <- MCLabel
    Newline <- MCNewline
    PanicMessage <- MCPanicMessage
    Programs <- MCPrograms
    Texts <- MCTexts
    HaltMessage <- MCHaltMessage
    UserStack <- MCUserStack
    UserRsp = 4
    KernelStack <- MCKernelStack
    IrqWords = 2
    Ports = 24
    FirstPort = 6
    LastPort = 15
SPECIFICATION Spec
INVARIANT SyscallNoStack
CHECK_DEADLOCK FALSE
