SPECIFICATION MCSpec
CONSTANTS
  Contexts = {boot, c2}
  NoContext = NoContext
  BootContext = boot
  NumTrees = 3
  PrelimTrees = 1
  LevelCount = 2
  FrameBytes = 2
  Gibibytes = 2
  Usable <- MCUsable
  MaxCalls = 6
INVARIANTS IInv NoDoubleAllocation NoFrameLost
PROPERTIES NoneOnlyIfEveryTreeLacked ImplementsFrameAllocator EveryCallReturns
CHECK_DEADLOCK FALSE
