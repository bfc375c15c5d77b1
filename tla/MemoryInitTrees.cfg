SPECIFICATION Spec
CONSTANTS
  PageBytes = 8
  WindowPages = 16
  NoFrame = NoFrame
  Machines <- MCAllMachines
  Slots = 2
  SlotBytes = 7
  HeapTreeBytes = 15
  IstStackPages = 2
  IstStacks = 2
  TreeBytes = 112
  PrelimTrees = 2
  U8Values = 4
  VgaPage = 0
  RemapTables = 1
INVARIANTS TreesReachable
CHECK_DEADLOCK FALSE
