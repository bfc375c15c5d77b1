SPECIFICATION Spec
CONSTANTS
  Contexts = {c1}
  NoContext = NoContext
  Frames = {f1, f2, f3}
  NoFrame = NoFrame
  P4Frame = P4Frame
  DeviceRegions <- MCDevices
  BaseOrder = 1
  PageOrder = 1
  MaxOrder = 3
  PagesPerTable = 2
  Sizes = {1, 2, 3, 7}
  MaxObjects = 3
SYMMETRY MCSymmetry
INVARIANTS NoOverlap AllocatedIsMapped FramesAccounted NoIdleMapping
PROPERTIES FreshPageIsZeroedAfterDealloc
CHECK_DEADLOCK FALSE
