SPECIFICATION Spec
CONSTANTS
  MaxForks = 2
  MaxStarts = 2
  MaxKeys = 1
  MaxPastes = 1
  Prints <- PrintsTwice
  DataLen = 2
  Capacity = 2
  ReadSize = 2
  MaxScroll = 0
  ShownScroll = 0
INVARIANTS OwnPty MutualExclusion NoOutputLost WritesInOrder
CHECK_DEADLOCK FALSE
