SPECIFICATION Spec
CONSTANTS
  MaxForks = 2
  MaxStarts = 1
  MaxKeys = 1
  MaxPastes = 0
  Prints <- PrintsTwice
  DataLen = 1
  Capacity = 1
  ReadSize = 1
  MaxScroll = 1
  ShownScroll = 0
PROPERTIES LockReleased ChildReplaced OutputParsed
CHECK_DEADLOCK FALSE
