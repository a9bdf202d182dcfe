SPECIFICATION Spec
CONSTANTS
  IntMax = 999
  Items <- AllItems
  MaxBuffer = 14
  MaxLines = 2
VIEW View
INVARIANTS Understood ShortestForm ThrowsAsWritten
PROPERTIES NewLineResyncs
CHECK_DEADLOCK FALSE
