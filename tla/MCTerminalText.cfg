SPECIFICATION Spec
CONSTANTS
  Functions <- TextFunctions
  IntMax = 9
  Params <- TextParams
  Glyphs = {"a"}
  Sizes <- NoSizes
  StartRows = 2
  StartCols = 3
  Cols132 = 3
  Cols80 = 2
  TabSize = 2
  MaxHistory = 0
  NoticeLen = 1
  NoticeChar = "n"
  TrustMargins = TRUE
PROPERTIES OutOfRangeExplained PrintedLeftOfCursor
CHECK_DEADLOCK FALSE
