SPECIFICATION Spec
CONSTANTS
  Functions <- ScrollFunctions
  IntMax = 4
  Params <- ScrollParams
  Glyphs = {"a"}
  Sizes <- NoSizes
  StartRows = 3
  StartCols = 1
  Cols132 = 3
  Cols80 = 2
  TabSize = 2
  MaxHistory = 2
  NoticeLen = 1
  NoticeChar = "n"
  TrustMargins = FALSE
INVARIANTS TypeOK
PROPERTIES OtherLinesKept LineFeedLosesNothing
CHECK_DEADLOCK FALSE
