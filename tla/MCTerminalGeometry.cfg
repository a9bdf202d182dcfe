SPECIFICATION Spec
CONSTANTS
  Functions <- GeometryFunctions
  IntMax = 9
  Params <- CursorParams
  Glyphs = {" "}
  Sizes <- GeometrySizes
  StartRows = 3
  StartCols = 3
  Cols132 = 4
  Cols80 = 2
  TabSize = 2
  MaxHistory = 0
  NoticeLen = 2
  NoticeChar = " "
  TrustMargins = TRUE
INVARIANTS MarginsOnScreen CursorOnScreen AssertsHold
PROPERTIES WrapPendsAfterPrinting CursorKeepsMargins TabStopsStayClose
CHECK_DEADLOCK FALSE
