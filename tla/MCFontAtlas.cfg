SPECIFICATION Spec
CONSTANTS
  fonts <- TheFonts
  Width <- Widths
  Height <- Heights
  Common = {32, 33}
  Space = 32
  WIDE_TAIL = 999
  Screens <- SomeScreens
  bound = 2
  atlas_width = 7
  MaxSurfaces = 2
  MaxPrints = 2
INVARIANTS GlyphsPacked NotdefIsThere
PROPERTIES AtlasSettles
CHECK_DEADLOCK FALSE
