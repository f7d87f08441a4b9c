SPECIFICATION Spec
CONSTANTS
  Cases <- MCCases
  Glyph <- MCGlyph
  Wide = 2
  Narrow = 1
  ScreenRows = 2
  TallRows = 3
  Cell8 = 2
  Cell14 = 3
  Cell16 = 4
  Bank = 4
  Plane = 32
  Colors = 20
  Low = 3
INVARIANT ScreenShown
PROPERTIES ScrollsWhatIsShown TextScreenKept
CHECK_DEADLOCK FALSE
