SPECIFICATION Spec
CONSTANTS
  a = a
  b = b
  c = c
  d = d
  Sep = Sep
  Left <- MCLeft
  Right <- MCRight
  Clickable <- MCClickable
  Chars <- MCChars
  Fonts <- MCFonts
  Contents <- MCContents
  SepText <- MCSepText
  Question = 3
  MaxWidths = 5
  Outputs = 3
  Rects <- MCRects
  Screen <- MCScreen
  BarHeight = 2
  TopBar = FALSE
  MaxPlugs = 1
  Word = 32
INVARIANTS MonitorsPlaced HeadLeftmost WidthIsOwn AreasDisjoint RightEndsAtMargin ClickHitsDrawn
