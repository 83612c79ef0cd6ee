CONSTANTS
  Values <- Pages
  Steps = {0, 1, 2}
  MaxRow = 10
SPECIFICATION LinageSpec
INVARIANTS
  CursorAtCounter
PROPERTIES
  RecordInBody
  EndOfPageTold
