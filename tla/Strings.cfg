CONSTANTS
  Texts <- MCTexts
  Patterns <- MCPatterns
  Sizes = {1, 2}
  MaxPhrases = 2
  MaxPointer = 5
  Radix = 10
  DivideScale = 3
  Depth = 3
  IntLimit = 32
  IntDigits = 1
  LongLimit = 512
  LongDigits = 2
  DoubleScale = 2
  MostDigits = 5
  LastYear = 2010
  LastDay = 149749
  Today = 2000
  Families <- MCFamilies
  RightToLeft = TRUE
SPECIFICATION MCSpec
INVARIANTS
  InspectSound
  TransfersSound
  FunctionsExact
  ResultsStand
CHECK_DEADLOCK FALSE
