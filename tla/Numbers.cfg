SPECIFICATION StatementSpec
CONSTANTS
  ByteBase = 4
  Radix = 10
  IntSize = 4
  LongSize = 8
  IntDigits = 3
  DivideScale = 3
  Fields <- MCFields
  Starts <- MCStarts
  Operands <- MCOperands
  MaxDigits = 4
  Sources <- MCSources
  Receivers <- MCReceivers
  Seconds <- MCSeconds
INVARIANTS
  ResultsExact
  ComparesRight
  MovesSound
  EditedBack
CHECK_DEADLOCK FALSE
