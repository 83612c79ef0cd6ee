CONSTANTS
  N = 3
  LastOf <- MCLastOf
  Declaratives = 1
  StackSize = 4
  MaxTimes = 2
  Programs <- MCPrograms
SPECIFICATION Spec
INVARIANTS
  StackSound
PROPERTIES
  Structured
CHECK_DEADLOCK FALSE
