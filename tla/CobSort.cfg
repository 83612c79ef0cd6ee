CONSTANTS
  Keys = {1, 2}
  Setups <- MCSetups
  SizeMax = 34
SPECIFICATION Spec
INVARIANTS
  BlocksSound
  
PROPERTIES
  ImplementsSort
  StatementEnds
CHECK_DEADLOCK FALSE
