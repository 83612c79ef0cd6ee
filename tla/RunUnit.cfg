CONSTANTS
  Null = Null
  Programs = {M, A, B}
  Main = M
  Initial = {B}
  Recursive = {}
  CancelsActive = FALSE
  MaxArgs = 1
  MaxDepth = 3
SPECIFICATION Spec
INVARIANTS
  ChainIsStack
  ExitProgramKnows
  OwnDataKept

  
CHECK_DEADLOCK FALSE
