SPECIFICATION ShutdownSpec
CONSTANTS
  Procs = {p, q}
  Nodes = {a, b, c, d}
  Files = {f}
  Removals = "newest"
  MaxCalls = 4
  NULL = NULL
INVARIANTS
  
  EndComplete
PROPERTIES
  EndReached
CHECK_DEADLOCK FALSE
