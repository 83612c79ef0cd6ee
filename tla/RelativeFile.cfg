SPECIFICATION Spec
CONSTANTS
  N = 3
  KeyMax = 2
  Records = {r1, r2}
  NoRecord = NoRecord
INVARIANTS
  PositionSound
PROPERTIES
  ReportsExact
  ImplementsStore
CHECK_DEADLOCK FALSE
