CONSTANTS
  K = 3
  A = 2
  Conns = {"c1", "c2"}
  Setups <- MCSetups
SPECIFICATION Spec
INVARIANTS
  IndexSound
PROPERTIES
  ScanIsExact
  LockedUnchanged
  ImplementsStore
CHECK_DEADLOCK FALSE
