CONSTANTS
  RunUnits = {"r1", "r2"}
  Connectors = {"c1", "c2", "c3"}
  OwnerOf <- MCOwnerOf
  MaxRecords <- MCMaxRecords
  Setups <- MCSetups
SPECIFICATION Spec
INVARIANTS
  LocksSound
  RecordsStand
