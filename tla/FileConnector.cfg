SPECIFICATION Spec
INVARIANTS
  UpdateFollowsRead
  NoReadPastEnd
  
  DeadHandleCalls
  NoHandleLost
CHECK_DEADLOCK FALSE
