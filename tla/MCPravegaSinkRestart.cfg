SPECIFICATION Spec
CONSTANTS
  Settings <- MCSettings
  MaxTimestamp = 2
  BufferKinds <- FewKinds
  MaxEvents = 2
  MaxSessions = 2
  InOrder = TRUE
  Errors = {"stop"}
INVARIANT StartFindsStopped
CHECK_DEADLOCK FALSE
