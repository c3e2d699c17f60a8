SPECIFICATION Spec
CONSTANTS
  Settings <- MCSettings
  MaxTimestamp = 4
  BufferKinds <- FewKinds
  MaxEvents = 3
  MaxSessions = 2
  InOrder = TRUE
  Errors = {}
INVARIANT ContinuousWithoutDiscontinuity
CHECK_DEADLOCK FALSE
