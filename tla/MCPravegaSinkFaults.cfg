SPECIFICATION Spec
CONSTANTS
  Settings <- OneSetting
  MaxTimestamp = 2
  BufferKinds <- OddKinds
  MaxEvents = 2
  MaxSessions = 2
  InOrder = FALSE
  Errors = {"render", "sync", "stop"}
INVARIANT RecordsReadable
CHECK_DEADLOCK FALSE
