SPECIFICATION Spec
CONSTANTS
  Settings <- MCSettings
  MaxTimestamp = 4
  BufferKinds <- MCKinds
  MaxEvents = 4
  MaxSessions = 2
  InOrder = TRUE
  Errors = {"render", "stop"}
INVARIANT TypeOK RecordsBracketEvents ContinuousBetweenRenderedRecords SessionsBeginMarked IndexGapsBounded IndexLagBounded SealedStreamIsComplete
PROPERTY ImplementsVideoStream
CHECK_DEADLOCK FALSE
