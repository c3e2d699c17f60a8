SPECIFICATION Spec
CONSTANTS
  Maintainer = maintainer
  Tools = {}
  MaxTimestamp = 3
  MaxOffset = 2
  Timestamps <- MCTimestamps
  Offsets <- MCOffsets
  Records <- MCRecords
  RetentionByAge = TRUE
  RetentionBySize = TRUE
  RetentionBytes = 1
  MaxRecords = 3
PROPERTY DataSizeIsBounded
