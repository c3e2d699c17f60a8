SPECIFICATION FairSpec
CONSTANTS
  Maintainer = maintainer
  Tools = {tool}
  MaxTimestamp = 3
  MaxOffset = 2
  Timestamps <- MCTimestamps
  Offsets <- MCOffsets
  Records <- MCRecords
  RetentionByAge = TRUE
  RetentionBySize = TRUE
  RetentionBytes = 1
  MaxRecords = 3
INVARIANT TypeOK Readable NeverEmptied SearchFindsNearest
PROPERTY StreamSpec DeletesOnlyOld KeepsSizeLimit OrphansAreReclaimed StopReturns SearchEnds
