SPECIFICATION MCSpec
CONSTANTS
  NumEvents = 3
  NumEventsOfSrc = 2
  EventSize = 2
  EventTimes <- MCEventTimes
  Records <- MCRecords
  Offsets <- MCOffsets
  MaxTimestamp <- MCMaxTimestamp
  SrcSettings <- MCSettings
  SeekTimes <- MCSeekTimes
  MaxAsks = 1
  Ranges <- MCRanges
  MaxGap = 2
  Discontinuous <- MCDiscontinuous
  MaxDuration = 3
  MaxRequests = 3
INVARIANT StartsAtRandomAccessPoint
CHECK_DEADLOCK FALSE
