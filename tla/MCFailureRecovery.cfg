SPECIFICATION Spec
CONSTANTS
  NumFrames = 7
  FrameTimes <- MCFrameTimes
  KeyFrames <- MCDense
  DefectSets <- MCDefectSets
  FrameDuration = 0
  RecordPeriod = 4
  InitialSkip = 4
  MaxFailures = 2
  Messages <- Frames
  Syncs = {TRUE, FALSE}
INVARIANT RecordedIsAccountedFor ReplayIsBounded OneWriterPerStream
PROPERTY DefectsAreSkipped
CHECK_DEADLOCK FALSE
