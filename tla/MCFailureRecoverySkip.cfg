SPECIFICATION Spec
CONSTANTS
  NumFrames = 4
  FrameTimes <- MCFrameTimes
  KeyFrames <- MCSparse
  DefectSets <- MCDefect
  FrameDuration = 0
  RecordPeriod = 4
  InitialSkip = 4
  MaxFailures = 0
  Messages <- Frames
  Syncs = {FALSE}
PROPERTY DefectsAreSkipped
CHECK_DEADLOCK FALSE
