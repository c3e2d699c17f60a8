SPECIFICATION Spec
CONSTANTS
  CvtSettings <- MCSettings
  Epoch = 40
  LeapSeconds = 3
  GracePeriod = 15
  CorrectionDelta = 2
  Wrap = 64
  FrameDuration = 1
  MaxFrames = 4
  MaxSamples = 2
INVARIANT TrueUnlessBehind PushedInOrder FragmentIsWhole
CHECK_DEADLOCK FALSE
