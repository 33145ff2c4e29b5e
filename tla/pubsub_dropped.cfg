CONSTANTS
  Subscribers = {s1}
  HighWaterMark = 1
  MayFail = FALSE
  MaxSamples = 2
  MaxRuns = 1
SPECIFICATION Spec
INVARIANT
  DroppedIsCounted
CHECK_DEADLOCK FALSE
