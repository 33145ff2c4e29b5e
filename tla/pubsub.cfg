CONSTANTS
  Subscribers = {s1, s2}
  HighWaterMark = 2
  MayFail = TRUE
  MaxSamples = 3
  MaxRuns = 2
SPECIFICATION Spec
INVARIANTS
  TypeOK
  OneFailureCostsOne
  GapsTell
PROPERTY
  ImplementsStream
SYMMETRY MCSymmetry
CHECK_DEADLOCK FALSE
