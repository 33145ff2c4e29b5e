CONSTANTS
  Propagation = 2
  BitsPerSecond = 12
  NsPerSecond = 1
  MaxFrameBytes = 2
  Sizes = {0, 1, 2, 3}
  Deadlines = {4, 20}
  Advances = {1, 3}
  MaxOffers = 3
  MaxNow = 8
SPECIFICATION Spec
INVARIANTS
  OneFrameAtATime
  ArrivesInTime
  DeliveredOldestFirst
CHECK_DEADLOCK FALSE
