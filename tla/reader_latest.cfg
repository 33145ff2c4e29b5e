CONSTANTS
  MaxScans = 3
  Size <- MCSize
  Capacity = 6
  PowerFails = FALSE
  Stamp <- MCStamp
  Window = 1
SPECIFICATION SystemSpec
INVARIANT NewestIsAnswered
