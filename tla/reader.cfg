CONSTANTS
  MaxScans = 3
  Size <- MCSize
  Capacity = 6
  PowerFails = TRUE
  Stamp <- MCStamp
  Window = 1
SPECIFICATION SystemSpec
INVARIANTS
  IntactIsServed
  GetReturnsItsRow
  RangeIsOneSnapshot
  RecentIsAnchored
