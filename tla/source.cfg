CONSTANTS
  MaxObjects = 2
  Handles = {h1, h2}
  Drivers = {d1, d2}
  MaxMsgs = 2
  Stamp <- MCStamp
  QueueCapacity = 1
  MaxPlausible = 5
SPECIFICATION FairSpec
INVARIANTS
  NoUseAfterFree
  RoutedToOwner
  NewestAreKept
  ScanTimesPlausible
PROPERTY
  TeardownEnds
CHECK_DEADLOCK FALSE
