CONSTANTS
  StallTimeoutCount = 1
  StartupTimeoutCount = 2
  MaxInterrupts = 1
SPECIFICATION ServiceFairSpec
INVARIANTS
  ConnectionIsOwned
  NoStray
PROPERTIES
  StopIsHonoured
  DeadLinkIsLeft
  ComesBack
  SettledCtrlCStops
CHECK_DEADLOCK FALSE
