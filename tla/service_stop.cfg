CONSTANTS
  StallTimeoutCount = 1
  StartupTimeoutCount = 2
  MaxInterrupts = 1
SPECIFICATION ServiceSpec
INVARIANT
  StoppedIsStopped
CHECK_DEADLOCK FALSE
