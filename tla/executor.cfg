CONSTANTS
  MaxNodes = 3
  Period <- MCPeriod
  Times <- MCTimes
  IntMin <- MCIntMin
  MaxSteps = 3
  MaxFailures = 2
  Foreign = TRUE
SPECIFICATION Spec
INVARIANTS
  ConfiguredBeforeAnyRuns
  RunningIsPrefix
  HalfStartedOnlyByForeign
  SlotsAccounted
  EveryDueNodeTicked
PROPERTIES
  TickedInItsSlot
  KeepsNodeContract
CHECK_DEADLOCK FALSE
