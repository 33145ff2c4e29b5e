CONSTANTS
  Clients = {c1, c2}
  MaxCalls = 2
  MaxScans = 1
  MaxRuns = 2
  MayThrow = TRUE
SPECIFICATION Spec
SYMMETRY ClientSymmetry
INVARIANTS
  AnswersOwnRequest
  NextCallStartsClean
  OkNothingMeansEmpty
CHECK_DEADLOCK FALSE
