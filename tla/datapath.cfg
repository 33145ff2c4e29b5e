CONSTANTS
  NegZero = NegZero
  Garbled = "garbled"
  TextSize <- MCTextSize
  TagLike = {"", "h1"}
  kSchemaVersion = 1
  Shapes <- MCShapes
  CloudShapes <- MCCloudShapes
  Foreign <- MCForeign
  Versions = {0, 1, 2}
  Limits = {0, 1}
  MaxTaken = 2
  MaxForeign = 2
  MaxQueue = 2
SPECIFICATION Spec
INVARIANTS
  GotIsItsOrigin
  LiveIsRecorded
  AnswerIsExact
  PeekIsHonest
CHECK_DEADLOCK FALSE
