CONSTANTS
  MaxScans = 3
  Size <- MCSize
  Capacity = 7
  PowerFails = TRUE
SPECIFICATION Spec
INVARIANTS
  RowsReadable
  CountOffByUncounted
  AckedIndexed
PROPERTY
  ImplementsStore
