CONSTANTS
  BufSize <- MCBufSize
  Inputs <- MCInputs
  Heap <- MCHeap
SPECIFICATION Spec
CHECK_DEADLOCK FALSE
INVARIANTS
  LineIsThere
  LinesAreCut
  BlankEnds
  RequestIsRemoved
  ScanIsLocal
