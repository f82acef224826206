CONSTANTS
  NULL = NULL
  c1 = c1
  c2 = c2
  Conns <- MCConns
  Procs <- MCProcs
  Main <- MCMain
  Closers <- MCClosers
  Limits <- MCLimits
  Requests <- MCRequests
SPECIFICATION Spec
CHECK_DEADLOCK FALSE
INVARIANTS
  PipesCleaned
