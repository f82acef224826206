CONSTANTS
  NULL = NULL
  c1 = c1
  c2 = c2
  Conns <- MCConns
  Procs <- MCProcs
  Main <- MCMain
  Closers <- MCClosers
  Limits <- MCLimits
  Requests <- MCRequests
SPECIFICATION FairSpec
CHECK_DEADLOCK FALSE
INVARIANTS
  TypeOK
  OwnSocket
  SocketsHaveClients
  PipesEnd
  SelectSees
PROPERTIES
  CGICompletes
  ConnectionEnds
