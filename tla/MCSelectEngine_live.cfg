CONSTANTS
  URIs <- MCURIs
  CGIURIs <- MCCGIURIs
  HeaderValues <- MCHeaderValues
  Atoi <- MCAtoi
  FileSize <- MCFileSize
  Absent <- MCAbsent
  NULL = NULL
  Freed = Freed
  HeaderSize = 1
  INT_MAX = 9
  SIZE_MAX = 99
  c1 = c1
  c2 = c2
  Conns <- MCConns
  Scripts <- LiveScripts
  Resetters <- NoConns
  BufSize = 3
  SndBuf = 2
  CGIOutput = 1
SPECIFICATION FairSpec
CHECK_DEADLOCK FALSE
PROPERTIES
  ResponseCompletes
  ClosedIsRemoved
