CONSTANTS
  URIs <- MCURIs
  CGIURIs <- MCCGIURIs
  HeaderValues <- MCHeaderValues
  Atoi <- MCAtoi
  FileSize <- MCFileSize
  Absent <- MCAbsent
  NULL = NULL
  Freed = Freed
  HeaderSize = 1
  INT_MAX = 9
  SIZE_MAX = 19
  Buffers <- MCBuffers
SPECIFICATION Spec
INVARIANTS
  ErrorIsServed
