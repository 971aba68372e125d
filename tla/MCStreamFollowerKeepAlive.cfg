CONSTANTS
  Modulus = 16
  InitialSeq = 12
  StreamLength = 1
  MaxSegment = 1
  max_buffered_chunks = 2
  max_buffered_bytes = 4
  stream_keep_alive = 3
  MaxTime = 5
  End = End
SPECIFICATION Spec
PROPERTY KeepAliveIsMaximum
