CONSTANTS
  Modulus = 16
  InitialSeq = 12
  StreamLength = 6
  MaxSegment = 3
  max_buffered_chunks = 2
  max_buffered_bytes = 4
  stream_keep_alive = 3
  MaxTime = 5
  End = End
SPECIFICATION Spec
INVARIANTS
  TypeOK
  InOrder
  BufferAccounted
  NothingWithheld
  BuffersBounded
PROPERTIES
  StaleStreamsGo
  FollowsTheStream
