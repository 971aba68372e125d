CONSTANTS
  Payloads <- MCPayloads
  NoPayload = NoPayload
  NoDatagram = NoDatagram
  NoGroup = NoGroup
  PacketAddress = 1000
  SocketCap = 2
  PipeCap = 13
  MaxArrivals = 3
  MaxCloses = 1
SPECIFICATION FairSpec
CHECK_DEADLOCK FALSE
INVARIANTS
  TypeOK
  ReaderNeverConfused
  NothingLostInside
  RepetitionTold
  BurstIsAtomic
PROPERTIES
  RelaySpec
  ListensAgain
  ReceivedComesOut
