CONSTANTS
  Contents = {c1, c2, c3}
  Datagrams <- MCDatagrams
  NoDatagram = NoDatagram
  NoGroup = NoGroup
SPECIFICATION Spec
INVARIANT TypeOK
PROPERTY IndexTellsRepetition
