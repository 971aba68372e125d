CONSTANTS
  Sizes = {0, 4, 19, 20, 32, 43, 44, 67, 68, 91, 92, 110, 111, 134, 158, 182, 183, 273, 274, 1055, 1056}
  Groups <- MCGroups
  NoGroup = NoGroup
  kAddress = 1000
SPECIFICATION Spec
INVARIANTS
  TypeOK
  PacketsFit
  NoWastedCapacity
  PacketsCoverGroup
  FlagsDelimitGroup
  ContinuityUnbroken
