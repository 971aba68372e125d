CONSTANTS
  MaxPayloads = 2
  NoDatagram = NoDatagram
  NoGroup = NoGroup
  Conf <- MCConf
  Payloads <- MCPayloads
  Bursts <- MCBursts
SPECIFICATION Spec
CHECK_DEADLOCK FALSE
INVARIANTS
  ChecksumsVerify
  CrcsAreRemainders
  PayloadSurvives
  BurstIsNoticed
