CONSTANTS
  MaxLines = 4
  NoNumber = NoNumber
  Files <- MCFiles
  Defaults <- MCDefaults
SPECIFICATION Spec
CHECK_DEADLOCK FALSE
INVARIANTS
  TypeOK
  ErrorIsFirstBadLine
  EntriesFollowFile
  SettingsAsWritten
  ServesOnlyCleanAddresses
