CONSTANTS
  MaxLines = 2
  NoNumber = NoNumber
  Files <- MCFiles
  Defaults <- MCDefaults
SPECIFICATION Spec
CHECK_DEADLOCK FALSE
INVARIANT NumbersAsDocumented
