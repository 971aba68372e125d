CONSTANTS
  MaxLines = 0
  NoNumber = NoNumber
  Files <- ShippedFiles
  Defaults <- MCDefaults
SPECIFICATION Spec
CHECK_DEADLOCK FALSE
INVARIANT AddressesAreAddresses
