CONSTANTS
  v1 = v1
  v2 = v2
  Values <- MCValues
  Blocks <- MCBlocks
  Raw = Raw
  AllocSize = 2
  InitialGroups = 1
  MaxSize = 3
  MaxTake = 2
SPECIFICATION Spec
PROPERTY ClearDestroysContents
