SPECIFICATION Spec
CONSTANTS
  Callers = {1, 2}
  Files = {1, 2}
  WordBytes = 3
  Counts = {0, 1, 5}
  Offsets <- MCOffsets
  IntLimit = 6
  MaxPosition = 7
  MappingSpace = 2
CHECK_DEADLOCK FALSE
INVARIANTS
  TransferExact
  MappingsAccounted
PROPERTY
  PositionFollowsCopy
