SPECIFICATION Spec
CONSTANTS
  NoOfPartitions = 4
  Banks = {1, 2}
  Start <- MCStart
  Length <- MCLength
  ZDMA_TRANSFER_MAX_LEN = 2
CHECK_DEADLOCK FALSE
INVARIANTS
  AllPartitionsLoaded
  LogicFirst
  EccComplete
  CacheDiscipline
PROPERTIES
  NothingWiped
  DescriptorStable
  BootEnds
