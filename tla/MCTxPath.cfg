SPECIFICATION Spec
CONSTANTS
  BufferBytes = 2
  MaxPackets = 4
  PacketLen <- MCPacketLen
  TRANSMIT_TIMEOUT = 1
  IntLimit = 4
  MaxJiffies = 7
  HostKeepsDeadline = TRUE
INVARIANTS
  TxFramesIntact
  TxAccounted
  TxHandover
  TxDoorbellPending
PROPERTIES
  TxImplementsWindow
  StaleWindowReclaimed
CHECK_DEADLOCK FALSE
