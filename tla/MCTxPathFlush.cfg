SPECIFICATION Spec
CONSTANTS
  BufferBytes = 2
  MaxPackets = 4
  PacketLen <- MCPacketLen
  TRANSMIT_TIMEOUT = 1
  IntLimit = 4
  MaxJiffies = 7
  HostKeepsDeadline = TRUE
PROPERTY
  FlushClearsDoorbell
CHECK_DEADLOCK FALSE
