SPECIFICATION FairSpec
CONSTANTS
  CPUs = {cpu0, cpu1}
  NoCPU = NoCPU
  BufferBytes = 2
  MaxPackets = 3
  PacketLen <- MCPacketLen
  EnableValues = {TRUE, FALSE}
INVARIANTS
  RxExactlyOnce
  WindowHandover
PROPERTIES
  DoorbellLostOnlyWhenDisabled
  RxImplementsWindow
  WindowReturned
