SPECIFICATION Spec
CONSTANTS
  Processes = {1, 2}
  Interrupts = {"ring", "other"}
  RING_BUFFER = "ring"
  Requests <- MCRequests
  HZ = 3
  MsPerSecond = 4
  UintRange = 16
  MaxTicks = 3
INVARIANTS
  TimeoutNotEarly
PROPERTY
  TimedWaitEnds
