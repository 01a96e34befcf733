SPECIFICATION Spec
CONSTANTS
  EnableValues = {TRUE, FALSE}
  MaxLoads = 2
  MaxChanges = 2
INVARIANTS
  LifecycleInv
  HandlerReady
  TaskletReady
  TransmitReady
  SigilMeansDriver
PROPERTIES
  OpenReady
  NothingLeftBehind
CHECK_DEADLOCK FALSE
