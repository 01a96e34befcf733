SPECIFICATION Spec
CONSTANTS
  EnableValues = {TRUE}
  MaxLoads = 2
  MaxChanges = 2
INVARIANT
  UpMeansReady
CHECK_DEADLOCK FALSE
