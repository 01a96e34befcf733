SPECIFICATION Spec
CONSTANTS
  BankBytes = 2
  SizeBytes = 8
  FlashTypes <- MCFlashTypes
CHECK_DEADLOCK FALSE
INVARIANTS
  ReadExact
  BarRestored
