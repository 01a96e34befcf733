SPECIFICATION Spec
CONSTANTS
  Kinds = {"p", "i"}
  Lo <- MCLo
  Hi <- MCHi
  Field <- MCField
  Repeats = 3
  PllRetries = 3
CHECK_DEADLOCK FALSE
INVARIANTS
  ClocksSteady
  ReleasedClocked
  SerdesQuiet
  ResultTells
  ChosenMostFrequent
PROPERTY
  InitEnds
