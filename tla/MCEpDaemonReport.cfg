SPECIFICATION Spec
CONSTANTS
  ByteRange = 2
  Instructions <- MCInstructions
  MaxInstructions = 3
  MaxResets = 2
  MaxStops = 2
PROPERTY
  AddressReported
