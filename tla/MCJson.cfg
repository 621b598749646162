CONSTANTS
  ReadModes = {"string"}
  MaxEvents = 6
  MaxDepth = 2
  MaxValues = 2
  Names <- MCNames
  Values <- MCValues
  Setups <- MCSetups
SPECIFICATION Spec
INVARIANTS
  WritesText
  ReadsBack
CHECK_DEADLOCK FALSE
