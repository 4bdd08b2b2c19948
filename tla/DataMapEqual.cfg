CONSTANTS
  Size = 3
  Keys <- MCKeys
  Values <- MCValues
  Inputs <- MCInputs
  Sources <- MCSources
  MaxRefs = 6
  MaxWalked = 3
SPECIFICATION Spec
INVARIANTS
  EqualsItsCopy
