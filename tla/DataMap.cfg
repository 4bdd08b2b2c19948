CONSTANTS
  Size = 6
  Keys <- MCKeys
  Values <- MCValues
  Inputs <- MCInputs
  Sources <- MCSources
  MaxRefs = 8
  MaxWalked = 3
SPECIFICATION Spec
INVARIANTS
  TypeOK
  TreeLinked
  BalancedUntilSkipped
  RefsAreHolders
  HashFresh
  HasNextIsRight
PROPERTIES
  ImplementsOrderedMap
