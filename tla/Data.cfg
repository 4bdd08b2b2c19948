CONSTANTS
  Width <- MCWidth
  F32Digits = 4
  F64Digits = 8
  F32Text = 3
  F64Text = 4
  FltMax = 2048
  DblMax = 2064
  MaxSteps = 2
  NaN = NaN
  Refused = Refused
  InHead = 3
  DoublingLimit = 8
  BuffIncrement = 4
  BuffSizes = {1, 2, 5}
  MaxWritten = 24
  Bytes = {0, 77, 255}
  MaxBytes = 4
  Characters = {17, 64, 65, 66}
  MaxText = 6
  Values = {1, 2}
  HeapBlocks <- MCBlocks
  ChunkSize = 2
  MaxBlocks = 4
  MaxLength = 3
  TreeValues = {1, 2}
  TreeStarts <- MCStarts
  Handles = {1, 2}
  MaxObjects = 9
  MaxCalls = 5
  MaxDepth = 2
  StringOf <- MCStringOf
  Numbers = {5}
  Keys = {1, 2}
  ValBuff = 4
  Documents <- MCDocuments
  MaxParts = 4
  Pieces <- MCPieces
  Environment <- MCEnvironment
  MaxEnvLen = 3
  MaxPieces = 5
SPECIFICATION Spec
INVARIANTS
  HashFresh
  NothingLost
  TreesKept
  NumbersRight
  CodecsInvert
PROPERTIES
  ImplementsSequence
CHECK_DEADLOCK FALSE
