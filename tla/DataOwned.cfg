CONSTANTS
  Contents = {1, 2, 3}
  ByteContents = {3}
  FitsIn <- MCFitsIn
  Constants <- MCConstants
  Slots = {s1, s2, s3}
  MaxData = 3
  MaxBuffers = 2
  MaxTaken = 1
SPECIFICATION Spec
INVARIANTS
  Accounted
  Unspoiled
SYMMETRY MCSymmetry
