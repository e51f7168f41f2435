SPECIFICATION Spec
CONSTANTS
  File = {f1, f2, f3}
  User = User
  None = None
  MaxVer = 2
  InPlace = TRUE
SYMMETRY Symmetry
INVARIANTS
  SourceReadable
  NoLeakedHandle
  ValidMeansComplete
