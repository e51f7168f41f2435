SPECIFICATION Spec
CONSTANTS
  File = {f1, f2, f3, f4, f5}
  User = User
  None = None
  MaxVer = 2
  InPlace = FALSE
SYMMETRY Symmetry
PROPERTY ImplementsAtomicFile
