SPECIFICATION Spec
CONSTANTS
  Units = 10
  InitAt <- Created
  EOF = 0
  HasAMap = FALSE
  MaxBID = 3
  Modes = {"delete"}
INVARIANTS
  CommittedReadable
