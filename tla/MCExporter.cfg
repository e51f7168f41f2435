SPECIFICATION ExporterSpec
CONSTANTS
  Names = {"a", "waste"}
  IPMName = "ipm"
  WasteName = "waste"
  FinderName = "finder"
  FinderIndex = 9
  MaxFolders = 7
  MaxFolderDepth = 4
  MaxMessage = 2
  MaxIndex = 5
  PlanMaxFolders = 4
  PlanMaxDepth = 3
  MaxRef = 4
  Readers = {r1}
  NoReader = NoReader
INVARIANTS
  PlanIsTree
  FileMatchesPlan
  RowsMirrorFolders
  CountsMatchMessages
  Rooted
  SiblingNamesDistinct
PROPERTIES
  FittingPlansCommit
  MessagesKept
CHECK_DEADLOCK FALSE
