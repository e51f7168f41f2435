SPECIFICATION Spec
CONSTANTS
  NoData = NoData
  NoMessage = NoMessage
  Short = Short
  Long = Long
  Streamed = Streamed
  Lost = Lost
  Obj = Obj
  Name = Name
  Other = Other
  Body = Body
  Cut = Cut
  File = File
  MaxDataBlockCB = 30
  MaxXBlockEntries = 3
  MaxSLBlockEntries = 2
  MaxSIBlockEntries = 3
  HNHDRSize = 4
  HNPAGEHDRSize = 2
  HNBITMAPHDRSize = 6
  HNFirstBitmap = 2
  HNBitmapEvery = 2
  HNFillLevels <- MCFillLevels
  HNMaxAllocsPerPage = 5
  HNMaxBlockIndex = 7
  HeapMaxAlloc = 16
  BTHHeaderSize = 8
  PCLeafValueSize = 8
  TCINFOFixedSize = 4
  TCOLDESCSize = 2
  MaxTCColumns = 6
  MaxRowID = 255
  RowIDs = {2, 255}
  Columns = {20, 21}
  Cells <- MCCells
  MaxRows = 3
  MaxVer = 2
  MaxAutoID = 3
  MessageWrites <- MCMessageWrites
  MaxAttachmentsPerMessage = 2
  MaxAttachmentBytes = 64
  MaxEmbeddedDepth = 1
  NodeIDs = {34, 98}
  Values <- MCValues
  Streams <- MCStreams
  Drafts <- MCDrafts
  Folder = 66
  Sessions <- MCSessions
INVARIANTS
  ContextsReadBack
  TablesReadBack
  MessagesReadBack
  TreesAndNothingElse
  RowIndexExact
CHECK_DEADLOCK FALSE
