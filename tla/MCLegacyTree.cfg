SPECIFICATION LegacySpec
CONSTANTS
  MaxLeaf = 2
  MaxNonleaf = 2
  RootNID = 2
  MaxNID = 2
  MaxBID = 3
  MaxEntries = 3
  Ops = {"update", "copy", "reopen"}
INVARIANTS
  NoNodeLost
  BlockIdsUnique
  CacheCoherent
