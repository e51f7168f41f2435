SPECIFICATION LegacySpec
CONSTANTS
  MaxLeaf = 2
  MaxNonleaf = 2
  RootNID = 9
  MaxNID = 2
  MaxBID = 3
  MaxEntries = 6
  Ops = {}
INVARIANT NodeLookupsExact
