SPECIFICATION Spec
CONSTANTS
  MaxLeaf = 1
  MaxNonleaf = 2
  NID = {1, 3, 4}
  BID = {}
  MaxHeld = 1
INVARIANTS
  ImagePassesCheckTrees
  LookupsExact
  TreePagesOwned
PROPERTY OldTreesUntouched
