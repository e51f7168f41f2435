SPECIFICATION Spec
CONSTANTS
  Block = {b1, b2}
  RegionSlots = 1
  MaxRegions = 3
  TxnDepth = 1
  Zero = Zero
SYMMETRY Symmetry
INVARIANTS
  BlocksOwnTheirSlots
  PayloadsReadable
PROPERTY AbortRewinds
