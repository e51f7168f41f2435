SPECIFICATION Spec
CONSTANTS
  Block = {b1, b2}
  RegionSlots = 2
  MaxRegions = 1
  TxnDepth = 2
  Zero = Zero
PROPERTY AbortRewinds
