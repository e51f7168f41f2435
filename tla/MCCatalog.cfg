SPECIFICATION Spec
CONSTANTS
  NID = {n1}
  MaxBID = 3
  RefMod = 65536
  SharedSubnodes = FALSE
  FaultSets <- CleanOrFaulty
INVARIANTS
  NoDanglingReference
  LiveBlocksHoldSpace
  CommittedReopens
  NoLeakedSpace
  RefCountsExact
PROPERTY CascadeEnds
