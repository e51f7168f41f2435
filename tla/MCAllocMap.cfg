SPECIFICATION Spec
CONSTANTS
  SlotsPerAMap = 10
  PageSlots = 2
  MaxAllocSlots = 2
  AMapsPerPMap = 2
  FMapFirst = 0
  FMapEvery = 1
  FPMapFirst = 1
  FPMapEvery = 1
  MaxRegions = 3
INVARIANTS
  TypeOK
  MetadataReserved
  ImageLoads
PROPERTIES
  AllocationsAreFresh
  HeldUntilFreed
