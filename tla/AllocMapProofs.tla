--------------------------- MODULE AllocMapProofs ---------------------------
(* Proofs about AllocMap, for every geometry that meets its assumption.     *)
EXTENDS AllocMap, WalkProofs

\* Products grow with their first factor: region k starts where the regions
\* before it end.
LEMMA RegionsOrdered ==
  ASSUME NEW r \in Nat, NEW k \in Nat, r < k
  PROVE  /\ RegionStart(r) \in Nat
         /\ RegionEnd(r) \in Nat
         /\ RegionEnd(r) = RegionStart(r) + SlotsPerAMap
         /\ RegionEnd(r) <= k * SlotsPerAMap
         /\ k * SlotsPerAMap \in Nat
  BY GeometryAssumption DEF RegionStart, RegionEnd

\* A slot below k regions belongs to a region below k.
LEMMA SlotRegion ==
  ASSUME NEW k \in Nat, NEW s \in Mapped(k)
  PROVE  s \in Nat /\ s \div SlotsPerAMap \in 0 .. k - 1
  <1>1. s \in Nat /\ SlotsPerAMap \in Nat \ {0} /\ s < k * SlotsPerAMap
    BY GeometryAssumption DEF Mapped
  <1> DEFINE q == s \div SlotsPerAMap
  <1>2. q \in Nat /\ q * SlotsPerAMap <= s
    BY <1>1
  <1>3. ASSUME q >= k PROVE FALSE
    <2>1. q * SlotsPerAMap >= k * SlotsPerAMap
      BY <1>1, <1>2, <1>3
    <2> QED BY <1>1, <1>2, <2>1
  <1> QED BY <1>1, <1>2, <1>3

\* Every region has at least its AMap page and at most four map pages.
LEMMA MapPagesBound ==
  ASSUME NEW r \in Nat
  PROVE  RegionMapPages(r) \in 1 .. 4
  BY DEF RegionMapPages

\* The map pages of a region lie in that region.
LEMMA MetaInRegion ==
  ASSUME NEW r \in Nat, NEW k \in Nat, r < k
  PROVE  MetaSlots(r) \subseteq Mapped(k)
  <1>1. RegionMapPages(r) * PageSlots <= 4 * PageSlots
    BY MapPagesBound, GeometryAssumption
  <1>2. RegionMapPages(r) * PageSlots \in Nat
    BY MapPagesBound, GeometryAssumption
  <1>3. RegionMapPages(r) * PageSlots <= SlotsPerAMap
    BY <1>1, <1>2, GeometryAssumption
  <1> QED
    BY <1>2, <1>3, RegionsOrdered, GeometryAssumption DEF MetaSlots, Run, Mapped

\* The inductive invariant: the type, the reserved map pages, and the current
\* region's existence, which ImageLoads and the type both need.
IInv == TypeOK /\ MetadataReserved /\ CurrentRegionExists

LEMMA InitIInv == Init => IInv
  <1> SUFFICES ASSUME Init PROVE IInv
    OBVIOUS
  <1>1. MetaSlots(0) \subseteq Mapped(1)
    BY MetaInRegion
  <1> QED
    BY <1>1, GeometryAssumption
       DEF Init, IInv, TypeOK, MetadataReserved, CurrentRegionExists

\* One more region: its map pages are marked and nothing is lost.
LEMMA GrownIInv ==
  ASSUME IInv
  PROVE  /\ GrownBits \subseteq Mapped(regions + 1)
         /\ bitmap \subseteq GrownBits
         /\ \A r \in 0 .. regions : MetaSlots(r) \subseteq GrownBits
  <1>1. regions \in Nat /\ MetaSlots(regions) \subseteq Mapped(regions + 1)
    BY MetaInRegion DEF IInv, TypeOK
  <1>2. Mapped(regions) \subseteq Mapped(regions + 1)
    BY <1>1, RegionsOrdered, GeometryAssumption DEF Mapped, RegionStart, RegionEnd
  <1> QED
    BY <1>1, <1>2 DEF IInv, TypeOK, MetadataReserved, GrownBits

\* A run that fits lies in the mapped slots.
LEMMA FitMapped ==
  ASSUME NEW k \in Nat, NEW n \in Nat, NEW ib \in Nat, InOneRegion(k, ib, n)
  PROVE  Run(ib, n) \subseteq Mapped(k)
  <1>1. PICK r \in 0 .. k - 1 : ib >= RegionStart(r) /\ ib + n <= RegionEnd(r)
    BY DEF InOneRegion
  <1> QED
    BY <1>1, RegionsOrdered DEF Run, Mapped

LEMMA FirstFitMapped ==
  ASSUME NEW k \in Nat, NEW n \in Nat, NEW align, NEW bits,
         NEW run \in FirstFit(Fits(k, bits, n, align), n)
  PROVE  run \subseteq Mapped(k)
  <1>1. PICK ib \in Fits(k, bits, n, align) : run = Run(ib, n)
    BY DEF FirstFit
  <1>2. ib \in Nat /\ InOneRegion(k, ib, n)
    BY <1>1, GeometryAssumption DEF Fits, Mapped
  <1> QED
    BY <1>1, <1>2, FitMapped

LEMMA TakeFitIInv ==
  ASSUME IInv, NEW n \in Nat, NEW align, TakeFit(n, align)
  PROVE  IInv'
  <1> DEFINE now   == FirstFit(Fits(regions, bitmap, n, align), n)
             grown == FirstFit(Fits(regions + 1, GrownBits, n, align), n)
  <1>0. regions \in Nat /\ regions + 1 \in Nat
    BY DEF IInv, TypeOK
  <1>1. CASE \E run \in now :
               /\ bitmap' = bitmap \cup run
               /\ lastAllocAMap' \in {s \div SlotsPerAMap : s \in run}
               /\ UNCHANGED regions
    <2>1. PICK run \in now :
               /\ bitmap' = bitmap \cup run
               /\ lastAllocAMap' \in {s \div SlotsPerAMap : s \in run}
               /\ regions' = regions
      BY <1>1
    <2>2. run \subseteq Mapped(regions)
      BY <1>0, FirstFitMapped
    <2>3. lastAllocAMap' \in 0 .. regions - 1
      BY <2>1, <2>2, <1>0, SlotRegion
    <2> QED
      BY <2>1, <2>2, <2>3, GeometryAssumption
         DEF IInv, TypeOK, MetadataReserved, CurrentRegionExists
  <1>2. CASE /\ regions < MaxRegions
             /\ regions' = regions + 1
             /\ bitmap' = GrownBits /\ UNCHANGED lastAllocAMap
    BY <1>2, GrownIInv, GeometryAssumption
       DEF IInv, TypeOK, MetadataReserved, CurrentRegionExists
  <1>3. CASE /\ regions < MaxRegions
             /\ regions' = regions + 1
             /\ \E run \in grown :
                  /\ bitmap' = GrownBits \cup run
                  /\ lastAllocAMap' \in {s \div SlotsPerAMap : s \in run}
    <2>1. PICK run \in grown :
               /\ bitmap' = GrownBits \cup run
               /\ lastAllocAMap' \in {s \div SlotsPerAMap : s \in run}
      BY <1>3
    <2>2. run \subseteq Mapped(regions + 1)
      BY <1>0, FirstFitMapped
    <2>3. lastAllocAMap' \in 0 .. regions
      BY <2>1, <2>2, <1>0, SlotRegion
    <2> QED
      BY <1>3, <2>1, <2>2, <2>3, GrownIInv, GeometryAssumption
         DEF IInv, TypeOK, MetadataReserved, CurrentRegionExists
  <1> QED
    BY <1>1, <1>2, <1>3 DEF TakeFit

LEMMA ShrinkIInv ==
  ASSUME IInv, NEW min \in 1 .. regions, ShrinkTrailingEmpty(min)
  PROVE  IInv'
  <1>1. PICK keep \in 1 .. regions :
           /\ regions' = keep
           /\ bitmap' = bitmap \cap Mapped(keep)
           /\ lastAllocAMap' = IF lastAllocAMap >= keep THEN keep - 1
                                                        ELSE lastAllocAMap
    BY DEF ShrinkTrailingEmpty
  <1>2. \A r \in 0 .. keep - 1 : MetaSlots(r) \subseteq Mapped(keep)
    BY MetaInRegion DEF IInv, TypeOK
  <1> QED
    BY <1>1, <1>2, GeometryAssumption
       DEF IInv, TypeOK, MetadataReserved, CurrentRegionExists

LEMMA NextIInv == IInv /\ [Next]_vars => IInv'
  <1> SUFFICES ASSUME IInv, [Next]_vars PROVE IInv'
    OBVIOUS
  <1>1. CASE Grow
    BY <1>1, GrownIInv, GeometryAssumption
       DEF Grow, IInv, TypeOK, MetadataReserved, CurrentRegionExists
  <1>2. ASSUME NEW n \in 1 .. MaxAllocSlots, Allocate(n) PROVE IInv'
    BY <1>2, TakeFitIInv, GeometryAssumption DEF Allocate
  <1>3. CASE AllocatePage
    BY <1>3, TakeFitIInv, GeometryAssumption DEF AllocatePage
  <1>4. ASSUME NEW ib \in Mapped(regions), NEW n \in 1 .. MaxAllocSlots,
               Reserve(ib, n)
        PROVE  IInv'
    <2>1. Run(ib, n) \subseteq Mapped(regions)
      BY <1>4, FitMapped, GeometryAssumption DEF Reserve, IInv, TypeOK, Mapped
    <2> QED
      BY <1>4, <2>1 DEF Reserve, IInv, TypeOK, MetadataReserved, CurrentRegionExists
  <1>5. ASSUME NEW ib \in Mapped(regions), NEW n \in 1 .. SlotsPerAMap, Free(ib, n)
        PROVE  IInv'
    BY <1>5 DEF Free, coversMetadata, IInv, TypeOK, MetadataReserved,
                CurrentRegionExists
  <1>6. ASSUME NEW min \in 1 .. regions, ShrinkTrailingEmpty(min) PROVE IInv'
    BY <1>6, ShrinkIInv
  <1>7. CASE UNCHANGED vars
    BY <1>7 DEF vars, IInv, TypeOK, MetadataReserved, CurrentRegionExists
  <1> QED
    BY <1>1, <1>2, <1>3, <1>4, <1>5, <1>6, <1>7 DEF Next

\* The allocator's state always has its type (store.go: bitmap bits exist only
\* for the regions of the file).
THEOREM TypeCorrect == Spec => []TypeOK
  <1>1. IInv => TypeOK
    BY DEF IInv
  <1> QED
    BY InitIInv, NextIInv, <1>1, PTL DEF Spec

\* Map pages are never free, for every geometry and every history of calls.
THEOREM MapPagesStayReserved == Spec => []MetadataReserved
  <1>1. IInv => MetadataReserved
    BY DEF IInv
  <1> QED
    BY InitIInv, NextIInv, <1>1, PTL DEF Spec

\* Every state of the allocator encodes to an image LoadStoreFrom accepts.
THEOREM EveryImageLoads == Spec => []ImageLoads
  <1>1. IInv => ImageLoads
    <2> SUFFICES ASSUME IInv PROVE ImageLoads
      OBVIOUS
    <2>1. regions \in Nat \ {0} /\ (regions - 1) + 1 = regions
      BY DEF IInv, TypeOK
    <2> QED
      BY <2>1 DEF IInv, TypeOK, MetadataReserved, CurrentRegionExists,
                  ImageLoads, LoadStoreFrom, Image, DList
  <1> QED
    BY InitIInv, NextIInv, <1>1, PTL DEF Spec

-----------------------------------------------------------------------------
(* What an allocation grants *)

\* First fit finds a run whenever one fits.
LEMMA FirstFitFinds ==
  ASSUME NEW S \in SUBSET Nat, S # {}, NEW n
  PROVE  FirstFit(S, n) # {}
  BY HasLeast DEF FirstFit

\* The run first fit picks is one of the fits.
LEMMA FirstFitFits ==
  ASSUME NEW k \in Nat, NEW n \in Nat, NEW align, NEW bits,
         NEW run \in FirstFit(Fits(k, bits, n, align), n)
  PROVE  \E ib \in Mapped(k) : /\ run = Run(ib, n) /\ InOneRegion(k, ib, n)
                               /\ Run(ib, n) \cap bits = {}
  BY DEF FirstFit, Fits

\* Region starts are page aligned, and so is whatever lies whole pages further.
LEMMA PagesAligned ==
  ASSUME NEW r \in Nat, NEW m \in Nat
  PROVE  (r * SlotsPerAMap + m * PageSlots) % PageSlots = 0
  <1> DEFINE q == SlotsPerAMap \div PageSlots
  <1>1. q \in Nat /\ SlotsPerAMap = q * PageSlots
    BY GeometryAssumption
  <1>2. r * SlotsPerAMap + m * PageSlots = (r * q + m) * PageSlots
    BY <1>1, GeometryAssumption
  <1>3. r * q + m \in Nat
    BY <1>1
  <1> HIDE DEF q
  <1> DEFINE z == r * q + m
  <1>4. z \in Nat
    BY <1>3
  <1> HIDE DEF z
  <1>5. (z * PageSlots) % PageSlots = 0
    BY <1>4, GeometryAssumption
  <1> QED
    BY <1>2, <1>5 DEF z

\* A fresh region has room for every legal allocation behind its map pages.
LEMMA FreshRegionFits ==
  ASSUME IInv, NEW n \in Nat \ {0}, NEW align,
         \/ align = 1 /\ n <= MaxAllocSlots
         \/ align = PageSlots /\ n = PageSlots
  PROVE  Fits(regions + 1, GrownBits, n, align) # {}
  <1> DEFINE pages == RegionMapPages(regions)
             ib    == RegionStart(regions) + pages * PageSlots
  <1>1. regions \in Nat /\ bitmap \subseteq Mapped(regions)
    BY DEF IInv, TypeOK
  <1>2. /\ pages \in 1 .. 4 /\ pages * PageSlots \in Nat
        /\ pages * PageSlots <= 4 * PageSlots
    BY <1>1, MapPagesBound, GeometryAssumption
  <1>3. /\ RegionStart(regions) \in Nat
        /\ RegionEnd(regions) = RegionStart(regions) + SlotsPerAMap
        /\ RegionEnd(regions) <= (regions + 1) * SlotsPerAMap
        /\ (regions + 1) * SlotsPerAMap \in Nat
    BY <1>1, RegionsOrdered
  <1>4. n + 4 * PageSlots <= SlotsPerAMap
    BY GeometryAssumption
  <1>5. ib % align = 0
    <2>1. ib \in Nat
      BY <1>2, <1>3
    <2>2. CASE align = 1
      <3> HIDE DEF ib
      <3> QED
        BY <2>1, <2>2
    <2>3. CASE align = PageSlots
      BY <1>1, <1>2, <2>3, PagesAligned DEF RegionStart
    <2> QED
      BY <2>2, <2>3
  <1>6. GrownBits \subseteq Mapped(regions) \cup Run(RegionStart(regions), pages * PageSlots)
    BY <1>1 DEF GrownBits, MetaSlots
  <1> DEFINE size == pages * PageSlots
             start == RegionStart(regions)
  <1>7. /\ ib = start + size /\ size \in Nat /\ size <= 4 * PageSlots /\ start \in Nat
        /\ start = regions * SlotsPerAMap
    BY <1>2, <1>3 DEF RegionStart
  <1> HIDE DEF pages, ib, size, start
  <1>8. /\ ib \in Nat /\ ib >= start /\ ib + n <= start + SlotsPerAMap
    BY <1>4, <1>7, GeometryAssumption
  <1>9. InOneRegion(regions + 1, ib, n)
    BY <1>1, <1>3, <1>8 DEF InOneRegion, start
  <1>10. ib \in Mapped(regions + 1)
    BY <1>3, <1>8, GeometryAssumption DEF Mapped, start
  <1>11. Run(ib, n) \cap GrownBits = {}
    <2>1. GrownBits \subseteq 0 .. start - 1 \cup start .. start + size - 1
      BY <1>6, <1>7 DEF Mapped, Run, size, start
    <2> QED
      BY <1>7, <1>8, <2>1 DEF Run
  <1> QED
    BY <1>5, <1>9, <1>10, <1>11 DEF Fits

LEMMA TakeFitGrants ==
  ASSUME IInv, NEW n \in Nat \ {0}, NEW align, TakeFit(n, align),
         \/ align = 1 /\ n <= MaxAllocSlots
         \/ align = PageSlots /\ n = PageSlots
  PROVE  GrantsFreshRun(n)
  <1> DEFINE now   == FirstFit(Fits(regions, bitmap, n, align), n)
             grown == FirstFit(Fits(regions + 1, GrownBits, n, align), n)
  <1>0. regions \in Nat /\ regions + 1 \in Nat
    BY DEF IInv, TypeOK
  <1>1. grown # {}
    <2>1. Fits(regions + 1, GrownBits, n, align) # {}
      BY FreshRegionFits
    <2>2. Fits(regions + 1, GrownBits, n, align) \in SUBSET Nat
      BY DEF Fits, Mapped
    <2> QED
      BY <2>1, <2>2, FirstFitFinds
  <1>2. ASSUME NEW run \in now, bitmap' = bitmap \cup run, regions' = regions
        PROVE  GrantsFreshRun(n)
    <2>1. PICK ib \in Mapped(regions) :
             run = Run(ib, n) /\ InOneRegion(regions, ib, n) /\ Run(ib, n) \cap bitmap = {}
      BY <1>0, FirstFitFits
    <2> QED
      BY <1>0, <1>2, <2>1 DEF GrantsFreshRun
  <1>3. ASSUME NEW run \in grown, bitmap' = GrownBits \cup run, regions' = regions + 1
        PROVE  GrantsFreshRun(n)
    <2>1. PICK ib \in Mapped(regions + 1) :
             /\ run = Run(ib, n) /\ InOneRegion(regions + 1, ib, n)
             /\ Run(ib, n) \cap GrownBits = {}
      BY <1>0, FirstFitFits
    <2> QED
      BY <1>0, <1>3, <2>1 DEF GrantsFreshRun, GrownBits
  <1> QED
    BY <1>1, <1>2, <1>3 DEF TakeFit

\* For every geometry, an allocation of a legal size always succeeds with a
\* fresh run inside one region: one more region is always enough.
THEOREM AllocationsGrantFreshRuns == Spec => AllocationsAreFresh
  <1> DEFINE Grants ==
        /\ \A n \in 1 .. MaxAllocSlots : Allocate(n) => GrantsFreshRun(n)
        /\ AllocatePage => GrantsFreshRun(PageSlots)
  <1>1. IInv /\ [Next]_vars => [Grants]_vars
    <2> SUFFICES ASSUME IInv PROVE Grants
      OBVIOUS
    <2>1. ASSUME NEW n \in 1 .. MaxAllocSlots, Allocate(n) PROVE GrantsFreshRun(n)
      BY <2>1, TakeFitGrants, GeometryAssumption DEF Allocate
    <2>2. ASSUME AllocatePage PROVE GrantsFreshRun(PageSlots)
      BY <2>2, TakeFitGrants, GeometryAssumption DEF AllocatePage
    <2> QED
      BY <2>1, <2>2
  <1> QED
    BY InitIInv, NextIInv, <1>1, PTL DEF Spec, AllocationsAreFresh

-----------------------------------------------------------------------------
(* What only Free takes back *)

\* A set slot outside the map pages of its region is held.
LEMMA HeldIff ==
  ASSUME NEW s
  PROVE  s \in HeldSlots <=> s \in bitmap /\ \E r \in 0 .. regions - 1 : s \in UserSlots(r)
  BY DEF HeldSlots

LEMMA HeldIffNext ==
  \A s : (s \in HeldSlots' <=> s \in bitmap' /\ \E r \in 0 .. regions' - 1 : s \in UserSlots(r))
  BY DEF HeldSlots, UserSlots, RegionSlots, MetaSlots

\* Free gives back exactly its run.
LEMMA FreeLoses ==
  ASSUME IInv, NEW ib \in Mapped(regions), NEW n \in 1 .. SlotsPerAMap, Free(ib, n)
  PROVE  HeldSlots \ HeldSlots' = Run(ib, n)
  <1>1. /\ \A r \in 0 .. regions - 1 : Run(ib, n) \cap MetaSlots(r) = {}
        /\ Run(ib, n) \subseteq bitmap /\ bitmap' = bitmap \ Run(ib, n)
        /\ regions' = regions
    BY DEF Free, coversMetadata
  <1>2. PICK r \in 0 .. regions - 1 : ib >= RegionStart(r) /\ ib + n <= RegionEnd(r)
    BY DEF Free, InOneRegion
  <1>3. RegionStart(r) \in Nat /\ RegionEnd(r) \in Nat /\ ib \in Nat /\ n \in Nat
    BY <1>2, RegionsOrdered DEF IInv, TypeOK, Mapped
  <1>4. Run(ib, n) \subseteq UserSlots(r)
    BY <1>1, <1>2, <1>3 DEF UserSlots, RegionSlots, Run
  <1> QED
    BY <1>1, <1>2, <1>4, HeldIff, HeldIffNext

\* Dropping trailing regions that hold map pages only loses no held slot.
LEMMA ShrinkLosesNothing ==
  ASSUME IInv, NEW min \in 1 .. regions, ShrinkTrailingEmpty(min)
  PROVE  HeldSlots \subseteq HeldSlots'
  <1>1. PICK keep \in 1 .. regions :
           /\ \A r \in keep .. regions - 1 : UserSlots(r) \cap bitmap = {}
           /\ regions' = keep /\ bitmap' = bitmap \cap Mapped(keep)
    BY DEF ShrinkTrailingEmpty, regionHasUserAlloc
  <1>2. ASSUME NEW r \in 0 .. regions - 1, NEW s \in UserSlots(r), s \in bitmap
        PROVE  r \in 0 .. keep - 1 /\ s \in Mapped(keep)
    <2>1. r < keep /\ r \in Nat /\ keep \in Nat
      BY <1>1, <1>2 DEF IInv, TypeOK
    <2>2. /\ RegionStart(r) \in Nat /\ RegionEnd(r) \in Nat
          /\ RegionEnd(r) <= keep * SlotsPerAMap /\ keep * SlotsPerAMap \in Nat
      BY <2>1, RegionsOrdered
    <2>3. s \in RegionStart(r) .. RegionEnd(r) - 1
      BY <1>2 DEF UserSlots, RegionSlots
    <2> QED
      BY <2>1, <2>2, <2>3 DEF Mapped
  <1> QED
    BY <1>1, <1>2, HeldIff, HeldIffNext

\* Whatever else is called keeps every set bit and every region.
LEMMA OthersLoseNothing ==
  ASSUME IInv, bitmap \subseteq bitmap', regions' \in {regions, regions + 1}
  PROVE  HeldSlots \subseteq HeldSlots'
  <1>1. regions \in Nat
    BY GeometryAssumption DEF IInv, TypeOK
  <1>2. \A r \in 0 .. regions - 1 : r \in 0 .. regions' - 1
    <2>1. CASE regions' = regions
      BY <2>1
    <2>2. CASE regions' = regions + 1
      BY <1>1, <2>2
    <2> QED
      BY <2>1, <2>2
  <1> QED
    BY <1>2, HeldIff, HeldIffNext

\* For every geometry, no step but a Free that covers it takes a slot from
\* the caller who holds it.
THEOREM HeldSlotsStay == Spec => HeldUntilFreed
  <1> DEFINE lost == HeldSlots \ HeldSlots'
             Freed == lost # {} => \E ib \in lost : Free(ib, Cardinality(lost))
  <1>1. IInv /\ [Next]_vars => [Freed]_vars
    <2> SUFFICES ASSUME IInv, Next PROVE Freed
      OBVIOUS
    <2>1. ASSUME HeldSlots \subseteq HeldSlots' PROVE Freed
      BY <2>1
    <2>2. ASSUME NEW ib \in Mapped(regions), NEW n \in 1 .. SlotsPerAMap, Free(ib, n)
          PROVE  Freed
      <3>1. lost = Run(ib, n)
        BY <2>2, FreeLoses
      <3>2. ib \in Int /\ n \in Int /\ n >= 1
        BY GeometryAssumption DEF Mapped
      <3>3. ib \in Run(ib, n) /\ Cardinality(Run(ib, n)) = n
        BY <3>2, FS_Interval DEF Run
      <3> QED
        BY <2>2, <3>1, <3>3
    <2>3. ASSUME NEW n, NEW align, TakeFit(n, align) PROVE Freed
      BY <2>1, <2>3, OthersLoseNothing DEF TakeFit, GrownBits
    <2>4. CASE Grow
      BY <2>1, <2>4, OthersLoseNothing DEF Grow, GrownBits
    <2>5. ASSUME NEW ib, NEW n, Reserve(ib, n) PROVE Freed
      BY <2>1, <2>5, OthersLoseNothing DEF Reserve
    <2>6. ASSUME NEW min \in 1 .. regions, ShrinkTrailingEmpty(min) PROVE Freed
      BY <2>1, <2>6, ShrinkLosesNothing
    <2> HIDE DEF Freed
    <2> QED
      BY <2>2, <2>3, <2>4, <2>5, <2>6 DEF Next, Allocate, AllocatePage
  <1> QED
    BY InitIInv, NextIInv, <1>1, PTL DEF Spec, HeldUntilFreed
=============================================================================
