------------------------------ MODULE AllocMap ------------------------------
(***************************************************************************)
(* The v2 writer's space allocator: Store in writer/v2/store.go over the   *)
(* page geometry of writer/v2/geometry.go.                                 *)
(*                                                                         *)
(* A file offset is counted in 64-byte slots past FirstAMapPageOffset, so  *)
(* AMap region r covers the slots r*SlotsPerAMap .. (r+1)*SlotsPerAMap-1   *)
(* (the coverage of an AMap page is a whole number of slots) and an offset *)
(* is page aligned exactly when its slot number is a multiple of PageSlots *)
(* (0x4400 and the coverage are multiples of 512).                         *)
(***************************************************************************)
EXTENDS Integers, FiniteSets

CONSTANTS
  SlotsPerAMap,   \* slots one AMap page maps (3968 in a real file)
  PageSlots,      \* slots of one 512-byte page (8)
  MaxAllocSlots,  \* MaxAllocBytes in slots (128)
  AMapsPerPMap,   \* a PMap page every so many regions (8)
  FMapFirst,      \* FMapHeaderAMaps (128): region of the first FMap page
  FMapEvery,      \* FMapPageAMaps (496)
  FPMapFirst,     \* FPMapHeaderPMaps (1024), counted in PMaps
  FPMapEvery,     \* FPMapPagePMaps (3968), counted in PMaps
  MaxRegions      \* bound of the model on the file's growth

\* The room a fresh region always has: four map pages at most, then the
\* largest allocation, page aligned.
ASSUME GeometryAssumption ==
  /\ PageSlots \in Nat \ {0}
  /\ SlotsPerAMap \in Nat \ {0}
  /\ MaxAllocSlots \in Nat \ {0}
  /\ SlotsPerAMap % PageSlots = 0
  /\ 4 * PageSlots + MaxAllocSlots <= SlotsPerAMap
  /\ 5 * PageSlots <= SlotsPerAMap
  /\ AMapsPerPMap \in Nat \ {0}
  /\ FMapFirst \in Nat /\ FMapEvery \in Nat \ {0}
  /\ FPMapFirst \in Nat /\ FPMapEvery \in Nat \ {0}
  /\ MaxRegions \in Nat \ {0}

VARIABLES
  regions,        \* len(s.regions)
  bitmap,         \* the set bits of all AMap bitmaps
  lastAllocAMap   \* s.lastAllocAMap, the region DList calls current

vars == <<regions, bitmap, lastAllocAMap>>

-----------------------------------------------------------------------------
(* Geometry *)

RegionStart(r) == r * SlotsPerAMap

RegionEnd(r) == (r + 1) * SlotsPerAMap

RegionSlots(r) == RegionStart(r) .. RegionEnd(r) - 1

\* The slots of the first n regions.
Mapped(n) == 0 .. n * SlotsPerAMap - 1

Run(ib, n) == ib .. ib + n - 1

fmapPageIndex(r) == r >= FMapFirst /\ (r - FMapFirst) % FMapEvery = 0

fpmapPageIndex(r) ==
  LET pmap == r \div AMapsPerPMap
  IN  /\ r % AMapsPerPMap = 0
      /\ pmap >= FPMapFirst
      /\ (pmap - FPMapFirst) % FPMapEvery = 0

\* The number of map pages at the start of region r: always an AMap, then the
\* PMap, FMap and FPMap pages whose period r meets, each after the last.
RegionMapPages(r) ==
  1 + (IF r % AMapsPerPMap = 0 THEN 1 ELSE 0)
    + (IF fmapPageIndex(r) THEN 1 ELSE 0)
    + (IF fpmapPageIndex(r) THEN 1 ELSE 0)

MetaSlots(r) == Run(RegionStart(r), RegionMapPages(r) * PageSlots)

\* The slots of region r that do not belong to its map pages.
UserSlots(r) == RegionSlots(r) \ MetaSlots(r)

-----------------------------------------------------------------------------
(* Operations *)

\* Whether n slots from ib lie in one of the first k regions.
InOneRegion(k, ib, n) ==
  \E r \in 0 .. k - 1 : ib >= RegionStart(r) /\ ib + n <= RegionEnd(r)

\* Seeded bug: the last slot of the run is not looked at.
FitsShort(k, bits, n, align) ==
  {ib \in Mapped(k) : /\ ib % align = 0
                      /\ InOneRegion(k, ib, n)
                      /\ Run(ib, n - 1) \cap bits = {}}

\* The offsets where a run of n slots is free, inside one region, and a
\* multiple of align: what firstFit (align 1) and firstFitAligned scan for.
Fits(k, bits, n, align) ==
  {ib \in Mapped(k) : /\ ib % align = 0
                      /\ InOneRegion(k, ib, n)
                      /\ Run(ib, n) \cap bits = {}}

\* The run of n slots at the lowest offset of S; none when S is empty.
FirstFit(S, n) == {Run(ib, n) : ib \in {x \in S : \A other \in S : x <= other}}

\* A region appended, its map pages marked.
GrownBits == bitmap \cup MetaSlots(regions)

Grow ==
  /\ regions < MaxRegions
  /\ regions' = regions + 1
  /\ bitmap' = GrownBits
  /\ UNCHANGED lastAllocAMap

\* The part Allocate and AllocatePage share: the lowest fit in the file as it
\* is, else one more region and the lowest fit in that file.
TakeFit(n, align) ==
  LET now   == FirstFit(Fits(regions, bitmap, n, align), n)
      grown == FirstFit(Fits(regions + 1, GrownBits, n, align), n)
  IN  \/ \E run \in now :
           /\ bitmap' = bitmap \cup run
           /\ lastAllocAMap' \in {s \div SlotsPerAMap : s \in run}
           /\ UNCHANGED regions
      \/ /\ now = {}
         /\ regions < MaxRegions
         /\ regions' = regions + 1
         /\ IF grown = {}              \* limit error: the region stays
            THEN bitmap' = GrownBits /\ UNCHANGED lastAllocAMap
            ELSE \E run \in grown :
                   /\ bitmap' = GrownBits \cup run
                   /\ lastAllocAMap' \in {s \div SlotsPerAMap : s \in run}

Allocate(n) == n \in 1 .. MaxAllocSlots /\ TakeFit(n, 1)

AllocatePage == TakeFit(PageSlots, PageSlots)

\* Marks a given run. Refused when it leaves its region or meets a set slot.
Reserve(ib, n) ==
  /\ n \in 1 .. MaxAllocSlots
  /\ InOneRegion(regions, ib, n)
  /\ Run(ib, n) \cap bitmap = {}
  /\ bitmap' = bitmap \cup Run(ib, n)
  /\ UNCHANGED <<regions, lastAllocAMap>>

\* Seeded bug: only the AMap page counts as metadata.
coversAMapPage(ib, n) ==
  \E r \in 0 .. regions - 1 : Run(ib, n) \cap Run(RegionStart(r), PageSlots) # {}

coversMetadata(ib, n) ==
  \E r \in 0 .. regions - 1 : Run(ib, n) \cap MetaSlots(r) # {}

\* Refused on a map page, outside the file, or when a slot is already free.
Free(ib, n) ==
  /\ n \in 1 .. SlotsPerAMap
  /\ ~ coversMetadata(ib, n)
  /\ InOneRegion(regions, ib, n)
  /\ Run(ib, n) \subseteq bitmap
  /\ bitmap' = bitmap \ Run(ib, n)
  /\ UNCHANGED <<regions, lastAllocAMap>>

\* Seeded bug: the scan stops before the last slot.
regionHasUserAllocShort(r) ==
  (UserSlots(r) \ {RegionEnd(r) - 1}) \cap bitmap # {}

regionHasUserAlloc(r) == UserSlots(r) \cap bitmap # {}

\* Seeded bug: the bits of the dropped regions stay.
ShrinkKeepsBits(min) ==
  \E keep \in 1 .. regions :
    /\ \A r \in keep .. regions - 1 : r >= min /\ ~ regionHasUserAlloc(r)
    /\ keep > min => regionHasUserAlloc(keep - 1)
    /\ regions' = keep
    /\ lastAllocAMap' = IF lastAllocAMap >= keep THEN keep - 1 ELSE lastAllocAMap
    /\ UNCHANGED bitmap

\* Seeded bug: the current region is not moved back.
ShrinkKeepsCurrent(min) ==
  \E keep \in 1 .. regions :
    /\ \A r \in keep .. regions - 1 : r >= min /\ ~ regionHasUserAlloc(r)
    /\ keep > min => regionHasUserAlloc(keep - 1)
    /\ regions' = keep
    /\ bitmap' = bitmap \cap Mapped(keep)
    /\ UNCHANGED lastAllocAMap

\* Drops trailing regions that hold map pages only, never below min.
ShrinkTrailingEmpty(min) ==
  \E keep \in 1 .. regions :
    /\ \A r \in keep .. regions - 1 : r >= min /\ ~ regionHasUserAlloc(r)
    /\ keep > min => regionHasUserAlloc(keep - 1)
    /\ regions' = keep
    /\ bitmap' = bitmap \cap Mapped(keep)
    /\ lastAllocAMap' = IF lastAllocAMap >= keep THEN keep - 1
                                                 ELSE lastAllocAMap

Init ==
  /\ regions = 1
  /\ bitmap = MetaSlots(0)
  /\ lastAllocAMap = 0

Next ==
  \/ Grow
  \/ \E n \in 1 .. MaxAllocSlots : Allocate(n)
  \/ AllocatePage
  \/ \E ib \in Mapped(regions), n \in 1 .. MaxAllocSlots : Reserve(ib, n)
  \/ \E ib \in Mapped(regions), n \in 1 .. SlotsPerAMap : Free(ib, n)
  \/ \E min \in 1 .. regions : ShrinkTrailingEmpty(min)

Spec == Init /\ [][Next]_vars

-----------------------------------------------------------------------------
(* The image a commit writes and what LoadStoreFrom asks of it *)

\* encodeDList: the regions with free slots, and the current region.
DList == [pages   |-> {r \in 0 .. regions - 1 : RegionSlots(r) \ bitmap # {}},
          current |-> lastAllocAMap]

Image == [amapLast |-> regions - 1,
          fileEOF  |-> RegionEnd(regions - 1),
          amapFree |-> Cardinality(Mapped(regions) \ bitmap),
          bits     |-> bitmap,
          dlist    |-> DList]

LoadStoreFrom(img) ==
  LET last == img.amapLast
  IN  /\ img.fileEOF = RegionEnd(last)
      /\ \A p \in img.dlist.pages : p <= last
      /\ img.dlist.current <= last
      /\ \A r \in 0 .. last : MetaSlots(r) \subseteq img.bits
      /\ img.amapFree = Cardinality(Mapped(last + 1) \ img.bits)
      /\ img.bits \subseteq Mapped(last + 1)

-----------------------------------------------------------------------------
(* Properties *)

TypeOK ==
  /\ regions \in 1 .. MaxRegions
  /\ bitmap \subseteq Mapped(regions)
  /\ lastAllocAMap \in 0 .. MaxRegions - 1

\* No sequence of allocations, frees and shrinks ever leaves a slot of a map
\* page free: Free refuses the pages Grow reserved (store.go coversMetadata),
\* so no block or tree page is ever placed over an AMap, PMap, FMap or FPMap.
MetadataReserved ==
  \A r \in 0 .. regions - 1 : MetaSlots(r) \subseteq bitmap

\* lastAllocAMap names an existing region, also after trailing regions went.
CurrentRegionExists == lastAllocAMap < regions

\* Whatever was called before, the image of the store passes every check of
\* LoadStoreFrom: a committed file can always be reopened.
ImageLoads == LoadStoreFrom(Image)

\* What an allocation of n slots hands out: fresh slots, one run, inside one
\* region, and nothing else in the bitmap changes but the map pages of a
\* region that was added. Two live allocations therefore never overlap.
GrantsFreshRun(n) ==
  LET kept == bitmap \cup (IF regions' > regions THEN MetaSlots(regions) ELSE {})
  IN  \E ib \in Mapped(regions') :
        /\ InOneRegion(regions', ib, n)
        /\ Run(ib, n) \cap kept = {}
        /\ bitmap' = kept \cup Run(ib, n)

\* Every Allocate of a legal size, and every AllocatePage, succeeds with a
\* fresh run: one more region is always enough (the error after Grow in
\* Allocate is never returned).
AllocationsAreFresh ==
  [][/\ \A n \in 1 .. MaxAllocSlots : Allocate(n) => GrantsFreshRun(n)
     /\ AllocatePage => GrantsFreshRun(PageSlots)]_vars

\* The slots some caller holds.
HeldSlots == UNION {UserSlots(r) \cap bitmap : r \in 0 .. regions - 1}

\* A slot a caller holds stays allocated until a Free that covers it: when
\* held slots go, they are exactly the run one Free took. Growing, reserving
\* and in particular ShrinkTrailingEmpty never release one.
HeldUntilFreed ==
  [][LET lost == HeldSlots \ HeldSlots'
     IN  lost # {} => \E ib \in lost : Free(ib, Cardinality(lost))]_vars
=============================================================================
