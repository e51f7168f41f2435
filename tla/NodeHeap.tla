------------------------------ MODULE NodeHeap ------------------------------
(***************************************************************************)
(* The heap on a node (writer/v2/heap.go, heap_read.go) and the B-tree on  *)
(* the heap (bth.go) in which property and table contexts are kept.        *)
(*                                                                         *)
(* A heap under construction, h, is [sig, root, pages, subs, nextSub]; a   *)
(* page is the sequence of its allocations, an allocation [cb, data]. A    *)
(* view is what OpenHeap reads from the blocks. HIDs and HNIDs are packed  *)
(* numbers as in the code, so that one of them can be taken for the other. *)
(***************************************************************************)
EXTENDS NodeTrees

CONSTANTS
  HNHDRSize, HNPAGEHDRSize, HNBITMAPHDRSize, \* headers of the pages
  HNFirstBitmap,      \* 8: the first page whose header is a bitmap
  HNBitmapEvery,      \* 128: how many pages a bitmap covers
  HNFillLevels,       \* the free bytes of fill levels 0, 1 and 2
  HNMaxAllocsPerPage,
  HNMaxBlockIndex,
  HeapMaxAlloc,
  BTHHeaderSize

ASSUME HeapAssumption ==
  /\ {HNHDRSize, HNPAGEHDRSize, HNBITMAPHDRSize, HNMaxBlockIndex, BTHHeaderSize,
      HeapMaxAlloc, HNMaxAllocsPerPage} \subseteq Nat
  /\ HNFirstBitmap \in Nat \ {0} /\ HNBitmapEvery \in Nat \ {0}
  /\ HNFillLevels \in Seq(Nat) /\ Len(HNFillLevels) = 3
  /\ BTHHeaderSize <= HeapMaxAlloc

-----------------------------------------------------------------------------
(* Identifiers *)

NIDTypeLTP == 31

MakeHID(page, alloc) == page * 65536 + (alloc + 1) * 32

HIDBlock(hid) == hid \div 65536

HIDIndex(hid) == (hid \div 32) % 2048

IsHID(hnid) == hnid % 32 = 0

MakeNID(type, index) == index * 32 + type

NIDTypeOf(nid) == nid % 32

\* The node with the same index and another type.
RelatedNID(nid, type) == (nid \div 32) * 32 + type

-----------------------------------------------------------------------------
(* Pages *)

hnBitmapPage(i) == i >= HNFirstBitmap /\ (i - HNFirstBitmap) % HNBitmapEvery = 0

hnHeaderSize(i) ==
  IF i = 0 THEN HNHDRSize
  ELSE IF hnBitmapPage(i) THEN HNBITMAPHDRSize ELSE HNPAGEHDRSize

hnFillLevel(cbFree) ==
  CASE cbFree >= HNFillLevels[1] -> 0
    [] cbFree >= HNFillLevels[2] /\ cbFree < HNFillLevels[1] -> 1
    [] cbFree >= HNFillLevels[3] /\ cbFree < HNFillLevels[2] -> 2
    [] OTHER -> 3

Bytes(allocs) == Total([j \in DOMAIN allocs |-> allocs[j].cb])

\* Header, allocations and page map of the page with index i.
PageSize(i, allocs) ==
  hnHeaderSize(i) + Bytes(allocs) + 4 + 2 * (Len(allocs) + 1)

\* The page with index i is pages[i + 1].
fits(h, i, cb) ==
  /\ Len(h.pages[i + 1]) < HNMaxAllocsPerPage
  /\ PageSize(i, h.pages[i + 1]) + cb + 2 <= MaxDataBlockCB

NewHeap(sig) == [sig |-> sig, root |-> 0, pages |-> <<>>, subs |-> <<>>, nextSub |-> 1]

Placed(h, hnid) == [heap |-> h, hnid |-> hnid]

\* bid and sub are the trees of a subnode that is written already, else 0.
HeapSub(nid, a, leafCB, bid, sub) ==
  [nid |-> nid, cb |-> a.cb, data |-> a.data, leafCB |-> leafCB, bid |-> bid, sub |-> sub]

\* A subnode written when the heap is.
newSubChunked(h, a, leafCB) ==
  LET nid == MakeNID(NIDTypeLTP, h.nextSub)
  IN  Placed([h EXCEPT !.subs = Append(@, HeapSub(nid, a, leafCB, 0, 0)),
                       !.nextSub = @ + 1], nid)

newSub(h, a) == newSubChunked(h, a, MaxDataBlockCB)

\* A heap has at least one page when anything is placed in it.
WithPage(h) == IF h.pages = <<>> THEN [h EXCEPT !.pages = <<<<>>>>] ELSE h

\* On the last page, i, if a fits there.
AllocateLast(h, i, a) ==
  IF fits(h, i, a.cb)
  THEN Placed([h EXCEPT !.pages[i + 1] = Append(@, a)], MakeHID(i, Len(h.pages[i + 1])))
  ELSE Placed(h, Refused)

AllocatePage(h, i, a) ==
  IF \/ fits(h, i, a.cb)
     \/ i >= HNMaxBlockIndex
     \/ h.pages[i + 1] = <<>> /\ a.cb + hnHeaderSize(i) + 6 > MaxDataBlockCB
  THEN AllocateLast(h, i, a)
  ELSE AllocateLast([h EXCEPT !.pages = Append(@, <<>>)], i + 1, a)

\* The last page, or a new one; pages before it are never filled up. An error
\* leaves the new page.
Allocate(h, a) ==
  IF a.cb > HeapMaxAlloc THEN newSub(h, a)
  ELSE AllocatePage(WithPage(h), Len(WithPage(h).pages) - 1, a)

AlsoPlaced(hnids, p) ==
  [heap |-> p.heap, hnids |-> Append(hnids, p.hnid), ok |-> p.hnid # Refused]

\* The allocations of a sequence one after the other, until one is refused.
AllocateAll(h, allocs) ==
  FoldLeft(LAMBDA s, a :
             IF s.ok THEN AlsoPlaced(s.hnids, Allocate(s.heap, a)) ELSE s,
           [heap |-> h, hnids |-> <<>>, ok |-> TRUE], allocs)

\* A subnode over the data tree t, which is in the catalog.
StreamedSub(h, t) ==
  LET nid == MakeNID(NIDTypeLTP, h.nextSub)
  IN  [cat  |-> t.cat,
       heap |-> IF t.bid = Refused THEN h
                ELSE [h EXCEPT !.subs = Append(@, HeapSub(nid, Empty, 0, t.bid, 0)),
                               !.nextSub = @ + 1],
       hnid |-> IF t.bid = Refused THEN Refused ELSE nid]

InCatalog(cat, p) == [cat |-> cat, heap |-> p.heap, hnid |-> p.hnid]

\* AllocateStream of a reader with left bytes of data. A large value goes into
\* the catalog at once, its data tree without an owner until the heap is
\* written; a reader that ends early leaves the leaves it filled.
AllocateStream(c, h, a, left) ==
  IF a.cb <= HeapMaxAlloc
  THEN InCatalog(c, IF left < a.cb THEN Placed(h, Refused) ELSE Allocate(h, a))
  ELSE IF left < a.cb
  THEN InCatalog(PutBlocks(c, Slices(a.data, left, MaxDataBlockCB)), Placed(h, Refused))
  ELSE StreamedSub(h, streamDataTree(c, a.data, a.cb))

-----------------------------------------------------------------------------
(* Writing *)

\* encodePages and encodeHNPage. Page 0 has the fill levels of the pages before
\* the first bitmap, a bitmap page those from itself on.
encodePages(h) ==
  LET n == Len(h.pages)
      level(i) == hnFillLevel(MaxDataBlockCB - PageSize(i, h.pages[i + 1]))
      fill(i) ==
        IF i = 0 THEN [j \in 0 .. Min({n, HNFirstBitmap}) - 1 |-> level(j)]
        ELSE IF hnBitmapPage(i)
        THEN [j \in 0 .. Min({n - i, HNBitmapEvery}) - 1 |-> level(i + j)]
        ELSE <<>>
  IN  [k \in 1 .. n |->
         Leaf(PageSize(k - 1, h.pages[k]),
              [allocs |-> h.pages[k], fill |-> fill(k - 1), sig |-> h.sig, root |-> h.root])]

AlsoPut(s, nid, t) ==
  [cat |-> t.cat, ents |-> Append(s.ents, SLEntry(nid, t.bid, 0)),
   ok |-> s.ok /\ t.bid # Refused]

\* The entry of one sub, written now unless its data tree is there already.
PutSub(s, sub) ==
  IF sub.bid # 0
  THEN [s EXCEPT !.ents = Append(@, SLEntry(sub.nid, sub.bid, sub.sub))]
  ELSE AlsoPut(s, sub.nid, putDataLeaves(s.cat, sub.data, sub.cb, sub.leafCB))

SortedByNID(ents) == SortSeq(ents, LAMBDA a, b : a.nid < b.nid)

Materialized(data, subsOK, sub) ==
  [cat |-> sub.cat, data |-> data.bid, sub |-> sub.bid,
   ok |-> data.bid # Refused /\ subsOK /\ sub.bid # Refused]

OverSubs(data, s) ==
  Materialized(data, s.ok, buildSubnodeTree(s.cat, SortedByNID(s.ents)))

PutSubs(data, subs) ==
  OverSubs(data, FoldLeft(PutSub, [cat |-> data.cat, ents |-> <<>>, ok |-> TRUE], subs))

\* A block for every page, the data tree over them, the subs and the subnode
\* tree over them.
materialize(c, h) == PutSubs(PutLeaves(c, encodePages(WithPage(h))), h.subs)

WithSub(h, nid, m) ==
  [cat |-> m.cat, ok |-> m.ok,
   heap |-> [h EXCEPT !.subs = Append(@, HeapSub(nid, Empty, 0, m.data, m.sub))]]

\* child becomes the subnode nid of h.
AttachHeap(c, h, nid, child) == WithSub(h, nid, materialize(c, child))

-----------------------------------------------------------------------------
(* Reading *)

\* The fill levels the headers hold are those of the pages that were read.
checkFill(blocks, leaves) ==
  LET page(i)  == blocks[leaves[i + 1]].data
      level(i) == hnFillLevel(MaxDataBlockCB - blocks[leaves[i + 1]].cb)
      n == Len(leaves)
  IN  /\ \A i \in 0 .. Min({HNFirstBitmap, n}) - 1 : page(0).fill[i] = level(i)
      /\ \A i \in 1 .. n - 1 : hnBitmapPage(i) =>
           \A j \in 0 .. Min({HNBitmapEvery, n - i}) - 1 : page(i).fill[j] = level(i + j)

NoView == [ok |-> FALSE]

HeapPages(blocks, leaves, sub) ==
  LET page(i) == blocks[leaves[i]].data
  IN  IF /\ leaves # <<>>
         /\ \A i \in DOMAIN leaves : "allocs" \in DOMAIN page(i)
         /\ checkFill(blocks, leaves)
      THEN [ok |-> TRUE, blocks |-> blocks, sub |-> sub, sig |-> page(1).sig,
            root |-> page(1).root,
            pages |-> [i \in DOMAIN leaves |-> page(i).allocs]]
      ELSE NoView

\* OpenHeap of a node and openHeapBids.
openHeapBids(blocks, data, sub) ==
  IF validateDataTree(blocks, data)
  THEN HeapPages(blocks, dataTreeLeaves(blocks, data), sub)
  ELSE NoView

\* The entries of nid, of which a walk keeps the last.
SubnodeEntries(v, nid) ==
  SelectSeq(WalkSubnodes(v.blocks, v.sub), LAMBDA e : e.nid = nid)

ReadEntry(v, found) ==
  IF found = <<>> THEN Garbled ELSE ReadAll(v.blocks, Last(found).data)

readSub(v, nid) ==
  IF v.sub # 0 /\ ~ subnodeShape(v.blocks, v.sub) THEN Garbled
  ELSE ReadEntry(v, SubnodeEntries(v, nid))

\* HeapView.Read: an allocation [cb, data].
Read(v, hnid) ==
  IF hnid = 0 THEN Empty
  ELSE IF ~ IsHID(hnid) THEN readSub(v, hnid)
  ELSE IF /\ HIDBlock(hnid) < Len(v.pages)
          /\ HIDIndex(hnid) \in 1 .. Len(v.pages[HIDBlock(hnid) + 1])
       THEN v.pages[HIDBlock(hnid) + 1][HIDIndex(hnid)]
       ELSE Garbled

-----------------------------------------------------------------------------
(* The B-tree on the heap. An entry is [key, val]; a node is a sequence of   *)
(* entries, in an index val is the HNID of the node below.                   *)

BTHNode(ents, size) == [cb |-> Len(ents) * size, data |-> ents]

\* Seeded bug: an index repeats the first key of the node below.
FirstEntryKey(ents) == ents[1].key

LastEntryKey(ents) == Last(ents).key

\* One node for each run of entries, and the entries of the level above.
LevelAbove(s, runs, p) ==
  IF ~ p.ok THEN [s EXCEPT !.heap = p.heap, !.ok = FALSE]
  ELSE [heap |-> p.heap, ok |-> TRUE, level |-> s.level + 1,
        ents |-> [i \in DOMAIN runs |->
                    [key |-> LastEntryKey(runs[i]), val |-> p.hnids[i]]]]

PackRuns(s, runs, size) ==
  LevelAbove(s, runs, AllocateAll(s.heap, [i \in DOMAIN runs |-> BTHNode(runs[i], size)]))

PackLevel(s, size) == PackRuns(s, Runs(s.ents, HeapMaxAlloc \div size), size)

\* Leaves, then index levels until one node is left; a single leaf has one
\* entry in the level above.
BTHLevels(start, keySize, valSize) ==
  LET up[k \in Nat] ==
        IF k = 0 THEN PackLevel(start, keySize + valSize)
        ELSE LET s == up[k - 1]
             IN  IF ~ s.ok \/ Len(s.ents) = 1 THEN s ELSE PackLevel(s, keySize + 4)
  IN  IF start.ents = <<>> THEN [start EXCEPT !.level = 0] ELSE up[Len(start.ents)]

\* What was placed becomes the root of the heap.
AsRoot(p) ==
  IF p.hnid = Refused THEN p ELSE Placed([p.heap EXCEPT !.root = p.hnid], p.hnid)

PutBTHHeader(top, keySize, valSize) ==
  LET header == [levels |-> top.level, keySize |-> keySize, valSize |-> valSize,
                 root |-> IF top.ents = <<>> THEN 0 ELSE top.ents[1].val]
  IN  IF top.ok THEN AsRoot(Allocate(top.heap, [cb |-> BTHHeaderSize, data |-> header]))
      ELSE Placed(top.heap, Refused)

\* Build. Entries are inserted in any order.
BuildBTH(h, ents, keySize, valSize) ==
  PutBTHHeader(BTHLevels([heap |-> h, ok |-> TRUE, level |-> -1,
                          ents |-> SortSeq(ents, LAMBDA a, b : a.key < b.key)],
                         keySize, valSize),
               keySize, valSize)

EntriesIn(a) == IF a.cb = Refused THEN <<>> ELSE a.data

\* Entries of the node, <<>> when the bytes at hnid are none.
BTHEnts(v, hnid) == EntriesIn(Read(v, hnid))

\* The child an index leads to: the first whose key is not below k, else the
\* last.
NextLevel(ents, k) ==
  LET at == {i \in DOMAIN ents : k <= ents[i].key}
  IN  ents[IF at = {} THEN Len(ents) ELSE Min(at)].val

LookupBelow(v, b, k) ==
  LET down[l \in Nat] ==
        IF l = 0 THEN b.root ELSE NextLevel(BTHEnts(v, down[l - 1]), k)
  IN  IF b.root = 0 THEN <<>>
      ELSE SelectSeq(BTHEnts(v, down[b.levels]), LAMBDA e : e.key = k)

\* Lookup: the values of key k, none or one.
LookupBTH(v, header, k) == LookupBelow(v, Read(v, header).data, k)

BelowEntries(v, ents) ==
  FlattenSeq([i \in DOMAIN ents |-> BTHEnts(v, ents[i].val)])

CollectBelow(v, b) ==
  LET all[l \in Nat] == BelowEntries(v, IF l = 0 THEN <<[val |-> b.root]>> ELSE all[l - 1])
  IN  IF b.root = 0 THEN <<>> ELSE all[b.levels]

\* Entries: all of them, from the left.
CollectBTH(v, header) == CollectBelow(v, Read(v, header).data)
=============================================================================
