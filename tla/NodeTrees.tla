----------------------------- MODULE NodeTrees ------------------------------
(***************************************************************************)
(* Data trees and subnode trees as blocks: writer/v2/xblock.go and         *)
(* subnode.go, with putDataLeaves of heap.go.                              *)
(*                                                                         *)
(* A catalog c is [blocks, next]: the blocks by BID and the next BID. The  *)
(* kind of a block says whether its BID is internal: "data" is external,   *)
(* "x" (XBLOCK, XXBLOCK), "sl" and "si" are not. An operation gives back   *)
(* the catalog after it and the BID of its root, 0 for no tree, Refused    *)
(* when it returns an error; the caller's transaction then restores the    *)
(* catalog. A payload is cut into slices [data, off, cb]: cb bytes of data *)
(* from offset off.                                                        *)
(***************************************************************************)
EXTENDS Integers, Sequences, FiniteSets, SequencesExt

CONSTANTS
  MaxDataBlockCB,
  MaxXBlockEntries,
  MaxSLBlockEntries,
  MaxSIBlockEntries,
  NoData \* the contents of no bytes

ASSUME TreeAssumption ==
  {MaxDataBlockCB, MaxXBlockEntries, MaxSLBlockEntries, MaxSIBlockEntries}
    \subseteq Nat \ {0}

Refused == -1

Built(c, bid) == [cat |-> c, bid |-> bid]

\* AllocBlock or AllocInternalBlock and putPayload, for every block of a
\* sequence.
PutBlocks(c, blks) ==
  [blocks |-> c.blocks @@ [b \in c.next .. c.next + Len(blks) - 1 |-> blks[b - c.next + 1]],
   next |-> c.next + Len(blks)]

FreshBIDs(c, n) == [i \in 1 .. n |-> c.next + i - 1]

\* s cut into runs of n, the last one shorter.
Runs(s, n) ==
  [i \in 1 .. (Len(s) + n - 1) \div n |->
     SubSeq(s, (i - 1) * n + 1, IF i * n < Len(s) THEN i * n ELSE Len(s))]

Total(s) == FoldLeft(LAMBDA sum, x : sum + x, 0, s)

StrictlyIncreasing(s) == \A i \in 1 .. Len(s) - 1 : s[i] < s[i + 1]

IsKind(blocks, bid, kind) == bid \in DOMAIN blocks /\ blocks[bid].kind = kind

-----------------------------------------------------------------------------
(* Data trees *)

Leaf(cb, data) == [kind |-> "data", cb |-> cb, data |-> data]

EncodeXBlock(level, total, bids) ==
  [kind |-> "x", level |-> level, total |-> total, bids |-> bids]

SumCB(blocks, bids) == Total([i \in DOMAIN bids |-> blocks[bids[i]].cb])

OverXBlocks(c, total, bids) ==
  IF Len(bids) = 1 THEN Built(c, bids[1])
  ELSE IF Len(bids) > MaxXBlockEntries THEN Built(c, Refused)
  ELSE Built(PutBlocks(c, <<EncodeXBlock(2, total, bids)>>), c.next)

PutXBlocks(c, runs, total) ==
  OverXBlocks(PutBlocks(c, [i \in DOMAIN runs |->
                EncodeXBlock(1, SumCB(c.blocks, runs[i]), runs[i])]),
              total, FreshBIDs(c, Len(runs)))

\* The leaves under XBLOCKs, the XBLOCKs under one XXBLOCK; there is no third
\* level.
buildDataTree(c, leaves) ==
  IF Len(leaves) = 1 THEN Built(c, leaves[1])
  ELSE PutXBlocks(c, Runs(leaves, MaxXBlockEntries), SumCB(c.blocks, leaves))

Slices(data, cb, leafCB) ==
  [i \in 1 .. (cb + leafCB - 1) \div leafCB |->
     LET off == (i - 1) * leafCB
         len == IF off + leafCB > cb THEN cb - off ELSE leafCB
     IN  Leaf(len, [data |-> data, off |-> off, cb |-> len])]

PutLeaves(c, leaves) ==
  buildDataTree(PutBlocks(c, leaves), FreshBIDs(c, Len(leaves)))

\* Also streamDataTree, whose leaves have MaxDataBlockCB bytes. No bytes are
\* no tree.
putDataLeaves(c, data, cb, leafCB) ==
  IF cb = 0 THEN Built(c, 0) ELSE PutLeaves(c, Slices(data, cb, leafCB))

streamDataTree(c, data, cb) == putDataLeaves(c, data, cb, MaxDataBlockCB)

XChildren(blocks, bid) ==
  IF IsKind(blocks, bid, "x") THEN blocks[bid].bids ELSE <<>>

\* The BIDs dataTreeIter visits below root, leaf by leaf.
dataTreeLeaves(blocks, root) ==
  IF root = 0 THEN <<>>
  ELSE IF ~ IsKind(blocks, root, "x") THEN <<root>>
  ELSE IF blocks[root].level = 1 THEN blocks[root].bids
  ELSE FlattenSeq([i \in DOMAIN blocks[root].bids |->
                     XChildren(blocks, blocks[root].bids[i])])

LeavesAddUp(blocks, root, leaves) ==
  /\ \A i \in DOMAIN leaves : IsKind(blocks, leaves[i], "data")
  /\ IsInjective(leaves)
  /\ IsKind(blocks, root, "x") => blocks[root].total = SumCB(blocks, leaves)

InnerBlocks(blocks, inner) ==
  /\ IsInjective(inner)
  /\ \A i \in DOMAIN inner : IsKind(blocks, inner[i], "x") /\ blocks[inner[i]].level = 1

\* walkDataTree ends without an error: nothing is missing, of the wrong kind
\* or visited twice, and the leaves add up to lcbTotal.
validateDataTree(blocks, root) ==
  /\ LeavesAddUp(blocks, root, dataTreeLeaves(blocks, root))
  /\ IsKind(blocks, root, "x") =>
       (blocks[root].level = 2 => InnerBlocks(blocks, blocks[root].bids))

Garbled == [cb |-> Refused, data |-> NoData]

Empty == [cb |-> 0, data |-> NoData]

\* The value whose slices the leaves are, in order and without a gap.
ReadLeaves(blocks, leaves) ==
  LET part(i) == blocks[leaves[i]].data
  IN  IF leaves = <<>> THEN Empty
      ELSE IF \A i \in DOMAIN leaves :
                /\ part(i).data = part(1).data
                /\ part(i).off = SumCB(blocks, SubSeq(leaves, 1, i - 1))
           THEN [cb |-> SumCB(blocks, leaves), data |-> part(1).data]
           ELSE Garbled

\* OpenDataTree and ReadAll.
ReadAll(blocks, root) ==
  IF validateDataTree(blocks, root) THEN ReadLeaves(blocks, dataTreeLeaves(blocks, root))
  ELSE Garbled

-----------------------------------------------------------------------------
(* Subnode trees *)

SLEntry(nid, data, sub) == [nid |-> nid, data |-> data, sub |-> sub]

EncodeSLBlock(ents) == [kind |-> "sl", ents |-> ents]

EncodeSIBlock(kids) == [kind |-> "si", kids |-> kids]

Nids(ents) == [i \in DOMAIN ents |-> ents[i].nid]

\* The entries WalkSubnodes visits; a block that is not there has none.
WalkSubnodes(blocks, root) ==
  IF IsKind(blocks, root, "sl") THEN blocks[root].ents
  ELSE IF IsKind(blocks, root, "si")
  THEN FlattenSeq([i \in DOMAIN blocks[root].kids |->
         LET ref == blocks[root].kids[i].ref
         IN  IF IsKind(blocks, ref, "sl") THEN blocks[ref].ents ELSE <<>>])
  ELSE <<>>

\* InspectSubnodeBlock and the comparison of separators with first keys.
subnodeShape(blocks, root) ==
  /\ \/ IsKind(blocks, root, "sl") /\ StrictlyIncreasing(Nids(blocks[root].ents))
     \/ /\ IsKind(blocks, root, "si")
        /\ StrictlyIncreasing([i \in DOMAIN blocks[root].kids |-> blocks[root].kids[i].key])
        /\ \A i \in DOMAIN blocks[root].kids :
             LET k == blocks[root].kids[i]
             IN  /\ IsKind(blocks, k.ref, "sl")
                 /\ StrictlyIncreasing(Nids(blocks[k.ref].ents))
                 /\ k.key = blocks[k.ref].ents[1].nid

\* validateSubnodeTree, through the subnode trees of subnodes (a block names
\* only blocks with lower BIDs): no subnode block is met twice.
validateSubnodeTree(blocks, root) ==
  LET ok[bid \in Nat] ==
        \/ bid = 0
        \/ /\ subnodeShape(blocks, bid)
           /\ \A e \in Range(WalkSubnodes(blocks, bid)) :
                validateDataTree(blocks, e.data) /\ ok[e.sub]
      met[bid \in Nat] ==
        IF bid = 0 THEN <<>>
        ELSE LET ents == WalkSubnodes(blocks, bid)
             IN  <<bid>> \o FlattenSeq([i \in DOMAIN ents |-> met[ents[i].sub]])
  IN  ok[root] /\ IsInjective(met[root])

FirstKey(ents) == ents[1].nid

\* The SLBLOCKs are in c, ok or not.
OverSLBlocks(c, kids, ok) ==
  IF \/ ~ ok
     \/ Len(kids) > MaxSIBlockEntries
     \/ ~ StrictlyIncreasing([i \in DOMAIN kids |-> kids[i].key])
  THEN Built(c, Refused)
  ELSE IF Len(kids) = 1 THEN Built(c, kids[1].ref)
  ELSE Built(PutBlocks(c, <<EncodeSIBlock(kids)>>), c.next)

\* An SLBLOCK takes no NID twice, and its entries name trees that are there.
SLBlocksValid(blocks, runs) ==
  \A i \in DOMAIN runs :
    /\ StrictlyIncreasing(Nids(runs[i]))
    /\ \A e \in Range(runs[i]) :
         validateDataTree(blocks, e.data) /\ validateSubnodeTree(blocks, e.sub)

PutSLBlocks(c, runs) ==
  OverSLBlocks(PutBlocks(c, [i \in DOMAIN runs |-> EncodeSLBlock(runs[i])]),
               [i \in DOMAIN runs |-> [key |-> FirstKey(runs[i]), ref |-> c.next + i - 1]],
               SLBlocksValid(c.blocks, runs))

\* ents are sorted by NID.
buildSubnodeTree(c, ents) ==
  IF ents = <<>> THEN Built(c, 0) ELSE PutSLBlocks(c, Runs(ents, MaxSLBlockEntries))

-----------------------------------------------------------------------------
(* Who names whom, and what is dropped when nobody does *)

BlockRefs(blocks, bid) ==
  LET b == blocks[bid]
  IN  CASE b.kind = "data" -> {}
        [] b.kind = "x"    -> Range(b.bids)
        [] b.kind = "sl"   -> UNION {{e.data, e.sub} : e \in Range(b.ents)} \ {0}
        [] b.kind = "si"   -> {k.ref : k \in Range(b.kids)}

\* Who owns whom (nbtLiveRefs and extraLiveRefs; the counts are Catalog's):
\* pairs of an owner and a block, the owner 0 for a node.
Owners(nodes, blocks) ==
  UNION {{<<b, x>> : x \in BlockRefs(blocks, b)} : b \in DOMAIN blocks}
    \cup UNION {{<<0, nodes[n].data>>, <<0, nodes[n].sub>>} : n \in DOMAIN nodes}

\* Seeded bug: the trees below a block that goes stay.
DropRootsOnly(nodes, c, roots) ==
  LET owns == Owners(nodes, c.blocks)
      gone == {b \in DOMAIN c.blocks \cap roots : ~ \E o \in owns : o[2] = b}
  IN  [c EXCEPT !.blocks = [b \in DOMAIN @ \ gone |-> @[b]]]

\* The roots without an owner, and then what only they owned.
Fallen(all, owns, roots) ==
  LET fall[gone \in SUBSET all, next \in SUBSET all] ==
        LET new == {b \in next : \A o \in owns : o[2] = b => o[1] \in gone}
        IN  IF new = {} THEN gone
            ELSE fall[gone \cup new, all \cap {o[2] : o \in {o \in owns : o[1] \in new}}]
  IN  fall[{}, all \cap roots]

\* resyncAfterDrop of some blocks.
Drop(nodes, c, roots) ==
  LET gone == Fallen(DOMAIN c.blocks, Owners(nodes, c.blocks), roots)
  IN  [c EXCEPT !.blocks = [b \in DOMAIN @ \ gone |-> @[b]]]

\* Encode drops every block without an owner.
reclaimOrphans(nodes, c) ==
  Drop(nodes, c, DOMAIN c.blocks)

PutNode(nodes, nid, data, sub) ==
  [n \in DOMAIN nodes \cup {nid} |->
     IF n = nid THEN [data |-> data, sub |-> sub] ELSE nodes[n]]

\* The blocks after the old entry of nid was replaced or deleted.
Released(oldNodes, newNodes, c, nid) ==
  IF nid \notin DOMAIN oldNodes THEN c
  ELSE Drop(newNodes, c, {oldNodes[nid].data, oldNodes[nid].sub})
=============================================================================
