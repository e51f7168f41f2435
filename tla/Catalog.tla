------------------------------ MODULE Catalog -------------------------------
(***************************************************************************)
(* The v2 writer's node and block catalog: NDB in writer/v2/ndb.go, with   *)
(* the tree builders of xblock.go and subnode.go that feed it.             *)
(*                                                                         *)
(* Dropping the last reference to a block frees it and releases the blocks *)
(* its payload names, and so on. The calls resyncAfterDrop, dropBlock and  *)
(* releaseExtra of that cascade are the entries of todo, the call that     *)
(* runs next first, so every state in the middle of a cascade is a state   *)
(* of the model. The catalog has one user; an operation starts only when   *)
(* todo is empty.                                                          *)
(***************************************************************************)
EXTENDS Integers, Sequences, FiniteSets, SequencesExt

CONSTANTS
  NID,        \* node ids
  MaxBID,     \* bound of the model: block ids handed out
  RefMod,     \* 2^16: cRef is a uint16
  SharedSubnodes, \* whether callers build trees that name one SLBLOCK twice
  FaultSets   \* the faults a behaviour may meet: one of these sets

ASSUME CatalogAssumption ==
  /\ MaxBID \in Nat \ {0}
  /\ RefMod \in Nat \ {0}
  /\ SharedSubnodes \in BOOLEAN
  /\ FaultSets \subseteq SUBSET {"read", "direct"}

VARIABLES
  nodes,    \* n.nodes: [data, sub] of every node, 0 the null BID
  blocks,   \* n.blocks: cRef of every block
  extra,    \* dataTreeRefs ("data"), subnodeRefs ("sub"), opaqueRefs ("opaque")
  payload,  \* the child references in the bytes of every block
  extents,  \* the blocks whose space is allocated in the Store
  nextBID,  \* bidNextB
  todo,     \* calls still to run
  snap,     \* the snapshot of the running transaction, <<>> outside one
  image,    \* the catalog in the file just committed, <<>> once it changed
  faults    \* the storage this catalog lives on: reading a payload may fail
            \* ("read"), freeing may fail outside a transaction ("direct")

vars == <<nodes, blocks, extra, payload, extents, nextBID, todo, snap, image,
          faults>>

BID == 1 .. MaxBID

Kind == {"data", "sub", "opaque"}

NoRefs == [b \in BID |-> 0]

Idle == todo = <<>>

-----------------------------------------------------------------------------
(* Reference counts *)

\* A multiset of references as a sequence: how often b occurs.
Count(seq, b) == Cardinality({i \in DOMAIN seq : seq[i].bid = b})

CountKind(seq, b, k) ==
  Cardinality({i \in DOMAIN seq : seq[i].bid = b /\ seq[i].kind = k})

nbtLiveRefs(b) ==
  Cardinality({n \in DOMAIN nodes : nodes[n].data = b})
    + Cardinality({n \in DOMAIN nodes : nodes[n].sub = b})

extraLiveRefs(b) == extra["data"][b] + extra["sub"][b] + extra["opaque"][b]

\* Seeded bug: references from trees do not count.
UnownedByNodes(b) == nbtLiveRefs(b) = 0

Unowned(b) == nbtLiveRefs(b) = 0 /\ extraLiveRefs(b) = 0

computeRef(b) == (1 + nbtLiveRefs(b) + extraLiveRefs(b)) % RefMod

CheckRefCounts ==
  /\ \A b \in DOMAIN blocks : blocks[b] = computeRef(b)
  /\ \A n \in DOMAIN nodes :
       {nodes[n].data, nodes[n].sub} \ {0} \subseteq DOMAIN blocks

-----------------------------------------------------------------------------
(* Transactions: capture, restore, and the end of an operation *)

State == [nodes |-> nodes, blocks |-> blocks, extra |-> extra,
          payload |-> payload, extents |-> extents, nextBID |-> nextBID]

Start(calls, transactional) ==
  /\ todo' = calls
  /\ snap' = IF transactional THEN <<State>> ELSE <<>>

\* Seeded bug: the allocator is not part of the snapshot.
RestoreCatalog ==
  /\ nodes' = snap[1].nodes
  /\ blocks' = snap[1].blocks
  /\ extra' = snap[1].extra
  /\ payload' = snap[1].payload
  /\ nextBID' = snap[1].nextBID
  /\ UNCHANGED extents

\* An error leaves every call in progress; runTxn restores its snapshot. The
\* bytes of dropped blocks come back with it (SpoolTxn).
Restore ==
  /\ nodes' = snap[1].nodes
  /\ blocks' = snap[1].blocks
  /\ extra' = snap[1].extra
  /\ payload' = snap[1].payload
  /\ extents' = snap[1].extents
  /\ nextBID' = snap[1].nextBID

Abandon == todo' = <<>> /\ snap' = <<>>

\* The next call replaced by the calls it makes.
Continue(calls) ==
  /\ todo' = calls \o Tail(todo)
  /\ snap' = IF calls = <<>> /\ Tail(todo) = <<>> THEN <<>> ELSE snap

\* The file stays as it is, but opening it later leads to the state that
\* opening it at once leads to, so the model forgets it here.
Outdated == image' = <<>>

Call(op, b) == [op |-> op, bid |-> b, kind |-> "none"]

Release(ref) == [op |-> "releaseExtra", bid |-> ref.bid, kind |-> ref.kind]

-----------------------------------------------------------------------------
(* Valid trees *)

\* Block b of a catalog with these payloads has subnode entries. One that names
\* an SLBLOCK names it as bidSub, another block as bidData.
SLBlock(bytes, b) == \E i \in DOMAIN bytes[b] : bytes[b][i].kind = "sub"

\* validateDataTree: no leaf missing, none named twice.
DataTreeValid(live, bytes, b) ==
  \A i, j \in DOMAIN bytes[b] :
    /\ bytes[b][i].bid \in live
    /\ bytes[b][i].bid = bytes[b][j].bid => i = j

\* validateSubnodeTree: the walk from b along bidSub meets the SLBLOCKs in met;
\* it is never back at b and meets none twice, and every bidData on the way is
\* a valid data tree.
SubnodeTreeValid(live, bytes, b) ==
  \E met \in SUBSET live :
    /\ b \in met
    /\ \A p \in met : \A i \in DOMAIN bytes[p] :
         LET c == bytes[p][i].bid
         IN  /\ c \in live
             /\ IF SLBlock(bytes, c)
                THEN /\ c \in met \ {b}
                     /\ \A q \in met : \A j \in DOMAIN bytes[q] :
                          bytes[q][j].bid = c => q = p /\ j = i
                ELSE DataTreeValid(live, bytes, c)

\* assertDataTreeBID or assertSubnodeTreeBID, whichever b calls for.
TreeValid(live, bytes, b) ==
  IF SLBlock(bytes, b) THEN SubnodeTreeValid(live, bytes, b)
  ELSE DataTreeValid(live, bytes, b)

\* What reconstructTreeRefs validates.
TreesWalk(live, bytes) == \A b \in live : TreeValid(live, bytes, b)

-----------------------------------------------------------------------------
(* Building trees *)

\* The catalog with fresh blocks, the last of which holds refs: AllocBlock or
\* AllocInternalBlock, putPayload, then addExtra for every reference.
Stage(count, refs) ==
  LET fresh == nextBID .. nextBID + count - 1
      top   == nextBID + count - 1
  IN  /\ Idle
      /\ top <= MaxBID
      /\ nextBID' = nextBID + count
      /\ extents' = extents \cup fresh
      /\ payload' = [b \in BID |-> IF b = top THEN refs
                                   ELSE IF b \in fresh THEN <<>> ELSE payload[b]]
      /\ extra' = [k \in Kind |-> [b \in BID |->
                     extra[k][b] + CountKind(refs, b, k)]]
      /\ blocks' = [b \in DOMAIN blocks \cup fresh |->
                      IF Count(refs, b) > 0
                      THEN (1 + nbtLiveRefs(b) + extraLiveRefs(b) + Count(refs, b))
                             % RefMod
                      ELSE IF b \in fresh THEN 1 ELSE blocks[b]]
      /\ Outdated
      /\ UNCHANGED <<nodes, todo, snap>>

\* PutDataTree of one leaf: the leaf is the tree.
PutDataBlock == Stage(1, <<>>)

\* PutDataTree of two leaves: an XBLOCK over them.
PutDataTree ==
  Stage(3, <<[bid |-> nextBID, kind |-> "data"],
             [bid |-> nextBID + 1, kind |-> "data"]>>)

\* PutSubnodeTree: one SLBLOCK whose entries name blocks of the catalog, the
\* same block twice if the caller says so. A missing one is refused, and one
\* whose own tree is not valid (assertSLEntryRoles): the entries are looked at
\* one by one, so two of them may lead to the same SLBLOCK.
PutSubnodeTree(bids) ==
  /\ \A i \in DOMAIN bids :
       bids[i] \in DOMAIN blocks /\ TreeValid(DOMAIN blocks, payload, bids[i])
  /\ Stage(1, [i \in DOMAIN bids |-> [bid |-> bids[i], kind |-> "sub"]])
  /\ SharedSubnodes \/ SubnodeTreeValid(DOMAIN blocks', payload', nextBID)

-----------------------------------------------------------------------------
(* Nodes *)

\* PutNode: the entry is replaced first, then the old blocks are resynced or
\* dropped, then the new ones resynced. Heap.Commit runs it in a transaction.
PutNode(n, data, sub, transactional) ==
  LET old == IF n \in DOMAIN nodes THEN nodes[n] ELSE [data |-> 0, sub |-> 0]
  IN  /\ Idle
      /\ {data, sub} \ {0} \subseteq DOMAIN blocks
      /\ nodes' = [m \in DOMAIN nodes \cup {n} |->
                     IF m = n THEN [data |-> data, sub |-> sub] ELSE nodes[m]]
      /\ Start(<<Call("resyncAfterDrop", old.data),
                 Call("resyncAfterDrop", old.sub),
                 Call("resyncRef", data), Call("resyncRef", sub)>>,
               transactional)
      /\ Outdated
      /\ UNCHANGED <<blocks, extra, payload, extents, nextBID>>

DeleteNode(n, transactional) ==
  /\ Idle
  /\ n \in DOMAIN nodes
  /\ nodes' = [m \in DOMAIN nodes \ {n} |-> nodes[m]]
  /\ Start(<<Call("resyncAfterDrop", nodes[n].data),
             Call("resyncAfterDrop", nodes[n].sub)>>, transactional)
  /\ Outdated
  /\ UNCHANGED <<blocks, extra, payload, extents, nextBID>>

-----------------------------------------------------------------------------
(* The calls of a cascade *)

Runs(op) == todo # <<>> /\ Head(todo).op = op

Resynced(b) == IF b \in DOMAIN blocks THEN [blocks EXCEPT ![b] = computeRef(b)]
               ELSE blocks

resyncRef ==
  LET b == Head(todo).bid
  IN  /\ Runs("resyncRef")
      /\ b = 0 \/ b \in DOMAIN blocks
      /\ blocks' = Resynced(b)
      /\ Continue(<<>>)
      /\ UNCHANGED <<nodes, extra, payload, extents, nextBID, image>>

\* Seeded bug: the count is left as it was when the block stays.
dropWithoutResync ==
  LET b == Head(todo).bid
  IN  /\ Runs("resyncAfterDrop")
      /\ Continue(IF b \in DOMAIN blocks /\ Unowned(b)
                  THEN <<Call("dropBlock", b)>> ELSE <<>>)
      /\ UNCHANGED <<nodes, blocks, extra, payload, extents, nextBID, image>>

resyncAfterDrop ==
  LET b == Head(todo).bid
  IN  /\ Runs("resyncAfterDrop")
      /\ blocks' = Resynced(b)
      /\ Continue(IF b \in DOMAIN blocks /\ Unowned(b)
                  THEN <<Call("dropBlock", b)>> ELSE <<>>)
      /\ UNCHANGED <<nodes, extra, payload, extents, nextBID, image>>

\* The catalog without b: its entry and every reference counted for it.
Forget(b) ==
  /\ blocks' = [c \in DOMAIN blocks \ {b} |-> blocks[c]]
  /\ extra' = [k \in Kind |-> [extra[k] EXCEPT ![b] = 0]]


\* treeChildRefs: the references in the payload; none when it cannot be read.
treeChildRefs(b) ==
  {payload[b]} \cup (IF "read" \in faults THEN {<<>>} ELSE {})

\* Seeded bug: the space is not freed.
dropKeepsSpace ==
  LET b == Head(todo).bid
  IN  /\ Runs("dropBlock")
      /\ IF b \in DOMAIN blocks
         THEN /\ Forget(b)
              /\ payload' = [payload EXCEPT ![b] = <<>>]
              /\ \E kids \in treeChildRefs(b) :
                   Continue([i \in DOMAIN kids |-> Release(kids[i])])
         ELSE Continue(<<>>) /\ UNCHANGED <<blocks, extra, payload>>
      /\ UNCHANGED <<nodes, extents, nextBID, image>>

dropBlock ==
  LET b == Head(todo).bid
  IN  /\ Runs("dropBlock")
      /\ IF b \in DOMAIN blocks
         THEN /\ Forget(b)
              /\ extents' = extents \ {b}
              /\ payload' = [payload EXCEPT ![b] = <<>>]
              /\ \E kids \in treeChildRefs(b) :
                   Continue([i \in DOMAIN kids |-> Release(kids[i])])
         ELSE Continue(<<>>) /\ UNCHANGED <<blocks, extra, payload, extents>>
      /\ UNCHANGED <<nodes, nextBID, image>>

\* freeBlockIB fails and the error goes up: runTxn restores the snapshot;
\* outside a transaction the entry is gone and its space stays allocated.
dropBlockFails ==
  /\ Runs("dropBlock")
  /\ Head(todo).bid \in DOMAIN blocks
  /\ Abandon
  /\ \/ snap # <<>> /\ Restore
     \/ /\ snap = <<>> /\ "direct" \in faults
        /\ Forget(Head(todo).bid)
        /\ UNCHANGED <<nodes, payload, extents, nextBID>>
  /\ UNCHANGED image

\* Seeded bug: the call is made again until the reference is gone, which it
\* never takes off.
releaseForever ==
  LET ref == Head(todo)
  IN  /\ Runs("releaseExtra")
      /\ Continue(IF extra[ref.kind][ref.bid] > 0
                  THEN <<Call("resyncAfterDrop", ref.bid), ref>> ELSE <<>>)
      /\ UNCHANGED <<nodes, blocks, extra, payload, extents, nextBID, image>>

\* A reference already gone is skipped.
releaseExtra ==
  LET ref == Head(todo)
  IN  /\ Runs("releaseExtra")
      /\ IF extra[ref.kind][ref.bid] > 0
         THEN /\ extra' = [extra EXCEPT ![ref.kind][ref.bid] = @ - 1]
              /\ Continue(<<Call("resyncAfterDrop", ref.bid)>>)
         ELSE Continue(<<>>) /\ UNCHANGED extra
      /\ UNCHANGED <<nodes, blocks, payload, extents, nextBID, image>>

-----------------------------------------------------------------------------
(* Commit and reopen *)

Orphans == {b \in DOMAIN blocks : Unowned(b)}

\* CommitTo or CommitFile: Encode drops the orphans it lists now, in the
\* order of a Go map, then checks and serialises.
Commit ==
  /\ Idle
  /\ \E order \in SetToSeqs(Orphans) :
       Start([i \in DOMAIN order |-> Call("dropBlock", order[i])]
               \o <<Call("encode", 0)>>, TRUE)
  /\ Outdated
  /\ UNCHANGED <<nodes, blocks, extra, payload, extents, nextBID>>

ownedBlocks == {b \in DOMAIN blocks : ~ Unowned(b)}

\* Seeded bug: the counts are not checked.
encodeUnchecked ==
  /\ Runs("encode")
  /\ image' = <<[nodes |-> nodes,
                 blocks |-> [b \in ownedBlocks |-> blocks[b]],
                 payload |-> payload,
                 extents |-> extents,
                 nextBID |-> nextBID]>>
  /\ Continue(<<>>)
  /\ UNCHANGED <<nodes, blocks, extra, payload, extents, nextBID>>

encode ==
  /\ Runs("encode")
  /\ CheckRefCounts
  /\ image' = <<[nodes |-> nodes,
                 blocks |-> [b \in ownedBlocks |-> blocks[b]],
                 payload |-> payload,
                 extents |-> extents,
                 nextBID |-> nextBID]>>
  /\ Continue(<<>>)
  /\ UNCHANGED <<nodes, blocks, extra, payload, extents, nextBID>>

\* CheckRefCounts refuses: the commit is rolled back.
encodeFails ==
  /\ Runs("encode")
  /\ ~ CheckRefCounts
  /\ Abandon
  /\ Restore
  /\ UNCHANGED image

\* The places in the payloads of live blocks that name b as a child of kind k.
Links(live, bytes, k, b) ==
  {r \in BID \X (1 .. MaxBID) :
     /\ r[1] \in live /\ r[2] \in DOMAIN bytes[r[1]]
     /\ bytes[r[1]][r[2]].bid = b /\ bytes[r[1]][r[2]].kind = k}

\* The typed references reconstructTreeRefs counts in the blocks of an image.
TypedRefs(img, k, b) ==
  Cardinality(Links(DOMAIN img.blocks, img.payload, k, b))

NbtRefs(img, b) ==
  Cardinality({n \in DOMAIN img.nodes : img.nodes[n].data = b})
    + Cardinality({n \in DOMAIN img.nodes : img.nodes[n].sub = b})

\* What applyExtraRefs leaves unexplained.
OpaqueRefs(img, b) ==
  img.blocks[b] - 1 - NbtRefs(img, b)
    - TypedRefs(img, "data", b) - TypedRefs(img, "sub", b)

\* CheckTrees and applyExtraRefs accept the image.
CountsAccepted(img) ==
  /\ \A b \in DOMAIN img.blocks : img.blocks[b] >= 2 /\ OpaqueRefs(img, b) >= 0
  /\ \A n \in DOMAIN img.nodes :
       {img.nodes[n].data, img.nodes[n].sub} \ {0} \subseteq DOMAIN img.blocks

\* hydrateNDB: reconstructTreeRefs validates every tree, then applyExtraRefs.
OpenNDBAccepts(img) ==
  TreesWalk(DOMAIN img.blocks, img.payload) /\ CountsAccepted(img)

\* The process ends at any time after the commit and the file is reopened.
OpenNDB ==
  /\ Idle
  /\ image # <<>>
  /\ OpenNDBAccepts(image[1])
  /\ nodes' = image[1].nodes
  /\ blocks' = image[1].blocks
  /\ extra' = [k \in Kind |-> [b \in BID |->
                 IF b \notin DOMAIN image[1].blocks THEN 0
                 ELSE IF k = "opaque" THEN OpaqueRefs(image[1], b)
                 ELSE TypedRefs(image[1], k, b)]]
  /\ payload' = image[1].payload
  /\ extents' = image[1].extents
  /\ nextBID' = image[1].nextBID
  /\ UNCHANGED <<todo, snap, image>>

-----------------------------------------------------------------------------

Init ==
  /\ nodes = [n \in {} |-> [data |-> 0, sub |-> 0]]
  /\ blocks = [b \in {} |-> 1]
  /\ extra = [k \in Kind |-> NoRefs]
  /\ payload = [b \in BID |-> <<>>]
  /\ extents = {}
  /\ nextBID = 1
  /\ todo = <<>>
  /\ snap = <<>>
  /\ image = <<>>
  /\ faults \in FaultSets

\* Only a fault tells a call inside a transaction from one outside.
Transactional == IF "direct" \in faults THEN BOOLEAN ELSE {TRUE}

Cascade ==
  /\ UNCHANGED faults
  /\ resyncRef \/ resyncAfterDrop \/ dropBlock \/ releaseExtra
       \/ encode \/ encodeFails

Next ==
  /\ UNCHANGED faults
  /\ \/ PutDataBlock \/ PutDataTree
     \/ \E b, c \in DOMAIN blocks : PutSubnodeTree(<<b, c>>)
     \/ \E n \in NID, d, s \in DOMAIN blocks \cup {0}, t \in Transactional :
           PutNode(n, d, s, t)
     \/ \E n \in DOMAIN nodes, t \in Transactional : DeleteNode(n, t)
     \/ Commit \/ OpenNDB
     \/ Cascade
     \/ dropBlockFails

\* An operation runs to its end: the cascade is a loop of one goroutine.
Spec == Init /\ [][Next]_vars /\ WF_vars(Cascade)

-----------------------------------------------------------------------------
(* Properties *)

Entry == [data : 0 .. MaxBID, sub : 0 .. MaxBID]

TypeOK ==
  /\ DOMAIN nodes \subseteq NID /\ \A n \in DOMAIN nodes : nodes[n] \in Entry
  /\ DOMAIN blocks \subseteq BID /\ \A b \in DOMAIN blocks : blocks[b] \in Nat
  /\ extra \in [Kind -> [BID -> Nat]]
  /\ extents \subseteq BID
  /\ nextBID \in 1 .. MaxBID + 1
  /\ Len(snap) <= 1 /\ Len(image) <= 1

\* No reference dangles, not even halfway through a cascade: every block a
\* node names, and every block the payload of a live block names, is in the
\* catalog. PutNode replaces the entry before it drops, dropBlock removes the
\* parent before it releases the children.
NoDanglingReference ==
  /\ \A n \in DOMAIN nodes :
       {nodes[n].data, nodes[n].sub} \ {0} \subseteq DOMAIN blocks
  /\ \A b \in DOMAIN blocks : \A i \in DOMAIN payload[b] :
       payload[b][i].bid \in DOMAIN blocks

\* A block in the catalog keeps its space: nothing frees it twice or early,
\* also when an operation failed halfway or the file was reopened.
LiveBlocksHoldSpace == DOMAIN blocks \subseteq extents

\* Between operations, when no storage fails, no space is leaked either: the
\* Store holds exactly the blocks of the catalog.
NoLeakedSpace == Idle /\ faults = {} => extents = DOMAIN blocks

\* Between operations, when no storage fails, every cRef is one for the BBT
\* entry, plus the nodes, plus the references in the payloads of live blocks.
\* The code counts the latter in maps of its own; this is that those maps
\* agree with the bytes.
RefCountsExact ==
  Idle /\ faults = {} => \A b \in DOMAIN blocks :
            blocks[b] = 1 + NbtRefs(State, b) + TypedRefs(State, "data", b)
                          + TypedRefs(State, "sub", b)

\* Every file a commit wrote can be opened again (the comment of Commit says
\* "Reopen with OpenNDB"), whatever failed before the commit.
CommittedReopens == image # <<>> => OpenNDBAccepts(image[1])

\* A cascade ends: the catalog always becomes idle again.
CascadeEnds == (todo # <<>>) ~> (todo = <<>>)
=============================================================================
