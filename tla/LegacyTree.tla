----------------------------- MODULE LegacyTree -----------------------------
(***************************************************************************)
(* The catalog of the legacy writer: WriteTransaction and BTWriter of      *)
(* pkg/ndb (transaction.go, btree_write.go), the node operations of        *)
(* node_write.go and the cached lookups of database.go.                    *)
(*                                                                         *)
(* A node entry names its data block and its parent; a block is its BID.   *)
(* All nodes are of one NID type, so a NID is its index. Where the pages   *)
(* lie on file and what a crash does is not the subject of this module.    *)
(* bidNextB is read back as it was written, as in an ANSI header.          *)
(***************************************************************************)
EXTENDS BTree, SequencesExt

CONSTANTS
  RootNID,   \* the node Create writes without taking an index
  MaxNID,    \* bound of the model: node indexes handed out
  MaxBID,    \* bound of the model: block ids handed out
  MaxEntries, \* bound of the model: entries of the NBT
  Ops        \* which of "update", "copy" and "reopen" the program calls

ASSUME LegacyAssumption ==
  /\ RootNID \in Nat \ {0}
  /\ MaxNID \in Nat /\ MaxBID \in Nat \ {0} /\ MaxEntries \in Nat
  /\ Ops \subseteq {"update", "copy", "reopen"}

VARIABLES
  nbt, bbt,    \* the trees on file as pages, the root last
  nodeCache,   \* db.nodeCache
  blockCache,  \* db.blockCache, the BIDs in it
  nextNID,     \* db.nextNID
  nextBID,     \* db.nextBID
  bidNextB,    \* the header's copy of it
  nbtInserts, nbtDeletes, bbtInserts, bbtDeletes,  \* of the BTWriter
  state,       \* of the transaction: "idle", "active" or "failed"
  asked,       \* not in the code: the nodes a commit now should leave
  live         \* not in the code: the nodes the last commit should have left

writer == <<nbtInserts, nbtDeletes, bbtInserts, bbtDeletes>>
trees == <<nbt, bbt, bidNextB, live>>
caches == <<nodeCache, blockCache>>
legacyVars == <<nbt, bbt, nodeCache, blockCache, nextNID, nextBID, bidNextB,
          nbtInserts, nbtDeletes, bbtInserts, bbtDeletes, state, asked, live>>

NIDs == 1 .. MaxNID \cup {RootNID}

BIDs == 1 .. MaxBID

Info(data, parent) == [data |-> data, parent |-> parent]

\* The map f with k set to v, and f without k.
With(f, k, v) == [x \in DOMAIN f \cup {k} |-> IF x = k THEN v ELSE f[x]]
Without(f, k) == [x \in DOMAIN f \ {k} |-> f[x]]

NoNodes == [n \in {} |-> Info(0, 0)]

\* The pages a page refers to, and those below a row of pages, from the left.
KidRefs(page) == [i \in DOMAIN page.kids |-> page.kids[i].ref]

Under(pages, row) == FlattenSeq([i \in DOMAIN row |-> KidRefs(pages[row[i]])])

\* collectNBTEntries, collectBBTEntries: all entries, leaf by leaf from the
\* left. The leaves are as far below the root as its level says.
collectEntries(pages, ref) ==
  LET depth == pages[ref].level
      row[n \in 0 .. depth] == IF n = 0 THEN <<ref>> ELSE Under(pages, row[n - 1])
      leaves == row[depth]
  IN  FlattenSeq([i \in DOMAIN leaves |-> pages[leaves[i]].kids])

NodeEntries == collectEntries(nbt, Len(nbt))
BlockEntries == collectEntries(bbt, Len(bbt))

-----------------------------------------------------------------------------
(* Lookups *)

\* searchNBT: the first entry with this key in the leaf the search ends at.
searchNBT(n) ==
  {e.val : e \in Search(nbt, Len(nbt), n)}

\* What LookupNode returns, none when it reports an error.
LookupResult(n) ==
  IF n \in DOMAIN nodeCache THEN {nodeCache[n]} ELSE searchNBT(n)

BlockFound(b) == b \in blockCache \/ Search(bbt, Len(bbt), b) # {}

\* The caches after a successful lookup of n, and of block b.
CacheNode(n, info) == nodeCache' = With(nodeCache, n, info)

CacheBlock(b) ==
  blockCache' = IF BlockFound(b) THEN blockCache \cup {b} ELSE blockCache

LookupNode(n) ==
  /\ \E info \in LookupResult(n) : CacheNode(n, info)
  /\ UNCHANGED <<trees, blockCache, nextNID, nextBID, writer, state, asked>>

LookupBlock(b) ==
  /\ BlockFound(b)
  /\ CacheBlock(b)
  /\ UNCHANGED <<trees, nodeCache, nextNID, nextBID, writer, state, asked>>

-----------------------------------------------------------------------------
(* Transactions *)

Active == state = "active"

\* NewBTWriter.
Reset ==
  /\ nbtInserts' = NoNodes /\ nbtDeletes' = {}
  /\ bbtInserts' = {} /\ bbtDeletes' = {}

BeginWrite ==
  /\ state = "idle"
  /\ state' = "active"
  /\ Reset
  /\ asked' = live
  /\ UNCHANGED <<trees, caches, nextNID, nextBID>>

\* WriteBlockData: a fresh BID, queued for the BBT.
WriteBlockData ==
  /\ nextBID <= MaxBID
  /\ nextBID' = nextBID + 1

\* DeleteBlock of WriteTransaction and BTWriter; an error, which its callers
\* ignore, leaves it as it was.
DeleteBlock(b) ==
  /\ CacheBlock(b)
  /\ bbtDeletes' = IF b \in bbtInserts THEN bbtDeletes ELSE bbtDeletes \cup {b}

\* NodeBuilder.Build: a block, then CreateNode with the next index.
CreateNode(parent) ==
  LET nid == nextNID + 1
  IN  /\ Active
      /\ nid <= MaxNID
      /\ WriteBlockData
      /\ nextNID' = nid
      /\ bbtInserts' = bbtInserts \cup {nextBID}
      /\ IF nid \in DOMAIN nbtInserts
         THEN UNCHANGED <<nbtInserts, nbtDeletes, asked>>
         ELSE /\ nbtInserts' = With(nbtInserts, nid, Info(nextBID, parent))
              /\ nbtDeletes' = nbtDeletes \ {nid}
              /\ asked' = With(asked, nid, Info(nextBID, parent))
      /\ UNCHANGED <<trees, caches, bbtDeletes, state>>

\* CopyNode: a new node over the blocks of another.
CopyNode(n, parent) ==
  LET nid == nextNID + 1
  IN  /\ Active /\ "copy" \in Ops
      /\ nid <= MaxNID
      /\ \E info \in LookupResult(n) :
           /\ CacheNode(n, info)
           /\ nextNID' = nid
           /\ IF nid \in DOMAIN nbtInserts
              THEN UNCHANGED <<nbtInserts, nbtDeletes, asked>>
              ELSE /\ nbtInserts' = With(nbtInserts, nid, Info(info.data, parent))
                   /\ nbtDeletes' = nbtDeletes \ {nid}
                   /\ asked' = With(asked, nid, Info(info.data, parent))
      /\ UNCHANGED <<trees, blockCache, nextBID, bbtInserts, bbtDeletes, state>>

\* DeleteNode then InsertNode of the BTWriter under the same NID: the second
\* takes back the deletion of the first. Refused after a plain deletion.
Requeue(n, info) ==
  IF n \in nbtDeletes THEN UNCHANGED <<nbtInserts, nbtDeletes, asked>>
  ELSE /\ nbtInserts' = With(nbtInserts, n, info)
       /\ asked' = With(asked, n, info)
       /\ UNCHANGED nbtDeletes

UpdateNodeData(n) ==
  /\ Active /\ "update" \in Ops
  /\ WriteBlockData
  /\ \E info \in LookupResult(n) :
       /\ CacheNode(n, info)
       /\ DeleteBlock(info.data)
       /\ bbtInserts' = (bbtInserts \ {info.data}) \cup {nextBID}
       /\ Requeue(n, Info(nextBID, info.parent))
  /\ UNCHANGED <<trees, nextNID, state>>

MoveNode(n, parent) ==
  /\ Active /\ "update" \in Ops
  /\ \E info \in LookupResult(n) :
       /\ CacheNode(n, info)
       /\ Requeue(n, Info(info.data, parent))
  /\ UNCHANGED <<trees, blockCache, nextNID, nextBID, bbtInserts, bbtDeletes, state>>

\* BTWriter.DeleteNode: an insertion of this transaction is cancelled.
Unqueue(n) ==
  IF n \in DOMAIN nbtInserts
  THEN nbtInserts' = Without(nbtInserts, n) /\ UNCHANGED nbtDeletes
  ELSE nbtDeletes' = nbtDeletes \cup {n} /\ UNCHANGED nbtInserts

DeleteNode(n) ==
  /\ Active
  /\ n \notin nbtDeletes
  /\ Unqueue(n)
  /\ asked' = Without(asked, n)
  /\ UNCHANGED <<trees, caches, nextNID, nextBID, bbtInserts, bbtDeletes, state>>

\* DeleteNodeRecursive: the node as the file has it, and its block. A node
\* the file does not have is passed over.
DeleteNodeRecursive(n) ==
  /\ Active
  /\ \E info \in LookupResult(n) :
       /\ CacheNode(n, info)
       /\ DeleteBlock(info.data)
       /\ bbtInserts' = bbtInserts \ {info.data}
  /\ Unqueue(n)
  /\ asked' = Without(asked, n)
  /\ UNCHANGED <<trees, nextNID, nextBID, state>>

-----------------------------------------------------------------------------
(* Commit *)

\* What a rebuilt tree has: the entries of the old one without the deleted keys,
\* each with its place there, and the inserted ones. sort.Slice is not stable:
\* front are the keys whose inserted entry comes before the ones already there.
Pool(old, inserts, deletes, front) ==
  {[key |-> old[i].key, at |-> i, val |-> old[i].val] :
     i \in {i \in DOMAIN old : old[i].key \notin deletes}}
  \cup {[key |-> k, at |-> IF k \in front THEN 0 ELSE Len(old) + 1, val |-> inserts[k]] :
          k \in DOMAIN inserts}

Precedes(x, y) == x.key < y.key \/ (x.key = y.key /\ x.at < y.at)

\* The same, sorted by key.
Merged(old, inserts, deletes, front) ==
  LET pool == Pool(old, inserts, deletes, front)
      Nth(n) == CHOOSE x \in pool : Cardinality({y \in pool : Precedes(y, x)}) = n - 1
  IN  [n \in 1 .. Cardinality(pool) |-> [key |-> Nth(n).key, val |-> Nth(n).val]]

NewBlocks ==
  Merged(BlockEntries, [b \in bbtInserts |-> b], bbtDeletes, {})

\* applyNBTChanges and applyBBTChanges: a tree is rebuilt with the last key
\* of a page as its separator, or kept when nothing is queued for it.
Apply ==
  /\ Len(NodeEntries) + Cardinality(DOMAIN nbtInserts) <= MaxEntries
  /\ IF nbtInserts = NoNodes /\ nbtDeletes = {} THEN UNCHANGED nbt
     ELSE \E front \in SUBSET DOMAIN nbtInserts :
            nbt' = encodeTree(Merged(NodeEntries, nbtInserts, nbtDeletes, front), "last")
  /\ bbt' = IF bbtInserts = {} /\ bbtDeletes = {} THEN bbt
            ELSE encodeTree(NewBlocks, "last")

\* Seeded bug: bidNextB is not written.
CommitKeepsNextBID ==
  /\ Active
  /\ Apply
  /\ live' = asked
  /\ nodeCache' = NoNodes /\ blockCache' = {}
  /\ Reset
  /\ state' = "idle"
  /\ UNCHANGED <<nextNID, nextBID, bidNextB, asked>>

\* Seeded bug: the caches are kept.
CommitKeepsCaches ==
  /\ Active
  /\ Apply
  /\ bidNextB' = nextBID
  /\ live' = asked
  /\ Reset
  /\ state' = "idle"
  /\ UNCHANGED <<caches, nextNID, nextBID, asked>>

\* The writer is dropped with its transaction, so the model empties it here.
Commit ==
  /\ Active
  /\ Apply
  /\ bidNextB' = nextBID
  /\ live' = asked
  /\ nodeCache' = NoNodes /\ blockCache' = {}
  /\ Reset
  /\ state' = "idle"
  /\ UNCHANGED <<nextNID, nextBID, asked>>

\* A write fails: the header still names the old roots, and nothing but
\* Rollback can be called, which drops what is queued.
CommitFails ==
  /\ Active
  /\ state' = "failed"
  /\ Reset
  /\ asked' = live
  /\ UNCHANGED <<trees, caches, nextNID, nextBID>>

Rollback ==
  /\ state # "idle"
  /\ state' = "idle"
  /\ Reset
  /\ asked' = live
  /\ UNCHANGED <<trees, caches, nextNID, nextBID>>

\* Close, then OpenWithMode: nothing but bidNextB is read back.
Reopen ==
  /\ state # "failed" /\ "reopen" \in Ops
  /\ state' = "idle"
  /\ Reset
  /\ asked' = live
  /\ nodeCache' = NoNodes /\ blockCache' = {}
  /\ nextNID' = 0
  /\ nextBID' = bidNextB
  /\ UNCHANGED trees

\* The file Create makes.
LegacyInit ==
  /\ live = [n \in {RootNID} |-> Info(1, 0)]
  /\ asked = live
  /\ nbt = encodeTree(<<[key |-> RootNID, val |-> Info(1, 0)]>>, "last")
  /\ bbt = encodeTree(<<[key |-> 1, val |-> 1]>>, "last")
  /\ nodeCache = NoNodes /\ blockCache = {}
  /\ nextNID = 0
  /\ nextBID = 2 /\ bidNextB = 2
  /\ nbtInserts = NoNodes /\ nbtDeletes = {}
  /\ bbtInserts = {} /\ bbtDeletes = {}
  /\ state = "idle"

LegacyNext ==
  \/ BeginWrite \/ Commit \/ CommitFails \/ Rollback \/ Reopen
  \/ CreateNode(RootNID)
  \/ \E n \in NIDs : \/ LookupNode(n) \/ UpdateNodeData(n) \/ DeleteNode(n)
                    \/ DeleteNodeRecursive(n) \/ CopyNode(n, RootNID)
                    \/ MoveNode(n, RootNID)
  \/ \E b \in BIDs : LookupBlock(b)

LegacySpec == LegacyInit /\ [][LegacyNext]_legacyVars

-----------------------------------------------------------------------------
(* Properties *)

\* Whatever is queued, cancelled, committed, rolled back or reopened, no node
\* that should be on file is missing from the leaves (BTWriter.Apply).
NoNodeLost ==
  LET e == NodeEntries
  IN  DOMAIN live \subseteq {e[i].key : i \in DOMAIN e}

\* A BID is never given to two blocks: the BBT has no key twice, and no queued
\* block has the BID of one on file, also after reopening (finishWrite stores
\* what AllocateBlockID handed out).
BlockIdsUnique ==
  LET e == BlockEntries
  IN  /\ \A i, j \in DOMAIN e : e[i].key = e[j].key => i = j
      /\ \A b \in bbtInserts : \A i \in DOMAIN e : e[i].key # b

\* A cached answer is what a search of the trees on file gives now: Commit
\* empties the caches, lookups fill them only from the file.
CacheCoherent ==
  /\ \A n \in DOMAIN nodeCache : searchNBT(n) = {nodeCache[n]}
  /\ \A b \in blockCache : Search(bbt, Len(bbt), b) # {}

\* LookupNode returns the entry the program last committed for every node
\* ("The key in each intermediate entry represents the MINIMUM key in that
\* subtree", database.go; "This creates a new data block and updates the NBT
\* entry", node_write.go).
NodeLookupsExact ==
  \A n \in NIDs : searchNBT(n) = IF n \in DOMAIN live THEN {live[n]} ELSE {}
=============================================================================
