----------------------------- MODULE TreeImage ------------------------------
(***************************************************************************)
(* The trees a v2 commit writes: Encode of writer/v2/ndb.go with the pages *)
(* it allocates, the pages of the previous commit it frees (livePages),    *)
(* the lookups in the image and the reopening of it.                       *)
(*                                                                         *)
(* Space is counted in pages, which AllocatePage hands out lowest first;   *)
(* blocks hold pages of it too. The blocks of the catalog are Catalog's    *)
(* subject, map pages are AllocMap's.                                      *)
(***************************************************************************)
EXTENDS BTree

CONSTANTS
  NID, BID,    \* keys of the two trees
  MaxHeld      \* bound of the model: pages held by blocks

ASSUME ImageAssumption == NID \subseteq Nat /\ BID \subseteq Nat /\ MaxHeld \in Nat

Tree == {"NBT", "BBT"}

VARIABLES
  entries,     \* the keys of n.nodes and of the owned n.blocks
  held,        \* pages blocks hold
  livePages,   \* n.livePages
  file,        \* the pages on file, at their offset
  root,        \* BREFNBT and BREFBBT in the header, -1 before a commit
  committed    \* entries at the last commit, not in the code, and held, the file's AMap

vars == <<entries, held, livePages, file, root, committed>>

Keys(t) == IF t = "NBT" THEN NID ELSE BID

Empty == [t \in Tree |-> {}]

\* sortedNodes, ownedBlocks.
Sorted(t) ==
  LET keys == Ascending(entries[t])
  IN  [i \in DOMAIN keys |-> [key |-> keys[i], val |-> t]]

\* The n lowest pages that are not in taken, in order.
AllocatePages(taken, n) ==
  SubSeq(Ascending((0 .. n + Cardinality(taken) - 1) \ taken), 1, n)

-----------------------------------------------------------------------------

\* A node or block is added to or dropped from the catalog.
Put(t, k) ==
  /\ k \notin entries[t]
  /\ entries' = [entries EXCEPT ![t] = @ \cup {k}]
  /\ UNCHANGED <<held, livePages, file, root, committed>>

Drop(t, k) ==
  /\ k \in entries[t]
  /\ entries' = [entries EXCEPT ![t] = @ \ {k}]
  /\ UNCHANGED <<held, livePages, file, root, committed>>

\* Blocks take and give back space between commits.
HoldPage ==
  /\ Cardinality(held) < MaxHeld
  /\ held' = held \cup {AllocatePages(held \cup livePages, 1)[1]}
  /\ UNCHANGED <<entries, livePages, file, root, committed>>

FreePage(p) ==
  /\ p \in held
  /\ held' = held \ {p}
  /\ UNCHANGED <<entries, livePages, file, root, committed>>

\* The pages of both trees at the offsets at, NBT before BBT.
Placed(nbt, bbt, at) ==
  LET Move(kids, base) == [i \in DOMAIN kids |->
                             [kids[i] EXCEPT !.ref = at[base + kids[i].ref]]]
      Page(p, base) == IF p.level = 0 THEN p
                       ELSE [p EXCEPT !.kids = Move(p.kids, base)]
      all == [i \in DOMAIN at |-> IF i <= Len(nbt) THEN Page(nbt[i], 0)
                                  ELSE Page(bbt[i - Len(nbt)], Len(nbt))]
  IN  [ib \in {at[i] : i \in DOMAIN at} |->
         all[CHOOSE i \in DOMAIN at : at[i] = ib]]

\* Seeded bug: the pages of the last commit are freed before the new trees
\* are allocated.
EncodeFreesFirst ==
  LET nbt == encodeTree(Sorted("NBT"), "first")
      bbt == encodeTree(Sorted("BBT"), "first")
      at  == AllocatePages(held, Len(nbt) + Len(bbt))
      img == Placed(nbt, bbt, at)
  IN  /\ livePages' = DOMAIN img
      /\ file' = img
      /\ root' = [NBT |-> at[Len(nbt)], BBT |-> at[Len(nbt) + Len(bbt)]]
      /\ committed' = [entries |-> entries, held |-> held]
      /\ UNCHANGED <<entries, held>>

\* Seeded bug: the pages of the last commit are not freed.
EncodeKeepsOld ==
  LET nbt == encodeTree(Sorted("NBT"), "first")
      bbt == encodeTree(Sorted("BBT"), "first")
      at  == AllocatePages(held \cup livePages, Len(nbt) + Len(bbt))
      img == Placed(nbt, bbt, at)
  IN  /\ livePages' = livePages \cup DOMAIN img
      /\ file' = img
      /\ root' = [NBT |-> at[Len(nbt)], BBT |-> at[Len(nbt) + Len(bbt)]]
      /\ committed' = [entries |-> entries, held |-> held]
      /\ UNCHANGED <<entries, held>>

\* Encode: both trees are built in pages that are free now, then the pages of
\* the last commit are freed. writeBody drops what no page or block holds.
Encode ==
  LET nbt == encodeTree(Sorted("NBT"), "first")
      bbt == encodeTree(Sorted("BBT"), "first")
      at  == AllocatePages(held \cup livePages, Len(nbt) + Len(bbt))
      img == Placed(nbt, bbt, at)
  IN  /\ livePages' = DOMAIN img
      /\ file' = img
      /\ root' = [NBT |-> at[Len(nbt)], BBT |-> at[Len(nbt) + Len(bbt)]]
      /\ committed' = [entries |-> entries, held |-> held]
      /\ UNCHANGED <<entries, held>>

Committed == root["NBT"] # -1

\* The keys in the leaves of a tree.
LeafKeys(t) ==
  UNION {{file[p].kids[i].key : i \in DOMAIN file[p].kids} :
           p \in {p \in PagesUnder(file, root[t]) : file[p].level = 0}}

\* OpenNDBFrom: the catalog is filled from the leaves, livePages collected
\* from the trees, the allocator from the AMaps; what was not committed is lost.
OpenNDB ==
  /\ Committed
  /\ SeparatorsAreFirstKeys(file, root["NBT"])
  /\ SeparatorsAreFirstKeys(file, root["BBT"])
  /\ entries' = [t \in Tree |-> LeafKeys(t)]
  /\ livePages' = PagesUnder(file, root["NBT"]) \cup PagesUnder(file, root["BBT"])
  /\ held' = committed.held
  /\ UNCHANGED <<file, root, committed>>

Init ==
  /\ entries = Empty
  /\ held = {}
  /\ livePages = {}
  /\ file = [ib \in {} |-> [level |-> 0, kids |-> <<>>]]
  /\ root = [t \in Tree |-> -1]
  /\ committed = [entries |-> Empty, held |-> {}]

Next ==
  \/ \E t \in Tree : \E k \in Keys(t) : Put(t, k) \/ Drop(t, k)
  \/ HoldPage \/ \E p \in held : FreePage(p)
  \/ Encode \/ OpenNDB

Spec == Init /\ [][Next]_vars

-----------------------------------------------------------------------------
(* Properties *)

\* The image changes in a commit only, so it is looked at right after one.
JustCommitted == Committed /\ entries = committed.entries

\* LookupNode and LookupBlock find exactly what was committed: every entry,
\* through as many levels as the tree needs, and no other key, however the
\* entries changed and wherever first fit put the pages.
LookupsExact ==
  JustCommitted => \A t \in Tree : \A k \in Keys(t) :
    Search(file, root[t], k)
      = IF k \in committed.entries[t] THEN {[key |-> k, val |-> t]} ELSE {}

\* A committed image passes the structural checks of CheckTrees, so it can be
\* reopened: separators are first keys and no page belongs to both trees.
ImagePassesCheckTrees ==
  JustCommitted =>
    /\ \A t \in Tree : SeparatorsAreFirstKeys(file, root[t])
    /\ PagesUnder(file, root["NBT"]) \cap PagesUnder(file, root["BBT"]) = {}

\* Between commits and reopenings the pages of the image are allocated and no
\* others: none is shared with a block, none is leaked by a rewrite.
TreePagesOwned ==
  /\ held \cap livePages = {}
  /\ Committed =>
       livePages = PagesUnder(file, root["NBT"]) \cup PagesUnder(file, root["BBT"])

\* The rewrite of the trees never lands on a page of the image it replaces,
\* so the file it came from can still be read until the new one is published.
OldTreesUntouched ==
  [][file' # file => DOMAIN file' \cap livePages = {}]_vars
=============================================================================
