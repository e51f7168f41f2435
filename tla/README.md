# Verification of outlook-pst-go

TLA+ models of the PST reader and writers of this repository, checked with TLC
on small instances, with proofs checked by TLAPS. `PROJECT.json` lists every
run, mutant, mapped definition, finding, hazard and theorem; this file explains
them.

## 1. The system

The repository reads and writes Outlook PST files. A PST file is a header, a
space map (AMap pages, each a bitmap of 64-byte slots, with PMap, FMap and
FPMap pages in between), two B-trees of 512-byte pages (the NBT: node id to
data and subnode block; the BBT: block id to place, size and reference count)
and the blocks. Two writers live side by side:

* the **v2 writer** (`writer/v2`): an in-memory allocator and catalog over a
  work spool, transactions with an undo journal, and publication of a whole
  image by two-phase write or by rename;
* the **legacy writer** (`pkg/ndb`, `pkg/disk`, root package): in-place changes
  to an open file under a `WriteTransaction`, with recovery on opening.

| Component | State | Operations | Interacts with |
|---|---|---|---|
| Allocator (`store.go`, `geometry.go`) | regions, bitmaps, current region | Grow, Allocate, AllocatePage, Reserve, Free, ShrinkTrailingEmpty, LoadStoreFrom | catalog, tree pages, transactions |
| Transactions and spool (`tx.go`, `store.go`) | snapshot, undo journal, work spool | runTxn (nested too), write, free, abort | allocator, catalog |
| Catalog (`ndb.go`, `xblock.go`, `subnode.go`) | nodes, blocks, typed reference counts | PutNode, DeleteNode, AddBlock, dropBlock cascade, orphan reclaim, commit, reopen | allocator, trees |
| Tree pages (`ndb.go`, `btree.go`) | live pages, roots | encodeTree, search, CheckTrees | allocator |
| Publication (`ndb.go`, `tx.go`, `own.go`, `options.go`) | source, held handle, stage, destination | CommitTo, CommitFile, adopt, Close, crash | file system |
| Data and subnode trees (`xblock.go`, `subnode.go`) | blocks below a node | PutDataTree, streamDataTree, PutSubnodeTree, walks | catalog |
| Heap on node, BTH (`heap.go`, `heap_read.go`, `bth.go`) | pages of allocations, subnodes of long values | Allocate, AllocateStream, Commit, OpenHeap, Read, Build, Lookup | data and subnode trees |
| Property contexts (`pc.go`) | properties and where their values are | Set, Delete, SetBinaryStream, SetObjectNID, Commit, AttachTo, Get, Load | heap, BTH |
| Table contexts (`tc.go`, `inspect_table.go`) | columns, rows, index of row ids, next id | NewTC, Add, AddID, Set, Clear, Delete, Commit, OpenTC, Load | heap, BTH |
| Folders and messages (`folders.go`, `messages.go`, `minpst.go`) | property contexts, hierarchy and contents tables, counts | Create, Rename, Move, Delete, CreateMessage, DeleteMessage | heap, catalog, transactions |
| Attachments (`attachments.go`) | tables and objects below a message, readers of bodies | validateAttachmentTree, writes by value, from a reader, embedded | property and table contexts, messages |
| Exporter (`exporter.go`) | plan of folders and messages, bodies | CreateFolder, RenameFolder, MoveFolder, DeleteFolder, CreateMessage, Finalize, Close | folder tree, CommitTo |
| Legacy transaction and trees (`pkg/ndb`) | queued changes, caches, id counters | WriteBlockData, Create/Copy/Update/Move/Delete node, Commit, Rollback | AMap manager |
| Legacy space and recovery (`pkg/disk/amap.go`, `recovery.go`) | AMap pages in memory, header | Allocate, Free, two-phase commit, CheckAndRecover | file |
| Readers (`node.go`, `pkg/ltp`, root package) | lazily loaded blocks | Lookup, Read, iterate, search | trees |
| RTF, crypt, util, inspectors, `cmd/pstinfo` | none | conversions, dumps | |

What is hard here, and what the properties are about: failures in the middle of
a multi-step operation (spool writes, frees, commits), crashes between the
phases of a commit with unsynced writes lost in any combination, references
shared by several owners, nested transactions, space freed and reused too
early, values cached or counted before a step and used after it, builders that
put blocks in the catalog long before the node that owns them, and page, region
and tree-level boundaries no test file reaches. There is little concurrency: mutexes
serialise every public call, and goroutines appear only where a lock is given up
in the middle (`WriteExtendedBlockData`).

## 2. Modules

| Module | Models | State and actions |
|---|---|---|
| `AllocMap` | Store's allocator | `regions`, `bitmap`, `lastAllocAMap`; one action per operation; `Image` and `LoadStoreFrom` are what a commit writes and what reopening asks |
| `AllocMapProofs` | | theorems about `AllocMap` |
| `SpoolTxn` | `runTxn`, snapshot and restore, the extent undo journal, the spool | allocator bits, block table, spool and its undo list; every call that writes, `Allocate` and `Free` included, first makes and seeds the spool (`ensureSpool`), and fails there or at the write |
| `SpoolTxnProofs` | | theorems about `SpoolTxn` |
| `Catalog` | NDB nodes, blocks, counts | the drop cascade is one action per call of `releaseExtra` / `dropBlock`, so a failure may come between any two |
| `CatalogProofs` | | theorems about `Catalog` |
| `BTree` | operators: chunking, separators, levels, search, pages under a root, structure checks | shared by both writers (`"first"` key separators in v2, `"last"` in legacy) |
| `TreeImage` | `Encode`'s tree pages, `CheckTrees`, `OpenNDBFrom` | entries, page map, page owners, previous commit's pages |
| `AtomicFile` | abstract specification: the file is the old or the new complete image | image in memory, last published, stored; `Mutate`, `Replace`, `Settle`, `Crash`, `Reopen` |
| `CommitTxn` | `CommitTo`, `CommitFile`, stage, two-phase write, rename, adopt, handles | what is written and what is synced, per file; handles; a crash at every step |
| `CommitTxnProofs` | | theorems about `CommitTxn`, among them that it implements `AtomicFile` |
| `LegacyTree` | `WriteTransaction` + `BTWriter` + lookups | trees on file, caches, queues, id counters |
| `TreeProofs` | | theorems about `BTree`, `TreeImage` and `LegacyTree` |
| `NodeTrees` | operators: data trees and subnode trees as blocks, built, walked and validated | a catalog `[blocks, next]` is threaded through; an error is `Refused` |
| `NodeHeap` | operators: heap on node and BTH, builder and reader | pages of allocations; HIDs and HNIDs are packed numbers as in the code, so one can be taken for the other |
| `PropertyContext` | operators: the PC builder, commit, attach, reader, `Load` | `[heap, props]` |
| `TableRows` | rows, `byRow` and `nextID` of a TC under construction | `tab`; one action per call (`TableSpec`) |
| `TableContext` | operators: column layout, row bytes, commit, attach, `OpenTC` | extends `TableRows`; a row is its bytes, written column by column with the CEB among them, so overlapping columns show |
| `Attachments` | operators: what a message writes below its node | recursion over embedded messages is by depth, as `validateAttachmentTree` bounds it |
| `Contexts` | the composition: a session of builders, messages, deletions and `Encode` on one catalog | `nodes`, `cat`, the builder in use, `want` (what was last committed to each node), id counters, readers |
| `Walk` | operators: loops that follow links until there is nothing new (`contains`, `depthOf`, `deleteLocked`, the plan's) | used by `FolderTree` and `Exporter`; a recursive function, so that it can be proved about |
| `WalkProofs` | | lemmas about `Walk` and induction by first failure, used by the other proof modules |
| `FolderTree` | `FolderTree` of v2 on the store of `WriteMinimum` | folders with their tables, messages, next indexes; one action per operation, the calls it makes are operators applied in the code's order |
| `Exporter` | the export session; extends `FolderTree`, whose `tree` is the store Finalize builds | the plan, the readers of bodies, the passes of `CreateFromPlan`; each folder and message of Finalize is an action; `EditStore` makes the calls of `FolderTree` directly on a store |
| `MessagingProofs` | | theorems about `TableRows`, `FolderTree` and `Exporter` |
| `LegacySpace` | AMap manager, two-phase commit, recovery | units of the file as written and as synced, header in memory, as written, as synced |
| `LegacySpaceProofs` | | theorems about `LegacySpace` |

`MC*` modules and `.cfg` files give the constants. Operators marked "Seeded
bug" are the mutants of `PROJECT.json`; no specification uses them.

Correspondence. Every action is the whole handler, with its refusals as guards,
so an error return without effect is a disabled action. Data are abstracted: a
payload is its identity; a space is counted in slots (`AllocMap`), in slots of
a block (`SpoolTxn`, `Catalog`), in pages (`TreeImage`, `LegacySpace`); in the
context modules a payload is its identity and its length, cut into slices. Mutexes
make calls atomic, so an action is a call except where a step inside it may
fail, crash, or be seen by another process: there each step is an action.

## 3. Runs

Passing runs:

| Run | Question | Bounds and why they are enough |
|---|---|---|
| `alloc_map` | map pages reserved, allocations fresh, held slots kept, every image loads | three regions whose periods of PMap, FMap and FPMap pages are short, so that they have different numbers of map pages |
| `spool_txn` | an abort rewinds everything | three slots, so that slots are reused within a transaction |
| `catalog` | no dangling reference, live blocks keep space, a commit reopens, cascades end; counts exact and no leak while storage works | three blocks: a tree of two levels that shares a leaf with another owner; an instance where every read and free works and one where any may fail, chosen in `Init` |
| `tree_image` | lookups, structure, page ownership over commits | leaves of one entry and branches of two, so three entries need three levels |
| `commit_txn`, `atomic_file` | source readable, handles closed, VALID means complete; refinement of `AtomicFile` | two generations of the image and one of each kind of destination |
| `exporter` | the plan is a tree, the file is the plan, plans that fit commit; on any store: rows, flags and counts in step, names distinct, rooted, messages kept | store: three user folders beside the four of a blank one (`MaxFolders` 7), depth four, so that a folder with a child and a grandchild can be moved, renamed and deleted in any order; plan: `PlanMaxFolders` 4, `PlanMaxDepth` 3, two messages and one shared body reader. A plan then never exceeds the depth of the store; the plans that do not fit are those with a name the blank store has |
| `contexts` | what was committed is read back, through every check of the reader; no block is lost or kept for nothing; the row index is exact | pages of 30 bytes with allocations of at most 16 and one property in a BTH leaf, so that three properties need two index levels and nearly all the pages a heap may have (`HNMaxBlockIndex` 7); bitmap headers from page 2 on, every second page; XBLOCKs of three entries, SLBLOCKs of two, SIBLOCKs of three, so that each tree has both its levels and its limit; row ids up to 255 with callers that give 2 and 255, so that `nextID` wraps; tables with a string column of one or two bytes, whose HNID runs over the columns, the CEB or the row; embedding to depth one. Three kinds of session: one builder with five calls, two with two calls each, one call and two messages |
| `legacy_tree` | no node lost, BIDs unique, caches coherent | leaves of two entries, three NBT entries, two node indexes |
| `legacy_space` | the last commit readable after any crash, rollback or reopening | a created file whose blocks the bounded transactions do not reach; the header write of `startWrite` may fail, and any write of a commit may fail with any part of the writes on file |

Deadlock is checked in every run but `exporter`, where a closed session really
stops, and `contexts`, whose sessions are bounded.

`SpoolTxn`, `Catalog` and `CommitTxn` have a `TypeOK` that documents their state;
the runs spend their properties on the rest.

### Disagreements

Two runs show that the code does not do what a comment or document of the
repository says; `PROJECT.json` has the quotations:

* `spool_txn_nested` (`TxnDepth = 2`): a `runTxn` inside another ends the outer
  undo journal, so an outer rollback leaves spool bytes that are not rewound.
* `legacy_separators` (a second leaf page): the legacy writer keys branch pages
  by the last key of each child and the search reads them by the first.

The models exhibit more, under constants or questions that the passing runs
leave out; each passing run shows what the code gets right beside it:

* `LegacyTree` (`legacy_tree` allows all three, and `NodeLookupsExact` would fail
  there): `Ops` with `"update"`: `UpdateNodeData` and `MoveNode` queue a
  deletion and an insertion of one NID; the second takes the first back
  (`btree_write.go:50`), the old entry stays beside the new one, and
  `NodeLookupsExact` fails. With `"copy"`, two nodes share a block that
  `DeleteNodeRecursive` removes (`node_write.go:305`). With `"reopen"`,
  `nextNID` starts again at zero (`transaction.go:239`).
* `LegacySpace`, `CommittedReadable`: with `Modes = {"two"}` a second
  transaction begun before the first ends overwrites it (`transaction.go:68`);
  with `Modes = {"resume"}` a transaction after a recovery overwrites recovered
  blocks (`transaction.go:311`, `recovery.go:119`); with `HasAMap = TRUE` AMap pages are never written
  back, so the next transaction hands the last one's space out again, space
  freed in a transaction is reused before it commits (`transaction.go:287`), and
  offsets are one page past the slots that are free (`amap.go:215`); with
  `InitAt` within reach (`<<2, 3>>`), new blocks run over those `Create` made. That
  happens in every file: `Create` marks the first 0x4600 bytes in its AMap
  (`amap.go:441`), whose slots `findContiguousFree` counts from the end of the page
  (`amap.go:215`), so its blocks lie from 0x8C00, 35 pages past the `IBFileEOF` of
  0x4600 that it records (`pst_write.go:212`), and once about 17.5 KB of blocks and
  tree pages were appended the next ones fall on them.
* `Catalog`: with a payload that cannot be read, `treeChildRefs` returns no
  children and no error (`ndb.go:379`), so counts stay that nothing in the file
  explains; `RefCountsExact` is therefore stated for storage that works.
  `PutSubnodeTree` validates the trees below an SLBLOCK entry by entry
  (`subnode.go:132`) and so builds one that leads to the same SLBLOCK twice;
  `Encode` commits it, and `OpenNDB`, which walks the whole tree with one `seen`,
  refuses the file (`subnode.go:142`). With `SharedSubnodes = TRUE` TLC finds
  `CommittedReopens` violated by just this, over three blocks. A caller gets there
  with two entries of one `bidSub`, or by attaching a heap that has subnodes of
  its own to one parent twice (`heap.go:309`). The run and the theorem say what
  holds for callers that do not (`SharedSubnodes = FALSE`).
* `FolderTree`: the tables of a folder are found by its index alone, and indexes
  of folders (from 0x400) and of search folders (0x4000) meet after 15360
  folders, which `MaxFolders` allows: with `FinderIndex = 4` `RowsMirrorFolders`
  fails. `Move` checks the depth of the folder it moves and not the height of
  what is below it. `WriteMinimum` takes any `DisplayName` (`minpst.go:95`, `:180`):
  with "Deleted Items" or "Search Root" two system folders are equal siblings from
  the start, so `SiblingNamesDistinct` says nothing of two system folders
  (the other properties of the run hold then too: `IPMName = "waste"`).
* `Exporter`: the plan's limits are not the store's (`PlanFits` says how they
  differ), and a second Finalize finds attachment bodies at their end
  (`BodiesUnread`).
* `Contexts`: a transaction that fails does not give back the node indexes its
  message and attachments took. `PC.Load` keeps properties alone: committing the
  context of a message again drops its tables, and a context with a property of
  `SetObjectNID` cannot be loaded (`pc.go:397`). A builder that is built a second
  time appends to the heap it has, so it meets the page limit earlier than a new
  one. Two equal NIDs on both sides of an SLBLOCK boundary are caught by the keys
  of the SIENTRYs only. The invariants hold with all of this: it is what the
  code promises a caller, and `want` says exactly that.
  `NewTC` accepts a String, Binary or Object column of one or two bytes, but the
  HNID of a value has four (`tc.go:268`): it goes over the columns behind and the
  bits of the CEB, so that the value is silently missing after the next `Load`, or
  `Get` panics (`tc.go:577`), or `Commit` does. The run has three such tables;
  `TablesReadBack` asks nothing of them once a value is set (`HaveRoom`), and TLC
  finds it violated without that exception, in five states.

**Fairness.** Two liveness properties. `CascadeEnds` (run `catalog`) has weak
fairness on the steps of a running cascade, `FittingPlansCommit` (run
`exporter`) on the steps of a running Finalize: both are the iterations of one
call on one goroutine, and nothing in them waits. No fairness is assumed of
callers, and a commit to the sink may always fail.

## 4. Proofs

Every theorem is for all values of the constants that meet the named assumption
of its module; a hypothesis beyond that is part of the statement and explained
here. Each inductive invariant below was first checked by TLC on the constants of
the run (of `ImageInv` and `LegacyInv` the parts that TLC can enumerate), then proved
in the same shape: it holds initially, every action keeps it (one lemma per action),
and it implies the property.

`AllocMapProofs` (`GeometryAssumption`: page and AMap sizes positive, an AMap a
whole number of pages, four map pages and the largest allocation fit in a region;
the real constants meet it):

* `TypeCorrect`, `MapPagesStayReserved`, `EveryImageLoads`: `TypeOK`,
  `MetadataReserved` and `ImageLoads` are invariants;
* `AllocationsGrantFreshRuns`, `HeldSlotsStay`: the action properties
  `AllocationsAreFresh` and `HeldUntilFreed`.

The inductive invariant is `IInv == TypeOK /\ MetadataReserved /\
CurrentRegionExists`. The last conjunct is needed because `ImageLoads` asks that
the DList's current region exist and only `ShrinkTrailingEmpty` can break it;
`MetadataReserved` needs `TypeOK` because a region number must be a natural for
its slots to be ordered. Per action: `Grow` marks the new region's pages;
allocations and `Reserve` only add bits, inside mapped slots (`FitMapped`); `Free`
takes away a run that meets no map page; `ShrinkTrailingEmpty` keeps the bits of
the regions that stay, and the regions it drops hold nothing but map pages, which
is why `HeldUntilFreed` holds of it too.

`SpoolTxnProofs` (`SpoolAssumption`: sizes positive, the zero byte is no block):

* `SlotsStayOwned`: `BlocksOwnTheirSlots`, at any depth of nesting;
* `PayloadsStayReadable`, `RollbackRewinds`: `PayloadsReadable` and the action
  property `AbortRewinds`, for `TxnDepth = 1`. The hypothesis is the code's own
  limit: with `TxnDepth = 2` `spool_txn_nested` shows the violation.

`SlotsInv` says that blocks own their slots now and in every snapshot a rollback
may restore. The undo argument is `RewindInv == JournalInv /\ PayloadsReadable`:
for the running transaction, journal and spool together still hold what every slot
read when it began (`Restorable`). Neither half is inductive alone: a rollback
makes payloads readable because of `Restorable`, and a new snapshot is restorable
because payloads are readable.

`CatalogProofs` (`CatalogAssumption`):

* `NothingDangles`, `LiveBlocksStayHoused`, `SpaceNeverLeaks`:
  `NoDanglingReference`, `LiveBlocksHoldSpace` and `NoLeakedSpace`, with no
  hypothesis, for any number of nodes and blocks and any faults;
* `CountsStayExact`, `CommitsReopen`: `RefCountsExact` and `CommittedReopens`, from
  `[]CountsFit`: no block has so many references that its 16-bit count wraps.
  `computeRef` truncates (`ndb.go:311`), so without it both are false.
  `CommitsReopen` also assumes `~ SharedSubnodes`, for the reason given under
  "Disagreements";
* `CountsStayFit`, `RoomyCatalog`: `CountsFit` always holds where
  `1 + 2 * Cardinality(NID) + 2 * MaxBID < RefMod`, so within that bound, which the
  run's constants meet, the two theorems need no hypothesis on the behaviour
  (`CommitsReopen` still that no tree names an SLBLOCK twice). The
  factor 2 is the model's: a staged tree names one block at most twice.

The first three rest on `IInv`. Its central part, `Covered`, is the accounting of a
cascade: each counter is at least the references in live payloads plus the
releases still to run, and just that when every payload can be read. That is what
makes it safe to drop a block whose counters are zero while other drops are under
way. `Queued` says that a block in line to be dropped has no owner and that
serialising comes last, inside a transaction, with every orphan in line before it;
`SoundSnap` and `SoundImage` say the same of what a rollback and a reopening bring
back. `PInv` adds that a count is right or a call still to run will see to it
(`Exact`), and that the counts of an image are ones `OpenNDB` accepts; `WInv` that
every tree of the catalog, the snapshot and the image passes the walks of
`reconstructTreeRefs`: `TreeKept` carries the witness of a walk from one catalog to
the next, because live payloads do not change and nothing live is named away.
`BInv` bounds the counters by the block ids handed out, also in the snapshot and in
the image.

`CommitTxnProofs` (`CommitAssumption`, `NoneAssumption`):

* `TypeCorrect`, `SourceStaysReadable`, `HandlesNeverLeak`, `ValidStaysComplete`:
  `TypeOK`, `SourceReadable`, `NoLeakedHandle` and `ValidMeansComplete`;
* `CommitFileAtomic`: `ImplementsAtomicFile` where `~ InPlace`. A caller that
  publishes over a file of the store can leave that file without a valid header,
  which `AtomicFile` does not allow.

`IInv` follows a commit step by step: what is written and what is synced at each
`pc` (`Written`), which handles are open and who closes them (`HandlesSound`,
`EveryOpenOwned`), which files a stage and a spool must not share
(`CommitToSound`, `CommitFileSound`), and that no crash can show a valid header
over a foreign body (`CrashSafe`, of the cached and the synced copy together,
because a crash may keep either part of each). The refinement adds `NamesSettled`:
a file at the path is complete and synced for good; every step then maps to a step
of `AtomicFile` or leaves the abstract state as it was.

`WalkProofs`, `MessagingProofs` (`FolderAssumption`, `ExporterAssumption`):

* `RowsStayMirrored`, `CountsStayExact`, `TreeStaysRooted`, `SiblingsStayDistinct`,
  `MessagesStay`: `RowsMirrorFolders`, `CountsMatchMessages`, `Rooted`,
  `SiblingNamesDistinct` and the action property `MessagesKept`, of `FolderTree`,
  whatever names `WriteMinimum` gives;
* `PlanStaysTree`: `PlanIsTree`, for any limits;
* `FileStaysPlan`, `ExportedStoreCoherent`, `ExportKeepsMessages`:
  `FileMatchesPlan`, and the properties of `FolderTree` for a store that Finalize
  writes or that is edited without a session.

All but `PlanStaysTree` have the hypothesis `MaxIndex < FinderIndex`: normal
folders stay below the index of the search folder. It is the boundary of the
collision described in section 3, and the theorems are false without it. The
invariant `TreeInv == TreeOK(tree) /\ Fresh` has a part for each property
(`Settled`, `Counted`, `Anchored` and `Filed`, `Distinct`) and what they need: one
owner for every table (`Sound`) and free indexes ahead (`Fresh`). `Settled` takes
the folders whose rows are missing or stale as arguments, so that lemmas can follow
an operation through the calls it makes (`SetParent`, `removeChildRow`,
`upsertChildRow`, `syncFlags`) while the store is not yet coherent. `Anchored` says
that no set of folders without the root is closed under parents: unlike a path to
the root, it can be carried through `Move` without induction. The loops of the code
are `Walk`'s recursive function; `WalkProofs` shows that they visit the least
closed set, by taking the first number at which a claim fails (`FirstFailure`,
from the well-founded order of the naturals), which is induction over numbers that
the provers accept. For `Exporter` come `PlanInv` (depths are lengths of ways up)
and `ExportInv` (each folder of the plan is made, left to this pass or left to the
next; the store's messages are the first ones of the plan).

`MessagingProofs`, of `TableRows` (`RowAssumption`: bounds are naturals, `MaxRowID` is positive,
callers' ids lie in 1 .. `MaxRowID`):

* `IndexStaysExact`: `RowIndexExact`, `byRow` leads from every row to itself and
  from every id to a row that has it.

The inductive invariant is `TableInv == WellFormed(tab) /\ Exact(tab)`. `Exact` is
`RowIndexExact` of any table, so that lemmas can speak of the table after a call;
`WellFormed` is needed because `Add` takes its id from `nextID`, which wraps to 0,
and `Delete` shifts positions: without rows being a sequence and positions
numbers nothing follows.

`TreeProofs`, over `TreeImage` (`BTreeAssumption`: a leaf holds an entry at least,
another page two kids; `ImageAssumption`: keys and `MaxHeld` are naturals):

* `EncodeTreeHolds`: what `encodeTree` lays out of an ascending list of entries is
  a tree over exactly that list;
* `TreePagesStayOwned`, `ImageAlwaysPassesCheckTrees`, `LookupsAlwaysExact`,
  `OldTreesStayUntouched`: `TreePagesOwned`, `ImagePassesCheckTrees`, `LookupsExact`
  and the action property `OldTreesUntouched`, for trees of every height;
* `ReopenFindsCommit`: `OpenNDBFrom` fills the catalog with just what was committed.

A tree is described by a span for every page: `HoldsTree` says that page `p` stands
for the entries `lo[p] .. hi[p]` of the list, a leaf has them as its kids, and the
kids of another page have adjoining spans, keys equal to the first entry of theirs,
and lie one level below. `LevelSound` shows that one round of the loop over the
levels puts such pages over a level that covers the list; `AddLevelsRounds` and
`OneRow` that the rounds lead to one page, because a level is shorter than the one
below. `PlacedTrees` carries both trees to the pages `AllocatePages` granted, which
are distinct and free (`AllocatePagesGrants`). From a tree follow the pages under
its root (`TreePages`), the separators (`TreeSeparators`), the search
(`TreeSearch`: the child chosen is the one whose span has the key) and the keys in
its leaves (`TreeLeaves`). The inductive invariant `ImageInv` then says only that
held and live pages are disjoint finite sets, that the catalog is typed, and that
after a commit the file is the two trees of the entries committed. It quantifies
over spans, which TLC cannot enumerate; the run `tree_image` checks what follows
from it.

`TreeProofs`, over `LegacyTree` (`BTreeAssumption`; `LegacyAssumption`: the root's NID,
the bounds on ids and on entries are naturals):

* `NoNodeIsLost`, `BlockIdsStayUnique`, `CachesStayCoherent`: `NoNodeLost`,
  `BlockIdsUnique` and `CacheCoherent`, with updates, copies and reopenings allowed, for
  page capacities and trees of any size.

The trees are those of `encodeTree` again, now keyed by last keys. No theorem says that
a search of them is exact (`legacy_separators` refutes that): what is proved is that
`collectEntries` of `encodeTree` of a list is that list (`EncodeCollects`), whatever the
separators. `Rows` says that the pages below those of one level are, from the left, those
of the next level; the loop over the levels keeps it (`LevelStacks`); then the rows under the root, one per level, end in the leaves
(`CollectRows`), and the runs of the leaves adjoin (`FlattenRuns`). `SearchOne` adds that
a search that follows the wrong child still finds one entry at most, so that a cached
answer can be the only one. `Merged` orders by rank; `MergedHas` says that its
keys are the surviving and the inserted ones, each once where the old list had it once. The inductive invariant is
`LegacyInv == TreesKept /\ QueueKept /\ CacheCoherent`. `BlockIdsUnique` alone is not
inductive: a fresh id must be above those on file also after a rollback or a reopening, so
`TreesKept` puts the ids on file below `bidNextB` and `QueueKept` the queued ones from
`bidNextB` up to `nextBID`, which `Commit` stores as the new `bidNextB`. `NoNodeLost` needs that every
node a commit now should leave is queued, or on file and not queued for deletion.
`CacheCoherent` is kept because the trees change only where `Commit` empties the caches.

`LegacySpaceProofs` (`SpaceAssumption`, and `OneWriter` as the hypothesis):

* `CommitsStayReadable`: `CommittedReadable`, where `OneWriter` holds of the constants
  and `EndClear` of the behaviour.

`OneWriter` says: the file has no AMap pages, one transaction is open at a time,
nothing is written after a recovery, and the blocks of the file at hand are distinct.
`EndClear` says that the end of the file, which every allocation moves, has not come
to a block or page that lay past it from the start. Nothing in the code ensures it:
`Create` leaves its blocks 35 pages past the end of file it records, so the theorem
is about the first 17.5 KB written to a new file, and about files with nothing past
their end for as long as one likes. The counterexamples listed in section 3 show what
goes wrong without each of these. What the theorem does say is that the order of
writes, syncs and headers in `Commit` and `CheckAndRecover` survives every crash:
`SpaceInv` has parts for the last commit, whole on file and on disk (`BaseInv`), for
the headers that may differ from it at each step (`HeadersInv`), for the units a
transaction took, which lie between the old and the new end of file (`TakenInv`),
and for the commit that is about to be named (`NewInv`).

Only model-checked, and why:

* `CascadeEnds` and `FittingPlansCommit`: liveness under fairness is out of the
  prover's reach.
* `Contexts` (the read-back properties and `TreesAndNothingElse`): they are about what
  the `RECURSIVE` operators of `Attachments` compute, for which the provers have no
  induction.
* That lookups through the legacy trees are exact: false, as `legacy_separators` shows.
* The refinement of `AtomicFile` in place mode, and payloads under nested
  transactions: false, as said above.

## 5. Not modelled

* Byte layouts, CRCs, signatures, encryption, inspectors, the command line, error
  wrapping: conversions without state; see `components` for the reason of each.
  The legacy models use the ANSI header, whose writer and parser agree; the
  Unicode pair of `pkg/disk/header_write.go` and `header.go` does not (a hazard).
* No run reaches a reference count above 65535 (16-bit truncation in `ndb.go`).
  `RefMod` is the width: with `RefMod = 4` `CommittedReopens` fails, and section 4
  says from which bound on nodes and blocks it cannot.
* In `Attachments`, properties that do not tell messages or attachments apart,
  file names and sizes. `messageSizeOf` counts the bytes of an embedded message
  twice; no property is about that number.
* In `Exporter`, the byte limits of a plan and `CreateMailbox`.
* In the legacy writer, extended blocks (`WriteExtendedBlockData` gives its lock
  up between chunks, `transaction.go:187`, and is used by one goroutine),
  subnode builders and `UpdateNodeSubnodes`, `ValidateIntegrity` and
  `RepairCorruption`, and the outcome `sync.Once` keeps of loading a root.
* The legacy heap, property bags and tables, the public folder and message API
  above them, and RTF decompression.

## 6. Plan

Done, in order: `AllocMap`, `SpoolTxn`, `Catalog`, `BTree` and `TreeImage`,
`AtomicFile` and `CommitTxn`, `LegacyTree`, `LegacySpace`, `FolderTree`,
`Exporter`, `NodeTrees`, `NodeHeap`, `PropertyContext`, `TableRows`,
`TableContext`, `Attachments`, `Contexts`. Proved: every safety property the runs
check of `AllocMap`, `SpoolTxn`, `Catalog`, `CommitTxn`, `FolderTree`,
`Exporter`, `TreeImage` and `LegacyTree`, the refinement of `AtomicFile` where the caller publishes
over no file of the store, the row index of `TableRows`, and `LegacySpace` for one
writer of a file without AMap pages.

Next, in order:

1. `HeaderLayout`: byte ranges of the header fields, writer against parser, both
   formats and both writers.
2. Legacy extended blocks, subnode builders and the node reader: splitting and
   reading back, lazy loading under `sync.Once`.
3. Legacy heap, BTH, property bags and tables, then the public folder and
   message API above them.
4. RTF decompression against a reference.
