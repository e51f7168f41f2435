------------------------------ MODULE SpoolTxn ------------------------------
(***************************************************************************)
(* runTxn of writer/v2/tx.go: a mutation of the catalog runs against the   *)
(* work spool in place, and a failure restores a snapshot of the value     *)
(* state and rewinds the spool from the extent undo journal of store.go.   *)
(*                                                                         *)
(* A block is one slot; its payload is its own name, which is what         *)
(* blockPayload checks on a read (the trailer's BID). Map pages are        *)
(* AllocMap's subject and left out here. A call of runTxn may run inside   *)
(* another: FolderTree.Create runs Heap.Commit. TxnDepth bounds that.      *)
(***************************************************************************)
EXTENDS Integers, Sequences

CONSTANTS
  Block,        \* the block ids the callers use
  RegionSlots,  \* slots Grow adds
  MaxRegions,   \* bound of the model on the file's growth
  TxnDepth,     \* how deep runTxn calls nest
  Zero          \* the content of a cleared slot

ASSUME SpoolAssumption ==
  /\ RegionSlots \in Nat \ {0}
  /\ MaxRegions \in Nat \ {0}
  /\ TxnDepth \in Nat \ {0}
  /\ Zero \notin Block

VARIABLES
  regions,  \* len(s.regions); FileEOF is regions * RegionSlots
  bits,     \* allocated slots
  blocks,   \* n.blocks: block id -> [ib, put], put once its payload is written
  hasIO,    \* s.io # nil: a committed image exists
  io,       \* its bytes
  hasWork,  \* s.work # nil
  work,     \* the spool's bytes
  undo,     \* s.undo: [on, eof, orig], orig the captured slots
  txns,     \* the running runTxn calls, innermost last: their snapshots
  failing   \* an error is on its way out of the innermost running call

vars == <<regions, bits, blocks, hasIO, io, hasWork, work, undo, txns, failing>>

Slot == 0 .. RegionSlots * MaxRegions - 1

Empty == [s \in {} |-> Zero]

NoUndo == [on |-> FALSE, eof |-> 0, orig |-> Empty]

FileEOF(n) == n * RegionSlots

-----------------------------------------------------------------------------
(* The files *)

\* What a file holds at a slot; a hole or a free slot past its end reads zero.
At(f, s) == IF s \in DOMAIN f THEN f[s] ELSE Zero

WriteAt(f, s, v) ==
  [t \in DOMAIN f \cup 0 .. s |-> IF t = s THEN v ELSE At(f, t)]

Truncate(f, eof) == [t \in 0 .. eof - 1 |-> At(f, t)]

\* readExtent: the spool, or the source where the spool is too short.
ReadExtent(s) ==
  IF hasWork /\ s \in DOMAIN work THEN work[s]
  ELSE IF hasIO THEN At(io, s) ELSE Zero

\* ensureSpool: the spool as it is, or one seeded from the committed image,
\* no longer than that.
Spool == IF hasWork THEN work ELSE io

\* skipCovered: slot s is not in the journal, so its content has to be read.
Uncovered(s) == undo.on /\ s < undo.eof /\ s \notin DOMAIN undo.orig

\* readUndoBytes refuses an allocated slot past the end of the spool.
CanNote(s) == Uncovered(s) => s \in DOMAIN Spool \/ s \notin bits

\* Seeded bug: nothing is journalled.
NoteNothing(s) == undo

\* Seeded bug: free slots are thought to need no journal.
NoteAllocated(s) ==
  IF Uncovered(s) /\ s \in bits
  THEN [on |-> TRUE, eof |-> undo.eof, orig |->
          [t \in DOMAIN undo.orig \cup {s} |->
             IF t = s THEN At(Spool, s) ELSE undo.orig[t]]]
  ELSE undo

\* noteUndo: the first content of a slot below the journal's eof is kept.
NoteUndo(s) ==
  IF Uncovered(s)
  THEN [on |-> TRUE, eof |-> undo.eof, orig |->
          [t \in DOMAIN undo.orig \cup {s} |->
             IF t = s THEN At(Spool, s) ELSE undo.orig[t]]]
  ELSE undo

\* restoreUndo: every captured slot is written back.
RestoreUndo ==
  [t \in DOMAIN work \cup DOMAIN undo.orig |->
     IF t \in DOMAIN undo.orig THEN undo.orig[t] ELSE work[t]]

-----------------------------------------------------------------------------
(* The steps of a mutation *)

InTxn == txns # <<>>

\* An error ends the innermost running transaction; outside one it is only
\* reported to the caller.
Report == failing' = InTxn

\* The slot first fit picks, with the regions the file then has.
FirstFit ==
  LET free == {s \in 0 .. FileEOF(regions) - 1 : s \notin bits}
  IN  IF free = {} THEN [ib |-> FileEOF(regions), regions |-> regions + 1]
      ELSE [ib |-> CHOOSE s \in free : \A t \in free : s <= t,
            regions |-> regions]

WithBlock(b, e) ==
  [c \in DOMAIN blocks \cup {b} |-> IF c = b THEN e ELSE blocks[c]]

WithoutBlock(b) == [c \in DOMAIN blocks \ {b} |-> blocks[c]]

\* ensureSpool, which Allocate, Free and writeExtent run first, then slot s is
\* journalled and v written to it.
SpoolWrite(s, v) ==
  /\ CanNote(s)
  /\ hasWork' = TRUE
  /\ work' = WriteAt(Spool, s, v)
  /\ undo' = NoteUndo(s)

\* ensureSpool fails: no temporary file, or the copy of the image fails.
SpoolNotMade == ~ hasWork /\ UNCHANGED <<hasWork, work, undo>>

\* The spool is there, seeded if it was not, but the content to journal is not
\* read, or slot s not written, or written and the call reports an error.
SpoolWriteFails(s, v) ==
  /\ hasWork' = TRUE
  /\ \/ work' = Spool /\ undo' = undo /\ Uncovered(s)
     \/ work' \in {Spool, WriteAt(Spool, s, v)} /\ undo' = NoteUndo(s) /\ CanNote(s)

\* AllocBlock, which callers may use by itself: a block without payload. Its
\* slot is zeroed (clearBacking), even on a spool just made.
AllocBlock(b) ==
  /\ ~ failing
  /\ b \notin DOMAIN blocks
  /\ FirstFit.regions <= MaxRegions
  /\ regions' = FirstFit.regions
  /\ bits' = bits \cup {FirstFit.ib}
  /\ blocks' = WithBlock(b, [ib |-> FirstFit.ib, put |-> FALSE])
  /\ SpoolWrite(FirstFit.ib, Zero)
  /\ UNCHANGED <<hasIO, io, txns, failing>>

\* AllocBlock then putPayload, the pair every tree builder runs per leaf, all
\* of them in a transaction.
PutPayload(b) ==
  /\ InTxn /\ ~ failing
  /\ b \notin DOMAIN blocks
  /\ FirstFit.regions <= MaxRegions
  /\ regions' = FirstFit.regions
  /\ bits' = bits \cup {FirstFit.ib}
  /\ blocks' = WithBlock(b, [ib |-> FirstFit.ib, put |-> TRUE])
  /\ SpoolWrite(FirstFit.ib, b)
  /\ UNCHANGED <<hasIO, io, txns, failing>>

\* Allocate fails before anything changes, as there is no spool; or in mark's
\* clearBacking: the slot stays free, a region that was added stays.
AllocFails(b) ==
  /\ ~ failing
  /\ b \notin DOMAIN blocks
  /\ \/ SpoolNotMade /\ UNCHANGED regions
     \/ /\ FirstFit.regions <= MaxRegions
        /\ regions' = FirstFit.regions
        /\ SpoolWriteFails(FirstFit.ib, Zero)
  /\ Report
  /\ UNCHANGED <<bits, blocks, hasIO, io, txns>>

\* The block is allocated and cleared, then the write of its payload reports an
\* error, done or not.
PutFails(b) ==
  /\ InTxn /\ ~ failing
  /\ b \notin DOMAIN blocks
  /\ FirstFit.regions <= MaxRegions
  /\ regions' = FirstFit.regions
  /\ bits' = bits \cup {FirstFit.ib}
  /\ blocks' = WithBlock(b, [ib |-> FirstFit.ib, put |-> FALSE])
  /\ \E v \in {Zero, b} : SpoolWrite(FirstFit.ib, v)
  /\ Report
  /\ UNCHANGED <<hasIO, io, txns>>

\* dropBlock: the entry goes, then Free clears and frees its slot, on a spool
\* made from the image when there is none.
DropBlock(b) ==
  /\ ~ failing
  /\ b \in DOMAIN blocks
  /\ blocks' = WithoutBlock(b)
  /\ bits' = bits \ {blocks[b].ib}
  /\ SpoolWrite(blocks[b].ib, Zero)
  /\ UNCHANGED <<regions, hasIO, io, txns, failing>>

\* Free fails after the entry went: the slot stays allocated.
DropFails(b) ==
  /\ ~ failing
  /\ b \in DOMAIN blocks
  /\ blocks' = WithoutBlock(b)
  /\ SpoolNotMade \/ SpoolWriteFails(blocks[b].ib, Zero)
  /\ Report
  /\ UNCHANGED <<regions, bits, hasIO, io, txns>>

\* A check of the mutation refuses.
Refuse ==
  /\ InTxn /\ ~ failing
  /\ failing' = TRUE
  /\ UNCHANGED <<regions, bits, blocks, hasIO, io, hasWork, work, undo, txns>>

-----------------------------------------------------------------------------
(* Transactions *)

\* capture; seen is not in the code: what every slot read at that moment.
Capture ==
  [regions |-> regions, bits |-> bits, blocks |-> blocks, hadWork |-> hasWork,
   seen |-> [s \in 0 .. FileEOF(regions) - 1 |-> ReadExtent(s)]]

\* runTxn and CommitTo/CommitFile begin: beginUndo starts a new journal.
BeginTxn ==
  /\ ~ failing
  /\ Len(txns) < TxnDepth
  /\ txns' = Append(txns, Capture)
  /\ undo' = IF hasWork
             THEN [on |-> TRUE, eof |-> FileEOF(regions), orig |-> Empty]
             ELSE undo
  /\ UNCHANGED <<regions, bits, blocks, hasIO, io, hasWork, work, failing>>

Innermost == txns[Len(txns)]

Outer == SubSeq(txns, 1, Len(txns) - 1)

\* The deferred endUndo of runTxn drops the journal.
EndTxn ==
  /\ InTxn /\ ~ failing
  /\ txns' = Outer
  /\ undo' = NoUndo
  /\ UNCHANGED <<regions, bits, blocks, hasIO, io, hasWork, work, failing>>

\* restoreSource: a spool the transaction created goes, another is rewound
\* and truncated.
RestoreSource(snap) ==
  IF snap.hadWork
  THEN /\ hasWork' = TRUE
       /\ work' = Truncate(RestoreUndo, FileEOF(snap.regions))
  ELSE hasWork' = FALSE /\ work' = Empty

\* Seeded bug: the catalog is not restored.
AbortKeepsBlocks ==
  /\ InTxn /\ failing
  /\ regions' = Innermost.regions
  /\ bits' = Innermost.bits
  /\ RestoreSource(Innermost)
  /\ undo' = NoUndo
  /\ txns' = Outer
  /\ failing' = (Outer # <<>>)
  /\ UNCHANGED <<blocks, hasIO, io>>

\* abortTxn, then the deferred endUndo; the caller passes the error on.
AbortTxn ==
  /\ InTxn /\ failing
  /\ regions' = Innermost.regions
  /\ bits' = Innermost.bits
  /\ blocks' = Innermost.blocks
  /\ RestoreSource(Innermost)
  /\ undo' = NoUndo
  /\ txns' = Outer
  /\ failing' = (Outer # <<>>)
  /\ UNCHANGED <<hasIO, io>>

\* Blocks nobody finished: the orphans of the next commit.
Orphans == {b \in DOMAIN blocks : ~ blocks[b].put}

\* Whether Encode can free the orphans; the commit's own journal notes them.
CanReclaim ==
  hasWork => \A b \in Orphans : blocks[b].ib \in DOMAIN work

\* A commit that succeeds: Encode reclaims the orphans, the image of the rest is published and adopted, the spool goes.
Commit ==
  /\ ~ InTxn
  /\ CanReclaim
  /\ blocks' = [b \in DOMAIN blocks \ Orphans |-> blocks[b]]
  /\ bits' = bits \ {blocks[b].ib : b \in Orphans}
  /\ hasIO' = TRUE
  /\ io' = [s \in 0 .. FileEOF(regions) - 1 |->
              IF s \in bits' THEN At(Spool, s) ELSE Zero]
  /\ hasWork' = FALSE
  /\ work' = Empty
  /\ UNCHANGED <<regions, undo, txns, failing>>

Init ==
  /\ regions = 1
  /\ bits = {}
  /\ blocks = [b \in {} |-> [ib |-> 0, put |-> FALSE]]
  /\ hasIO = FALSE /\ io = Empty
  /\ hasWork = FALSE /\ work = Empty
  /\ undo = NoUndo
  /\ txns = <<>>
  /\ failing = FALSE

Next ==
  \/ \E b \in Block : \/ AllocBlock(b) \/ PutPayload(b) \/ AllocFails(b) \/ PutFails(b)
                      \/ DropBlock(b) \/ DropFails(b)
  \/ Refuse
  \/ BeginTxn \/ EndTxn \/ AbortTxn
  \/ Commit

Spec == Init /\ [][Next]_vars

-----------------------------------------------------------------------------
(* Properties *)

File == UNION {[0 .. n - 1 -> Block \cup {Zero}] : n \in 0 .. RegionSlots * MaxRegions}

TypeOK ==
  /\ regions \in 1 .. MaxRegions
  /\ bits \subseteq 0 .. FileEOF(regions) - 1
  /\ DOMAIN blocks \subseteq Block
  /\ \A b \in DOMAIN blocks : blocks[b] \in [ib : Slot, put : BOOLEAN]
  /\ hasIO \in BOOLEAN /\ io \in File
  /\ hasWork \in BOOLEAN /\ work \in File
  /\ undo.on \in BOOLEAN /\ DOMAIN undo.orig \subseteq Slot
  /\ Len(txns) <= TxnDepth
  /\ failing \in BOOLEAN

\* Two blocks never share a slot and none sits on a free one, through every
\* failed allocation, failed free and rollback (store.go mark, tx.go restore).
BlocksOwnTheirSlots ==
  \A b \in DOMAIN blocks :
    /\ blocks[b].ib \in bits
    /\ \A c \in DOMAIN blocks \ {b} : blocks[c].ib # blocks[b].ib

\* Every block whose payload was written reads back with its own payload,
\* whatever failed since: blockPayload never finds another BID or zeros.
PayloadsReadable ==
  \A b \in DOMAIN blocks : blocks[b].put => ReadExtent(blocks[b].ib) = b

\* A failed transaction leaves no trace: after the rollback every slot below
\* the end of file reads what it read when the transaction began ("failed tree
\* writes restore that snapshot and rewind in-place work mutations from an
\* extent undo journal", doc.go).
AbortRewinds ==
  [][AbortTxn => \A s \in DOMAIN Innermost.seen :
                    ReadExtent(s)' = Innermost.seen[s]]_vars
=============================================================================
