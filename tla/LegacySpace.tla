---------------------------- MODULE LegacySpace -----------------------------
(***************************************************************************)
(* Where the legacy writer puts its blocks and pages, and what a crash     *)
(* leaves of them: WriteTransaction (pkg/ndb/transaction.go) over          *)
(* AMapManager (pkg/disk/amap.go), the header and CheckAndRecover          *)
(* (pkg/ndb/recovery.go, which OpenReadWrite of pst_write.go calls).       *)
(*                                                                         *)
(* Space is counted in units of one page from offset 0x4600; a block takes *)
(* one unit. The NBT and the BBT of a commit are one page here, which      *)
(* gives the place of every block: that neither lookups nor keys matter to *)
(* where things lie is why LegacyTree has them instead.                    *)
(*                                                                         *)
(* The header is the ANSI one, whose fields SerializeHeaderANSI puts where *)
(* parseANSIHeader reads them; the two Unicode functions do not agree.     *)
(***************************************************************************)
EXTENDS Integers, FiniteSets, Sequences

CONSTANTS
  Units,     \* bound of the model on the size of the file
  InitAt,    \* where the blocks of the file at hand lie, its tree page last
  EOF,       \* IBFileEOF of that file
  HasAMap,   \* IBAMapLast # 0: the file has AMap pages (Create makes none)
  MaxBID,    \* bound of the model: block ids handed out
  Modes      \* what the program does: begin a second transaction, delete
             \* blocks, write again after a recovery

ASSUME SpaceAssumption ==
  /\ Units \in Nat \ {0} /\ EOF \in 0 .. Units
  /\ InitAt \in Seq(0 .. Units - 1) \ {<<>>}
  /\ HasAMap \in BOOLEAN
  /\ MaxBID \in Nat
  /\ Modes \subseteq {"two", "delete", "resume"}

Txn == IF "two" \in Modes THEN {1, 2} ELSE {1}

Unit == 0 .. Units - 1

VARIABLES
  file, disk,        \* every unit as written, and as synced
  header,            \* db.header
  hdrFile, hdrDisk,  \* the header as written, and as synced
  nextBID,           \* db.nextBID
  txns,              \* the transactions
  down,              \* the program is not running
  recovered,         \* CheckAndRecover has rebuilt the AMap
  live               \* not in the code: the blocks the last commit left

vars == <<file, disk, header, hdrFile, hdrDisk, nextBID, txns, down, recovered, live>>

NoMap == [b \in {} |-> 0]
Block(b) == [bid |-> b, tree |-> NoMap]
TreePage(m) == [bid |-> 0, tree |-> m]
Junk == [bid |-> -1, tree |-> NoMap]

Overlay(f, g) == [x \in DOMAIN f \cup DOMAIN g |-> IF x \in DOMAIN g THEN g[x] ELSE f[x]]

Without(f, S) == [x \in DOMAIN f \ S |-> f[x]]

NoTxn == [state |-> "idle", bits |-> {}, eof |-> 0, pending |-> NoMap,
          deletes |-> {}, root |-> 0, original |-> <<>>]

Idle(t) == txns[t].state = "idle"
Active(t) == ~ down /\ txns[t].state = "active"

\* The tree the header in memory names.
Current == file[header.root].tree

Committing == \E t \in Txn : txns[t].state \notin {"idle", "active"}

-----------------------------------------------------------------------------
(* AMapManager *)

\* The bits of the AMap pages on file, which nothing ever writes: bit i is
\* the page's own offset plus i units, so bit 0 is the page itself.
FileBits == {0} \cup {InitAt[i] + 1 : i \in DOMAIN InitAt}

\* loadAMapPages: with no AMap page there is nothing to search.
\* findContiguousFree takes bit i for the page's end plus i units.
LoadedBits == IF HasAMap THEN FileBits \cap Unit ELSE Unit

\* Allocate: the lowest clear bit, else the end of the file.
Allocate(t) ==
  LET free == Unit \ txns[t].bits
  IN  IF free # {}
      THEN {[ib |-> u, bits |-> txns[t].bits \cup {u}, eof |-> txns[t].eof] :
              u \in {u \in free : \A w \in free : u <= w}}
      ELSE {[ib |-> u, bits |-> txns[t].bits, eof |-> u + 1] :
              u \in {txns[t].eof} \cap Unit}

\* Free: nothing happens where no AMap page covers the unit.
FreedBits(t, u) == IF HasAMap THEN txns[t].bits \ {u} ELSE txns[t].bits

-----------------------------------------------------------------------------
(* WriteTransaction *)

\* Nothing keeps a second transaction from being begun.
BeginWrite(t) ==
  /\ ~ down /\ ~ Committing
  /\ Idle(t)
  /\ recovered => "resume" \in Modes
  /\ txns' = [txns EXCEPT ![t] =
                [NoTxn EXCEPT !.state = "active", !.bits = LoadedBits,
                              !.eof = header.eof, !.original = <<header>>]]
  /\ UNCHANGED <<file, disk, header, hdrFile, hdrDisk, nextBID, down, recovered, live>>

WriteBlockData(t) ==
  /\ Active(t) /\ ~ Committing
  /\ nextBID <= MaxBID
  /\ \E a \in Allocate(t) :
       txns' = [txns EXCEPT ![t].bits = a.bits, ![t].eof = a.eof,
                            ![t].pending = Overlay(@, [b \in {nextBID} |-> a.ib])]
  /\ nextBID' = nextBID + 1
  /\ UNCHANGED <<file, disk, header, hdrFile, hdrDisk, down, recovered, live>>

\* DeleteBlock: the space is free at once.
DeleteBlock(t, b) ==
  /\ Active(t) /\ ~ Committing
  /\ "delete" \in Modes
  /\ b \in DOMAIN Current \ txns[t].deletes
  /\ txns' = [txns EXCEPT ![t].bits = FreedBits(t, Current[b]),
                          ![t].deletes = @ \cup {b}]
  /\ UNCHANGED <<file, disk, header, hdrFile, hdrDisk, nextBID, down, recovered, live>>

\* HasChanges of the BTWriter.
Changes(t) == txns[t].pending # NoMap \/ txns[t].deletes # {}

\* Commit: the header with the AMap marked invalid is written, not synced.
startWrite(t) ==
  /\ Active(t) /\ ~ Committing
  /\ header' = [header EXCEPT !.status = "Invalid"]
  /\ hdrFile' = header'
  /\ txns' = [txns EXCEPT ![t].state = "started"]
  /\ UNCHANGED <<file, disk, hdrDisk, nextBID, down, recovered, live>>

\* The write of that header fails, having reached the file or not: the header in
\* memory keeps its Invalid, and the transaction is still active, so that Commit
\* may be called again and Rollback restores nothing.
startWriteFails(t) ==
  /\ Active(t) /\ ~ Committing
  /\ header' = [header EXCEPT !.status = "Invalid"]
  /\ hdrFile' \in {hdrFile, header'}
  /\ UNCHANGED <<file, disk, hdrDisk, nextBID, txns, down, recovered, live>>

\* The units the pending blocks go to, and then the tree page BTWriter.Apply
\* rebuilds, at root.
Pages(t, root) ==
  LET pending == txns[t].pending
      at(u)   == CHOOSE b \in DOMAIN pending : pending[b] = u
  IN  [u \in {pending[b] : b \in DOMAIN pending} \cup {root} |->
         IF u = root THEN TreePage(Overlay(Without(Current, txns[t].deletes), pending))
         ELSE Block(at(u))]

WriteAll(t) ==
  /\ ~ down /\ txns[t].state = "started"
  /\ Changes(t)
  /\ \E a \in Allocate(t) :
       /\ file' = Overlay(file, Pages(t, a.ib))
       /\ txns' = [txns EXCEPT ![t].state = "written", ![t].bits = a.bits,
                               ![t].eof = a.eof, ![t].root = a.ib]
  /\ UNCHANGED <<disk, header, hdrFile, hdrDisk, nextBID, down, recovered, live>>

\* One of those writes, or the sync after them, fails: some are on file, and
\* only Rollback is left.
WriteFails(t) ==
  /\ ~ down /\ txns[t].state = "started"
  /\ Changes(t)
  /\ \E a \in Allocate(t) : LET pages == Pages(t, a.ib) IN
       \E lost \in SUBSET DOMAIN pages : file' = Overlay(file, Without(pages, lost))
  /\ txns' = [txns EXCEPT ![t].state = "failed"]
  /\ UNCHANGED <<disk, header, hdrFile, hdrDisk, nextBID, down, recovered, live>>

\* With nothing queued Apply returns the root the header has.
WriteNothing(t) ==
  /\ ~ down /\ txns[t].state = "started"
  /\ ~ Changes(t)
  /\ txns' = [txns EXCEPT ![t].state = "written", ![t].root = header.root]
  /\ UNCHANGED <<file, disk, header, hdrFile, hdrDisk, nextBID, down, recovered, live>>

\* Seeded bug: the sync before the header is left out.
SyncNothing(t) ==
  /\ ~ down /\ txns[t].state = "written"
  /\ txns' = [txns EXCEPT ![t].state = "synced"]
  /\ UNCHANGED <<file, disk, header, hdrFile, hdrDisk, nextBID, down, recovered, live>>

SyncData(t) ==
  /\ ~ down /\ txns[t].state = "written"
  /\ disk' = file
  /\ hdrDisk' = hdrFile
  /\ txns' = [txns EXCEPT ![t].state = "synced"]
  /\ UNCHANGED <<file, header, hdrFile, nextBID, down, recovered, live>>

finishWrite(t) ==
  /\ ~ down /\ txns[t].state = "synced"
  /\ header' = [status |-> "Valid2", root |-> txns[t].root,
                eof |-> txns[t].eof, bidNextB |-> nextBID]
  /\ hdrFile' = header'
  /\ txns' = [txns EXCEPT ![t].state = "finished"]
  /\ UNCHANGED <<file, disk, hdrDisk, nextBID, down, recovered, live>>

\* What a commit of t leaves.
Left(t) == (live \ txns[t].deletes) \cup DOMAIN txns[t].pending

SyncHeader(t) ==
  /\ ~ down /\ txns[t].state = "finished"
  /\ disk' = file
  /\ hdrDisk' = hdrFile
  /\ live' = Left(t)
  /\ txns' = [txns EXCEPT ![t] = NoTxn]
  /\ UNCHANGED <<file, header, hdrFile, nextBID, down, recovered>>

\* A transaction that has started to write puts its first header back.
Rollback(t) ==
  /\ ~ down /\ ~ Idle(t)
  /\ Active(t) => ~ Committing
  /\ IF Active(t) THEN UNCHANGED <<header, hdrFile>>
     ELSE header' = txns[t].original[1] /\ hdrFile' = header'
  /\ txns' = [txns EXCEPT ![t] = NoTxn]
  /\ UNCHANGED <<file, disk, hdrDisk, nextBID, down, recovered, live>>

-----------------------------------------------------------------------------
(* Crash and recovery *)

\* Every unit, and the header, is left as synced or as written. The blocks of
\* a commit that was under way are live if its header is there.
Crash ==
  /\ ~ down
  /\ \E new \in SUBSET {u \in Unit : file[u] # disk[u]}, h \in {hdrFile, hdrDisk} :
       /\ file' = [u \in Unit |-> IF u \in new THEN file[u] ELSE disk[u]]
       /\ hdrFile' = h
       /\ live' = IF \E t \in Txn : txns[t].state = "finished" /\ h.root = txns[t].root
                  THEN Left(CHOOSE t \in Txn : txns[t].state = "finished") ELSE live
  /\ disk' = file'
  /\ hdrDisk' = hdrFile'
  /\ txns' = [t \in Txn |-> NoTxn]
  /\ down' = TRUE
  /\ UNCHANGED <<header, nextBID, recovered>>

\* OpenReadWrite with CheckAndRecover: Valid2 becomes Valid. Invalid is
\* "recovered": a new AMapManager is filled and then not written, and its
\* file size, which counts no block, goes into the header.
OpenReadWrite ==
  /\ down
  /\ down' = FALSE
  /\ nextBID' = hdrFile.bidNextB
  /\ header' = [hdrFile EXCEPT !.status = "Valid",
                               !.eof = IF hdrFile.status = "Invalid" THEN 0 ELSE @]
  /\ hdrFile' = header'
  /\ hdrDisk' = IF hdrFile.status = "Invalid" THEN hdrFile' ELSE hdrDisk
  /\ recovered' = (recovered \/ hdrFile.status = "Invalid")
  /\ UNCHANGED <<file, disk, txns, live>>

\* The file at hand: the last unit of InitAt is its tree page.
Init ==
  LET n == Len(InitAt) - 1
  IN  /\ file = [u \in Unit |->
            IF u = InitAt[n + 1] THEN TreePage([b \in 1 .. n |-> InitAt[b]])
            ELSE IF \E b \in 1 .. n : InitAt[b] = u
            THEN Block(CHOOSE b \in 1 .. n : InitAt[b] = u) ELSE Junk]
      /\ disk = file
      /\ header = [status |-> "Valid", root |-> InitAt[n + 1], eof |-> EOF,
                   bidNextB |-> n + 1]
      /\ hdrFile = header /\ hdrDisk = header
      /\ nextBID = n + 1
      /\ txns = [t \in Txn |-> NoTxn]
      /\ down = FALSE /\ recovered = FALSE
      /\ live = 1 .. n

Next ==
  \/ \E t \in Txn : \/ BeginWrite(t) \/ WriteBlockData(t)
                    \/ \E b \in DOMAIN Current : DeleteBlock(t, b)
                    \/ startWrite(t) \/ startWriteFails(t)
                    \/ WriteAll(t) \/ WriteFails(t) \/ WriteNothing(t)
                    \/ SyncData(t) \/ finishWrite(t) \/ SyncHeader(t) \/ Rollback(t)
  \/ Crash \/ OpenReadWrite

Spec == Init /\ [][Next]_vars

-----------------------------------------------------------------------------
(* Properties *)

Readable(h, f) ==
  /\ DOMAIN f[h.root].tree = live
  /\ \A b \in live : f[f[h.root].tree[b]] = Block(b)

\* Between commits, after every rollback, and after a crash at any point of a
\* commit, the file holds the blocks of the last commit, and each of them can
\* be read ("If a crash occurs between phases, the PST file can be
\* recovered", transaction.go; "All changes commit together or not at all",
\* docs/guide/transactions.md).
CommittedReadable == ~ Committing => Readable(hdrFile, file)

=============================================================================
