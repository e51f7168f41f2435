--------------------------- MODULE SpoolTxnProofs ---------------------------
(***************************************************************************)
(* Proofs about SpoolTxn: who owns the slots, for transactions nested to   *)
(* any depth; what the journal restores, for one transaction at a time.    *)
(***************************************************************************)
EXTENDS SpoolTxn, SequenceTheorems, WalkProofs

\* A catalog of blocks owns its slots.
OwnSlots(bl, bs) ==
  \A b \in DOMAIN bl :
    bl[b].ib \in bs /\ \A c \in DOMAIN bl \ {b} : bl[c].ib # bl[b].ib

InFile(r, bs) == r \in Nat /\ bs \subseteq 0 .. FileEOF(r) - 1

\* The blocks own their slots now and in every state a rollback may restore.
SlotsInv ==
  /\ \E S : txns \in Seq(S)
  /\ InFile(regions, bits) /\ OwnSlots(blocks, bits)
  /\ \A i \in 1 .. Len(txns) :
       InFile(txns[i].regions, txns[i].bits) /\ OwnSlots(txns[i].blocks, txns[i].bits)

\* The spool is at least as long as the committed image it was made from, and
\* the image no longer than the file.
SpoolCovers ==
  /\ ~ hasIO => io = Empty
  /\ hasWork => DOMAIN io \subseteq DOMAIN work
  /\ DOMAIN io \subseteq 0 .. FileEOF(regions) - 1

\* What a rollback to snap would make slot s read.
Rewound(snap, s) ==
  IF ~ snap.hadWork THEN At(io, s)
  ELSE IF s \in DOMAIN undo.orig THEN undo.orig[s] ELSE At(work, s)

\* The snapshot of the running transaction can be restored: the journal and
\* the spool together still hold what every slot read when it began.
Restorable(snap) ==
  /\ DOMAIN io \subseteq 0 .. FileEOF(snap.regions) - 1
  /\ DOMAIN snap.seen = 0 .. FileEOF(snap.regions) - 1
  /\ \A b \in DOMAIN snap.blocks :
       snap.blocks[b].put => snap.seen[snap.blocks[b].ib] = b
  /\ snap.hadWork => hasWork /\ undo.on /\ undo.eof = FileEOF(snap.regions)
  /\ ~ snap.hadWork => ~ undo.on
  /\ \A s \in DOMAIN snap.seen : Rewound(snap, s) = snap.seen[s]

\* One call of runTxn runs at a time and the journal can undo it.
JournalInv ==
  /\ Len(txns) <= 1
  /\ SpoolCovers
  /\ txns = <<>> => ~ undo.on
  /\ txns # <<>> => Restorable(txns[1])

RewindInv == JournalInv /\ PayloadsReadable

-----------------------------------------------------------------------------
(* Slots *)

LEMMA EOFGrows ==
  ASSUME NEW r \in Nat
  PROVE  /\ FileEOF(r) \in Nat
         /\ FileEOF(r + 1) = FileEOF(r) + RegionSlots
         /\ RegionSlots \in Nat /\ RegionSlots > 0
  BY SpoolAssumption DEF FileEOF

\* First fit picks a free slot of the file, which grows when there is none.
LEMMA FirstFitFree ==
  ASSUME InFile(regions, bits)
  PROVE  /\ FirstFit.ib \in Nat /\ FirstFit.ib \notin bits
         /\ FirstFit.regions \in {regions, regions + 1}
         /\ FirstFit.regions \in Nat
         /\ FirstFit.ib \in 0 .. FileEOF(FirstFit.regions) - 1
         /\ 0 .. FileEOF(regions) - 1 \subseteq 0 .. FileEOF(FirstFit.regions) - 1
  <1> DEFINE free == {s \in 0 .. FileEOF(regions) - 1 : s \notin bits}
             low  == CHOOSE s \in free : \A t \in free : s <= t
  <1>0. /\ regions \in Nat /\ FileEOF(regions) \in Nat
        /\ FileEOF(regions + 1) = FileEOF(regions) + RegionSlots
        /\ RegionSlots \in Nat /\ RegionSlots > 0
    BY EOFGrows DEF InFile
  <1>1. CASE free = {}
    <2>1. FirstFit = [ib |-> FileEOF(regions), regions |-> regions + 1]
      BY <1>1 DEF FirstFit
    <2>2. FirstFit.ib = FileEOF(regions) /\ FirstFit.regions = regions + 1
      BY <2>1
    <2> QED
      BY <1>0, <2>2 DEF InFile
  <1>2. CASE free # {}
    <2>1. \E s \in free : \A t \in free : s <= t
      <3>1. free \in SUBSET Nat
        BY <1>0
      <3> HIDE DEF free
      <3> QED
        BY <3>1, <1>2, HasLeast
    <2>2. low \in free
      BY <2>1
    <2>3. FirstFit = [ib |-> low, regions |-> regions]
      BY <1>2 DEF FirstFit
    <2>4. FirstFit.ib = low /\ FirstFit.regions = regions
      BY <2>3
    <2>5. low \in 0 .. FileEOF(regions) - 1 /\ low \notin bits
      BY <2>2
    <2> HIDE DEF low
    <2> QED
      BY <1>0, <2>4, <2>5
  <1> QED
    BY <1>1, <1>2

LEMMA AddKeepsSlots ==
  ASSUME InFile(regions, bits), OwnSlots(blocks, bits),
         NEW b, b \notin DOMAIN blocks, NEW e, e.ib = FirstFit.ib,
         regions' = FirstFit.regions, bits' = bits \cup {FirstFit.ib},
         blocks' = WithBlock(b, e)
  PROVE  InFile(regions, bits)' /\ OwnSlots(blocks, bits)'
  <1>1. InFile(regions, bits)'
    BY FirstFitFree DEF InFile
  <1>2. /\ DOMAIN blocks' = DOMAIN blocks \cup {b} /\ blocks'[b] = e
        /\ \A c \in DOMAIN blocks : blocks'[c] = blocks[c]
    BY DEF WithBlock
  <1>3. OwnSlots(blocks, bits)'
    BY <1>2, FirstFitFree DEF OwnSlots
  <1> QED
    BY <1>1, <1>3

LEMMA DropKeepsSlots ==
  ASSUME InFile(regions, bits), OwnSlots(blocks, bits), NEW b \in DOMAIN blocks,
         regions' = regions, bits' \in {bits, bits \ {blocks[b].ib}},
         blocks' = WithoutBlock(b)
  PROVE  InFile(regions, bits)' /\ OwnSlots(blocks, bits)'
  BY DEF InFile, OwnSlots, WithoutBlock

LEMMA BeginKeepsSlots == SlotsInv /\ BeginTxn => SlotsInv'
  <1> SUFFICES ASSUME SlotsInv, BeginTxn PROVE SlotsInv'
    OBVIOUS
  <1>1. PICK S : txns \in Seq(S)
    BY DEF SlotsInv
  <1> DEFINE c == Capture
  <1>2. c.regions = regions /\ c.bits = bits /\ c.blocks = blocks
    BY DEF Capture
  <1> HIDE DEF c
  <1>3. txns' = Append(txns, c) /\ UNCHANGED <<regions, bits, blocks>>
    BY DEF BeginTxn, c
  <1>4. /\ txns' \in Seq(S \cup {c}) /\ Len(txns') = Len(txns) + 1
        /\ \A i \in 1 .. Len(txns) : txns'[i] = txns[i]
        /\ txns'[Len(txns) + 1] = c
    <2>1. txns \in Seq(S \cup {c})
      BY <1>1
    <2> QED
      BY <1>3, <2>1
  <1> QED
    BY <1>1, <1>2, <1>3, <1>4 DEF SlotsInv

LEMMA OuterPrefix ==
  ASSUME SlotsInv, InTxn
  PROVE  /\ \E S : Outer \in Seq(S)
         /\ Len(txns) \in Nat /\ Len(txns) > 0 /\ Len(Outer) = Len(txns) - 1
         /\ \A i \in 1 .. Len(Outer) : Outer[i] = txns[i]
  <1>1. PICK S : txns \in Seq(S)
    BY DEF SlotsInv
  <1>2. Len(txns) \in Nat /\ Len(txns) > 0
    BY <1>1 DEF InTxn
  <1> DEFINE n == Len(txns) - 1
  <1>3. n \in Int /\ \A i \in 1 .. n : txns[i] \in S
    BY <1>1, <1>2
  <1>4. /\ SubSeq(txns, 1, n) \in Seq(S)
        /\ Len(SubSeq(txns, 1, n)) = IF 1 <= n THEN n - 1 + 1 ELSE 0
        /\ \A i \in 1 .. n - 1 + 1 : SubSeq(txns, 1, n)[i] = txns[1 + i - 1]
    BY <1>3, SubSeqProperties
  <1>5. /\ Outer \in Seq(S)
        /\ Len(Outer) = IF 1 <= n THEN n ELSE 0
        /\ \A i \in 1 .. n : Outer[i] = txns[i]
    BY <1>3, <1>4 DEF Outer
  <1>6. Len(Outer) = Len(txns) - 1
    <2> DEFINE k == Len(Outer)
               m == Len(txns)
    <2>1. m \in Nat /\ m > 0 /\ k = IF 1 <= m - 1 THEN m - 1 ELSE 0
      BY <1>2, <1>5, Zenon
    <2> HIDE DEF k, m
    <2>2. k = m - 1
      BY <2>1
    <2> QED
      BY <2>2 DEF k, m
  <1>7. \A i \in 1 .. Len(Outer) : Outer[i] = txns[i]
    BY <1>5, <1>6
  <1>8. \E T : Outer \in Seq(T)
    BY <1>5, Zenon
  <1> QED
    BY <1>2, <1>6, <1>7, <1>8, Zenon

LEMMA SlotsInductive == SlotsInv /\ [Next]_vars => SlotsInv'
  <1> SUFFICES ASSUME SlotsInv, [Next]_vars PROVE SlotsInv'
    OBVIOUS
  <1>0. InFile(regions, bits) /\ OwnSlots(blocks, bits)
    BY DEF SlotsInv
  <1>1. ASSUME UNCHANGED txns, InFile(regions, bits)' /\ OwnSlots(blocks, bits)'
        PROVE  SlotsInv'
    BY <1>1 DEF SlotsInv
  <1>2. ASSUME NEW b \in Block, AllocBlock(b) \/ PutPayload(b) \/ PutFails(b)
        PROVE  SlotsInv'
    <2>1. PICK e : /\ e.ib = FirstFit.ib /\ blocks' = WithBlock(b, e)
      BY <1>2 DEF AllocBlock, PutPayload, PutFails
    <2>2. InFile(regions, bits)' /\ OwnSlots(blocks, bits)'
      BY <1>0, <1>2, <2>1, AddKeepsSlots DEF AllocBlock, PutPayload, PutFails
    <2> QED
      BY <1>1, <1>2, <2>2 DEF AllocBlock, PutPayload, PutFails
  <1>3. ASSUME NEW b \in Block, AllocFails(b) PROVE SlotsInv'
    <2>1. InFile(regions, bits)' /\ OwnSlots(blocks, bits)'
      BY <1>0, <1>3, FirstFitFree DEF AllocFails, InFile, OwnSlots
    <2> QED
      BY <1>1, <1>3, <2>1 DEF AllocFails
  <1>4. ASSUME NEW b \in Block, DropBlock(b) \/ DropFails(b) PROVE SlotsInv'
    <2>1. InFile(regions, bits)' /\ OwnSlots(blocks, bits)'
      BY <1>0, <1>4, DropKeepsSlots DEF DropBlock, DropFails
    <2> QED
      BY <1>1, <1>4, <2>1 DEF DropBlock, DropFails
  <1>5. CASE EndTxn
    BY <1>5, OuterPrefix DEF EndTxn, SlotsInv, OwnSlots
  <1>6. CASE AbortTxn
    <2>1. /\ regions' = txns[Len(txns)].regions /\ bits' = txns[Len(txns)].bits
          /\ blocks' = txns[Len(txns)].blocks /\ txns' = Outer /\ InTxn
      BY <1>6 DEF AbortTxn, Innermost
    <2>2. Len(txns) \in 1 .. Len(txns)
      BY <2>1, OuterPrefix
    <2>3. InFile(regions, bits)' /\ OwnSlots(blocks, bits)'
      BY <2>1, <2>2 DEF SlotsInv, OwnSlots, InFile
    <2> QED
      BY <2>1, <2>3, OuterPrefix DEF SlotsInv
  <1>7. CASE Commit
    <2>1. OwnSlots(blocks, bits)'
      <3>1. /\ DOMAIN blocks' = DOMAIN blocks \ Orphans
            /\ \A b \in DOMAIN blocks' : blocks'[b] = blocks[b]
            /\ bits' = bits \ {blocks[b].ib : b \in Orphans}
        BY <1>7 DEF Commit
      <3>2. Orphans \subseteq DOMAIN blocks
        BY DEF Orphans
      <3> QED
        BY <1>0, <3>1, <3>2 DEF OwnSlots
    <2> QED
      BY <1>0, <1>1, <1>7, <2>1 DEF Commit, InFile
  <1>8. CASE Refuse \/ UNCHANGED vars
    BY <1>8 DEF Refuse, vars, SlotsInv, OwnSlots
  <1> QED
    BY <1>2, <1>3, <1>4, <1>5, <1>6, <1>7, <1>8, BeginKeepsSlots DEF Next

LEMMA InitSlots == Init => SlotsInv
  <1> SUFFICES ASSUME Init PROVE SlotsInv
    OBVIOUS
  <1>1. txns \in Seq({}) /\ Len(txns) = 0
    BY DEF Init
  <1>2. InFile(regions, bits) /\ OwnSlots(blocks, bits)
    BY DEF Init, InFile, OwnSlots
  <1> QED
    BY <1>1, <1>2 DEF SlotsInv

\* Through failed allocations, failed frees and rollbacks at any nesting depth
\* of runTxn, no two blocks share a slot and no block sits on a free one.
THEOREM SlotsStayOwned == Spec => []BlocksOwnTheirSlots
  <1>1. SlotsInv => BlocksOwnTheirSlots
    BY DEF SlotsInv, OwnSlots, BlocksOwnTheirSlots
  <1> QED
    BY <1>1, InitSlots, SlotsInductive, PTL DEF Spec

-----------------------------------------------------------------------------
(* Contents *)

LEMMA WriteAtReads ==
  ASSUME NEW f, NEW s \in Nat, NEW v
  PROVE  /\ DOMAIN WriteAt(f, s, v) = DOMAIN f \cup 0 .. s
         /\ \A t : At(WriteAt(f, s, v), t) = IF t = s THEN v ELSE At(f, t)
  BY DEF WriteAt, At

LEMMA ReadsSpool ==
  SpoolCovers => \A s : ReadExtent(s) = At(Spool, s)
  BY DEF SpoolCovers, ReadExtent, At, Spool, Empty

LEMMA ReadsSpoolNext ==
  (SpoolCovers => \A s : ReadExtent(s) = At(Spool, s))'
  BY ReadsSpool, PTL

\* What the steps of a mutation may do to the spool: nothing, or a journalled
\* write of slot s that succeeds or fails.
Touches(s) ==
  \/ UNCHANGED <<hasWork, work, undo>>
  \/ \E v : SpoolWrite(s, v) \/ SpoolWriteFails(s, v)

\* Such a step shows in no other slot.
LEMMA TouchReads ==
  ASSUME SpoolCovers, NEW s \in Nat, Touches(s), UNCHANGED <<hasIO, io>>,
         0 .. FileEOF(regions) - 1 \subseteq 0 .. FileEOF(regions') - 1
  PROVE  /\ SpoolCovers'
         /\ \A t : t # s => ReadExtent(t)' = ReadExtent(t)
  <1>0. /\ ~ hasIO => io = Empty
        /\ hasWork => DOMAIN io \subseteq DOMAIN work
        /\ DOMAIN io \subseteq 0 .. FileEOF(regions) - 1
    BY DEF SpoolCovers
  <1>1. CASE UNCHANGED <<hasWork, work, undo>>
    BY <1>0, <1>1 DEF SpoolCovers, ReadExtent
  <1>2. ASSUME NEW v, hasWork', work' = WriteAt(Spool, s, v)
        PROVE  /\ SpoolCovers'
               /\ \A t : t # s => ReadExtent(t)' = ReadExtent(t)
    <2>1. /\ DOMAIN work' = DOMAIN Spool \cup 0 .. s
          /\ \A t : t # s => At(work', t) = At(Spool, t)
      <3> DEFINE f == Spool
      <3> HIDE DEF f
      <3>1. work' = WriteAt(f, s, v)
        BY <1>2 DEF f
      <3>2. DOMAIN work' = DOMAIN f \cup 0 .. s
        BY <3>1 DEF WriteAt
      <3>3. \A t : t # s => At(work', t) = At(f, t)
        BY <3>1 DEF WriteAt, At
      <3> QED
        BY <3>2, <3>3 DEF f
    <2>2. DOMAIN io \subseteq DOMAIN Spool
      BY <1>0 DEF Spool
    <2>3. SpoolCovers'
      BY <1>0, <1>2, <2>1, <2>2 DEF SpoolCovers
    <2>4. Spool' = work'
      BY <1>2 DEF Spool
    <2> QED
      BY <2>1, <2>3, <2>4, ReadsSpool, ReadsSpoolNext
  <1>3. ASSUME NEW v, SpoolWrite(s, v)
        PROVE  SpoolCovers' /\ \A t : t # s => ReadExtent(t)' = ReadExtent(t)
    BY <1>2, <1>3 DEF SpoolWrite
  <1>4. ASSUME NEW v, SpoolWriteFails(s, v)
        PROVE  SpoolCovers' /\ \A t : t # s => ReadExtent(t)' = ReadExtent(t)
    <2>1. hasWork' /\ work' \in {Spool, WriteAt(Spool, s, v)}
      BY <1>4 DEF SpoolWriteFails
    <2>2. CASE work' = Spool
      <3>1. SpoolCovers'
        BY <1>0, <2>1, <2>2 DEF SpoolCovers, Spool
      <3>2. Spool' = Spool
        BY <2>1, <2>2 DEF Spool
      <3> QED
        BY <3>1, <3>2, ReadsSpool, ReadsSpoolNext
    <2>3. CASE work' = WriteAt(Spool, s, v)
      BY <1>2, <2>1, <2>3
    <2> QED
      BY <2>1, <2>2, <2>3
  <1> QED
    BY <1>1, <1>3, <1>4 DEF Touches

\* A journalled write keeps what a rollback of slot t would make it read.
LEMMA NoteUndoKeeps ==
  ASSUME NEW snap, snap.hadWork, Restorable(snap), snap.regions \in Nat,
         NEW s \in Nat, undo' = NoteUndo(s),
         \A t : t # s => At(work', t) = At(work, t)
  PROVE  /\ undo'.on /\ undo'.eof = undo.eof
         /\ \A t \in DOMAIN snap.seen : Rewound(snap, t)' = snap.seen[t]
  <1>0. /\ hasWork /\ undo.on /\ undo.eof = FileEOF(snap.regions) /\ FileEOF(snap.regions) \in Nat
        /\ DOMAIN snap.seen = 0 .. FileEOF(snap.regions) - 1
        /\ \A t \in DOMAIN snap.seen :
             snap.seen[t] = IF t \in DOMAIN undo.orig THEN undo.orig[t] ELSE At(work, t)
    BY EOFGrows DEF Restorable, Rewound
  <1>1. \A t : Rewound(snap, t)' = IF t \in DOMAIN undo'.orig THEN undo'.orig[t] ELSE At(work', t)
    BY DEF Rewound
  <1> DEFINE new == s < undo.eof /\ s \notin DOMAIN undo.orig
  <1>2. CASE new
    <2> DEFINE o == [t \in DOMAIN undo.orig \cup {s} |->
                       IF t = s THEN At(work, s) ELSE undo.orig[t]]
    <2>1. undo' = [on |-> TRUE, eof |-> undo.eof, orig |-> o]
      BY <1>0, <1>2 DEF NoteUndo, Uncovered, Spool
    <2>2. undo'.on = TRUE /\ undo'.eof = undo.eof /\ undo'.orig = o
      BY <2>1
    <2>3. /\ DOMAIN o = DOMAIN undo.orig \cup {s} /\ o[s] = At(work, s)
          /\ \A t \in DOMAIN undo.orig : t # s => o[t] = undo.orig[t]
      OBVIOUS
    <2> HIDE DEF o
    <2>4. \A t \in DOMAIN snap.seen : Rewound(snap, t)' = snap.seen[t]
      BY <1>0, <1>1, <1>2, <2>2, <2>3
    <2> QED
      BY <2>2, <2>4
  <1>3. CASE ~ new
    <2>1. undo' = undo
      BY <1>0, <1>3 DEF NoteUndo, Uncovered
    <2>2. \A t \in DOMAIN snap.seen : t \in DOMAIN undo.orig \/ t # s
      BY <1>0, <1>3
    <2> QED
      BY <1>0, <1>1, <2>1, <2>2
  <1> QED
    BY <1>2, <1>3

\* A step that is journalled leaves the running transaction restorable.
LEMMA TouchRestorable ==
  ASSUME NEW snap, Restorable(snap), snap.regions \in Nat, NEW s \in Nat, Touches(s),
         UNCHANGED <<hasIO, io>>
  PROVE  Restorable(snap)'
  <1>0. ASSUME snap.hadWork => hasWork' /\ undo'.on /\ undo'.eof = FileEOF(snap.regions),
               ~ snap.hadWork => ~ undo'.on,
               \A t \in DOMAIN snap.seen : Rewound(snap, t)' = snap.seen[t]
        PROVE  Restorable(snap)'
    BY <1>0 DEF Restorable
  <1>1. CASE UNCHANGED <<hasWork, work, undo>>
    BY <1>1 DEF Restorable, Rewound
  <1>2. ASSUME undo' = NoteUndo(s), hasWork',
               hasWork => \A t : t # s => At(work', t) = At(work, t)
        PROVE  Restorable(snap)'
    <2>1. CASE snap.hadWork
      <3>1. hasWork /\ undo.eof = FileEOF(snap.regions)
        BY <2>1 DEF Restorable
      <3>2. /\ undo'.on /\ undo'.eof = undo.eof
            /\ \A t \in DOMAIN snap.seen : Rewound(snap, t)' = snap.seen[t]
        BY <1>2, <2>1, <3>1, NoteUndoKeeps
      <3> QED
        BY <1>0, <1>2, <2>1, <3>1, <3>2
    <2>2. CASE ~ snap.hadWork
      <3>1. ~ undo.on /\ undo' = undo
        BY <1>2, <2>2 DEF Restorable, NoteUndo, Uncovered
      <3>2. \A t \in DOMAIN snap.seen : Rewound(snap, t)' = snap.seen[t]
        BY <2>2 DEF Restorable, Rewound
      <3> QED
        BY <1>0, <2>2, <3>1, <3>2
    <2> QED
      BY <2>1, <2>2
  <1>3. ASSUME NEW v, SpoolWrite(s, v) PROVE Restorable(snap)'
    <2>1. hasWork => \A t : t # s => At(work', t) = At(work, t)
      BY <1>3 DEF SpoolWrite, WriteAt, At, Spool
    <2> QED
      BY <1>2, <1>3, <2>1 DEF SpoolWrite
  <1>4. ASSUME NEW v, SpoolWriteFails(s, v) PROVE Restorable(snap)'
    <2>1. hasWork => \A t : t # s => At(work', t) = At(work, t)
      BY <1>4 DEF SpoolWriteFails, WriteAt, At, Spool
    <2>2. CASE undo' = undo /\ work' = Spool /\ Uncovered(s)
      <3>1. hasWork' /\ undo.on
        BY <1>4, <2>2 DEF SpoolWriteFails, Uncovered
      <3>2. snap.hadWork /\ hasWork /\ work' = work
        BY <2>2, <3>1 DEF Restorable, Spool
      <3> QED
        BY <2>2, <3>1, <3>2 DEF Restorable, Rewound
    <2>3. CASE undo' = NoteUndo(s)
      BY <1>2, <1>4, <2>1, <2>3 DEF SpoolWriteFails
    <2> QED
      BY <1>4, <2>2, <2>3 DEF SpoolWriteFails
  <1> QED
    BY <1>1, <1>3, <1>4 DEF Touches

\* With at most one call of runTxn running, its snapshot is the only one.
LEMMA OneSnapshot ==
  ASSUME SlotsInv, Len(txns) <= 1, txns # <<>>
  PROVE  /\ Len(txns) = 1 /\ Innermost = txns[1] /\ Outer = <<>>
         /\ txns[1].regions \in Nat
         /\ txns[1].bits \subseteq 0 .. FileEOF(txns[1].regions) - 1
         /\ OwnSlots(txns[1].blocks, txns[1].bits)
  <1>1. Len(txns) \in Nat /\ Len(txns) > 0
    BY OuterPrefix DEF InTxn
  <1>2. Len(txns) = 1
    BY <1>1
  <1>3. 1 \in 1 .. Len(txns)
    BY <1>2
  <1>4. InFile(txns[1].regions, txns[1].bits) /\ OwnSlots(txns[1].blocks, txns[1].bits)
    BY <1>3 DEF SlotsInv
  <1>5. Outer = <<>>
    <2>1. PICK T : Outer \in Seq(T)
      BY OuterPrefix DEF InTxn
    <2>2. Len(Outer) = 0
      BY <1>2, OuterPrefix DEF InTxn
    <2> QED
      BY <2>1, <2>2
  <1> QED
    BY <1>2, <1>4, <1>5 DEF InFile, Innermost

\* Every step of a mutation keeps the journal sound and shows in one slot.
LEMMA MutationStep ==
  ASSUME SlotsInv, JournalInv, NEW s \in Nat, Touches(s), UNCHANGED <<hasIO, io, txns>>,
         0 .. FileEOF(regions) - 1 \subseteq 0 .. FileEOF(regions') - 1
  PROVE  /\ JournalInv'
         /\ \A t : t # s => ReadExtent(t)' = ReadExtent(t)
  <1>1. SpoolCovers' /\ \A t : t # s => ReadExtent(t)' = ReadExtent(t)
    BY TouchReads DEF JournalInv
  <1>2. CASE txns = <<>>
    <2>1. undo' = undo
      BY <1>2 DEF JournalInv, Touches, SpoolWrite, SpoolWriteFails, NoteUndo, Uncovered
    <2> QED
      BY <1>1, <1>2, <2>1 DEF JournalInv
  <1>3. CASE txns # <<>>
    <2> DEFINE snap == txns[1]
    <2>1. Restorable(snap) /\ snap.regions \in Nat
      BY <1>3, OneSnapshot DEF JournalInv
    <2>2. PICK c : c = snap
      OBVIOUS
    <2>3. Restorable(c) /\ c.regions \in Nat
      BY <2>1, <2>2
    <2>4. Restorable(c)'
      BY <2>3, TouchRestorable
    <2>5. Restorable(txns[1])'
      BY <2>2, <2>4 DEF Restorable, Rewound
    <2> QED
      BY <1>1, <1>3, <2>5 DEF JournalInv
  <1> QED
    BY <1>2, <1>3

\* What the next state reads is what its spool holds.
LEMMA PayloadsNext ==
  ASSUME SpoolCovers',
         \A c \in DOMAIN blocks' : blocks'[c].put => At(Spool', blocks'[c].ib) = c
  PROVE  PayloadsReadable'
  <1>1. \A s : ReadExtent(s)' = At(Spool', s)
    BY ReadsSpoolNext DEF At
  <1>2. \A s : ReadExtent(s)' = IF hasWork' /\ s \in DOMAIN work' THEN work'[s]
                                ELSE IF hasIO' THEN At(io', s) ELSE Zero
    BY DEF ReadExtent, At
  <1>3. \A c : ReadExtent(blocks[c].ib)' =
          IF hasWork' /\ blocks'[c].ib \in DOMAIN work' THEN work'[blocks'[c].ib]
          ELSE IF hasIO' THEN At(io', blocks'[c].ib) ELSE Zero
    BY DEF ReadExtent, At
  <1>4. \A c \in DOMAIN blocks' : ReadExtent(blocks[c].ib)' = At(Spool', blocks'[c].ib)
    BY <1>1, <1>2, <1>3
  <1> QED
    BY <1>4 DEF PayloadsReadable

\* A new block takes a slot no other block has; a written one reads back.
LEMMA AddKeepsPayloads ==
  ASSUME SlotsInv, RewindInv,
         NEW b \in Block, AllocBlock(b) \/ PutPayload(b) \/ AllocFails(b) \/ PutFails(b)
  PROVE  RewindInv'
  <1> DEFINE s == FirstFit.ib
  <1>1. /\ s \in Nat /\ s \notin bits
        /\ 0 .. FileEOF(regions) - 1 \subseteq 0 .. FileEOF(FirstFit.regions) - 1
    BY FirstFitFree DEF SlotsInv
  <1>2. /\ regions' \in {regions, FirstFit.regions} /\ UNCHANGED <<hasIO, io, txns>>
        /\ b \notin DOMAIN blocks
    BY DEF AllocBlock, PutPayload, AllocFails, PutFails
  <1>3. Touches(s)
    BY DEF AllocBlock, PutPayload, AllocFails, PutFails, SpoolNotMade, Touches
  <1>4. JournalInv' /\ \A t : t # s => ReadExtent(t)' = ReadExtent(t)
    <2>1. JournalInv
      BY DEF RewindInv, JournalInv
    <2> HIDE DEF s
    <2> QED
      BY <1>1, <1>2, <1>3, <2>1, MutationStep
  <1>5. \A c \in DOMAIN blocks : blocks[c].put => At(Spool', blocks[c].ib) = c
    <2>1. \A c \in DOMAIN blocks : blocks[c].ib \in bits
      BY DEF SlotsInv, OwnSlots
    <2>2. SpoolCovers'
      BY <1>4 DEF JournalInv
    <2>3. \A t : ReadExtent(t)' = At(Spool', t)
      BY <2>2, ReadsSpoolNext DEF At
    <2> HIDE DEF s
    <2>4. \A t \in bits : At(Spool', t) = ReadExtent(t)
      BY <1>1, <1>4, <2>3
    <2> QED
      BY <2>1, <2>4 DEF RewindInv, JournalInv, PayloadsReadable
  <1>6. PayloadsReadable'
    <2>1. CASE AllocFails(b)
      BY <1>4, <1>5, <2>1, PayloadsNext DEF AllocFails, JournalInv
    <2>2. ASSUME NEW e, blocks' = WithBlock(b, e), e.put => At(Spool', e.ib) = b
          PROVE  PayloadsReadable'
      <3>1. /\ DOMAIN blocks' = DOMAIN blocks \cup {b} /\ blocks'[b] = e
            /\ \A c \in DOMAIN blocks : blocks'[c] = blocks[c]
        BY <1>2, <2>2 DEF WithBlock
      <3>2. \A c \in DOMAIN blocks' : blocks'[c].put => At(Spool', blocks'[c].ib) = c
        BY <1>5, <2>2, <3>1
      <3> QED
        BY <1>4, <3>2, PayloadsNext DEF JournalInv
    <2>3. CASE AllocBlock(b) \/ PutFails(b)
      <3> DEFINE e == [ib |-> s, put |-> FALSE]
      <3>1. blocks' = WithBlock(b, e) /\ ~ e.put
        BY <2>3 DEF AllocBlock, PutFails
      <3> HIDE DEF e
      <3> QED
        BY <2>2, <3>1
    <2>4. CASE PutPayload(b)
      <3> DEFINE e == [ib |-> s, put |-> TRUE]
      <3>1. blocks' = WithBlock(b, e) /\ e.ib = s /\ SpoolWrite(s, b)
        BY <2>4 DEF PutPayload
      <3> HIDE DEF e, s
      <3>2. hasWork' /\ s \in DOMAIN work' /\ work'[s] = b
        BY <1>1, <3>1 DEF SpoolWrite, WriteAt
      <3>3. At(Spool', e.ib) = b
        BY <3>1, <3>2 DEF Spool, At
      <3> QED
        BY <2>2, <3>1, <3>3
    <2> QED
      BY <2>1, <2>3, <2>4
  <1> QED
    BY <1>4, <1>6 DEF RewindInv, JournalInv

\* The slot a dropped block leaves belongs to no other block.
LEMMA DropKeepsPayloads ==
  ASSUME SlotsInv, RewindInv, NEW b \in Block, DropBlock(b) \/ DropFails(b)
  PROVE  RewindInv'
  <1> DEFINE s == blocks[b].ib
  <1>1. /\ b \in DOMAIN blocks /\ s \in Nat
        /\ \A c \in DOMAIN blocks \ {b} : blocks[c].ib # s
    <2>1. b \in DOMAIN blocks
      BY DEF DropBlock, DropFails
    <2>2. s \in bits /\ bits \subseteq 0 .. FileEOF(regions) - 1 /\ regions \in Nat
      BY <2>1 DEF SlotsInv, OwnSlots, InFile
    <2>3. FileEOF(regions) \in Nat
      BY <2>2, EOFGrows
    <2>4. s \in Nat
      <3> HIDE DEF s
      <3>1. s \in 0 .. FileEOF(regions) - 1
        BY <2>2
      <3> QED
        BY <2>3, <3>1
    <2>5. \A c \in DOMAIN blocks \ {b} : blocks[c].ib # s
      BY <2>1 DEF SlotsInv, OwnSlots
    <2> QED
      BY <2>1, <2>4, <2>5
  <1>2. UNCHANGED <<regions, hasIO, io, txns>> /\ blocks' = WithoutBlock(b)
    BY DEF DropBlock, DropFails
  <1>3. Touches(s)
    BY DEF DropBlock, DropFails, SpoolNotMade, Touches
  <1>4. JournalInv' /\ \A t : t # s => ReadExtent(t)' = ReadExtent(t)
    <2>1. JournalInv
      BY DEF RewindInv, JournalInv
    <2> HIDE DEF s
    <2> QED
      BY <1>1, <1>2, <1>3, <2>1, MutationStep
  <1>5. PayloadsReadable'
    <2>1. SpoolCovers'
      BY <1>4 DEF JournalInv
    <2>2. \A t : ReadExtent(t)' = At(Spool', t)
      BY <2>1, ReadsSpoolNext DEF At
    <2> HIDE DEF s
    <2>3. \A t : t # s => At(Spool', t) = ReadExtent(t)
      BY <1>4, <2>2
    <2>4. \A c \in DOMAIN blocks \ {b} : blocks[c].put => At(Spool', blocks[c].ib) = c
      BY <1>1, <2>3 DEF RewindInv, JournalInv, PayloadsReadable
    <2>5. \A c \in DOMAIN blocks' : blocks'[c].put => At(Spool', blocks'[c].ib) = c
      BY <1>2, <2>4 DEF WithoutBlock
    <2> QED
      BY <2>1, <2>5, PayloadsNext
  <1> QED
    BY <1>4, <1>5 DEF RewindInv, JournalInv

\* The snapshot of a new transaction is restorable: the journal is empty and
\* what every slot reads is on the spool, or in the image when there is none.
LEMMA BeginRestorable ==
  ASSUME SlotsInv, RewindInv, TxnDepth = 1, BeginTxn
  PROVE  RewindInv'
  <1> DEFINE c == Capture
             see == [s \in 0 .. FileEOF(regions) - 1 |-> ReadExtent(s)]
  <1>1. Len(txns) = 0 /\ txns = <<>>
    <2>1. PICK S : txns \in Seq(S)
      BY DEF SlotsInv
    <2>2. Len(txns) \in Nat
      BY <2>1
    <2>3. Len(txns) < 1
      BY DEF BeginTxn
    <2>4. Len(txns) = 0
      BY <2>2, <2>3
    <2> QED
      BY <2>1, <2>4
  <1>2. /\ c.regions = regions /\ c.blocks = blocks /\ c.hadWork = hasWork
        /\ c.seen = see
    BY DEF Capture
  <1>3. /\ DOMAIN see = 0 .. FileEOF(regions) - 1
        /\ \A s \in 0 .. FileEOF(regions) - 1 : see[s] = ReadExtent(s)
    OBVIOUS
  <1>4. \A s : ReadExtent(s) = At(Spool, s)
    BY ReadsSpool DEF RewindInv, JournalInv
  <1>5. /\ UNCHANGED <<regions, blocks, hasIO, io, hasWork, work>>
        /\ txns' = Append(txns, Capture)
        /\ undo' = IF hasWork
                   THEN [on |-> TRUE, eof |-> FileEOF(regions), orig |-> Empty]
                   ELSE undo
    BY DEF BeginTxn
  <1>6. \A b \in DOMAIN blocks : blocks[b].put => see[blocks[b].ib] = b
    <2>1. \A b \in DOMAIN blocks : blocks[b].ib \in 0 .. FileEOF(regions) - 1
      BY DEF SlotsInv, OwnSlots, InFile
    <2> HIDE DEF see
    <2> QED
      BY <1>3, <2>1 DEF RewindInv, JournalInv, PayloadsReadable
  <1>7. DOMAIN io \subseteq 0 .. FileEOF(regions) - 1 /\ ~ undo.on
    BY <1>1 DEF RewindInv, JournalInv, SpoolCovers
  <1>8. Len(txns') = 1 /\ txns' # <<>> /\ txns'[1] = c
    BY <1>1, <1>5
  <1> HIDE DEF c, see
  <1>9. Restorable(txns[1])'
    <2>1. CASE hasWork
      <3>1. undo'.on = TRUE /\ undo'.eof = FileEOF(regions) /\ undo'.orig = Empty
        BY <1>5, <2>1
      <3>2. DOMAIN undo'.orig = {}
        BY <3>1 DEF Empty
      <3>3. \A s \in DOMAIN see : At(work', s) = see[s]
        BY <1>3, <1>4, <1>5, <2>1 DEF Spool
      <3> QED
        BY <1>2, <1>3, <1>5, <1>6, <1>7, <1>8, <2>1, <3>1, <3>2, <3>3
           DEF Restorable, Rewound
    <2>2. CASE ~ hasWork
      <3>1. \A s \in DOMAIN see : At(io', s) = see[s]
        BY <1>3, <1>4, <1>5, <2>2 DEF Spool
      <3> QED
        BY <1>2, <1>3, <1>5, <1>6, <1>7, <1>8, <2>2, <3>1 DEF Restorable, Rewound
    <2> QED
      BY <2>1, <2>2
  <1>10. SpoolCovers' /\ PayloadsReadable'
    BY <1>5 DEF RewindInv, JournalInv, SpoolCovers, PayloadsReadable, ReadExtent
  <1> QED
    BY <1>8, <1>9, <1>10 DEF RewindInv, JournalInv

\* The rollback makes every slot read what it read when the transaction began.
LEMMA AbortReads ==
  ASSUME SlotsInv, RewindInv, AbortTxn
  PROVE  /\ SpoolCovers'
         /\ \A s \in DOMAIN Innermost.seen : At(Spool', s) = Innermost.seen[s]
  <1> DEFINE snap == txns[1]
  <1>1. /\ Innermost = snap /\ Restorable(snap) /\ snap.regions \in Nat
    BY OneSnapshot DEF AbortTxn, InTxn, RewindInv, JournalInv
  <1>2. /\ regions' = snap.regions /\ UNCHANGED <<hasIO, io>>
        /\ RestoreSource(snap)
    BY <1>1 DEF AbortTxn
  <1> HIDE DEF snap
  <1>3. /\ DOMAIN io \subseteq 0 .. FileEOF(snap.regions) - 1
        /\ DOMAIN snap.seen = 0 .. FileEOF(snap.regions) - 1
        /\ \A s \in DOMAIN snap.seen : Rewound(snap, s) = snap.seen[s]
        /\ ~ hasIO => io = Empty
    BY <1>1 DEF Restorable, RewindInv, JournalInv, SpoolCovers
  <1>4. CASE snap.hadWork
    <2>1. hasWork' /\ work' = Truncate(RestoreUndo, FileEOF(snap.regions))
      BY <1>2, <1>4 DEF RestoreSource
    <2>2. /\ DOMAIN work' = 0 .. FileEOF(snap.regions) - 1
          /\ \A s \in DOMAIN work' : work'[s] = At(RestoreUndo, s)
      BY <2>1 DEF Truncate
    <2>3. \A s : At(RestoreUndo, s) = Rewound(snap, s)
      BY <1>4 DEF RestoreUndo, At, Rewound
    <2>4. Spool' = work'
      BY <2>1 DEF Spool
    <2>5. SpoolCovers'
      BY <1>2, <1>3, <2>1, <2>2 DEF SpoolCovers
    <2> QED
      BY <1>1, <1>3, <2>2, <2>3, <2>4, <2>5 DEF At
  <1>5. CASE ~ snap.hadWork
    <2>1. hasWork' = FALSE
      BY <1>2, <1>5 DEF RestoreSource
    <2>2. Spool' = io
      BY <1>2, <2>1 DEF Spool
    <2>3. SpoolCovers'
      BY <1>2, <1>3, <2>1 DEF SpoolCovers
    <2> QED
      BY <1>1, <1>3, <1>5, <2>2, <2>3 DEF Rewound
  <1> QED
    BY <1>4, <1>5

LEMMA AbortKeeps ==
  ASSUME SlotsInv, RewindInv, AbortTxn
  PROVE  RewindInv'
  <1> DEFINE snap == txns[1]
  <1>1. /\ Innermost = snap /\ Outer = <<>> /\ Restorable(snap)
        /\ snap.bits \subseteq 0 .. FileEOF(snap.regions) - 1
        /\ OwnSlots(snap.blocks, snap.bits)
    BY OneSnapshot DEF AbortTxn, InTxn, RewindInv, JournalInv
  <1>2. blocks' = snap.blocks /\ txns' = <<>> /\ undo' = NoUndo
    BY <1>1 DEF AbortTxn
  <1>3. SpoolCovers' /\ \A s \in DOMAIN snap.seen : At(Spool', s) = snap.seen[s]
    BY <1>1, AbortReads
  <1> HIDE DEF snap
  <1>4. PayloadsReadable'
    <2>1. \A c \in DOMAIN snap.blocks : snap.blocks[c].ib \in DOMAIN snap.seen
      BY <1>1 DEF OwnSlots, Restorable
    <2>2. \A c \in DOMAIN blocks' : blocks'[c].put => At(Spool', blocks'[c].ib) = c
      BY <1>1, <1>2, <1>3, <2>1 DEF Restorable
    <2> QED
      BY <1>3, <2>2, PayloadsNext
  <1>5. ~ undo'.on /\ Len(txns') = 0
    BY <1>2 DEF NoUndo
  <1> QED
    BY <1>2, <1>3, <1>4, <1>5 DEF RewindInv, JournalInv

\* The adopted image reads as the spool did, orphans aside.
LEMMA CommitKeeps ==
  ASSUME SlotsInv, RewindInv, Commit
  PROVE  RewindInv'
  <1>1. /\ DOMAIN blocks' = DOMAIN blocks \ Orphans
        /\ \A b \in DOMAIN blocks' : blocks'[b] = blocks[b]
        /\ bits' = bits \ {blocks[b].ib : b \in Orphans}
        /\ hasIO' = TRUE /\ hasWork' = FALSE
        /\ UNCHANGED <<regions, undo, txns>> /\ txns = <<>>
    BY DEF Commit, InTxn
  <1>2. /\ DOMAIN io' = 0 .. FileEOF(regions) - 1
        /\ \A s \in 0 .. FileEOF(regions) - 1 : s \in bits' => io'[s] = At(Spool, s)
    BY DEF Commit
  <1>3. SpoolCovers'
    BY <1>1, <1>2 DEF SpoolCovers
  <1>4. Spool' = io'
    BY <1>1 DEF Spool
  <1>5. \A b \in DOMAIN blocks' : blocks'[b].ib \in bits'
    BY SlotsInductive DEF SlotsInv, OwnSlots, Next
  <1>6. bits' \subseteq 0 .. FileEOF(regions) - 1
    BY <1>1 DEF SlotsInv, InFile
  <1>7. \A s : ReadExtent(s) = At(Spool, s)
    BY ReadsSpool DEF RewindInv, JournalInv
  <1>8. \A b \in DOMAIN blocks' : blocks'[b].put => At(Spool', blocks'[b].ib) = b
    <2> SUFFICES ASSUME NEW b \in DOMAIN blocks', blocks'[b].put
                 PROVE  At(Spool', blocks'[b].ib) = b
      OBVIOUS
    <2>1. b \in DOMAIN blocks /\ blocks'[b] = blocks[b]
      BY <1>1
    <2>2. ReadExtent(blocks[b].ib) = b
      BY <2>1 DEF RewindInv, JournalInv, PayloadsReadable
    <2>3. io'[blocks'[b].ib] = At(Spool, blocks[b].ib) /\ blocks'[b].ib \in DOMAIN io'
      BY <1>2, <1>5, <1>6, <2>1
    <2> QED
      BY <1>4, <1>7, <2>2, <2>3 DEF At
  <1> QED
    BY <1>1, <1>3, <1>8, PayloadsNext DEF RewindInv, JournalInv

LEMMA RewindInductive ==
  ASSUME TxnDepth = 1
  PROVE  SlotsInv /\ RewindInv /\ [Next]_vars => RewindInv'
  <1> SUFFICES ASSUME SlotsInv, RewindInv, [Next]_vars PROVE RewindInv'
    OBVIOUS
  <1>1. CASE EndTxn
    <2>1. txns' = <<>> /\ undo'.on = FALSE /\ Len(txns') = 0
      BY <1>1, OneSnapshot DEF EndTxn, InTxn, RewindInv, JournalInv, NoUndo
    <2>2. SpoolCovers' /\ PayloadsReadable'
      BY <1>1 DEF EndTxn, RewindInv, JournalInv, SpoolCovers, PayloadsReadable, ReadExtent
    <2> QED
      BY <2>1, <2>2 DEF RewindInv, JournalInv
  <1>2. CASE Refuse \/ UNCHANGED vars
    <2>1. UNCHANGED <<regions, blocks, hasIO, io, hasWork, work, undo, txns>>
      BY <1>2 DEF Refuse, vars
    <2> QED
      BY <2>1 DEF RewindInv, JournalInv, SpoolCovers, PayloadsReadable, ReadExtent, Restorable, Rewound
  <1> QED
    BY <1>1, <1>2, AddKeepsPayloads, DropKeepsPayloads, BeginRestorable, AbortKeeps,
       CommitKeeps DEF Next

LEMMA InitRewind == Init => RewindInv
  BY DEF Init, RewindInv, JournalInv, SpoolCovers, PayloadsReadable, NoUndo, Empty

\* Without nesting, the payload of every block reads back as written, through
\* failed writes, failed frees, rollbacks and commits.
THEOREM PayloadsStayReadable == TxnDepth = 1 => (Spec => []PayloadsReadable)
  <1> SUFFICES ASSUME TxnDepth = 1 PROVE Spec => []PayloadsReadable
    OBVIOUS
  <1>1. SlotsInv /\ RewindInv /\ [Next]_vars => RewindInv'
    BY RewindInductive
  <1>2. RewindInv => PayloadsReadable
    BY DEF RewindInv, JournalInv
  <1> QED
    BY <1>1, <1>2, InitSlots, InitRewind, SlotsInductive, PTL DEF Spec

\* Without nesting, a failed call of runTxn leaves no trace in any slot.
THEOREM RollbackRewinds == TxnDepth = 1 => (Spec => AbortRewinds)
  <1> SUFFICES ASSUME TxnDepth = 1 PROVE Spec => AbortRewinds
    OBVIOUS
  <1> DEFINE Rewinds == AbortTxn => \A s \in DOMAIN Innermost.seen :
                                      ReadExtent(s)' = Innermost.seen[s]
  <1>1. SlotsInv /\ RewindInv /\ [Next]_vars => RewindInv'
    BY RewindInductive
  <1>2. SlotsInv /\ RewindInv /\ [Next]_vars => [Rewinds]_vars
    <2> SUFFICES ASSUME SlotsInv, RewindInv, AbortTxn, NEW s \in DOMAIN Innermost.seen
                 PROVE  ReadExtent(s)' = Innermost.seen[s]
      OBVIOUS
    <2>1. SpoolCovers' /\ At(Spool', s) = Innermost.seen[s]
      BY AbortReads
    <2> QED
      BY <2>1, ReadsSpoolNext DEF At
  <1> QED
    BY <1>1, <1>2, InitSlots, InitRewind, SlotsInductive, PTL DEF Spec, AbortRewinds
=============================================================================
