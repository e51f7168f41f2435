------------------------- MODULE LegacySpaceProofs --------------------------
(***************************************************************************)
(* Proofs about LegacySpace, for a file without AMap pages, as Create      *)
(* makes them, with one transaction at a time and no writing after a       *)
(* recovery: until the end of the file comes to the blocks that Create put *)
(* past it, what the last commit left can be read after any crash. With    *)
(* AMap pages, two transactions, writing after a recovery, or that end     *)
(* reached, it is not so (see README.md): each hypothesis is needed.       *)
(***************************************************************************)
EXTENDS LegacySpace, TLAPS

\* The blocks of the file at hand.
N0 == Len(InitAt) - 1

Old == {InitAt[i] : i \in DOMAIN InitAt}

\* What is assumed of the file and of the program.
OneWriter ==
  /\ ~ HasAMap
  /\ Modes \subseteq {"delete"}
  /\ \A i, j \in DOMAIN InitAt : InitAt[i] = InitAt[j] => i = j

\* What is assumed of a behaviour: the end of the file, which every allocation
\* moves, has not come to a block or page that lay past it from the start.
EndClear ==
  txns[1].state # "idle" =>
    \A u \in Old : u >= EOF => txns[1].eof < u

-----------------------------------------------------------------------------
(* The inductive invariant *)

Header ==
  [status : {"Valid", "Valid2", "Invalid"}, root : Unit, eof : Nat, bidNextB : Nat]

\* Two headers that name the same tree and the same free space.
Agree(h, g) == h.root = g.root /\ h.eof = g.eof

\* The units that reading a tree touches.
Needs(r, f) == {r} \cup {f[r].tree[b] : b \in DOMAIN f[r].tree}

\* The blocks L can be read from f by the tree at r.
Holds(r, f, L) ==
  /\ r \in Unit
  /\ DOMAIN f[r].tree = L
  /\ \A b \in L : f[r].tree[b] \in Unit /\ f[f[r].tree[b]] = Block(b)

\* What the header needs lies below its end of file or where the file at hand
\* had it.
Within(h, f) ==
  /\ Needs(h.root, f) \subseteq Old \cup (EOF .. h.eof - 1)
  /\ EOF <= h.eof

State == {"idle", "active", "started", "written", "failed", "synced", "finished"}

IsFile(f) == f \in [Unit -> {f[u] : u \in Unit}]

IsTxns(x) ==
  /\ x \in [{1} -> {x[1]}]
  /\ x[1] \in [state : State, bits : {{}, Unit}, eof : Nat, pending : {x[1].pending},
               deletes : {x[1].deletes}, root : Nat, original : {x[1].original}]

TypeInv ==
  /\ IsFile(file) /\ IsFile(disk)
  /\ header \in Header /\ hdrFile \in Header /\ hdrDisk \in Header
  /\ nextBID \in Nat
  /\ IsTxns(txns)

\* The header that names the last commit.
Base == IF txns[1].state = "idle" THEN hdrFile ELSE txns[1].original[1]

\* The last commit is whole on file and on disk.
BaseInv ==
  /\ Base \in Header
  /\ Holds(Base.root, file, live)
  /\ \A u \in Needs(Base.root, file) : disk[u] = file[u]
  /\ ~ recovered => Within(Base, file)

\* All headers name it until a commit has written its own.
HeadersInv ==
  /\ Agree(hdrDisk, Base)
  /\ txns[1].state # "finished" => Agree(hdrFile, Base)
  /\ txns[1].state # "finished" /\ ~ down => Agree(header, Base)

DownInv ==
  /\ down => txns[1].state = "idle" /\ file = disk /\ hdrFile = hdrDisk
  /\ recovered => txns[1].state = "idle"

\* What a transaction has taken: new ids, and units behind the end of the
\* file that nothing lies in.
Taken(T) ==
  /\ T.bits = Unit
  /\ T.original # <<>>
  /\ T.deletes \subseteq live
  /\ T.pending \in [DOMAIN T.pending -> Unit]
  /\ \A b \in DOMAIN T.pending : b \in Nat /\ b < nextBID
  /\ \A b, c \in DOMAIN T.pending : T.pending[b] = T.pending[c] => b = c
  /\ \A b \in DOMAIN T.pending :
       T.pending[b] \notin Old /\ T.pending[b] \in Base.eof .. T.eof - 1

TakenInv ==
  txns[1].state # "idle" => Taken(txns[1]) /\ Base.eof <= txns[1].eof

\* The header that a commit is about to write.
NewHeader == [status |-> "Valid2", root |-> txns[1].root, eof |-> txns[1].eof,
              bidNextB |-> nextBID]

\* The commit is whole on file once it is written, and on disk once synced.
NewInv ==
  /\ txns[1].state \in {"written", "synced", "finished"} =>
       /\ NewHeader \in Header
       /\ Holds(NewHeader.root, file, Left(1))
       /\ Within(NewHeader, file)
       /\ NewHeader.root = Base.root => Left(1) = live
  /\ txns[1].state \in {"synced", "finished"} => file = disk
  /\ txns[1].state = "finished" => header = NewHeader /\ hdrFile = NewHeader

SpaceInv == TypeInv /\ BaseInv /\ HeadersInv /\ DownInv /\ TakenInv /\ NewInv

-----------------------------------------------------------------------------
(* About the definitions *)

LEMMA OneTxn == OneWriter => Txn = {1} /\ LoadedBits = Unit
  BY DEF OneWriter, Txn, LoadedBits

\* What is read from one file is read from another that has the same there.
LEMMA HoldsMoves ==
  ASSUME NEW r, NEW f, NEW g, NEW L, Holds(r, f, L), \A u \in Needs(r, f) : g[u] = f[u]
  PROVE  Holds(r, g, L) /\ Needs(r, g) = Needs(r, f)
  <1>1. g[r] = f[r] /\ \A b \in L : g[f[r].tree[b]] = f[f[r].tree[b]]
    BY DEF Holds, Needs
  <1> QED
    BY <1>1 DEF Holds, Needs

LEMMA NeedsUnits ==
  ASSUME NEW r, NEW f, NEW L, Holds(r, f, L)
  PROVE  Needs(r, f) \subseteq Unit
  BY DEF Holds, Needs

\* Headers that agree are as good as each other.
LEMMA AgreeMoves ==
  ASSUME NEW h, NEW g, Agree(h, g), NEW f, NEW L
  PROVE  /\ Holds(h.root, f, L) <=> Holds(g.root, f, L)
         /\ Within(h, f) <=> Within(g, f)
         /\ Needs(h.root, f) = Needs(g.root, f)
  BY DEF Agree, Within

LEMMA ConstantTypes ==
  ASSUME OneWriter
  PROVE  /\ N0 \in Nat /\ EOF \in Nat /\ Units \in Nat /\ Old \subseteq Unit
         /\ Len(InitAt) = N0 + 1 /\ DOMAIN InitAt = 1 .. N0 + 1
  <1>1. InitAt \in Seq(0 .. Units - 1) /\ InitAt # <<>>
    BY SpaceAssumption
  <1>2. Len(InitAt) \in Nat /\ Len(InitAt) # 0 /\ DOMAIN InitAt = 1 .. Len(InitAt)
    BY <1>1
  <1>3. N0 \in Nat /\ Len(InitAt) = N0 + 1
    BY <1>2 DEF N0
  <1>4. EOF \in Nat /\ Units \in Nat
    BY SpaceAssumption
  <1>5. Old \subseteq Unit
    BY <1>1, <1>2, <1>4 DEF Old, Unit
  <1> QED
    BY <1>2, <1>3, <1>4, <1>5

\* What Allocate gives without AMap pages: the end of the file.
LEMMA AllocateEnd ==
  ASSUME TypeInv, txns[1].bits = Unit, NEW a \in Allocate(1)
  PROVE  /\ txns[1].eof \in Unit
         /\ a = [ib |-> txns[1].eof, bits |-> Unit, eof |-> txns[1].eof + 1]
  BY DEF Allocate, TypeInv, IsTxns

-----------------------------------------------------------------------------
(* The file at hand *)

LEMMA InitSpace ==
  ASSUME OneWriter, Init
  PROVE  SpaceInv
  <1>0. Txn = {1}
    BY OneTxn
  <1>1. /\ N0 \in Nat /\ EOF \in Nat /\ Units \in Nat
        /\ Old \subseteq Unit /\ DOMAIN InitAt = 1 .. N0 + 1
    BY ConstantTypes
  <1>2. \A i \in 1 .. N0 + 1 : InitAt[i] \in Unit /\ InitAt[i] \in Old
    BY <1>1 DEF Old
  <1>3. /\ file = [u \in Unit |->
              IF u = InitAt[N0 + 1] THEN TreePage([b \in 1 .. N0 |-> InitAt[b]])
              ELSE IF \E b \in 1 .. N0 : InitAt[b] = u
              THEN Block(CHOOSE b \in 1 .. N0 : InitAt[b] = u) ELSE Junk]
        /\ header = [status |-> "Valid", root |-> InitAt[N0 + 1], eof |-> EOF,
                     bidNextB |-> N0 + 1]
        /\ nextBID = N0 + 1 /\ live = 1 .. N0
    BY DEF Init, N0
  <1>4. /\ disk = file /\ hdrFile = header /\ hdrDisk = header
        /\ txns = [t \in {1} |-> NoTxn] /\ down = FALSE /\ recovered = FALSE
    BY <1>0 DEF Init
  <1>5. InitAt[N0 + 1] \in Unit /\ file[InitAt[N0 + 1]] = TreePage([b \in 1 .. N0 |-> InitAt[b]])
    BY <1>1, <1>2, <1>3
  <1>6. ASSUME NEW b \in 1 .. N0 PROVE file[InitAt[b]] = Block(b) /\ InitAt[b] \in Unit
    <2>1. b \in DOMAIN InitAt /\ N0 + 1 \in DOMAIN InitAt /\ b # N0 + 1 /\ InitAt[b] \in Unit
      BY <1>1, <1>2
    <2>2. InitAt[b] # InitAt[N0 + 1]
      BY <2>1 DEF OneWriter
    <2>3. \A c \in 1 .. N0 : InitAt[c] = InitAt[b] => c = b
      BY <1>1, <2>1 DEF OneWriter
    <2>4. (CHOOSE c \in 1 .. N0 : InitAt[c] = InitAt[b]) = b
      BY <2>3
    <2> QED
      BY <1>3, <2>1, <2>2, <2>4
  <1> HIDE DEF Init
  <1>3a. /\ header.root = InitAt[N0 + 1] /\ header.eof = EOF /\ header.bidNextB = N0 + 1
         /\ header.status = "Valid" /\ nextBID = N0 + 1 /\ live = 1 .. N0
    BY <1>3
  <1>5a. file[InitAt[N0 + 1]].tree = [b \in 1 .. N0 |-> InitAt[b]]
    BY <1>5 DEF TreePage
  <1>7. Holds(header.root, file, live)
    <2> DEFINE r == InitAt[N0 + 1]
    <2>1. header.root = r /\ live = 1 .. N0 /\ r \in Unit
      BY <1>3a, <1>5
    <2>2. DOMAIN file[r].tree = 1 .. N0 /\ \A b \in 1 .. N0 : file[r].tree[b] = InitAt[b]
      BY <1>5a
    <2> HIDE DEF r
    <2> QED
      BY <1>6, <2>1, <2>2 DEF Holds
  <1>8. Needs(header.root, file) \subseteq Old
    BY <1>1, <1>2, <1>3a, <1>5a DEF Needs
  <1>10. header \in Header
    BY <1>1, <1>3, <1>5 DEF Header
  <1>11. Within(header, file)
    BY <1>1, <1>3a, <1>8 DEF Within
  <1>12. txns[1] = NoTxn /\ NoTxn.state = "idle" /\ Base = header
    BY <1>4 DEF Base, NoTxn
  <1>13. TypeInv
    <2>1. IsFile(file)
      BY <1>3 DEF IsFile
    <2>2. IsTxns(txns)
      BY <1>4 DEF IsTxns, NoTxn, State
    <2>3. nextBID \in Nat
      BY <1>1, <1>3a
    <2> QED
      BY <1>4, <1>10, <2>1, <2>2, <2>3 DEF TypeInv
  <1>14. BaseInv /\ HeadersInv
    BY <1>4, <1>7, <1>10, <1>11, <1>12 DEF BaseInv, HeadersInv, Agree
  <1>15. DownInv /\ TakenInv /\ NewInv
    BY <1>1, <1>3a, <1>4, <1>12 DEF DownInv, TakenInv, NewInv
  <1> QED
    BY <1>13, <1>14, <1>15 DEF SpaceInv

-----------------------------------------------------------------------------
(* The steps of a transaction *)

\* A step that leaves the file and the last commit alone keeps it whole.
LEMMA BaseFrame ==
  ASSUME BaseInv, UNCHANGED <<file, disk, live, recovered>>, Base' \in Header, Agree(Base', Base)
  PROVE  BaseInv'
  <1>1. /\ Holds(Base'.root, file, live)
        /\ Needs(Base'.root, file) = Needs(Base.root, file)
        /\ ~ recovered => Within(Base', file)
    BY AgreeMoves DEF BaseInv
  <1> QED
    BY <1>1 DEF BaseInv

LEMMA BeginStep ==
  ASSUME OneWriter, SpaceInv, BeginWrite(1)
  PROVE  SpaceInv'
  <1>0. /\ UNCHANGED <<file, disk, header, hdrFile, hdrDisk, nextBID, down, recovered, live>>
        /\ ~ down /\ txns[1].state = "idle" /\ LoadedBits = Unit
        /\ TypeInv /\ BaseInv /\ HeadersInv /\ DownInv
    BY OneTxn DEF BeginWrite, Idle, SpaceInv
  <1>1. ~ recovered
    BY DEF BeginWrite, OneWriter
  <1>2. txns' = [txns EXCEPT ![1] =
                   [NoTxn EXCEPT !.state = "active", !.bits = Unit,
                                 !.eof = header.eof, !.original = <<header>>]]
    BY <1>0 DEF BeginWrite
  <1>3. /\ IsTxns(txns') /\ txns'[1].state = "active" /\ txns'[1].bits = Unit
        /\ txns'[1].eof = header.eof /\ txns'[1].original = <<header>>
        /\ txns'[1].pending = NoMap /\ txns'[1].deletes = {}
    BY <1>0, <1>2 DEF TypeInv, IsTxns, NoTxn, State, Header
  <1>4. Base = hdrFile /\ Base' = header /\ Agree(header, hdrFile) /\ Agree(hdrDisk, hdrFile)
    BY <1>0, <1>3 DEF Base, HeadersInv
  <1>5. BaseInv'
    BY <1>0, <1>4, BaseFrame DEF TypeInv
  <1>6. TypeInv'
    BY <1>0, <1>3 DEF TypeInv
  <1>7. HeadersInv'
    BY <1>0, <1>4 DEF HeadersInv, Agree
  <1>8. DownInv'
    BY <1>0, <1>1, <1>4 DEF DownInv, Agree
  <1>9. DOMAIN NoMap = {} /\ NoMap \in [{} -> Unit]
    BY DEF NoMap
  <1>10. TakenInv'
    <2>1. header.eof \in Nat
      BY <1>0 DEF TypeInv, Header
    <2> QED
      BY <1>0, <1>3, <1>4, <1>9, <2>1 DEF TakenInv, Taken, Agree
  <1>11. NewInv'
    BY <1>3 DEF NewInv
  <1> QED
    BY <1>5, <1>6, <1>7, <1>8, <1>10, <1>11 DEF SpaceInv

\* The end of the file is where nothing lies.
LEMMA EndIsFree ==
  ASSUME OneWriter, SpaceInv, EndClear, ~ recovered, txns[1].state # "idle"
  PROVE  EOF <= Base.eof /\ txns[1].eof \in Nat /\ txns[1].eof \notin Old
  <1>1. /\ EOF \in Nat /\ Base.eof \in Nat /\ txns[1].eof \in Nat
        /\ EOF <= Base.eof /\ Base.eof <= txns[1].eof
    BY ConstantTypes DEF SpaceInv, TypeInv, IsTxns, BaseInv, Within, Header, TakenInv
  <1>2. \A u \in Old : u >= EOF => txns[1].eof < u
    BY DEF EndClear
  <1> QED
    BY <1>1, <1>2

LEMMA WriteBlockStep ==
  ASSUME OneWriter, SpaceInv, EndClear, WriteBlockData(1)
  PROVE  SpaceInv'
  <1> DEFINE T == txns[1]
  <1>0. /\ UNCHANGED <<file, disk, header, hdrFile, hdrDisk, down, recovered, live>>
        /\ ~ down /\ T.state = "active" /\ nextBID <= MaxBID /\ nextBID' = nextBID + 1
        /\ TypeInv /\ BaseInv /\ HeadersInv /\ DownInv /\ TakenInv /\ nextBID \in Nat
    BY DEF WriteBlockData, Active, SpaceInv, TypeInv
  <1>1. ~ recovered /\ Taken(T) /\ Base.eof <= T.eof
    BY <1>0 DEF DownInv, TakenInv
  <1>2. PICK a \in Allocate(1) :
          txns' = [txns EXCEPT ![1].bits = a.bits, ![1].eof = a.eof,
                               ![1].pending = Overlay(@, [b \in {nextBID} |-> a.ib])]
    BY DEF WriteBlockData
  <1>3. T.eof \in Unit /\ a.ib = T.eof /\ a.bits = Unit /\ a.eof = T.eof + 1
    BY <1>0, <1>1, AllocateEnd DEF Taken
  <1>4. /\ IsTxns(txns') /\ txns'[1].state = "active" /\ txns'[1].bits = Unit
        /\ txns'[1].eof = T.eof + 1 /\ txns'[1].original = T.original
        /\ txns'[1].pending = Overlay(T.pending, [b \in {nextBID} |-> T.eof])
        /\ txns'[1].deletes = T.deletes
    BY <1>0, <1>2, <1>3 DEF TypeInv, IsTxns
  <1>5. Base' = Base
    BY <1>0, <1>4 DEF Base
  <1>6. BaseInv'
    BY <1>0, <1>5, BaseFrame DEF BaseInv, Agree
  <1>7. TypeInv'
    BY <1>0, <1>4 DEF TypeInv
  <1>8. HeadersInv'
    BY <1>0, <1>4, <1>5 DEF HeadersInv
  <1>9. DownInv'
    BY <1>0, <1>4 DEF DownInv
  <1>10. NewInv'
    BY <1>4 DEF NewInv
  <1> DEFINE D == DOMAIN T.pending
             q == txns'[1].pending
  <1>11. Base.eof \in Nat /\ \A b \in D : b \in Nat /\ b < nextBID
    BY <1>0, <1>1 DEF BaseInv, Header, Taken
  <1>13. nextBID \notin D
    BY <1>0, <1>11
  <1>14. T.eof \notin Old /\ T.eof \in Nat
    BY <1>0, <1>1, EndIsFree
  <1>15. /\ DOMAIN q = D \cup {nextBID} /\ q[nextBID] = T.eof
         /\ \A b \in D : q[b] = T.pending[b] /\ b # nextBID
         /\ q = [b \in D \cup {nextBID} |-> q[b]]
    BY <1>4, <1>13 DEF Overlay
  <1>17. \A b \in D : T.pending[b] \in Unit /\ T.pending[b] \notin Old
                        /\ T.pending[b] \in Base.eof .. T.eof - 1 /\ T.pending[b] # T.eof
    BY <1>1, <1>11, <1>14 DEF Taken
  <1> HIDE DEF q
  <1>18. Taken(txns[1])'
    <2>1. txns'[1].deletes \subseteq live /\ txns'[1].original # <<>>
      BY <1>1, <1>4 DEF Taken
    <2>2. q \in [DOMAIN q -> Unit]
      BY <1>3, <1>15, <1>17
    <2>3. \A b \in DOMAIN q : b \in Nat /\ b < nextBID + 1
      BY <1>0, <1>11, <1>15
    <2>4. \A b, c \in DOMAIN q : q[b] = q[c] => b = c
      BY <1>1, <1>15, <1>17 DEF Taken
    <2>6. \A b \in DOMAIN q : q[b] \notin Old /\ q[b] \in Base.eof .. (T.eof + 1) - 1
      <3>1. T.eof \in Base.eof .. (T.eof + 1) - 1
        BY <1>1, <1>11, <1>14
      <3>2. \A b \in D : T.pending[b] \in Base.eof .. (T.eof + 1) - 1
        BY <1>11, <1>14, <1>17
      <3> QED
        BY <1>14, <1>15, <1>17, <3>1, <3>2
    <2> QED
      BY <1>0, <1>4, <1>5, <2>1, <2>2, <2>3, <2>4, <2>6 DEF Taken, q
  <1>19. TakenInv'
    BY <1>1, <1>4, <1>5, <1>11, <1>14, <1>18 DEF TakenInv, q
  <1> QED
    BY <1>6, <1>7, <1>8, <1>9, <1>10, <1>19 DEF SpaceInv

LEMMA DeleteStep ==
  ASSUME OneWriter, SpaceInv, NEW b, DeleteBlock(1, b)
  PROVE  SpaceInv'
  <1> DEFINE T == txns[1]
  <1>0. /\ UNCHANGED <<file, disk, header, hdrFile, hdrDisk, nextBID, down, recovered, live>>
        /\ ~ down /\ T.state = "active"
        /\ TypeInv /\ BaseInv /\ HeadersInv /\ DownInv /\ TakenInv
    BY DEF DeleteBlock, Active, SpaceInv
  <1>1. Taken(T) /\ Base.eof <= T.eof
    BY <1>0 DEF TakenInv
  <1>2. b \in live
    <2>1. b \in DOMAIN file[header.root].tree /\ header.root = Base.root
      BY <1>0 DEF DeleteBlock, Current, HeadersInv, Agree
    <2> QED
      BY <1>0, <2>1 DEF BaseInv, Holds
  <1>3. txns' = [txns EXCEPT ![1].bits = Unit, ![1].deletes = @ \cup {b}]
    <2>1. FreedBits(1, Current[b]) = Unit
      BY <1>1 DEF FreedBits, OneWriter, Taken
    <2> QED
      BY <2>1 DEF DeleteBlock
  <1>4. /\ IsTxns(txns') /\ txns'[1].state = "active" /\ txns'[1].bits = Unit
        /\ txns'[1].eof = T.eof /\ txns'[1].original = T.original
        /\ txns'[1].pending = T.pending /\ txns'[1].deletes = T.deletes \cup {b}
    BY <1>0, <1>3 DEF TypeInv, IsTxns
  <1>5. Base' = Base
    BY <1>0, <1>4 DEF Base
  <1>6. BaseInv'
    BY <1>0, <1>5, BaseFrame DEF BaseInv, Agree
  <1>7. TypeInv'
    BY <1>0, <1>4 DEF TypeInv
  <1>8. HeadersInv' /\ DownInv'
    BY <1>0, <1>4, <1>5 DEF HeadersInv, DownInv
  <1>9. NewInv'
    BY <1>4 DEF NewInv
  <1>10. TakenInv'
    BY <1>0, <1>1, <1>2, <1>4, <1>5 DEF TakenInv, Taken
  <1> QED
    BY <1>6, <1>7, <1>8, <1>9, <1>10 DEF SpaceInv

\* The status of a header is the only thing a start changes.
LEMMA StartStep ==
  ASSUME OneWriter, SpaceInv, startWrite(1) \/ startWriteFails(1)
  PROVE  SpaceInv'
  <1> DEFINE T == txns[1]
  <1>0. /\ UNCHANGED <<file, disk, hdrDisk, nextBID, down, recovered, live>>
        /\ ~ down /\ T.state = "active"
        /\ header' = [header EXCEPT !.status = "Invalid"] /\ hdrFile' \in {hdrFile, header'}
        /\ TypeInv /\ BaseInv /\ HeadersInv /\ DownInv /\ TakenInv
    BY DEF startWrite, startWriteFails, Active, SpaceInv
  <1>1. /\ IsTxns(txns') /\ txns'[1].state \in {"active", "started"}
        /\ txns'[1].bits = T.bits /\ txns'[1].eof = T.eof /\ txns'[1].original = T.original
        /\ txns'[1].pending = T.pending /\ txns'[1].deletes = T.deletes
    BY <1>0 DEF TypeInv, IsTxns, State, startWrite, startWriteFails
  <1>2. header' \in Header /\ Agree(header', header) /\ hdrFile' \in Header
    BY <1>0 DEF TypeInv, Header, Agree
  <1>3. Base' = Base
    BY <1>0, <1>1 DEF Base
  <1>4. BaseInv'
    BY <1>0, <1>3, BaseFrame DEF BaseInv, Agree
  <1>5. TypeInv'
    BY <1>0, <1>1, <1>2 DEF TypeInv
  <1>6. HeadersInv'
    BY <1>0, <1>1, <1>2, <1>3 DEF HeadersInv, Agree
  <1>7. DownInv'
    BY <1>0, <1>1, <1>3 DEF DownInv
  <1>8. NewInv'
    BY <1>1 DEF NewInv
  <1>9. TakenInv'
    BY <1>0, <1>1, <1>3 DEF TakenInv, Taken
  <1> QED
    BY <1>4, <1>5, <1>6, <1>7, <1>8, <1>9 DEF SpaceInv

\* Before the pages of a commit are written: they go where nothing is read.
LEMMA NewPages ==
  ASSUME OneWriter, SpaceInv, EndClear, ~ down, txns[1].state = "started", Changes(1)
  PROVE  /\ txns[1].eof \in Nat /\ txns[1].eof \notin Old
         /\ EOF <= Base.eof /\ Base.eof <= txns[1].eof
         /\ \A b \in DOMAIN txns[1].pending :
              txns[1].pending[b] \notin Needs(Base.root, file) /\ txns[1].pending[b] # txns[1].eof
         /\ txns[1].eof \notin Needs(Base.root, file)
  <1> DEFINE T == txns[1]
             D == DOMAIN T.pending
  <1>1. ~ recovered /\ Base.eof <= T.eof /\ Taken(T)
    BY DEF SpaceInv, DownInv, TakenInv
  <1>2. /\ Base.eof \in Nat /\ EOF \in Nat
        /\ Needs(Base.root, file) \subseteq Old \cup (EOF .. Base.eof - 1)
    BY <1>1, ConstantTypes DEF SpaceInv, BaseInv, Within, Header
  <1>3. T.eof \in Nat /\ T.eof \notin Old /\ EOF <= Base.eof
    BY <1>1, EndIsFree
  <1>4. \A b \in D : T.pending[b] \notin Old /\ T.pending[b] \in Base.eof .. T.eof - 1
    BY <1>1 DEF Taken
  <1>5. \A b \in D : T.pending[b] \notin Needs(Base.root, file) /\ T.pending[b] # T.eof
    BY <1>2, <1>3, <1>4
  <1>6. T.eof \notin Needs(Base.root, file)
    BY <1>1, <1>2, <1>3
  <1> QED
    BY <1>1, <1>3, <1>5, <1>6

\* Writing where nothing is read leaves the last commit whole.
LEMMA FreshWrite ==
  ASSUME SpaceInv, NEW pages, DOMAIN pages \subseteq Unit,
         \A u \in DOMAIN pages : u \notin Needs(Base.root, file),
         file' = Overlay(file, pages), UNCHANGED <<disk, live, recovered>>, Base' = Base
  PROVE  /\ BaseInv' /\ IsFile(file')
         /\ \A u \in Needs(Base.root, file) : file'[u] = file[u]
         /\ \A u \in DOMAIN pages : file'[u] = pages[u]
  <1>1. BaseInv /\ IsFile(file)
    BY DEF SpaceInv, TypeInv
  <1>2. DOMAIN file = Unit
    BY <1>1 DEF IsFile
  <1>3. file' = [u \in Unit |-> IF u \in DOMAIN pages THEN pages[u] ELSE file[u]]
    BY <1>2 DEF Overlay
  <1>4. Needs(Base.root, file) \subseteq Unit
    BY <1>1, NeedsUnits DEF BaseInv
  <1>5. \A u \in Needs(Base.root, file) : file'[u] = file[u]
    BY <1>3, <1>4
  <1>6. \A u \in DOMAIN pages : file'[u] = pages[u]
    BY <1>3
  <1>7. IsFile(file')
    BY <1>3 DEF IsFile
  <1>8. Holds(Base.root, file', live) /\ Needs(Base.root, file') = Needs(Base.root, file)
    BY <1>1, <1>5, HoldsMoves DEF BaseInv
  <1>9. ~ recovered => Within(Base, file')
    BY <1>1, <1>8 DEF BaseInv, Within
  <1>10. BaseInv'
    BY <1>1, <1>5, <1>8, <1>9 DEF BaseInv
  <1> QED
    BY <1>5, <1>6, <1>7, <1>10

\* What the pages of a commit are.
LEMMA PagesAre ==
  ASSUME OneWriter, SpaceInv, EndClear, ~ down, txns[1].state = "started", Changes(1),
         txns[1].eof \in Unit
  PROVE  /\ DOMAIN Pages(1, txns[1].eof) \subseteq Unit
         /\ \A u \in DOMAIN Pages(1, txns[1].eof) : u \notin Needs(Base.root, file)
         /\ txns[1].eof \in DOMAIN Pages(1, txns[1].eof)
         /\ Pages(1, txns[1].eof)[txns[1].eof] =
              TreePage(Overlay(Without(file[Base.root].tree, txns[1].deletes), txns[1].pending))
         /\ \A b \in DOMAIN txns[1].pending :
              /\ txns[1].pending[b] \in DOMAIN Pages(1, txns[1].eof)
              /\ Pages(1, txns[1].eof)[txns[1].pending[b]] = Block(b)
  <1> DEFINE T == txns[1]
             D == DOMAIN T.pending
             P == Pages(1, T.eof)
  <1>1. /\ T.pending \in [D -> Unit]
        /\ \A b, c \in D : T.pending[b] = T.pending[c] => b = c
    BY DEF SpaceInv, TakenInv, Taken
  <1>2. /\ \A b \in D : T.pending[b] \notin Needs(Base.root, file) /\ T.pending[b] # T.eof
        /\ T.eof \notin Needs(Base.root, file)
    BY NewPages
  <1>3. Current = file[Base.root].tree
    BY DEF Current, SpaceInv, HeadersInv, Agree
  <1>4. P = [u \in {T.pending[b] : b \in D} \cup {T.eof} |->
               IF u = T.eof THEN TreePage(Overlay(Without(Current, T.deletes), T.pending))
               ELSE Block(CHOOSE b \in D : T.pending[b] = u)]
    BY DEF Pages
  <1>5. ASSUME NEW b \in D PROVE (CHOOSE c \in D : T.pending[c] = T.pending[b]) = b
    BY <1>1
  <1> HIDE DEF P
  <1>6. DOMAIN P = {T.pending[b] : b \in D} \cup {T.eof}
    BY <1>4
  <1>7. P[T.eof] = TreePage(Overlay(Without(Current, T.deletes), T.pending))
    BY <1>4
  <1>8. \A b \in D : P[T.pending[b]] = Block(b)
    BY <1>2, <1>4, <1>5
  <1>9. DOMAIN P \subseteq Unit /\ \A u \in DOMAIN P : u \notin Needs(Base.root, file)
    BY <1>1, <1>2, <1>6
  <1> QED
    BY <1>3, <1>6, <1>7, <1>8, <1>9 DEF P

LEMMA WriteAllStep ==
  ASSUME OneWriter, SpaceInv, EndClear, WriteAll(1)
  PROVE  SpaceInv'
  <1> DEFINE T == txns[1]
             D == DOMAIN T.pending
             M == Overlay(Without(file[Base.root].tree, T.deletes), T.pending)
  <1>0. /\ UNCHANGED <<disk, header, hdrFile, hdrDisk, nextBID, down, recovered, live>>
        /\ ~ down /\ T.state = "started" /\ Changes(1)
        /\ TypeInv /\ BaseInv /\ HeadersInv /\ DownInv /\ TakenInv
    BY DEF WriteAll, SpaceInv
  <1>1. Taken(T) /\ ~ recovered
    BY <1>0 DEF TakenInv, DownInv
  <1>2. PICK a \in Allocate(1) :
          /\ file' = Overlay(file, Pages(1, a.ib))
          /\ txns' = [txns EXCEPT ![1].state = "written", ![1].bits = a.bits,
                                  ![1].eof = a.eof, ![1].root = a.ib]
    BY DEF WriteAll
  <1>3. T.eof \in Unit /\ a.ib = T.eof /\ a.bits = Unit /\ a.eof = T.eof + 1
    BY <1>0, <1>1, AllocateEnd DEF Taken
  <1>4. Units \in Nat /\ N0 \in Nat /\ EOF \in Nat
    BY ConstantTypes
  <1>5. T.eof \in Nat
    BY <1>0 DEF TypeInv, IsTxns
  <1>6. /\ IsTxns(txns') /\ txns'[1].state = "written" /\ txns'[1].bits = Unit
        /\ txns'[1].eof = T.eof + 1 /\ txns'[1].original = T.original
        /\ txns'[1].pending = T.pending /\ txns'[1].deletes = T.deletes
        /\ txns'[1].root = T.eof
    BY <1>0, <1>2, <1>3, <1>5 DEF TypeInv, IsTxns, State
  <1>7. Base' = Base
    BY <1>0, <1>6 DEF Base
  <1>8. /\ BaseInv' /\ IsFile(file')
        /\ \A u \in Needs(Base.root, file) : file'[u] = file[u]
        /\ file'[T.eof] = TreePage(M)
        /\ \A b \in D : file'[T.pending[b]] = Block(b)
    <2>1. /\ DOMAIN Pages(1, T.eof) \subseteq Unit
          /\ \A u \in DOMAIN Pages(1, T.eof) : u \notin Needs(Base.root, file)
          /\ T.eof \in DOMAIN Pages(1, T.eof) /\ Pages(1, T.eof)[T.eof] = TreePage(M)
          /\ \A b \in D : /\ T.pending[b] \in DOMAIN Pages(1, T.eof)
                          /\ Pages(1, T.eof)[T.pending[b]] = Block(b)
      BY <1>0, <1>3, PagesAre
    <2>2. file' = Overlay(file, Pages(1, T.eof))
      BY <1>2, <1>3
    <2>3. /\ BaseInv' /\ IsFile(file')
          /\ \A u \in Needs(Base.root, file) : file'[u] = file[u]
          /\ \A u \in DOMAIN Pages(1, T.eof) : file'[u] = Pages(1, T.eof)[u]
      BY <1>0, <1>7, <2>1, <2>2, FreshWrite
    <2> QED
      BY <2>1, <2>3
  <1>9. TypeInv'
    BY <1>0, <1>6, <1>8 DEF TypeInv
  <1>10. HeadersInv' /\ DownInv'
    BY <1>0, <1>1, <1>6, <1>7 DEF HeadersInv, DownInv
  <1>11. TakenInv'
    <2>1. \A b \in D : T.pending[b] \in Base.eof .. (T.eof + 1) - 1
      <3>1. Base.eof \in Nat
        BY <1>0 DEF BaseInv, Header
      <3> QED
        BY <1>1, <1>5, <3>1 DEF Taken
    <2>2. Base.eof <= T.eof /\ Base.eof \in Nat
      BY <1>0 DEF BaseInv, Header, TakenInv
    <2>3. Taken(txns[1])'
      BY <1>0, <1>1, <1>6, <1>7, <2>1 DEF Taken
    <2>4. Base'.eof <= txns'[1].eof
      BY <1>5, <1>6, <1>7, <2>2
    <2> QED
      BY <2>3, <2>4 DEF TakenInv
  <1>12. /\ T.eof \notin Old /\ EOF <= Base.eof /\ Base.eof <= T.eof
         /\ T.eof \notin Needs(Base.root, file)
    BY <1>0, NewPages
  <1>13. Left(1)' = Left(1)
    BY <1>0, <1>6 DEF Left
  <1>14. NewHeader' = [status |-> "Valid2", root |-> T.eof, eof |-> T.eof + 1,
                       bidNextB |-> nextBID]
    BY <1>0, <1>6 DEF NewHeader
  <1>15. NewHeader' \in Header
    BY <1>0, <1>3, <1>5, <1>14 DEF Header, TypeInv
  <1>16. DOMAIN M = Left(1) /\ \A b \in Left(1) :
           M[b] = IF b \in D THEN T.pending[b] ELSE file[Base.root].tree[b]
    <2>1. DOMAIN file[Base.root].tree = live
      BY <1>0 DEF BaseInv, Holds
    <2> QED
      BY <2>1 DEF Overlay, Without, Left
  <1>17. ASSUME NEW b \in Left(1)
         PROVE  /\ M[b] \in Unit /\ file'[M[b]] = Block(b)
                /\ M[b] \in Needs(Base.root, file) \cup {T.pending[c] : c \in D}
    <2>1. CASE b \in D
      BY <1>1, <1>8, <1>16, <2>1 DEF Taken
    <2>2. CASE b \notin D
      <3>1. b \in live /\ M[b] = file[Base.root].tree[b]
        BY <1>16, <2>2 DEF Left
      <3>2. M[b] \in Needs(Base.root, file) /\ M[b] \in Unit /\ file[M[b]] = Block(b)
        BY <1>0, <3>1 DEF BaseInv, Holds, Needs
      <3> QED
        BY <1>8, <3>2
    <2> QED
      BY <2>1, <2>2
  <1> HIDE DEF M
  <1>18. file'[T.eof].tree = M
    BY <1>8 DEF TreePage
  <1>19. Holds(T.eof, file', Left(1))
    BY <1>3, <1>16, <1>17, <1>18 DEF Holds
  <1>20. Needs(T.eof, file') \subseteq Old \cup (EOF .. (T.eof + 1) - 1)
    <2>1. Needs(T.eof, file') = {T.eof} \cup {M[b] : b \in Left(1)}
      BY <1>16, <1>18 DEF Needs
    <2>2. \A u \in Needs(Base.root, file) : u \in Old \/ u \in EOF .. Base.eof - 1
      BY <1>0, <1>1 DEF BaseInv, Within
    <2>3. \A c \in D : T.pending[c] \in Base.eof .. T.eof - 1
      BY <1>1 DEF Taken
    <2>4. Base.eof \in Nat
      BY <1>0 DEF BaseInv, Header
    <2>5. \A u : u \in EOF .. Base.eof - 1 => u \in EOF .. (T.eof + 1) - 1
      BY <1>4, <1>5, <1>12, <2>4
    <2>6. \A c \in D : T.pending[c] \in EOF .. (T.eof + 1) - 1
      BY <1>4, <1>5, <1>12, <2>3, <2>4
    <2>7. T.eof \in EOF .. (T.eof + 1) - 1
      BY <1>4, <1>5, <1>12, <2>4
    <2> HIDE DEF D
    <2> QED
      BY <1>17, <2>1, <2>2, <2>5, <2>6, <2>7
  <1>21. Within(NewHeader, file)'
    <2>1. Base.eof \in Nat
      BY <1>0 DEF BaseInv, Header
    <2>2. EOF <= T.eof + 1
      BY <1>4, <1>5, <1>12, <2>1
    <2> QED
      BY <1>0, <1>12, <1>13, <1>14, <1>20, <2>2 DEF Within
  <1>23. T.eof # Base.root
    BY <1>12 DEF Needs
  <1>24. NewInv'
    BY <1>6, <1>7, <1>13, <1>14, <1>15, <1>19, <1>21, <1>23 DEF NewInv
  <1> QED
    BY <1>8, <1>9, <1>10, <1>11, <1>24 DEF SpaceInv

LEMMA WriteFailsStep ==
  ASSUME OneWriter, SpaceInv, EndClear, WriteFails(1)
  PROVE  SpaceInv'
  <1> DEFINE T == txns[1]
  <1>0. /\ UNCHANGED <<disk, header, hdrFile, hdrDisk, nextBID, down, recovered, live>>
        /\ ~ down /\ T.state = "started" /\ Changes(1)
        /\ txns' = [txns EXCEPT ![1].state = "failed"]
        /\ TypeInv /\ BaseInv /\ HeadersInv /\ DownInv /\ TakenInv
    BY DEF WriteFails, SpaceInv
  <1>1. Taken(T) /\ ~ recovered
    BY <1>0 DEF TakenInv, DownInv
  <1>2. PICK a \in Allocate(1) : \E lost \in SUBSET DOMAIN Pages(1, a.ib) :
          file' = Overlay(file, Without(Pages(1, a.ib), lost))
    BY DEF WriteFails
  <1>3. T.eof \in Unit /\ a.ib = T.eof
    BY <1>0, <1>1, AllocateEnd DEF Taken
  <1>4. /\ IsTxns(txns') /\ txns'[1].state = "failed"
        /\ txns'[1].bits = T.bits /\ txns'[1].eof = T.eof /\ txns'[1].original = T.original
        /\ txns'[1].pending = T.pending /\ txns'[1].deletes = T.deletes
    BY <1>0 DEF TypeInv, IsTxns, State
  <1>5. Base' = Base
    BY <1>0, <1>4 DEF Base
  <1>6. BaseInv' /\ IsFile(file')
    <2>1. PICK lost \in SUBSET DOMAIN Pages(1, T.eof) :
            file' = Overlay(file, Without(Pages(1, T.eof), lost))
      BY <1>2, <1>3
    <2>2. PICK pages : pages = Without(Pages(1, T.eof), lost)
      OBVIOUS
    <2>3. DOMAIN pages \subseteq DOMAIN Pages(1, T.eof)
      BY <2>2 DEF Without
    <2>4. /\ DOMAIN Pages(1, T.eof) \subseteq Unit
          /\ \A u \in DOMAIN Pages(1, T.eof) : u \notin Needs(Base.root, file)
      BY <1>0, <1>3, PagesAre
    <2>5. file' = Overlay(file, pages)
      BY <2>1, <2>2
    <2> QED
      BY <1>0, <1>5, <2>3, <2>4, <2>5, FreshWrite
  <1>7. TypeInv'
    BY <1>0, <1>4, <1>6 DEF TypeInv
  <1>8. HeadersInv' /\ DownInv'
    BY <1>0, <1>1, <1>4, <1>5 DEF HeadersInv, DownInv
  <1>9. TakenInv' /\ NewInv'
    BY <1>0, <1>1, <1>4, <1>5 DEF TakenInv, Taken, NewInv
  <1> QED
    BY <1>6, <1>7, <1>8, <1>9 DEF SpaceInv

LEMMA WriteNothingStep ==
  ASSUME OneWriter, SpaceInv, WriteNothing(1)
  PROVE  SpaceInv'
  <1> DEFINE T == txns[1]
  <1>0. /\ UNCHANGED <<file, disk, header, hdrFile, hdrDisk, nextBID, down, recovered, live>>
        /\ ~ down /\ T.state = "started" /\ ~ Changes(1)
        /\ txns' = [txns EXCEPT ![1].state = "written", ![1].root = header.root]
        /\ TypeInv /\ BaseInv /\ HeadersInv /\ DownInv /\ TakenInv
    BY DEF WriteNothing, SpaceInv
  <1>1. /\ Taken(T) /\ ~ recovered /\ header.root = Base.root
        /\ Base.eof <= T.eof
    BY <1>0 DEF TakenInv, DownInv, HeadersInv, Agree
  <1>2. header.root \in Nat /\ header.root \in Unit
    BY <1>0, ConstantTypes DEF TypeInv, Header, Unit
  <1>3. /\ IsTxns(txns') /\ txns'[1].state = "written" /\ txns'[1].root = Base.root
        /\ txns'[1].bits = T.bits /\ txns'[1].eof = T.eof /\ txns'[1].original = T.original
        /\ txns'[1].pending = T.pending /\ txns'[1].deletes = T.deletes
    BY <1>0, <1>1, <1>2 DEF TypeInv, IsTxns, State
  <1>4. Base' = Base
    BY <1>0, <1>3 DEF Base
  <1>5. BaseInv'
    BY <1>0, <1>4, BaseFrame DEF BaseInv, Agree
  <1>6. TypeInv'
    BY <1>0, <1>3 DEF TypeInv
  <1>7. HeadersInv' /\ DownInv'
    BY <1>0, <1>1, <1>3, <1>4 DEF HeadersInv, DownInv
  <1>8. TakenInv'
    <2>1. Taken(T) /\ UNCHANGED <<live, nextBID>>
      BY <1>0, <1>1
    <2>2. Taken(txns[1])'
      BY <1>3, <1>4, <2>1 DEF Taken
    <2>3. Base'.eof <= txns'[1].eof
      BY <1>1, <1>3, <1>4
    <2> QED
      BY <2>2, <2>3 DEF TakenInv
  <1>9. Left(1)' = live
    <2>1. DOMAIN T.pending = {} /\ T.deletes = {}
      BY <1>0 DEF Changes, NoMap
    <2> QED
      BY <1>0, <1>3, <2>1 DEF Left
  <1>10. NewHeader' = [status |-> "Valid2", root |-> Base.root, eof |-> T.eof,
                       bidNextB |-> nextBID]
    BY <1>0, <1>3 DEF NewHeader
  <1>11. T.eof \in Nat /\ NewHeader' \in Header
    BY <1>0, <1>10 DEF Header, TypeInv, IsTxns, BaseInv
  <1>12. Within(NewHeader', file)
    <2>1. /\ Needs(Base.root, file) \subseteq Old \cup (EOF .. Base.eof - 1)
          /\ EOF <= Base.eof /\ EOF \in Nat /\ Base.eof \in Nat
      BY <1>0, <1>1, ConstantTypes DEF BaseInv, Within, Header
    <2>2. EOF <= T.eof /\ \A u \in EOF .. Base.eof - 1 : u \in EOF .. T.eof - 1
      BY <1>1, <1>11, <2>1
    <2> QED
      BY <1>10, <2>1, <2>2 DEF Within
  <1>13. Holds(NewHeader'.root, file, live)
    BY <1>0, <1>10 DEF BaseInv
  <1>14. NewInv'
    BY <1>0, <1>3, <1>4, <1>9, <1>11, <1>12, <1>13 DEF NewInv
  <1> QED
    BY <1>5, <1>6, <1>7, <1>8, <1>14 DEF SpaceInv

LEMMA SyncDataStep ==
  ASSUME OneWriter, SpaceInv, SyncData(1)
  PROVE  SpaceInv'
  <1> DEFINE T == txns[1]
  <1>0. /\ UNCHANGED <<file, header, hdrFile, nextBID, down, recovered, live>>
        /\ ~ down /\ T.state = "written" /\ disk' = file /\ hdrDisk' = hdrFile
        /\ txns' = [txns EXCEPT ![1].state = "synced"]
        /\ TypeInv /\ BaseInv /\ HeadersInv /\ DownInv /\ TakenInv /\ NewInv
    BY DEF SyncData, SpaceInv
  <1>1. Taken(T) /\ ~ recovered
    BY <1>0 DEF TakenInv, DownInv
  <1>2. /\ IsTxns(txns') /\ txns'[1].state = "synced" /\ txns'[1].root = T.root
        /\ txns'[1].bits = T.bits /\ txns'[1].eof = T.eof /\ txns'[1].original = T.original
        /\ txns'[1].pending = T.pending /\ txns'[1].deletes = T.deletes
    BY <1>0 DEF TypeInv, IsTxns, State
  <1>3. Base' = Base /\ Left(1)' = Left(1) /\ NewHeader' = NewHeader
    BY <1>0, <1>2 DEF Base, Left, NewHeader
  <1>4. BaseInv'
    BY <1>0, <1>3 DEF BaseInv
  <1>5. TypeInv'
    BY <1>0, <1>2 DEF TypeInv
  <1>6. HeadersInv' /\ DownInv'
    BY <1>0, <1>1, <1>2, <1>3 DEF HeadersInv, DownInv
  <1>7. TakenInv'
    BY <1>0, <1>1, <1>2, <1>3 DEF TakenInv, Taken
  <1>8. NewInv'
    BY <1>0, <1>2, <1>3 DEF NewInv
  <1> QED
    BY <1>4, <1>5, <1>6, <1>7, <1>8 DEF SpaceInv

LEMMA FinishStep ==
  ASSUME OneWriter, SpaceInv, finishWrite(1)
  PROVE  SpaceInv'
  <1> DEFINE T == txns[1]
  <1>0. /\ UNCHANGED <<file, disk, hdrDisk, nextBID, down, recovered, live>>
        /\ ~ down /\ T.state = "synced" /\ header' = NewHeader /\ hdrFile' = NewHeader
        /\ txns' = [txns EXCEPT ![1].state = "finished"]
        /\ TypeInv /\ BaseInv /\ HeadersInv /\ DownInv /\ TakenInv /\ NewInv
    BY DEF finishWrite, SpaceInv, NewHeader
  <1>1. Taken(T) /\ ~ recovered /\ NewHeader \in Header
    BY <1>0 DEF TakenInv, DownInv, NewInv
  <1>2. /\ IsTxns(txns') /\ txns'[1].state = "finished" /\ txns'[1].root = T.root
        /\ txns'[1].bits = T.bits /\ txns'[1].eof = T.eof /\ txns'[1].original = T.original
        /\ txns'[1].pending = T.pending /\ txns'[1].deletes = T.deletes
    BY <1>0 DEF TypeInv, IsTxns, State
  <1>3. Base' = Base /\ Left(1)' = Left(1) /\ NewHeader' = NewHeader
    BY <1>0, <1>2 DEF Base, Left, NewHeader
  <1>4. BaseInv'
    BY <1>0, <1>3, BaseFrame DEF BaseInv, Agree
  <1>5. TypeInv'
    BY <1>0, <1>1, <1>2 DEF TypeInv
  <1>6. HeadersInv' /\ DownInv'
    BY <1>0, <1>1, <1>2, <1>3 DEF HeadersInv, DownInv
  <1>7. TakenInv'
    BY <1>0, <1>1, <1>2, <1>3 DEF TakenInv, Taken
  <1>8. NewInv'
    BY <1>0, <1>2, <1>3 DEF NewInv
  <1> QED
    BY <1>4, <1>5, <1>6, <1>7, <1>8 DEF SpaceInv

\* Between transactions nothing is taken and nothing is new.
LEMMA IdleStep ==
  ASSUME txns'[1].state = "idle"
  PROVE  TakenInv' /\ NewInv'
  BY DEF TakenInv, NewInv

LEMMA NoTxnTyped ==
  ASSUME TypeInv, txns' = [txns EXCEPT ![1] = NoTxn] \/ txns' = [t \in {1} |-> NoTxn]
  PROVE  IsTxns(txns') /\ txns'[1].state = "idle"
  BY DEF TypeInv, IsTxns, NoTxn, State

LEMMA SyncHeaderStep ==
  ASSUME OneWriter, SpaceInv, SyncHeader(1)
  PROVE  SpaceInv'
  <1> DEFINE T == txns[1]
  <1>0. /\ UNCHANGED <<file, header, hdrFile, nextBID, down, recovered>>
        /\ ~ down /\ T.state = "finished" /\ disk' = file /\ hdrDisk' = hdrFile
        /\ live' = Left(1) /\ txns' = [txns EXCEPT ![1] = NoTxn]
        /\ TypeInv /\ BaseInv /\ HeadersInv /\ DownInv /\ TakenInv /\ NewInv
    BY DEF SyncHeader, SpaceInv
  <1>1. IsTxns(txns') /\ txns'[1].state = "idle" /\ TakenInv' /\ NewInv'
    BY <1>0, NoTxnTyped, IdleStep
  <1>2. /\ header = NewHeader /\ hdrFile = NewHeader /\ NewHeader \in Header
        /\ Holds(NewHeader.root, file, Left(1))
        /\ Within(NewHeader, file)
    BY <1>0 DEF NewInv
  <1>3. Base' = NewHeader
    BY <1>0, <1>1, <1>2 DEF Base
  <1>4. BaseInv'
    BY <1>0, <1>2, <1>3 DEF BaseInv
  <1>5. TypeInv'
    BY <1>0, <1>1 DEF TypeInv
  <1>6. HeadersInv'
    BY <1>0, <1>1, <1>2, <1>3 DEF HeadersInv, Agree
  <1>7. DownInv'
    BY <1>0, <1>1 DEF DownInv
  <1> QED
    BY <1>1, <1>4, <1>5, <1>6, <1>7 DEF SpaceInv

LEMMA RollbackStep ==
  ASSUME OneWriter, SpaceInv, Rollback(1)
  PROVE  SpaceInv'
  <1> DEFINE T == txns[1]
  <1>0. /\ UNCHANGED <<file, disk, hdrDisk, nextBID, down, recovered, live>>
        /\ ~ down /\ T.state # "idle" /\ txns' = [txns EXCEPT ![1] = NoTxn]
        /\ TypeInv /\ BaseInv /\ HeadersInv /\ DownInv /\ TakenInv /\ NewInv
    BY DEF Rollback, Idle, SpaceInv
  <1>1. IsTxns(txns') /\ txns'[1].state = "idle" /\ TakenInv' /\ NewInv'
    BY <1>0, NoTxnTyped, IdleStep
  <1>2. Base = T.original[1] /\ Base \in Header
    BY <1>0 DEF Base, BaseInv
  <1>3. /\ hdrFile' \in Header /\ header' \in Header
        /\ Agree(hdrFile', Base) /\ Agree(header', Base)
    <2>1. CASE Active(1)
      BY <1>0, <2>1 DEF Rollback, Active, HeadersInv, TypeInv
    <2>2. CASE ~ Active(1)
      BY <1>0, <1>2, <2>2 DEF Rollback, Agree
    <2> QED
      BY <2>1, <2>2
  <1>4. Base' = hdrFile'
    BY <1>1 DEF Base
  <1>5. BaseInv'
    BY <1>0, <1>3, <1>4, BaseFrame
  <1>6. TypeInv'
    BY <1>0, <1>1, <1>3 DEF TypeInv
  <1>7. HeadersInv'
    BY <1>0, <1>1, <1>3, <1>4 DEF HeadersInv, Agree
  <1>8. DownInv'
    BY <1>0, <1>1, <1>3, <1>4 DEF DownInv, Agree
  <1> QED
    BY <1>1, <1>5, <1>6, <1>7, <1>8 DEF SpaceInv

-----------------------------------------------------------------------------
(* Crash and recovery *)

LEMMA CrashStep ==
  ASSUME OneWriter, SpaceInv, Crash
  PROVE  SpaceInv'
  <1> DEFINE T == txns[1]
  <1>0. /\ UNCHANGED <<header, nextBID, recovered>> /\ ~ down /\ down'
        /\ disk' = file' /\ hdrDisk' = hdrFile' /\ txns' = [t \in {1} |-> NoTxn]
        /\ TypeInv /\ BaseInv /\ HeadersInv /\ DownInv /\ TakenInv /\ NewInv
        /\ Txn = {1}
    BY OneTxn DEF Crash, SpaceInv
  <1>1. IsTxns(txns') /\ txns'[1].state = "idle" /\ TakenInv' /\ NewInv'
    BY <1>0, NoTxnTyped, IdleStep
  <1>2. PICK new \in SUBSET {u \in Unit : file[u] # disk[u]}, h \in {hdrFile, hdrDisk} :
          /\ file' = [u \in Unit |-> IF u \in new THEN file[u] ELSE disk[u]]
          /\ hdrFile' = h
          /\ live' = IF \E t \in {1} : txns[t].state = "finished" /\ h.root = txns[t].root
                     THEN Left(CHOOSE t \in {1} : txns[t].state = "finished") ELSE live
    BY <1>0 DEF Crash
  <1>3. live' = IF T.state = "finished" /\ h.root = T.root THEN Left(1) ELSE live
    <2>1. T.state = "finished" => (CHOOSE t \in {1} : txns[t].state = "finished") = 1
      OBVIOUS
    <2> QED
      BY <1>2, <2>1
  <1>4. IsFile(file') /\ h \in Header
    BY <1>0, <1>2 DEF IsFile, TypeInv
  <1>5. Base' = h
    BY <1>1, <1>2 DEF Base
  <1>6. ASSUME Agree(h, Base), live' = live PROVE BaseInv'
    <2>1. \A u \in Needs(Base.root, file) : u \in Unit /\ disk[u] = file[u]
      BY <1>0, NeedsUnits DEF BaseInv
    <2>2. \A u \in Needs(Base.root, file) : file'[u] = file[u]
      BY <1>2, <2>1
    <2>3. Holds(Base.root, file', live) /\ Needs(Base.root, file') = Needs(Base.root, file)
      BY <1>0, <2>2, HoldsMoves DEF BaseInv
    <2>4. ~ recovered => Within(Base, file')
      BY <1>0, <2>3 DEF BaseInv, Within
    <2>5. /\ Holds(h.root, file', live)
          /\ ~ recovered => Within(h, file')
      BY <1>0, <1>6, <2>3, <2>4, AgreeMoves DEF BaseInv
    <2> QED
      BY <1>0, <1>4, <1>5, <1>6, <2>5 DEF BaseInv
  <1>7. BaseInv'
    <2>1. CASE T.state # "finished"
      <3>1. Agree(h, Base) /\ live' = live
        BY <1>0, <1>3, <2>1 DEF HeadersInv
      <3> QED
        BY <1>6, <3>1
    <2>2. CASE T.state = "finished" /\ h = hdrFile
      <3>1. /\ file = disk /\ h = NewHeader /\ h.root = T.root
            /\ Holds(h.root, file, Left(1)) /\ Within(h, file)
        BY <1>0, <2>2 DEF NewInv, NewHeader
      <3>2. file' = file /\ live' = Left(1)
        BY <1>0, <1>2, <1>3, <2>2, <3>1 DEF TypeInv, IsFile
      <3> QED
        BY <1>0, <1>4, <1>5, <3>1, <3>2 DEF BaseInv
    <2>3. CASE T.state = "finished" /\ h = hdrDisk
      <3>1. Agree(h, Base)
        BY <1>0, <2>3 DEF HeadersInv
      <3>2. live' = live
        <4>1. NewHeader.root = Base.root => Left(1) = live
          BY <1>0, <2>3 DEF NewInv
        <4> QED
          BY <1>3, <3>1, <4>1 DEF Agree, NewHeader
      <3> QED
        BY <1>6, <3>1, <3>2
    <2> QED
      BY <2>1, <2>2, <2>3
  <1>8. TypeInv'
    BY <1>0, <1>1, <1>2, <1>4 DEF TypeInv
  <1>9. HeadersInv'
    BY <1>0, <1>1, <1>2, <1>5 DEF HeadersInv, Agree
  <1>10. DownInv'
    BY <1>0, <1>1 DEF DownInv
  <1> QED
    BY <1>1, <1>7, <1>8, <1>9, <1>10 DEF SpaceInv

LEMMA OpenStep ==
  ASSUME OneWriter, SpaceInv, OpenReadWrite
  PROVE  SpaceInv'
  <1>0. /\ UNCHANGED <<file, disk, txns, live>> /\ down /\ ~ down'
        /\ nextBID' = hdrFile.bidNextB /\ hdrFile' = header'
        /\ recovered' <=> (recovered \/ hdrFile.status = "Invalid")
        /\ TypeInv /\ BaseInv /\ HeadersInv /\ DownInv /\ TakenInv /\ NewInv
    BY DEF OpenReadWrite, SpaceInv
  <1>1. txns[1].state = "idle" /\ file = disk /\ hdrFile = hdrDisk /\ Base = hdrFile
    BY <1>0 DEF DownInv, Base
  <1>2. /\ header' \in Header /\ header'.root = hdrFile.root
        /\ header'.bidNextB = hdrFile.bidNextB
        /\ hdrFile.status # "Invalid" => header'.eof = hdrFile.eof
    BY <1>0 DEF OpenReadWrite, TypeInv, Header
  <1>3. hdrDisk' \in Header /\ Agree(hdrDisk', header')
    <2>1. CASE hdrFile.status = "Invalid"
      BY <1>0, <1>2, <2>1 DEF OpenReadWrite, Agree
    <2>2. CASE hdrFile.status # "Invalid"
      BY <1>0, <1>1, <1>2, <2>2 DEF OpenReadWrite, Agree, TypeInv
    <2> QED
      BY <2>1, <2>2
  <1>4. Base' = header'
    BY <1>0, <1>1 DEF Base
  <1>5. Holds(header'.root, file, live)
        /\ \A u \in Needs(header'.root, file) : disk[u] = file[u]
    BY <1>0, <1>1, <1>2 DEF BaseInv
  <1>6. ASSUME ~ recovered' PROVE Within(header', file)
    <2>1. Agree(header', hdrFile) /\ ~ recovered
      BY <1>0, <1>2, <1>6 DEF Agree
    <2> QED
      BY <1>0, <1>1, <2>1, AgreeMoves DEF BaseInv
  <1>7. BaseInv'
    BY <1>0, <1>2, <1>4, <1>5, <1>6 DEF BaseInv
  <1>8. TypeInv'
    BY <1>0, <1>2, <1>3 DEF TypeInv, Header
  <1>9. HeadersInv'
    BY <1>0, <1>3, <1>4 DEF HeadersInv, Agree
  <1>10. DownInv'
    BY <1>0, <1>1 DEF DownInv
  <1>11. TakenInv' /\ NewInv'
    BY <1>0, <1>1, IdleStep
  <1> QED
    BY <1>7, <1>8, <1>9, <1>10, <1>11 DEF SpaceInv

-----------------------------------------------------------------------------
(* The theorems *)

LEMMA StutterStep ==
  ASSUME SpaceInv, UNCHANGED vars
  PROVE  SpaceInv'
  <1> USE DEF vars
  <1>1. Base' = Base /\ Left(1)' = Left(1) /\ NewHeader' = NewHeader
    BY DEF Base, Left, NewHeader
  <1>2. TypeInv' /\ BaseInv'
    BY <1>1 DEF SpaceInv, TypeInv, BaseInv
  <1>3. HeadersInv' /\ DownInv'
    BY <1>1 DEF SpaceInv, HeadersInv, DownInv
  <1>4. TakenInv' /\ NewInv'
    BY <1>1 DEF SpaceInv, TakenInv, Taken, NewInv
  <1> QED
    BY <1>2, <1>3, <1>4 DEF SpaceInv

LEMMA SpaceStep ==
  ASSUME OneWriter, SpaceInv, EndClear, [Next]_vars
  PROVE  SpaceInv'
  <1>1. CASE UNCHANGED vars
    BY <1>1, StutterStep
  <1>2. CASE Crash \/ OpenReadWrite
    BY <1>2, CrashStep, OpenStep
  <1>3. ASSUME NEW t \in Txn,
               \/ BeginWrite(t) \/ WriteBlockData(t)
               \/ \E b \in DOMAIN Current : DeleteBlock(t, b)
               \/ startWrite(t) \/ startWriteFails(t)
               \/ WriteAll(t) \/ WriteFails(t) \/ WriteNothing(t)
               \/ SyncData(t) \/ finishWrite(t) \/ SyncHeader(t) \/ Rollback(t)
        PROVE  SpaceInv'
    <2>1. t = 1
      BY OneTxn
    <2> QED
      BY <1>3, <2>1, BeginStep, WriteBlockStep, DeleteStep, StartStep, WriteAllStep,
         WriteFailsStep, WriteNothingStep, SyncDataStep, FinishStep, SyncHeaderStep,
         RollbackStep
  <1> QED
    BY <1>1, <1>2, <1>3 DEF Next

LEMMA SpaceInvariant == ASSUME OneWriter PROVE Spec /\ []EndClear => []SpaceInv
  <1>1. Init => SpaceInv
    BY InitSpace
  <1>2. SpaceInv /\ EndClear /\ [Next]_vars => SpaceInv'
    BY SpaceStep
  <1> QED
    BY <1>1, <1>2, PTL DEF Spec

\* In a file without AMap pages, with one transaction at a time and no writing
\* after a recovery, until the end of the file comes to what Create put past it
\* (pst_write.go:212): whatever a crash keeps of a commit's unsynced writes,
\* whichever of them fail and whatever is rolled back, the header on file leads
\* to every block of the last commit and to no other. It is the order of writes
\* and syncs in WriteTransaction.Commit, with CheckAndRecover behind it.
THEOREM CommitsStayReadable ==
  ASSUME OneWriter
  PROVE  Spec /\ []EndClear => []CommittedReadable
  <1>1. SpaceInv => CommittedReadable
    <2> SUFFICES ASSUME SpaceInv, ~ Committing PROVE Readable(hdrFile, file)
      BY DEF CommittedReadable
    <2>1. txns[1].state \in {"idle", "active"}
      BY OneTxn DEF Committing
    <2>2. hdrFile.root = Base.root /\ Holds(Base.root, file, live)
      BY <2>1 DEF SpaceInv, HeadersInv, BaseInv, Agree
    <2> QED
      BY <2>2 DEF Readable, Holds
  <1> QED
    BY <1>1, SpaceInvariant, PTL
=============================================================================
