-------------------------- MODULE MessagingProofs ---------------------------
(***************************************************************************)
(* Proofs about the messaging layer of the v2 writer: the rows of its      *)
(* tables (TableRows), the folders and messages of a store (FolderTree)    *)
(* and the export session that fills one from a plan (Exporter).           *)
(***************************************************************************)
EXTENDS Exporter, TableRows, WalkProofs, SequenceTheorems

-----------------------------------------------------------------------------
(* TableRows: for every set of ids, columns and cells and every bound.     *)

CellsOf == UNION {[D -> Cells] : D \in SUBSET Columns}

Row == [id : 1 .. MaxRowID, ver : Nat, cells : CellsOf]

\* What the index needs to be exact after the next call: positions are
\* numbers, ids are not 0, and a table has these three fields only.
WellFormed(t) ==
  /\ t = [rows |-> t.rows, byRow |-> t.byRow, nextID |-> t.nextID]
  /\ t.rows \in Seq(Row)
  /\ t.byRow = [r \in DOMAIN t.byRow |-> t.byRow[r]]
  /\ t.nextID \in 0 .. MaxRowID

\* RowIndexExact of any table.
Exact(t) ==
  /\ \A i \in 1 .. Len(t.rows) :
       t.rows[i].id \in DOMAIN t.byRow /\ t.byRow[t.rows[i].id] = i
  /\ \A id \in DOMAIN t.byRow :
       t.byRow[id] \in 1 .. Len(t.rows) /\ t.rows[t.byRow[id]].id = id

\* The inductive invariant.
TableInv == WellFormed(tab) /\ Exact(tab)

-----------------------------------------------------------------------------

\* A cell that is set or cleared leaves a map from columns to cells.
LEMMA CellsStay ==
  ASSUME NEW c \in CellsOf, NEW col \in Columns
  PROVE  /\ \A v \in Cells :
              [k \in DOMAIN c \cup {col} |-> IF k = col THEN v ELSE c[k]] \in CellsOf
         /\ [k \in DOMAIN c \ {col} |-> c[k]] \in CellsOf
  <1>1. PICK D \in SUBSET Columns : c \in [D -> Cells]
    BY DEF CellsOf
  <1>2. \A v \in Cells : [k \in DOMAIN c \cup {col} |-> IF k = col THEN v ELSE c[k]]
                            \in [D \cup {col} -> Cells]
    BY <1>1
  <1>3. [k \in DOMAIN c \ {col} |-> c[k]] \in [D \ {col} -> Cells]
    BY <1>1
  <1>4. D \cup {col} \in SUBSET Columns /\ D \ {col} \in SUBSET Columns
    BY <1>1
  <1> QED
    BY <1>2, <1>3, <1>4 DEF CellsOf

\* AddID appends a row with an id that is not in use: the index of the rows
\* before it does not change (tc.go AddID).
LEMMA AddKeepsIndex ==
  ASSUME NEW t, WellFormed(t), Exact(t),
         NEW id \in 1 .. MaxRowID, id \notin DOMAIN t.byRow
  PROVE  WellFormed(AddID(t, id)) /\ Exact(AddID(t, id))
  <1> DEFINE new == [id |-> id, ver |-> 1, cells |-> EmptyCells]
             u   == AddID(t, id)
  <1>1. EmptyCells \in CellsOf
    <2>1. EmptyCells \in [{} -> Cells]
      BY DEF EmptyCells
    <2> QED
      BY <2>1 DEF CellsOf
  <1>2. new \in Row
    BY <1>1 DEF Row
  <1>3. /\ u.rows \in Seq(Row)
        /\ Len(u.rows) = Len(t.rows) + 1
        /\ u.rows[Len(t.rows) + 1] = new
        /\ \A i \in 1 .. Len(t.rows) : u.rows[i] = t.rows[i]
    BY <1>2 DEF AddID, WellFormed
  <1>4. /\ DOMAIN u.byRow = DOMAIN t.byRow \cup {id}
        /\ u.byRow[id] = Len(t.rows) + 1
        /\ \A r \in DOMAIN t.byRow : u.byRow[r] = t.byRow[r]
    BY DEF AddID
  <1>5. u.nextID \in 0 .. MaxRowID
    BY RowAssumption DEF AddID, After, WellFormed
  <1>6. WellFormed(u)
    BY <1>3, <1>5 DEF AddID, WellFormed
  <1>7. Len(t.rows) \in Nat
    BY DEF WellFormed
  <1>8. Exact(u)
    <2> HIDE DEF u
    <2>1. ASSUME NEW i \in 1 .. Len(u.rows)
          PROVE  u.rows[i].id \in DOMAIN u.byRow /\ u.byRow[u.rows[i].id] = i
      <3>1. CASE i = Len(t.rows) + 1
        BY <1>3, <1>4, <3>1
      <3>2. CASE i \in 1 .. Len(t.rows)
        <4>1. u.rows[i] = t.rows[i]
          BY <1>3, <3>2
        <4>2. t.rows[i].id \in DOMAIN t.byRow /\ t.byRow[t.rows[i].id] = i
          BY <3>2 DEF Exact
        <4> QED
          BY <1>4, <4>1, <4>2
      <3> QED
        BY <1>3, <1>7, <3>1, <3>2
    <2>2. ASSUME NEW r \in DOMAIN u.byRow
          PROVE  u.byRow[r] \in 1 .. Len(u.rows) /\ u.rows[u.byRow[r]].id = r
      <3>1. CASE r = id
        BY <1>3, <1>4, <1>7, <3>1
      <3>2. CASE r \in DOMAIN t.byRow
        <4>1. t.byRow[r] \in 1 .. Len(t.rows) /\ t.rows[t.byRow[r]].id = r
          BY <3>2 DEF Exact
        <4>2. u.byRow[r] = t.byRow[r] /\ u.rows[t.byRow[r]] = t.rows[t.byRow[r]]
          BY <1>3, <1>4, <3>2, <4>1
        <4> QED
          BY <1>3, <1>7, <4>1, <4>2
      <3> QED
        BY <1>4, <3>1, <3>2
    <2> QED
      BY <2>1, <2>2 DEF Exact
  <1> QED
    BY <1>6, <1>8

\* Set and Clear write the row the index leads to, and leave its id (tc.go Set,
\* Clear).
LEMMA EditKeepsIndex ==
  ASSUME NEW t, WellFormed(t), Exact(t), NEW id \in DOMAIN t.byRow,
         NEW new \in Row, new.id = t.rows[t.byRow[id]].id
  PROVE  /\ WellFormed(WithRow(t, t.byRow[id], new))
         /\ Exact(WithRow(t, t.byRow[id], new))
  <1> DEFINE i == t.byRow[id]
  <1>0. PICK u : u = WithRow(t, i, new)
    OBVIOUS
  <1>1. i \in 1 .. Len(t.rows) /\ t.rows \in Seq(Row)
    BY DEF WellFormed, Exact
  <1>2. /\ u.rows = [t.rows EXCEPT ![i] = new]
        /\ u.byRow = t.byRow /\ u.nextID = t.nextID
        /\ u = [rows |-> u.rows, byRow |-> u.byRow, nextID |-> u.nextID]
    BY <1>0 DEF WithRow
  <1>3. /\ u.rows \in Seq(Row) /\ Len(u.rows) = Len(t.rows)
        /\ \A j \in 1 .. Len(t.rows) : u.rows[j].id = t.rows[j].id
    BY <1>1, <1>2
  <1>4. WellFormed(u)
    BY <1>2, <1>3 DEF WellFormed
  <1>5. Exact(u)
    <2>1. u.byRow = t.byRow
      BY <1>2
    <2>2. ASSUME NEW j \in 1 .. Len(t.rows)
          PROVE  t.rows[j].id \in DOMAIN t.byRow /\ t.byRow[t.rows[j].id] = j
      BY DEF Exact
    <2>3. ASSUME NEW r \in DOMAIN t.byRow
          PROVE  t.byRow[r] \in 1 .. Len(t.rows) /\ t.rows[t.byRow[r]].id = r
      BY DEF Exact
    <2>4. \A j \in 1 .. Len(u.rows) :
            u.rows[j].id \in DOMAIN u.byRow /\ u.byRow[u.rows[j].id] = j
      BY <1>3, <2>1, <2>2
    <2>5. \A r \in DOMAIN u.byRow :
            u.byRow[r] \in 1 .. Len(u.rows) /\ u.rows[u.byRow[r]].id = r
      BY <1>3, <2>1, <2>3
    <2> QED
      BY <2>4, <2>5 DEF Exact
  <1> QED
    BY <1>0, <1>4, <1>5

\* Delete moves the rows behind the one that goes, and their positions with
\* them (tc.go Delete).
LEMMA DeleteKeepsIndexExact ==
  ASSUME NEW t, WellFormed(t), Exact(t), NEW id \in DOMAIN t.byRow
  PROVE  WellFormed(DeleteRow(t, id)) /\ Exact(DeleteRow(t, id))
  <1> DEFINE i == t.byRow[id]
             n == Len(t.rows)
             u == DeleteRow(t, id)
  <1>1. i \in 1 .. n /\ n \in Nat /\ t.rows \in Seq(Row) /\ t.rows[i].id = id
    BY DEF WellFormed, Exact
  <1>2. /\ u.rows = [j \in 1 .. n - 1 |-> t.rows[IF j < i THEN j ELSE j + 1]]
        /\ u.byRow = [r \in DOMAIN t.byRow \ {id} |->
                        IF t.byRow[r] > i THEN t.byRow[r] - 1 ELSE t.byRow[r]]
        /\ u.nextID = t.nextID
        /\ u = [rows |-> u.rows, byRow |-> u.byRow, nextID |-> u.nextID]
    BY DEF DeleteRow
  <1>3. \A j \in 1 .. n - 1 : (IF j < i THEN j ELSE j + 1) \in 1 .. n
    BY <1>1
  <1>4. \A k \in 1 .. n : t.rows[k] \in Row
    BY <1>1
  <1>5. u.rows \in Seq(Row) /\ Len(u.rows) = n - 1
    <2>1. u.rows \in [1 .. n - 1 -> Row]
      BY <1>2, <1>3, <1>4
    <2>2. n - 1 \in Nat
      BY <1>1
    <2> QED
      BY <2>1, <2>2
  <1>6. WellFormed(u)
    BY <1>2, <1>5 DEF WellFormed
  <1>7. ASSUME NEW j \in 1 .. n - 1
        PROVE  u.rows[j].id \in DOMAIN u.byRow /\ u.byRow[u.rows[j].id] = j
    <2> DEFINE k == IF j < i THEN j ELSE j + 1
    <2>1. k \in 1 .. n /\ k # i /\ (k > i <=> j >= i)
      BY <1>1
    <2>2. t.rows[k].id \in DOMAIN t.byRow /\ t.byRow[t.rows[k].id] = k
      BY <2>1 DEF Exact
    <2>3. t.rows[k].id # id
      BY <2>1, <2>2
    <2>4. u.rows[j] = t.rows[k]
      BY <1>2
    <2> DEFINE key == t.rows[k].id
    <2>5. /\ u.byRow[key] = IF t.byRow[key] > i THEN t.byRow[key] - 1 ELSE t.byRow[key]
          /\ key \in DOMAIN u.byRow
      BY <1>2, <2>2, <2>3
    <2>6. (IF k > i THEN k - 1 ELSE k) = j
      BY <1>1
    <2> HIDE DEF u, k
    <2> QED
      BY <2>2, <2>4, <2>5, <2>6
  <1>8. ASSUME NEW r \in DOMAIN u.byRow
        PROVE  u.byRow[r] \in 1 .. n - 1 /\ u.rows[u.byRow[r]].id = r
    <2>1. r \in DOMAIN t.byRow /\ r # id
      BY <1>2
    <2>2. t.byRow[r] \in 1 .. n /\ t.rows[t.byRow[r]].id = r
      BY <2>1 DEF Exact
    <2>3. t.byRow[r] # i
      BY <1>1, <2>1, <2>2
    <2>4. u.byRow[r] = IF t.byRow[r] > i THEN t.byRow[r] - 1 ELSE t.byRow[r]
      BY <1>2, <2>1
    <2>5. /\ u.byRow[r] \in 1 .. n - 1
          /\ (IF u.byRow[r] < i THEN u.byRow[r] ELSE u.byRow[r] + 1) = t.byRow[r]
      BY <1>1, <2>2, <2>3, <2>4
    <2> HIDE DEF u
    <2>6. u.rows[u.byRow[r]] = t.rows[t.byRow[r]]
      <3>1. PICK j \in 1 .. n - 1 : j = u.byRow[r]
        BY <2>5
      <3>2. u.rows[j] = t.rows[IF j < i THEN j ELSE j + 1]
        BY <1>2
      <3> QED
        BY <2>5, <3>1, <3>2
    <2> QED
      BY <2>2, <2>5, <2>6
  <1>9. Exact(u)
    BY <1>5, <1>7, <1>8 DEF Exact
  <1> QED
    BY <1>6, <1>9

-----------------------------------------------------------------------------

LEMMA InitIsExact == TableInit => TableInv
  <1> SUFFICES ASSUME TableInit PROVE TableInv
    OBVIOUS
  <1>1. 1 \in 0 .. MaxRowID
    BY RowAssumption
  <1> QED
    BY <1>1 DEF TableInit, EmptyTable, TableInv, WellFormed, Exact

\* One step per operation.
LEMMA StepKeepsIndex == TableInv /\ [TableNext]_tab => TableInv'
  <1> SUFFICES ASSUME TableInv, [TableNext]_tab PROVE TableInv'
    OBVIOUS
  <1>1. ASSUME NEW id, id \in 1 .. MaxRowID, AddRowWith(id) PROVE TableInv'
    BY <1>1, AddKeepsIndex DEF AddRowWith, TableInv
  <1>2. CASE Add
    BY <1>1, <1>2, RowAssumption DEF Add, AddRowWith, TableInv, WellFormed
  <1>3. ASSUME NEW id \in DOMAIN tab.byRow, DeleteByID(id) PROVE TableInv'
    BY <1>3, DeleteKeepsIndexExact DEF DeleteByID, TableInv
  <1>4. ASSUME NEW id \in DOMAIN tab.byRow
        PROVE  /\ tab.rows[tab.byRow[id]].id \in 1 .. MaxRowID
               /\ tab.rows[tab.byRow[id]].ver + 1 \in Nat
               /\ tab.rows[tab.byRow[id]].cells \in CellsOf
    <2>1. tab.rows \in Seq(Row) /\ tab.byRow[id] \in 1 .. Len(tab.rows)
      BY DEF TableInv, WellFormed, Exact
    <2>2. tab.rows[tab.byRow[id]] \in Row
      BY <2>1
    <2> QED
      BY <2>2 DEF Row
  <1>5. ASSUME NEW id \in DOMAIN tab.byRow, NEW col \in Columns, NEW v \in Cells,
               Set(id, col, v)
        PROVE  TableInv'
    <2> DEFINE r   == tab.rows[tab.byRow[id]]
               new == [id |-> r.id, ver |-> r.ver + 1,
                       cells |-> [c \in DOMAIN r.cells \cup {col} |->
                                    IF c = col THEN v ELSE r.cells[c]]]
    <2>1. new \in Row
      BY <1>4, CellsStay DEF Row
    <2>2. tab' = WithRow(tab, tab.byRow[id], new)
      BY <1>5 DEF Set, SetCell
    <2> QED
      BY <2>1, <2>2, EditKeepsIndex DEF TableInv
  <1>6. ASSUME NEW id \in DOMAIN tab.byRow, NEW col \in Columns, Clear(id, col)
        PROVE  TableInv'
    <2> DEFINE r   == tab.rows[tab.byRow[id]]
               new == [id |-> r.id, ver |-> r.ver + 1,
                       cells |-> [c \in DOMAIN r.cells \ {col} |-> r.cells[c]]]
    <2>1. new \in Row
      BY <1>4, CellsStay DEF Row
    <2>2. tab' = WithRow(tab, tab.byRow[id], new)
      BY <1>6 DEF Clear, ClearCell
    <2> QED
      BY <2>1, <2>2, EditKeepsIndex DEF TableInv
  <1>7. CASE UNCHANGED tab
    BY <1>7 DEF TableInv
  <1> QED
    BY <1>1, <1>2, <1>3, <1>5, <1>6, <1>7, RowAssumption DEF TableNext

\* For every set of ids, columns and cells: whatever the order of Add, AddID,
\* Set, Clear and Delete, byRow leads from each id to its row and to no other,
\* also past the last id, where nextID comes back to 0 (tc.go).
THEOREM IndexStaysExact == TableSpec => []RowIndexExact
  <1>1. TableInv => RowIndexExact
    BY DEF TableInv, Exact, RowIndexExact
  <1> QED
    BY <1>1, InitIsExact, StepKeepsIndex, PTL DEF TableSpec

-----------------------------------------------------------------------------
(* FolderTree: for every number of folders, messages, names and levels, as *)
(* long as the index of no normal folder reaches that of the search folder *)
(* (MaxIndex < FinderIndex).                                               *)

-----------------------------------------------------------------------------
(* The inductive invariant, as predicates of a store: the steps of an      *)
(* operation pass through stores that satisfy part of it.                  *)

IsStore(s) ==
  s \in [pc : {s.pc}, hierarchy : {s.hierarchy}, contents : {s.contents}, msg : {s.msg}]

IsPC(pc) ==
  pc \in [parent : {pc.parent}, name : {pc.name}, content : Nat, unread : Nat,
          subfolders : BOOLEAN]

Kids(s, f) == {c \in DOMAIN s.pc : s.pc[c].parent = f}

\* Every folder has its tables to itself and, but for the root, a parent.
Sound(s) ==
  /\ IsStore(s)
  /\ IsFiniteSet(DOMAIN s.pc)
  /\ NIDRootFolder \in DOMAIN s.pc /\ NoNID \notin DOMAIN s.pc
  /\ \A f \in DOMAIN s.pc : IsPC(s.pc[f])
  /\ \A f \in DOMAIN s.pc : Index(f) \in DOMAIN s.hierarchy /\ Index(f) \in DOMAIN s.contents
  /\ \A f, g \in DOMAIN s.pc : Index(f) = Index(g) => f = g
  /\ s.pc[NIDRootFolder].parent = NoNID
  /\ \A f \in DOMAIN s.pc \ {NIDRootFolder} : s.pc[f].parent \in DOMAIN s.pc \ {f}

RowSays(row, pc) ==
  /\ row.name = pc.name /\ row.subfolders = pc.subfolders
  /\ row.content = pc.content /\ row.unread = pc.unread

\* Rows mirror folders, but the rows of the folders in A are missing and the
\* flags and rows of those in X may be stale.
Settled(s, X, A) ==
  \A f \in DOMAIN s.pc :
    /\ DOMAIN Rows(s, f) = Kids(s, f) \ A
    /\ f \notin X => (s.pc[f].subfolders <=> Kids(s, f) # {})
    /\ f \notin X /\ f # NIDRootFolder => RowSays(Rows(s, s.pc[f].parent)[f], s.pc[f])

\* Parents lead to the root: no set of folders but one with the root is closed
\* under them. This is how Rooted is carried through a move.
Anchored(s) ==
  \A S \in SUBSET DOMAIN s.pc :
    S # {} /\ (\A f \in S \ {NIDRootFolder} : s.pc[f].parent \in S)
      => NIDRootFolder \in S

Distinct(s) ==
  \A f, g \in DOMAIN s.pc \ {NIDRootFolder} :
    s.pc[f].parent = s.pc[g].parent /\ s.pc[f].name = s.pc[g].name
      => f = g \/ (protected(f) /\ protected(g))

HeldBy(s, f) == {m \in DOMAIN s.msg : s.msg[m].folder = f}

UnreadIn(s, f) == {m \in HeldBy(s, f) : ~ s.msg[m].read}

Counted(s) ==
  \A f \in DOMAIN s.pc :
    /\ s.contents[Index(f)] = HeldBy(s, f)
    /\ s.pc[f].content = Cardinality(HeldBy(s, f))
    /\ s.pc[f].unread = Cardinality(UnreadIn(s, f))

Filed(s) ==
  IsFiniteSet(DOMAIN s.msg) /\ \A m \in DOMAIN s.msg : s.msg[m].folder \in DOMAIN s.pc

Shaped(s) == Anchored(s) /\ Distinct(s) /\ Counted(s) /\ Filed(s)

TreeOK(s) == Sound(s) /\ Settled(s, {}, {}) /\ Shaped(s)

\* Indexes of folders and messages that were not handed out are free.
Fresh ==
  /\ nextFolder \in Nat /\ nextMsg \in Nat
  /\ \A f \in DOMAIN tree.pc : f = Finder \/ Index(f) \in 0 .. nextFolder - 1
  /\ \A m \in DOMAIN tree.msg : m \in 0 .. nextMsg - 1

TreeInv == TreeOK(tree) /\ Fresh

-----------------------------------------------------------------------------
(* The calls an operation makes *)

\* Stores that differ in rows only.
RowsOnly(s, t) == t.pc = s.pc /\ t.contents = s.contents /\ t.msg = s.msg

\* A row that is written is settled.
LEMMA UpsertSettles ==
  ASSUME NEW s, NEW X, NEW A, A \subseteq X, Sound(s), Settled(s, X, A),
         NEW c \in DOMAIN s.pc \ {NIDRootFolder},
         s.pc[c].subfolders <=> Kids(s, c) # {}, Kids(s, c) \cap A = {},
         NEW t, t = upsertChildRow(s, s.pc[c].parent, c)
  PROVE  RowsOnly(s, t) /\ Sound(t) /\ Settled(t, X \ {c}, A \ {c})
  <1> DEFINE p == s.pc[c].parent
             i == Index(p)
             rows == Put(s.hierarchy[i], c, rowState(s, c))
  <1>1. p \in DOMAIN s.pc /\ p # c /\ i \in DOMAIN s.hierarchy
    BY DEF Sound
  <1>2. /\ t.pc = s.pc /\ t.contents = s.contents /\ t.msg = s.msg
        /\ t.hierarchy = [s.hierarchy EXCEPT ![i] = rows] /\ IsStore(t)
    <2> HIDE DEF rows, i
    <2>1. t = [s EXCEPT !.hierarchy[i] = rows]
      BY DEF upsertChildRow, rows, i
    <2> QED
      BY <1>1, <2>1 DEF IsStore, Sound
  <1>3. /\ DOMAIN rows = DOMAIN Rows(s, p) \cup {c} /\ rows[c] = rowState(s, c)
        /\ \A x \in DOMAIN Rows(s, p) : x # c => rows[x] = Rows(s, p)[x]
    BY DEF Put, Rows
  <1>4. /\ DOMAIN t.hierarchy = DOMAIN s.hierarchy
        /\ \A f \in DOMAIN s.pc : Rows(t, f) = IF f = p THEN rows ELSE Rows(s, f)
    <2> HIDE DEF rows
    <2> QED
      BY <1>1, <1>2 DEF Sound, Rows
  <1>5. \A f : Kids(t, f) = Kids(s, f)
    BY <1>2 DEF Kids
  <1>6. Sound(t)
    BY <1>2, <1>4 DEF Sound
  <1>7. /\ rows[c].name = s.pc[c].name /\ rows[c].content = s.pc[c].content
        /\ rows[c].unread = s.pc[c].unread
        /\ rows[c].subfolders = s.pc[c].subfolders
    <2>1. (DOMAIN Rows(s, c) # {}) = s.pc[c].subfolders
      <3>1. DOMAIN Rows(s, c) = Kids(s, c)
        BY DEF Settled
      <3>2. s.pc[c].subfolders \in BOOLEAN
        BY DEF Sound, IsPC
      <3> QED
        BY <3>1, <3>2
    <2> HIDE DEF rows
    <2> QED
      BY <1>3, <2>1 DEF rowState
  <1> HIDE DEF rows, i
  <1>8. ASSUME NEW f \in DOMAIN s.pc PROVE DOMAIN Rows(t, f) = Kids(t, f) \ (A \ {c})
    <2>1. DOMAIN Rows(s, f) = Kids(s, f) \ A
      BY DEF Settled
    <2>2. c \in Kids(s, f) <=> f = p
      BY DEF Kids
    <2> QED
      BY <1>3, <1>4, <1>5, <2>1, <2>2
  <1>9. ASSUME NEW f \in DOMAIN s.pc, f \notin X \ {c}, f # NIDRootFolder
        PROVE  RowSays(Rows(t, s.pc[f].parent)[f], s.pc[f])
    <2>1. s.pc[f].parent \in DOMAIN s.pc
      BY <1>9 DEF Sound
    <2>2. CASE f = c
      BY <1>1, <1>4, <1>7, <2>2 DEF RowSays
    <2>3. CASE f # c
      <3>1. RowSays(Rows(s, s.pc[f].parent)[f], s.pc[f]) /\ f \notin A
        BY <1>9, <2>3 DEF Settled
      <3>2. f \in DOMAIN Rows(s, s.pc[f].parent)
        BY <2>1, <3>1 DEF Settled, Kids
      <3>3. Rows(t, s.pc[f].parent)[f] = Rows(s, s.pc[f].parent)[f]
        BY <1>3, <1>4, <2>1, <2>3, <3>2
      <3> QED
        BY <3>1, <3>3
    <2> QED
      BY <2>2, <2>3
  <1>10. ASSUME NEW f \in DOMAIN s.pc, f \notin X \ {c}
         PROVE  s.pc[f].subfolders <=> Kids(s, f) # {}
    BY <1>10 DEF Settled
  <1>11. Settled(t, X \ {c}, A \ {c})
    BY <1>2, <1>5, <1>8, <1>9, <1>10 DEF Settled
  <1> QED
    BY <1>2, <1>6, <1>11 DEF RowsOnly

\* No folder goes to another parent or takes another name.
SamePlaces(s, t) ==
  \A f \in DOMAIN s.pc :
    t.pc[f].parent = s.pc[f].parent /\ t.pc[f].name = s.pc[f].name

\* A change of one PC, and what it leaves as it was.
SameBut(s, t, nid, pc) ==
  /\ DOMAIN t.pc = DOMAIN s.pc /\ t.contents = s.contents /\ t.msg = s.msg
  /\ t.pc[nid] = pc
  /\ \A f \in DOMAIN s.pc : f # nid => t.pc[f] = s.pc[f]

\* A PC that is written with the right flag is settled, and so is its row.
LEMMA MutateSettles ==
  ASSUME NEW s, NEW X, NEW A, A \subseteq X, NIDRootFolder \notin A,
         Sound(s), Settled(s, X, A),
         NEW nid \in DOMAIN s.pc, NEW pc, IsPC(pc), pc.parent = s.pc[nid].parent,
         pc.subfolders <=> Kids(s, nid) # {}, Kids(s, nid) \cap A = {},
         NEW t, t = mutatePC(s, nid, pc)
  PROVE  /\ SameBut(s, t, nid, pc)
         /\ Sound(t) /\ Settled(t, X \ {nid}, A \ {nid})
  <1> DEFINE u == [s EXCEPT !.pc[nid] = pc]
  <1>1. /\ u.pc = [s.pc EXCEPT ![nid] = pc] /\ u.hierarchy = s.hierarchy
        /\ u.contents = s.contents /\ u.msg = s.msg /\ IsStore(u)
    BY DEF Sound, IsStore
  <1>2. t = IF pc.parent = NoNID THEN u ELSE upsertChildRow(u, pc.parent, nid)
    BY DEF mutatePC
  <1> HIDE DEF u
  <1>3. /\ DOMAIN u.pc = DOMAIN s.pc /\ u.pc[nid] = pc
        /\ \A f \in DOMAIN s.pc : f # nid => u.pc[f] = s.pc[f]
        /\ \A f \in DOMAIN s.pc : u.pc[f].parent = s.pc[f].parent
    BY <1>1
  <1>4. (\A f : Kids(u, f) = Kids(s, f)) /\ (\A f : Rows(u, f) = Rows(s, f))
    BY <1>1, <1>3 DEF Kids, Rows
  <1>5. Sound(u)
    BY <1>1, <1>3 DEF Sound
  <1>6. Settled(u, X \cup {nid}, A)
    BY <1>3, <1>4 DEF Settled
  <1>7. CASE nid = NIDRootFolder
    <2>1. t = u
      BY <1>2, <1>7 DEF Sound
    <2>2. Settled(u, X \ {nid}, A \ {nid})
      <3>1. A \ {nid} = A
        BY <1>7
      <3>2. ASSUME NEW f \in DOMAIN u.pc, f \notin X \ {nid}
            PROVE  u.pc[f].subfolders <=> Kids(u, f) # {}
        <4>1. CASE f = nid
          BY <1>3, <1>4, <4>1
        <4>2. CASE f # nid
          BY <1>6, <3>2, <4>2 DEF Settled
        <4> QED
          BY <4>1, <4>2
      <3> QED
        BY <1>6, <1>7, <3>1, <3>2 DEF Settled
    <2> QED
      BY <1>1, <1>3, <1>5, <2>1, <2>2 DEF SameBut
  <1>8. CASE nid # NIDRootFolder
    <2>1. pc.parent # NoNID /\ u.pc[nid].parent = pc.parent
      BY <1>3, <1>8 DEF Sound
    <2>2. t = upsertChildRow(u, u.pc[nid].parent, nid)
      BY <1>2, <2>1
    <2>3. /\ A \subseteq X \cup {nid} /\ nid \in DOMAIN u.pc \ {NIDRootFolder}
          /\ u.pc[nid].subfolders <=> Kids(u, nid) # {}
          /\ Kids(u, nid) \cap A = {}
      BY <1>3, <1>4, <1>8
    <2>4. RowsOnly(u, t) /\ Sound(t) /\ Settled(t, (X \cup {nid}) \ {nid}, A \ {nid})
      BY <1>5, <1>6, <2>2, <2>3, UpsertSettles
    <2>5. (X \cup {nid}) \ {nid} = X \ {nid}
      OBVIOUS
    <2> QED
      BY <1>1, <1>3, <2>4, <2>5 DEF SameBut, RowsOnly
  <1> QED
    BY <1>7, <1>8

\* syncFlags settles a folder whose rows are all there, and changes nothing
\* but its flag.
LEMMA SyncSettles ==
  ASSUME NEW s, NEW X, Sound(s), Settled(s, X, {}), NEW nid \in DOMAIN s.pc,
         NEW t, t = syncFlags(s, nid)
  PROVE  /\ SameBut(s, t, nid, t.pc[nid])
         /\ t.pc[nid].parent = s.pc[nid].parent /\ t.pc[nid].name = s.pc[nid].name
         /\ t.pc[nid].content = s.pc[nid].content /\ t.pc[nid].unread = s.pc[nid].unread
         /\ Sound(t) /\ Settled(t, X \ {nid}, {})
  <1> DEFINE old == s.pc[nid]
             pc == [old EXCEPT !.subfolders = DOMAIN Rows(s, nid) # {}]
  <1>1. IsPC(old)
    BY DEF Sound
  <1>2. /\ pc.parent = old.parent /\ pc.name = old.name /\ pc.content = old.content
        /\ pc.unread = old.unread /\ pc.subfolders = (DOMAIN Rows(s, nid) # {})
        /\ IsPC(pc)
    BY <1>1 DEF IsPC
  <1>3. DOMAIN Rows(s, nid) = Kids(s, nid)
    BY DEF Settled
  <1>4. t = mutatePC(s, nid, pc)
    BY DEF syncFlags
  <1> HIDE DEF pc
  <1>5. /\ SameBut(s, t, nid, pc)
        /\ Sound(t) /\ Settled(t, X \ {nid}, {} \ {nid})
    <2>1. pc.subfolders <=> Kids(s, nid) # {}
      BY <1>2, <1>3
    <2>2. Kids(s, nid) \cap {} = {} /\ {} \subseteq X /\ NIDRootFolder \notin {}
      OBVIOUS
    <2> QED
      BY <1>2, <1>4, <2>1, <2>2, MutateSettles
  <1>6. {} \ {nid} = {}
    OBVIOUS
  <1> QED
    BY <1>2, <1>5, <1>6 DEF SameBut

\* Stores that differ in rows and flags only.
Alike(s, t) ==
  /\ DOMAIN t.pc = DOMAIN s.pc /\ t.contents = s.contents /\ t.msg = s.msg
  /\ \A f \in DOMAIN s.pc :
       /\ t.pc[f].parent = s.pc[f].parent /\ t.pc[f].name = s.pc[f].name
       /\ t.pc[f].content = s.pc[f].content /\ t.pc[f].unread = s.pc[f].unread

LEMMA AlikeShaped ==
  ASSUME NEW s, NEW t, Alike(s, t), Shaped(s)
  PROVE  Shaped(t)
  <1>1. Anchored(t)
    BY DEF Alike, Shaped, Anchored
  <1>2. Distinct(t)
    BY DEF Alike, Shaped, Distinct
  <1>3. Counted(t)
    <2>1. \A f : HeldBy(t, f) = HeldBy(s, f) /\ UnreadIn(t, f) = UnreadIn(s, f)
      BY DEF Alike, HeldBy, UnreadIn
    <2>2. Counted(s)
      BY DEF Shaped
    <2> QED
      BY <2>1, <2>2 DEF Alike, Counted
  <1>4. Filed(t)
    BY DEF Alike, Shaped, Filed
  <1> QED
    BY <1>1, <1>2, <1>3, <1>4 DEF Shaped

LEMMA SyncAlike ==
  ASSUME NEW s, NEW X, Sound(s), Settled(s, X, {}), NEW nid \in DOMAIN s.pc,
         NEW t, t = syncFlags(s, nid)
  PROVE  Alike(s, t) /\ Sound(t) /\ Settled(t, X \ {nid}, {})
  BY SyncSettles DEF Alike, SameBut

-----------------------------------------------------------------------------
(* Creating a folder *)

\* The store with the nodes of the new folder, before its row is written.
WithNodes(s, nid, parent, name) ==
  [s EXCEPT !.pc = Put(@, nid, PC(parent, name)),
            !.hierarchy = Put(@, Index(nid), NoRows),
            !.contents = Put(@, Index(nid), {})]

\* A folder and tables that are not in the store.
Unused(s, nid) ==
  nid \notin DOMAIN s.pc /\ nid # NoNID /\ \A f \in DOMAIN s.pc : Index(f) # Index(nid)

\* What the new folder says, and that the others stay where they are.
Placed(s, u, nid, parent, name) ==
  /\ DOMAIN u.pc = DOMAIN s.pc \cup {nid} /\ u.msg = s.msg
  /\ u.pc[nid].parent = parent /\ u.pc[nid].name = name
  /\ SamePlaces(s, u)

Added(s, u, nid, parent) ==
  /\ DOMAIN u.pc = DOMAIN s.pc \cup {nid} /\ u.msg = s.msg
  /\ u.pc[nid].parent = parent /\ u.pc[nid].subfolders = FALSE
  /\ Kids(u, nid) = {}

\* A name that collides with no row is the name of no child.
LEMMA NoCollision ==
  ASSUME NEW s, Sound(s), Settled(s, {}, {}), NEW p \in DOMAIN s.pc, NEW name, NEW except,
         ~ collision(s, p, name, except),
         NEW g \in DOMAIN s.pc \ {NIDRootFolder}, g # except, s.pc[g].parent = p
  PROVE  s.pc[g].name # name
  <1>1. g \in DOMAIN Rows(s, p) /\ Rows(s, p)[g].name = s.pc[g].name
    <2>1. DOMAIN Rows(s, p) = Kids(s, p)
      BY DEF Settled
    <2>2. RowSays(Rows(s, p)[g], s.pc[g])
      BY DEF Settled
    <2>3. g \in Kids(s, p)
      BY DEF Kids
    <2> QED BY <2>1, <2>2, <2>3 DEF RowSays
  <1> QED
    BY <1>1 DEF collision

\* Nobody has the new folder for a parent, and its tables are empty.
LEMMA CreatedStore ==
  ASSUME NEW s, TreeOK(s), NEW nid, Unused(s, nid),
         NEW parent \in DOMAIN s.pc, NEW name, ~ collision(s, parent, name, NoNID),
         NEW u, u = WithNodes(s, nid, parent, name)
  PROVE  /\ Added(s, u, nid, parent) /\ Placed(s, u, nid, parent, name)
         /\ Sound(u) /\ Settled(u, {nid, parent}, {nid}) /\ Shaped(u)
  <1>0. Sound(s) /\ Settled(s, {}, {}) /\ Anchored(s) /\ Distinct(s) /\ Counted(s) /\ Filed(s)
    BY DEF TreeOK, Shaped
  <1> USE DEF Unused
  <1> DEFINE new == PC(parent, name)
  <1>1. /\ u.pc = Put(s.pc, nid, new) /\ u.msg = s.msg
        /\ u.hierarchy = Put(s.hierarchy, Index(nid), NoRows)
        /\ u.contents = Put(s.contents, Index(nid), {})
        /\ IsStore(u)
    <2> HIDE DEF new
    <2>1. u = [s EXCEPT !.pc = Put(s.pc, nid, new),
                        !.hierarchy = Put(s.hierarchy, Index(nid), NoRows),
                        !.contents = Put(s.contents, Index(nid), {})]
      BY DEF new, WithNodes
    <2> QED
      BY <1>0, <2>1 DEF Sound, IsStore
  <1>2. /\ new.parent = parent /\ new.name = name /\ new.content = 0 /\ new.unread = 0
        /\ new.subfolders = FALSE /\ IsPC(new)
    BY DEF PC, IsPC
  <1> HIDE DEF new
  <1>3. /\ DOMAIN u.pc = DOMAIN s.pc \cup {nid} /\ u.pc[nid] = new
        /\ \A f \in DOMAIN s.pc : u.pc[f] = s.pc[f]
    BY <1>1 DEF Put
  <1>4. /\ DOMAIN u.hierarchy = DOMAIN s.hierarchy \cup {Index(nid)}
        /\ DOMAIN Rows(u, nid) = {}
        /\ \A f \in DOMAIN s.pc : Rows(u, f) = Rows(s, f)
    BY <1>0, <1>1 DEF Put, Rows, NoRows, Sound
  <1>5. /\ DOMAIN u.contents = DOMAIN s.contents \cup {Index(nid)}
        /\ u.contents[Index(nid)] = {}
        /\ \A f \in DOMAIN s.pc : u.contents[Index(f)] = s.contents[Index(f)]
    BY <1>0, <1>1 DEF Put, Sound
  <1>6. /\ Kids(u, nid) = {}
        /\ \A f \in DOMAIN s.pc : Kids(u, f) \ {nid} = Kids(s, f)
        /\ \A f \in DOMAIN s.pc : f # parent => nid \notin Kids(u, f)
    BY <1>0, <1>2, <1>3 DEF Sound, Kids
  <1>7. Sound(u)
    <2>1. IsFiniteSet(DOMAIN u.pc)
      BY <1>0, <1>3, FS_AddElement DEF Sound
    <2>2. NIDRootFolder \in DOMAIN s.pc /\ NIDRootFolder # nid
      BY <1>0 DEF Sound
    <2>3. \A f \in DOMAIN u.pc : IsPC(u.pc[f])
      BY <1>0, <1>2, <1>3 DEF Sound
    <2>4. \A f \in DOMAIN u.pc : Index(f) \in DOMAIN u.hierarchy /\ Index(f) \in DOMAIN u.contents
      BY <1>0, <1>3, <1>4, <1>5 DEF Sound
    <2>5. \A f, g \in DOMAIN u.pc : Index(f) = Index(g) => f = g
      BY <1>0, <1>3 DEF Sound
    <2>6. \A f \in DOMAIN u.pc \ {NIDRootFolder} : u.pc[f].parent \in DOMAIN u.pc \ {f}
      BY <1>0, <1>2, <1>3 DEF Sound
    <2> QED
      BY <1>0, <1>1, <1>3, <2>1, <2>2, <2>3, <2>4, <2>5, <2>6 DEF Sound
  <1>8. Settled(u, {nid, parent}, {nid})
    <2> SUFFICES ASSUME NEW f \in DOMAIN u.pc
                 PROVE  /\ DOMAIN Rows(u, f) = Kids(u, f) \ {nid}
                        /\ f \notin {nid, parent} => (u.pc[f].subfolders <=> Kids(u, f) # {})
                        /\ f \notin {nid, parent} /\ f # NIDRootFolder =>
                             RowSays(Rows(u, u.pc[f].parent)[f], u.pc[f])
      BY DEF Settled
    <2>1. DOMAIN Rows(u, f) = Kids(u, f) \ {nid}
      <3>1. CASE f = nid
        BY <1>4, <1>6, <3>1
      <3>2. CASE f # nid
        <4>1. f \in DOMAIN s.pc
          BY <1>3, <3>2
        <4>2. DOMAIN Rows(s, f) = Kids(s, f)
          BY <1>0, <4>1 DEF Settled
        <4> QED
          BY <1>4, <1>6, <4>1, <4>2
      <3> QED
        BY <3>1, <3>2
    <2>2. ASSUME f \notin {nid, parent} PROVE u.pc[f].subfolders <=> Kids(u, f) # {}
      <3>1. Kids(u, f) = Kids(s, f) /\ u.pc[f] = s.pc[f] /\ f \in DOMAIN s.pc
        <4>1. f \in DOMAIN s.pc /\ f # parent
          BY <1>3, <2>2
        <4>2. Kids(u, f) \ {nid} = Kids(s, f) /\ nid \notin Kids(u, f)
          BY <1>6, <4>1
        <4> QED
          BY <1>3, <4>1, <4>2
      <3>2. s.pc[f].subfolders <=> Kids(s, f) # {}
        BY <1>0, <3>1 DEF Settled
      <3> QED
        BY <3>1, <3>2
    <2>3. ASSUME f \notin {nid, parent}, f # NIDRootFolder
          PROVE  RowSays(Rows(u, u.pc[f].parent)[f], u.pc[f])
      <3>1. f \in DOMAIN s.pc /\ u.pc[f] = s.pc[f] /\ s.pc[f].parent \in DOMAIN s.pc
        BY <1>0, <1>3, <2>3 DEF Sound
      <3>2. RowSays(Rows(s, s.pc[f].parent)[f], s.pc[f])
        BY <1>0, <2>3, <3>1 DEF Settled
      <3> QED
        BY <1>4, <3>1, <3>2
    <2> QED
      BY <2>1, <2>2, <2>3
  <1>9. Anchored(u)
    <2> SUFFICES ASSUME NEW S \in SUBSET DOMAIN u.pc, S # {},
                        \A f \in S \ {NIDRootFolder} : u.pc[f].parent \in S
                 PROVE  NIDRootFolder \in S
      BY DEF Anchored
    <2> DEFINE T == S \ {nid}
    <2>1. T \in SUBSET DOMAIN s.pc /\ T # {}
      BY <1>0, <1>2, <1>3 DEF Sound
    <2>2. \A f \in T \ {NIDRootFolder} : s.pc[f].parent \in T
      BY <1>0, <1>3 DEF Sound
    <2> HIDE DEF T
    <2>3. NIDRootFolder \in T
      BY <1>0, <2>1, <2>2 DEF Anchored
    <2> QED
      BY <2>3 DEF T
  <1>10. Distinct(u)
    <2>1. ASSUME NEW g \in DOMAIN s.pc \ {NIDRootFolder}, s.pc[g].parent = parent
          PROVE  s.pc[g].name # name
      <3>1. g # NoNID
        BY <1>0 DEF Sound
      <3> QED
        BY <1>0, <2>1, <3>1, NoCollision
    <2> QED
      BY <1>0, <1>2, <1>3, <2>1 DEF Distinct
  <1>11. Counted(u)
    <2>1. \A f : HeldBy(u, f) = HeldBy(s, f) /\ UnreadIn(u, f) = UnreadIn(s, f)
      BY <1>1 DEF HeldBy, UnreadIn
    <2>2. HeldBy(s, nid) = {} /\ UnreadIn(s, nid) = {}
      BY <1>0 DEF Filed, HeldBy, UnreadIn
    <2>3. Cardinality({}) = 0
      BY FS_EmptySet
    <2>4. ASSUME NEW f \in DOMAIN s.pc
          PROVE  /\ u.contents[Index(f)] = HeldBy(u, f)
                 /\ u.pc[f].content = Cardinality(HeldBy(u, f))
                 /\ u.pc[f].unread = Cardinality(UnreadIn(u, f))
      BY <1>0, <1>3, <1>5, <2>1 DEF Counted
    <2>5. /\ u.contents[Index(nid)] = HeldBy(u, nid)
          /\ u.pc[nid].content = Cardinality(HeldBy(u, nid))
          /\ u.pc[nid].unread = Cardinality(UnreadIn(u, nid))
      BY <1>2, <1>3, <1>5, <2>1, <2>2, <2>3
    <2> QED
      BY <1>3, <2>4, <2>5 DEF Counted
  <1>12. Filed(u)
    BY <1>0, <1>1, <1>3 DEF Filed
  <1>13. Added(s, u, nid, parent)
    BY <1>1, <1>2, <1>3, <1>6 DEF Added
  <1>14. Placed(s, u, nid, parent, name)
    BY <1>1, <1>2, <1>3 DEF Placed, SamePlaces
  <1> QED
    BY <1>7, <1>8, <1>9, <1>10, <1>11, <1>12, <1>13, <1>14 DEF Shaped

LEMMA CreatedOK ==
  ASSUME NEW s, TreeOK(s), NEW nid, Unused(s, nid),
         NEW parent \in DOMAIN s.pc, NEW name, ~ collision(s, parent, name, NoNID),
         NEW t, t = Created(s, nid, parent, name)
  PROVE  TreeOK(t) /\ Placed(s, t, nid, parent, name)
  <1>1. PICK u : u = WithNodes(s, nid, parent, name)
    OBVIOUS
  <1>2. PICK v : v = upsertChildRow(u, parent, nid)
    OBVIOUS
  <1>3. t = syncFlags(v, parent)
    BY <1>1, <1>2 DEF Created, WithNodes
  <1>4. /\ Added(s, u, nid, parent) /\ Placed(s, u, nid, parent, name)
        /\ Sound(u) /\ Settled(u, {nid, parent}, {nid}) /\ Shaped(u)
    BY <1>1, CreatedStore
  <1>5. RowsOnly(u, v) /\ Sound(v) /\ Settled(v, {nid, parent} \ {nid}, {nid} \ {nid})
    <2>1. /\ {nid} \subseteq {nid, parent} /\ nid \in DOMAIN u.pc \ {NIDRootFolder}
          /\ Kids(u, nid) \cap {nid} = {}
      BY <1>4 DEF TreeOK, Sound, Added, Unused
    <2>2. u.pc[nid].subfolders <=> Kids(u, nid) # {}
      BY <1>4 DEF Added
    <2>3. v = upsertChildRow(u, u.pc[nid].parent, nid)
      BY <1>2, <1>4 DEF Added
    <2>4. Sound(u) /\ Settled(u, {nid, parent}, {nid})
      BY <1>4
    <2> QED
      BY <2>1, <2>2, <2>3, <2>4, UpsertSettles
  <1>6. {nid, parent} \ {nid} = {parent} /\ {nid} \ {nid} = {} /\ {parent} \ {parent} = {}
    BY DEF Unused
  <1>7. Alike(v, t) /\ Sound(t) /\ Settled(t, {}, {})
    <2>1. Settled(v, {parent}, {}) /\ parent \in DOMAIN v.pc
      BY <1>4, <1>5, <1>6 DEF RowsOnly, Added
    <2>2. Alike(v, t) /\ Sound(t) /\ Settled(t, {parent} \ {parent}, {})
      BY <1>3, <1>5, <2>1, SyncAlike
    <2> QED
      BY <1>6, <2>2
  <1>8. Alike(u, t)
    BY <1>5, <1>7 DEF Alike, RowsOnly
  <1>9. Shaped(t)
    BY <1>4, <1>8, AlikeShaped
  <1>10. Placed(s, t, nid, parent, name)
    BY <1>4, <1>8 DEF Placed, SamePlaces, Alike
  <1> QED
    BY <1>7, <1>9, <1>10 DEF TreeOK

-----------------------------------------------------------------------------
(* Renaming and moving a folder *)

LEMMA RenamedOK ==
  ASSUME NEW s, TreeOK(s), NEW nid \in DOMAIN s.pc \ {NIDRootFolder}, NEW name,
         ~ collision(s, s.pc[nid].parent, name, nid),
         NEW t, t = mutatePC(s, nid, [s.pc[nid] EXCEPT !.name = name])
  PROVE  TreeOK(t) /\ DOMAIN t.pc = DOMAIN s.pc /\ t.msg = s.msg
  <1>0. Sound(s) /\ Settled(s, {}, {}) /\ Anchored(s) /\ Distinct(s) /\ Counted(s) /\ Filed(s)
    BY DEF TreeOK, Shaped
  <1>1. PICK pc : pc = [s.pc[nid] EXCEPT !.name = name]
    OBVIOUS
  <1>2. IsPC(s.pc[nid])
    BY <1>0 DEF Sound
  <1>3. /\ pc.parent = s.pc[nid].parent /\ pc.name = name
        /\ pc.content = s.pc[nid].content /\ pc.unread = s.pc[nid].unread
        /\ pc.subfolders = s.pc[nid].subfolders /\ IsPC(pc)
    BY <1>1, <1>2 DEF IsPC
  <1>4. SameBut(s, t, nid, pc) /\ Sound(t) /\ Settled(t, {} \ {nid}, {} \ {nid})
    <2>1. pc.subfolders <=> Kids(s, nid) # {}
      BY <1>0, <1>3 DEF Settled
    <2>2. Kids(s, nid) \cap {} = {} /\ {} \subseteq {} /\ NIDRootFolder \notin {}
      OBVIOUS
    <2>3. t = mutatePC(s, nid, pc) /\ pc.parent = s.pc[nid].parent /\ IsPC(pc)
      BY <1>1, <1>3
    <2> QED
      BY <1>0, <2>1, <2>2, <2>3, MutateSettles
  <1>5. {} \ {nid} = {}
    OBVIOUS
  <1>6. /\ DOMAIN t.pc = DOMAIN s.pc /\ t.contents = s.contents /\ t.msg = s.msg
        /\ \A f \in DOMAIN s.pc : f # nid => t.pc[f] = s.pc[f]
        /\ \A f \in DOMAIN s.pc : /\ t.pc[f].parent = s.pc[f].parent
                                  /\ t.pc[f].content = s.pc[f].content
                                  /\ t.pc[f].unread = s.pc[f].unread
    BY <1>3, <1>4 DEF SameBut
  <1>7. Anchored(t)
    BY <1>0, <1>6 DEF Anchored
  <1>8. Distinct(t)
    <2>1. s.pc[nid].parent \in DOMAIN s.pc
      BY <1>0 DEF Sound
    <2>2. ASSUME NEW g \in DOMAIN s.pc \ {NIDRootFolder}, g # nid, s.pc[g].parent = s.pc[nid].parent
          PROVE  s.pc[g].name # name
      BY <1>0, <2>1, <2>2, NoCollision
    <2>3. /\ DOMAIN t.pc = DOMAIN s.pc /\ t.pc[nid].name = name
          /\ \A f \in DOMAIN s.pc : f # nid => t.pc[f].name = s.pc[f].name
      BY <1>3, <1>4, <1>6 DEF SameBut
    <2>4. \A f \in DOMAIN s.pc : t.pc[f].parent = s.pc[f].parent
      BY <1>6
    <2> SUFFICES ASSUME NEW f \in DOMAIN s.pc \ {NIDRootFolder},
                        NEW g \in DOMAIN s.pc \ {NIDRootFolder},
                        s.pc[f].parent = s.pc[g].parent, t.pc[f].name = t.pc[g].name
                 PROVE  f = g \/ (protected(f) /\ protected(g))
      BY <2>3, <2>4 DEF Distinct
    <2>5. CASE f # nid /\ g # nid
      BY <1>0, <2>3, <2>5 DEF Distinct
    <2>6. CASE f = nid \/ g = nid
      BY <2>2, <2>3, <2>6
    <2> QED
      BY <2>5, <2>6
  <1>9. Counted(t)
    <2>1. \A f : HeldBy(t, f) = HeldBy(s, f) /\ UnreadIn(t, f) = UnreadIn(s, f)
      BY <1>6 DEF HeldBy, UnreadIn
    <2> QED
      BY <1>0, <1>6, <2>1 DEF Counted
  <1>10. Filed(t)
    BY <1>0, <1>6 DEF Filed
  <1> QED
    BY <1>4, <1>5, <1>6, <1>7, <1>8, <1>9, <1>10 DEF TreeOK, Shaped

\* The loop of contains and depthOf visits a folder and what is above it.
LEMMA AncestorsClosed ==
  ASSUME NEW s, Sound(s), NEW x \in DOMAIN s.pc
  PROVE  /\ x \in Ancestors(s, x) /\ Ancestors(s, x) \subseteq DOMAIN s.pc
         /\ \A f \in Ancestors(s, x) \ {NIDRootFolder} : s.pc[f].parent \in Ancestors(s, x)
  <1>1. PICK links : links = Up(s)
    OBVIOUS
  <1>2. /\ DOMAIN links = DOMAIN s.pc
        /\ \A f \in DOMAIN s.pc : links[f] = {s.pc[f].parent} \ {NoNID}
    BY <1>1 DEF Up, parentOf
  <1>3. IsFiniteSet(DOMAIN links) /\ \A f \in DOMAIN links : links[f] \subseteq DOMAIN links
    BY <1>2 DEF Sound
  <1>4. /\ x \in Reach(links, x) /\ Reach(links, x) \subseteq DOMAIN links
        /\ \A y \in Reach(links, x) : links[y] \subseteq Reach(links, x)
    BY <1>2, <1>3, ReachLeast
  <1>5. Ancestors(s, x) = Reach(links, x)
    BY <1>1 DEF Ancestors
  <1>6. ASSUME NEW f \in Ancestors(s, x) \ {NIDRootFolder} PROVE s.pc[f].parent \in Ancestors(s, x)
    <2>1. f \in DOMAIN s.pc /\ s.pc[f].parent # NoNID
      BY <1>2, <1>4, <1>5 DEF Sound
    <2>2. s.pc[f].parent \in links[f]
      BY <1>2, <2>1
    <2> QED
      BY <1>4, <1>5, <2>2
  <1> QED
    BY <1>2, <1>4, <1>5, <1>6

\* Stores with the same folders, messages and children of nid.
SameAround(s, u, nid) ==
  /\ DOMAIN u.pc = DOMAIN s.pc /\ u.msg = s.msg /\ Kids(u, nid) = Kids(s, nid)
  /\ u.pc[nid].subfolders = s.pc[nid].subfolders

\* The folder below its new parent, before the row there is written.
Rehung(s, nid, newParent) ==
  SetParent(removeChildRow(s, s.pc[nid].parent, nid), nid, newParent)

LEMMA RehungStore ==
  ASSUME NEW s, TreeOK(s), NEW nid \in DOMAIN s.pc \ {NIDRootFolder},
         NEW newParent \in DOMAIN s.pc, newParent # s.pc[nid].parent,
         ~ contains(s, nid, newParent), ~ collision(s, newParent, s.pc[nid].name, NoNID),
         NEW u, u = Rehung(s, nid, newParent)
  PROVE  /\ SameAround(s, u, nid) /\ nid # newParent
         /\ Sound(u) /\ Settled(u, {nid, s.pc[nid].parent, newParent}, {nid}) /\ Shaped(u)
  <1>0. Sound(s) /\ Settled(s, {}, {}) /\ Anchored(s) /\ Distinct(s) /\ Counted(s) /\ Filed(s)
    BY DEF TreeOK, Shaped
  <1>1. PICK old : old = s.pc[nid].parent
    OBVIOUS
  <1>2. /\ old \in DOMAIN s.pc /\ old # nid /\ old # newParent
        /\ Index(old) \in DOMAIN s.hierarchy /\ IsPC(s.pc[nid])
    BY <1>0, <1>1 DEF Sound
  <1>3. PICK T : T = Ancestors(s, newParent)
    OBVIOUS
  <1>4. /\ newParent \in T /\ nid \notin T /\ T \subseteq DOMAIN s.pc
        /\ \A f \in T \ {NIDRootFolder} : s.pc[f].parent \in T
    BY <1>0, <1>3, AncestorsClosed DEF contains
  <1>5. nid # newParent
    BY <1>4
  <1>6. /\ u.pc = [s.pc EXCEPT ![nid] = [@ EXCEPT !.parent = newParent]]
        /\ u.hierarchy = [s.hierarchy EXCEPT ![Index(old)] = Without(@, {nid})]
        /\ u.contents = s.contents /\ u.msg = s.msg /\ IsStore(u)
    <2>1. PICK t : t = removeChildRow(s, old, nid)
      OBVIOUS
    <2>2. /\ t.pc = s.pc /\ t.contents = s.contents /\ t.msg = s.msg /\ IsStore(t)
          /\ t.hierarchy = [s.hierarchy EXCEPT ![Index(old)] = Without(@, {nid})]
      BY <1>0, <1>2, <2>1 DEF removeChildRow, IsStore, Sound
    <2>3. u = [t EXCEPT !.pc[nid].parent = newParent]
      BY <1>1, <2>1 DEF Rehung, SetParent
    <2> QED
      BY <2>2, <2>3 DEF IsStore
  <1>7. /\ DOMAIN u.pc = DOMAIN s.pc
        /\ \A f \in DOMAIN s.pc : f # nid => u.pc[f] = s.pc[f]
        /\ u.pc[nid].parent = newParent /\ u.pc[nid].name = s.pc[nid].name
        /\ u.pc[nid].content = s.pc[nid].content /\ u.pc[nid].unread = s.pc[nid].unread
        /\ u.pc[nid].subfolders = s.pc[nid].subfolders /\ IsPC(u.pc[nid])
    BY <1>2, <1>6 DEF IsPC
  <1>8. /\ DOMAIN u.hierarchy = DOMAIN s.hierarchy
        /\ DOMAIN Rows(u, old) = DOMAIN Rows(s, old) \ {nid}
        /\ \A f \in DOMAIN Rows(s, old) \ {nid} : Rows(u, old)[f] = Rows(s, old)[f]
        /\ \A f \in DOMAIN s.pc : f # old => Rows(u, f) = Rows(s, f)
    BY <1>0, <1>2, <1>6 DEF Rows, Without, Sound
  <1>9. /\ Kids(u, old) = Kids(s, old) \ {nid}
        /\ Kids(u, newParent) \ {nid} = Kids(s, newParent)
        /\ nid \notin Kids(s, newParent)
        /\ \A f \in DOMAIN s.pc : f # old /\ f # newParent
             => Kids(u, f) = Kids(s, f) /\ nid \notin Kids(s, f)
    BY <1>1, <1>2, <1>7 DEF Kids
  <1>10. Sound(u)
    <2>1. \A f \in DOMAIN u.pc : IsPC(u.pc[f])
      BY <1>0, <1>7 DEF Sound
    <2>2. \A f \in DOMAIN u.pc \ {NIDRootFolder} : u.pc[f].parent \in DOMAIN u.pc \ {f}
      BY <1>0, <1>5, <1>7 DEF Sound
    <2> QED
      BY <1>0, <1>6, <1>7, <1>8, <2>1, <2>2 DEF Sound
  <1>11. Settled(u, {nid, old, newParent}, {nid})
    <2> SUFFICES ASSUME NEW f \in DOMAIN s.pc
                 PROVE  /\ DOMAIN Rows(u, f) = Kids(u, f) \ {nid}
                        /\ f \notin {nid, old, newParent} => (u.pc[f].subfolders <=> Kids(u, f) # {})
                        /\ f \notin {nid, old, newParent} /\ f # NIDRootFolder =>
                             RowSays(Rows(u, u.pc[f].parent)[f], u.pc[f])
      BY <1>7 DEF Settled
    <2>1. /\ DOMAIN Rows(s, f) = Kids(s, f)
          /\ s.pc[f].subfolders <=> Kids(s, f) # {}
          /\ f # NIDRootFolder => RowSays(Rows(s, s.pc[f].parent)[f], s.pc[f])
      BY <1>0 DEF Settled
    <2>2. DOMAIN Rows(u, f) = Kids(u, f) \ {nid}
      <3>1. CASE f = old
        BY <1>8, <1>9, <2>1, <3>1
      <3>2. CASE f = newParent
        BY <1>2, <1>8, <1>9, <2>1, <3>2
      <3>3. CASE f # old /\ f # newParent
        <4>1. Kids(u, f) = Kids(s, f) /\ nid \notin Kids(s, f) /\ Rows(u, f) = Rows(s, f)
          BY <1>8, <1>9, <3>3
        <4> QED
          BY <2>1, <4>1
      <3> QED
        BY <3>1, <3>2, <3>3
    <2>3. ASSUME f \notin {nid, old, newParent} PROVE u.pc[f].subfolders <=> Kids(u, f) # {}
      <3>1. Kids(u, f) = Kids(s, f) /\ u.pc[f] = s.pc[f]
        BY <1>7, <1>9, <2>3
      <3> QED
        BY <2>1, <3>1
    <2>4. ASSUME f \notin {nid, old, newParent}, f # NIDRootFolder
          PROVE  RowSays(Rows(u, u.pc[f].parent)[f], u.pc[f])
      <3>1. u.pc[f] = s.pc[f] /\ s.pc[f].parent \in DOMAIN s.pc
        BY <1>0, <1>7, <2>4 DEF Sound
      <3>2. f \in DOMAIN Rows(s, s.pc[f].parent)
        BY <1>0, <3>1 DEF Settled, Kids
      <3>3. Rows(u, s.pc[f].parent)[f] = Rows(s, s.pc[f].parent)[f]
        BY <1>8, <2>4, <3>1, <3>2
      <3> QED
        BY <2>1, <2>4, <3>1, <3>3
    <2> QED
      BY <2>2, <2>3, <2>4
  <1>12. Anchored(u)
    <2> SUFFICES ASSUME NEW S \in SUBSET DOMAIN u.pc, S # {},
                        \A f \in S \ {NIDRootFolder} : u.pc[f].parent \in S
                 PROVE  NIDRootFolder \in S
      BY DEF Anchored
    <2>1. CASE nid \in S
      <3>1. PICK R : R = S \cap T
        OBVIOUS
      <3>2. newParent \in R /\ R \in SUBSET DOMAIN s.pc
        BY <1>4, <1>7, <2>1, <3>1
      <3>3. \A f \in R \ {NIDRootFolder} : s.pc[f].parent \in R
        BY <1>4, <1>7, <3>1
      <3>4. NIDRootFolder \in R
        BY <1>0, <3>2, <3>3 DEF Anchored
      <3> QED
        BY <3>1, <3>4
    <2>2. CASE nid \notin S
      <3>1. S \in SUBSET DOMAIN s.pc /\ \A f \in S \ {NIDRootFolder} : s.pc[f].parent \in S
        BY <1>7, <2>2
      <3> QED
        BY <1>0, <3>1 DEF Anchored
    <2> QED
      BY <2>1, <2>2
  <1>13. Distinct(u)
    <2>1. ASSUME NEW g \in DOMAIN s.pc \ {NIDRootFolder}, s.pc[g].parent = newParent
          PROVE  s.pc[g].name # s.pc[nid].name
      <3>1. g # NoNID
        BY <1>0 DEF Sound
      <3> QED
        BY <1>0, <2>1, <3>1, NoCollision
    <2> QED
      BY <1>0, <1>7, <2>1 DEF Distinct
  <1>14. Counted(u)
    <2>1. \A f : HeldBy(u, f) = HeldBy(s, f) /\ UnreadIn(u, f) = UnreadIn(s, f)
      BY <1>6 DEF HeldBy, UnreadIn
    <2>2. \A f \in DOMAIN s.pc : u.pc[f].content = s.pc[f].content /\ u.pc[f].unread = s.pc[f].unread
      BY <1>7
    <2> QED
      BY <1>0, <1>6, <1>7, <2>1, <2>2 DEF Counted
  <1>15. Filed(u)
    BY <1>0, <1>6, <1>7 DEF Filed
  <1>16. Kids(u, nid) = Kids(s, nid)
    BY <1>2, <1>5, <1>9
  <1> QED
    BY <1>1, <1>5, <1>6, <1>7, <1>10, <1>11, <1>12, <1>13, <1>14, <1>15, <1>16
    DEF Shaped, SameAround

LEMMA MovedOK ==
  ASSUME NEW s, TreeOK(s), NEW nid \in DOMAIN s.pc \ {NIDRootFolder},
         NEW newParent \in DOMAIN s.pc, newParent # s.pc[nid].parent,
         ~ contains(s, nid, newParent), ~ collision(s, newParent, s.pc[nid].name, NoNID),
         NEW t, t = Moved(s, nid, newParent)
  PROVE  TreeOK(t) /\ DOMAIN t.pc = DOMAIN s.pc /\ t.msg = s.msg
  <1>0. Sound(s) /\ Settled(s, {}, {})
    BY DEF TreeOK
  <1>1. PICK old : old = s.pc[nid].parent
    OBVIOUS
  <1>2. old \in DOMAIN s.pc /\ old # nid /\ old # newParent /\ parentOf(s, nid) = old
    BY <1>0, <1>1 DEF Sound, parentOf
  <1>3. PICK u : u = Rehung(s, nid, newParent)
    OBVIOUS
  <1>4. PICK v : v = mutatePC(u, nid, u.pc[nid])
    OBVIOUS
  <1>5. PICK w : w = syncFlags(v, old)
    OBVIOUS
  <1>6. t = syncFlags(w, newParent)
    BY <1>1, <1>2, <1>3, <1>4, <1>5 DEF Moved, Rehung
  <1>7. /\ SameAround(s, u, nid) /\ nid # newParent
        /\ Sound(u) /\ Settled(u, {nid, old, newParent}, {nid}) /\ Shaped(u)
    BY <1>1, <1>3, RehungStore
  <1> USE DEF SameAround
  <1>8. Alike(u, v) /\ Sound(v) /\ Settled(v, {old, newParent}, {})
    <2>1. PICK X, A : X = {nid, old, newParent} /\ A = {nid}
      OBVIOUS
    <2>2. PICK pc : pc = u.pc[nid]
      OBVIOUS
    <2>3. nid \in DOMAIN u.pc /\ A \subseteq X /\ NIDRootFolder \notin A /\ Settled(u, X, A)
      BY <1>7, <2>1
    <2>4. pc.subfolders <=> Kids(u, nid) # {}
      BY <1>0, <1>7, <2>2 DEF Settled
    <2>5. Kids(u, nid) \cap A = {}
      BY <1>2, <1>1, <1>7, <2>1 DEF Kids
    <2>6. IsPC(pc) /\ pc.parent = u.pc[nid].parent /\ v = mutatePC(u, nid, pc)
      BY <1>4, <1>7, <2>2, <2>3 DEF Sound
    <2>7. SameBut(u, v, nid, pc) /\ Sound(v) /\ Settled(v, X \ {nid}, A \ {nid})
      BY <1>7, <2>3, <2>4, <2>5, <2>6, MutateSettles
    <2>8. X \ {nid} = {old, newParent} /\ A \ {nid} = {}
      BY <1>2, <1>7, <2>1
    <2>9. Alike(u, v)
      BY <2>2, <2>7 DEF SameBut, Alike
    <2> QED
      BY <2>7, <2>8, <2>9
  <1>9. Alike(v, w) /\ Sound(w) /\ Settled(w, {newParent}, {})
    <2>1. old \in DOMAIN v.pc /\ {old, newParent} \ {old} = {newParent}
      BY <1>2, <1>7, <1>8 DEF Alike
    <2>2. Alike(v, w) /\ Sound(w) /\ Settled(w, {old, newParent} \ {old}, {})
      BY <1>5, <1>8, <2>1, SyncAlike
    <2> QED
      BY <2>1, <2>2
  <1>10. Alike(w, t) /\ Sound(t) /\ Settled(t, {}, {})
    <2>1. newParent \in DOMAIN w.pc /\ {newParent} \ {newParent} = {}
      BY <1>7, <1>8, <1>9 DEF Alike
    <2>2. Alike(w, t) /\ Sound(t) /\ Settled(t, {newParent} \ {newParent}, {})
      BY <1>6, <1>9, <2>1, SyncAlike
    <2> QED
      BY <2>1, <2>2
  <1>11. Alike(u, t)
    BY <1>8, <1>9, <1>10 DEF Alike
  <1>12. Shaped(t)
    BY <1>7, <1>11, AlikeShaped
  <1> QED
    BY <1>7, <1>10, <1>11, <1>12 DEF TreeOK, Alike

-----------------------------------------------------------------------------
(* Deleting a folder *)

\* deleteLocked visits a folder and what is below it: nothing outside hangs
\* from a folder it visits, and what it visits hangs together.
LEMMA SubtreeClosed ==
  ASSUME NEW s, Sound(s), Settled(s, {}, {}), NEW x \in DOMAIN s.pc
  PROVE  /\ x \in Subtree(s, x) /\ Subtree(s, x) \subseteq DOMAIN s.pc
         /\ \A f \in Subtree(s, x) : Kids(s, f) \subseteq Subtree(s, x)
         /\ \A f \in Subtree(s, x) \ {x} : s.pc[f].parent \in Subtree(s, x)
  <1>1. PICK links : links = Down(s)
    OBVIOUS
  <1>2. DOMAIN links = DOMAIN s.pc /\ \A f \in DOMAIN s.pc : links[f] = Kids(s, f)
    BY <1>1 DEF Down, Settled
  <1>3. IsFiniteSet(DOMAIN links) /\ \A f \in DOMAIN links : links[f] \subseteq DOMAIN links
    BY <1>2 DEF Sound, Kids
  <1>4. PICK R : R = Reach(links, x)
    OBVIOUS
  <1>5. /\ x \in R /\ R \subseteq DOMAIN links
        /\ \A y \in R : links[y] \subseteq R
        /\ \A S : x \in S /\ (\A y \in S \cap DOMAIN links : links[y] \subseteq S) => R \subseteq S
    BY <1>2, <1>3, <1>4, ReachLeast
  <1>6. \A f \in R \ {x} : s.pc[f].parent \in R
    <2>1. PICK S : S = {f \in R : f = x \/ s.pc[f].parent \in R}
      OBVIOUS
    <2>2. x \in S
      BY <1>5, <2>1
    <2>3. ASSUME NEW y \in S \cap DOMAIN links, NEW k \in links[y] PROVE k \in S
      <3>1. y \in R /\ k \in R /\ s.pc[k].parent = y
        BY <1>2, <1>5, <2>1 DEF Kids
      <3> QED
        BY <2>1, <3>1
    <2>4. R \subseteq S
      BY <1>5, <2>2, <2>3
    <2> QED
      BY <2>1, <2>4
  <1>7. Subtree(s, x) = R
    BY <1>1, <1>4 DEF Subtree
  <1> QED
    BY <1>2, <1>5, <1>6, <1>7

\* A map without some keys has the others as before.
LEMMA WithoutHas ==
  ASSUME NEW F, NEW K
  PROVE  /\ DOMAIN Without(F, K) = DOMAIN F \ K
         /\ \A x \in DOMAIN F \ K : Without(F, K)[x] = F[x]
  BY DEF Without

\* The store without the subtree and its row, before the parent's flag.
Pruned(s, parent, nid, gone) ==
  [removeChildRow(s, parent, nid) EXCEPT
     !.pc = Without(@, gone),
     !.hierarchy = Without(@, {Index(f) : f \in gone}),
     !.contents = Without(@, {Index(f) : f \in gone})]

LEMMA PrunedStore ==
  ASSUME NEW s, TreeOK(s), NEW nid, CanDelete(s, nid),
         NEW p, p = s.pc[nid].parent, NEW gone, gone = Subtree(s, nid),
         NEW u, u = Pruned(s, p, nid, gone)
  PROVE  /\ p \in DOMAIN u.pc /\ DOMAIN u.pc = DOMAIN s.pc \ gone /\ u.msg = s.msg
         /\ Sound(u) /\ Settled(u, {p}, {}) /\ Shaped(u)
  <1>0. Sound(s) /\ Settled(s, {}, {}) /\ Anchored(s) /\ Distinct(s) /\ Counted(s) /\ Filed(s)
    BY DEF TreeOK, Shaped
  <1>1. /\ nid \in DOMAIN s.pc /\ NIDRootFolder \notin gone
        /\ \A f \in gone : s.contents[Index(f)] = {}
    BY DEF CanDelete, protected
  <1>2. /\ nid \in gone /\ gone \subseteq DOMAIN s.pc
        /\ \A f \in gone : Kids(s, f) \subseteq gone
        /\ \A f \in gone \ {nid} : s.pc[f].parent \in gone
    BY <1>0, <1>1, SubtreeClosed
  <1>3. p \in DOMAIN s.pc /\ p \notin gone /\ Index(p) \in DOMAIN s.hierarchy
    <2>1. nid # NIDRootFolder
      BY <1>1, <1>2
    <2>2. p \in DOMAIN s.pc /\ Index(p) \in DOMAIN s.hierarchy
      BY <1>0, <1>1, <2>1 DEF Sound
    <2>3. ASSUME p \in gone PROVE FALSE
      <3>1. \A f \in gone \ {NIDRootFolder} : s.pc[f].parent \in gone
        BY <1>2, <2>3
      <3>2. gone \in SUBSET DOMAIN s.pc /\ gone # {}
        BY <1>2
      <3> QED
        BY <1>0, <1>1, <3>1, <3>2 DEF Anchored
    <2> QED
      BY <2>2, <2>3
  <1>4. PICK I : I = {Index(f) : f \in gone}
    OBVIOUS
  <1>5. \A f \in DOMAIN s.pc : f \notin gone => Index(f) \notin I
    BY <1>0, <1>2, <1>4 DEF Sound
  <1>6. /\ u.pc = Without(s.pc, gone) /\ u.msg = s.msg /\ IsStore(u)
        /\ u.hierarchy = Without([s.hierarchy EXCEPT ![Index(p)] = Without(@, {nid})], I)
        /\ u.contents = Without(s.contents, I)
    <2>1. PICK t : t = removeChildRow(s, p, nid)
      OBVIOUS
    <2>2. /\ t.pc = s.pc /\ t.contents = s.contents /\ t.msg = s.msg /\ IsStore(t)
          /\ t.hierarchy = [s.hierarchy EXCEPT ![Index(p)] = Without(@, {nid})]
      BY <1>0, <1>3, <2>1 DEF removeChildRow, IsStore, Sound
    <2>3. PICK h : h = t.hierarchy
      OBVIOUS
    <2>4. u = [t EXCEPT !.pc = Without(s.pc, gone), !.hierarchy = Without(h, I),
                        !.contents = Without(s.contents, I)]
      BY <1>4, <2>1, <2>2, <2>3 DEF Pruned
    <2>5. /\ u.pc = Without(s.pc, gone) /\ u.msg = s.msg /\ IsStore(u)
          /\ u.hierarchy = Without(h, I) /\ u.contents = Without(s.contents, I)
      BY <2>2, <2>4 DEF IsStore
    <2> QED
      BY <2>2, <2>3, <2>5
  <1>7. /\ DOMAIN u.pc = DOMAIN s.pc \ gone /\ p \in DOMAIN u.pc
        /\ \A f \in DOMAIN u.pc : u.pc[f] = s.pc[f]
    <2>1. PICK k : k = s.pc
      OBVIOUS
    <2>2. u.pc = Without(k, gone)
      BY <1>6, <2>1
    <2>3. DOMAIN Without(k, gone) = DOMAIN k \ gone /\ \A f \in DOMAIN k \ gone : Without(k, gone)[f] = k[f]
      BY WithoutHas
    <2> QED
      BY <1>3, <2>1, <2>2, <2>3
  <1>8. /\ \A f \in DOMAIN u.pc : Index(f) \in DOMAIN u.hierarchy /\ Index(f) \in DOMAIN u.contents
        /\ \A f \in DOMAIN u.pc : u.contents[Index(f)] = s.contents[Index(f)]
        /\ \A f \in DOMAIN u.pc : f # p => Rows(u, f) = Rows(s, f)
        /\ DOMAIN Rows(u, p) = DOMAIN Rows(s, p) \ {nid}
        /\ \A f \in DOMAIN Rows(s, p) \ {nid} : Rows(u, p)[f] = Rows(s, p)[f]
    <2>1. \A f \in DOMAIN u.pc : /\ Index(f) \in DOMAIN s.hierarchy \ I
                                 /\ Index(f) \in DOMAIN s.contents \ I
                                 /\ f # p => Index(f) # Index(p)
      BY <1>0, <1>3, <1>5, <1>7 DEF Sound
    <2>2. PICK h : h = [s.hierarchy EXCEPT ![Index(p)] = Without(@, {nid})]
      OBVIOUS
    <2>3. /\ DOMAIN h = DOMAIN s.hierarchy
          /\ \A f \in DOMAIN u.pc : f # p => h[Index(f)] = s.hierarchy[Index(f)]
          /\ h[Index(p)] = Without(s.hierarchy[Index(p)], {nid})
      BY <1>3, <2>1, <2>2
    <2>4. /\ \A i \in DOMAIN s.hierarchy \ I : i \in DOMAIN u.hierarchy /\ u.hierarchy[i] = h[i]
          /\ \A i \in DOMAIN s.contents \ I : /\ i \in DOMAIN u.contents
                                              /\ u.contents[i] = s.contents[i]
      <3>1. u.hierarchy = Without(h, I) /\ u.contents = Without(s.contents, I)
        BY <1>6, <2>2
      <3>2. PICK k : k = s.contents
        OBVIOUS
      <3>3. /\ DOMAIN Without(h, I) = DOMAIN h \ I
            /\ \A i \in DOMAIN h \ I : Without(h, I)[i] = h[i]
        BY WithoutHas
      <3>4. /\ DOMAIN Without(k, I) = DOMAIN k \ I
            /\ \A i \in DOMAIN k \ I : Without(k, I)[i] = k[i]
        BY WithoutHas
      <3> QED
        BY <2>3, <3>1, <3>2, <3>3, <3>4
    <2>5. \A f \in DOMAIN u.pc : f # p => Rows(u, f) = Rows(s, f)
      BY <2>1, <2>3, <2>4 DEF Rows
    <2>6. Rows(u, p) = Without(Rows(s, p), {nid})
      BY <1>7, <2>1, <2>3, <2>4 DEF Rows
    <2> QED
      BY <2>1, <2>4, <2>5, <2>6 DEF Without
  <1>9. \A f \in DOMAIN u.pc \ {NIDRootFolder} : s.pc[f].parent \in DOMAIN u.pc \ {f}
    <2> SUFFICES ASSUME NEW f \in DOMAIN u.pc \ {NIDRootFolder}
                 PROVE  s.pc[f].parent \in DOMAIN u.pc \ {f}
      OBVIOUS
    <2>1. f \in DOMAIN s.pc /\ f \notin gone /\ s.pc[f].parent \in DOMAIN s.pc \ {f}
      BY <1>0, <1>7 DEF Sound
    <2>2. s.pc[f].parent \notin gone
      BY <1>2, <2>1 DEF Kids
    <2> QED
      BY <1>7, <2>1, <2>2
  <1>10. /\ Kids(u, p) = Kids(s, p) \ {nid}
         /\ \A f \in DOMAIN u.pc : f # p => Kids(u, f) = Kids(s, f)
    <2>1. ASSUME NEW f \in DOMAIN u.pc, NEW k \in Kids(s, f), k \in gone PROVE k = nid /\ f = p
      BY <1>2, <1>7, <2>1 DEF Kids
    <2>2. \A f \in DOMAIN u.pc : Kids(u, f) = Kids(s, f) \ gone
      BY <1>7 DEF Kids
    <2>3. Kids(s, p) \ gone = Kids(s, p) \ {nid}
      BY <1>2, <1>7, <2>1
    <2>4. \A f \in DOMAIN u.pc : f # p => Kids(s, f) \ gone = Kids(s, f)
      BY <2>1
    <2> QED
      BY <1>7, <2>2, <2>3, <2>4
  <1>11. Sound(u)
    <2>1. IsFiniteSet(DOMAIN u.pc)
      BY <1>0, <1>7, FS_Subset DEF Sound
    <2>2. /\ NIDRootFolder \in DOMAIN u.pc /\ NoNID \notin DOMAIN u.pc
          /\ u.pc[NIDRootFolder].parent = NoNID
          /\ \A f \in DOMAIN u.pc : IsPC(u.pc[f])
          /\ \A f, g \in DOMAIN u.pc : Index(f) = Index(g) => f = g
      BY <1>0, <1>1, <1>7 DEF Sound
    <2>3. \A f \in DOMAIN u.pc \ {NIDRootFolder} : u.pc[f].parent \in DOMAIN u.pc \ {f}
      BY <1>7, <1>9
    <2>4. \A f \in DOMAIN u.pc : Index(f) \in DOMAIN u.hierarchy /\ Index(f) \in DOMAIN u.contents
      BY <1>8
    <2>5. IsStore(u)
      BY <1>6
    <2> QED
      BY <2>1, <2>2, <2>3, <2>4, <2>5 DEF Sound
  <1>12. Settled(u, {p}, {})
    <2> SUFFICES ASSUME NEW f \in DOMAIN u.pc
                 PROVE  /\ DOMAIN Rows(u, f) = Kids(u, f)
                        /\ f # p => (u.pc[f].subfolders <=> Kids(u, f) # {})
                        /\ f # p /\ f # NIDRootFolder =>
                             RowSays(Rows(u, u.pc[f].parent)[f], u.pc[f])
      <3>1. \A K : K \ {} = K
        OBVIOUS
      <3>2. \A x : x \notin {p} <=> x # p
        OBVIOUS
      <3> QED
        BY <3>1, <3>2 DEF Settled
    <2>1. /\ DOMAIN Rows(s, f) = Kids(s, f)
          /\ s.pc[f].subfolders <=> Kids(s, f) # {}
          /\ f # NIDRootFolder => RowSays(Rows(s, s.pc[f].parent)[f], s.pc[f])
      BY <1>0, <1>7 DEF Settled
    <2>2. DOMAIN Rows(u, f) = Kids(u, f)
      BY <1>8, <1>10, <2>1
    <2>3. ASSUME f # p PROVE u.pc[f].subfolders <=> Kids(u, f) # {}
      <3>1. Kids(u, f) = Kids(s, f) /\ u.pc[f] = s.pc[f]
        BY <1>7, <1>10, <2>3
      <3> QED
        BY <2>1, <3>1
    <2>4. ASSUME f # p, f # NIDRootFolder PROVE RowSays(Rows(u, u.pc[f].parent)[f], u.pc[f])
      <3>1. u.pc[f] = s.pc[f] /\ s.pc[f].parent \in DOMAIN u.pc /\ f # nid
        BY <1>2, <1>7, <1>9, <2>4
      <3>2. f \in DOMAIN Rows(s, s.pc[f].parent)
        BY <1>0, <1>7, <3>1 DEF Settled, Kids
      <3>3. Rows(u, s.pc[f].parent)[f] = Rows(s, s.pc[f].parent)[f]
        BY <1>8, <3>1, <3>2
      <3> QED
        BY <2>1, <2>4, <3>1, <3>3
    <2> QED
      BY <2>2, <2>3, <2>4
  <1>13. Anchored(u)
    <2> SUFFICES ASSUME NEW S \in SUBSET DOMAIN u.pc, S # {},
                        \A f \in S \ {NIDRootFolder} : u.pc[f].parent \in S
                 PROVE  NIDRootFolder \in S
      BY DEF Anchored
    <2>1. S \in SUBSET DOMAIN s.pc /\ \A f \in S \ {NIDRootFolder} : s.pc[f].parent \in S
      BY <1>7
    <2> QED
      BY <1>0, <2>1 DEF Anchored
  <1>14. Distinct(u)
    <2>1. ASSUME NEW f \in DOMAIN u.pc \ {NIDRootFolder}, NEW g \in DOMAIN u.pc \ {NIDRootFolder},
                 u.pc[f].parent = u.pc[g].parent /\ u.pc[f].name = u.pc[g].name
          PROVE  f = g \/ (protected(f) /\ protected(g))
      <3>1. /\ f \in DOMAIN s.pc \ {NIDRootFolder} /\ u.pc[f] = s.pc[f]
            /\ g \in DOMAIN s.pc \ {NIDRootFolder} /\ u.pc[g] = s.pc[g]
        BY <1>7
      <3>2. s.pc[f].parent = s.pc[g].parent /\ s.pc[f].name = s.pc[g].name
        BY <2>1, <3>1
      <3> QED
        BY <1>0, <3>1, <3>2 DEF Distinct
    <2>2. \A f, g \in DOMAIN u.pc \ {NIDRootFolder} :
            u.pc[f].parent = u.pc[g].parent /\ u.pc[f].name = u.pc[g].name
              => f = g \/ (protected(f) /\ protected(g))
      BY <2>1
    <2> QED
      BY <2>2 DEF Distinct
  <1>15. Counted(u)
    <2>1. \A f : HeldBy(u, f) = HeldBy(s, f) /\ UnreadIn(u, f) = UnreadIn(s, f)
      BY <1>6 DEF HeldBy, UnreadIn
    <2>2. ASSUME NEW f \in DOMAIN u.pc
          PROVE  /\ u.contents[Index(f)] = HeldBy(s, f)
                 /\ u.pc[f].content = Cardinality(HeldBy(s, f))
                 /\ u.pc[f].unread = Cardinality(UnreadIn(s, f))
      <3>1. f \in DOMAIN s.pc /\ u.pc[f] = s.pc[f]
        BY <1>7
      <3>2. u.contents[Index(f)] = s.contents[Index(f)]
        BY <1>8
      <3> QED
        BY <1>0, <3>1, <3>2 DEF Counted
    <2> QED
      BY <2>1, <2>2 DEF Counted
  <1>16. Filed(u)
    <2>1. ASSUME NEW m \in DOMAIN s.msg PROVE s.msg[m].folder \notin gone
      <3>1. ASSUME s.msg[m].folder \in gone PROVE FALSE
        <4>1. PICK f : f = s.msg[m].folder
          OBVIOUS
        <4>2. f \in DOMAIN s.pc /\ s.contents[Index(f)] = {} /\ m \in HeldBy(s, f)
          BY <1>1, <1>2, <3>1, <4>1 DEF HeldBy
        <4> QED
          BY <1>0, <4>2 DEF Counted
      <3> QED
        BY <3>1
    <2> QED
      BY <1>0, <1>6, <1>7, <2>1 DEF Filed
  <1> QED
    BY <1>6, <1>7, <1>11, <1>12, <1>13, <1>14, <1>15, <1>16 DEF Shaped

LEMMA DeletedOK ==
  ASSUME NEW s, TreeOK(s), NEW nid, CanDelete(s, nid),
         NEW t, t = syncFlags(Pruned(s, parentOf(s, nid), nid, Subtree(s, nid)), parentOf(s, nid))
  PROVE  TreeOK(t) /\ DOMAIN t.pc \subseteq DOMAIN s.pc /\ t.msg = s.msg
  <1>1. PICK p : p = s.pc[nid].parent
    OBVIOUS
  <1>2. PICK gone : gone = Subtree(s, nid)
    OBVIOUS
  <1>3. PICK u : u = Pruned(s, p, nid, gone)
    OBVIOUS
  <1>4. t = syncFlags(u, p)
    BY <1>1, <1>2, <1>3 DEF parentOf, CanDelete
  <1>5. /\ p \in DOMAIN u.pc /\ DOMAIN u.pc = DOMAIN s.pc \ gone /\ u.msg = s.msg
        /\ Sound(u) /\ Settled(u, {p}, {}) /\ Shaped(u)
    BY <1>1, <1>2, <1>3, PrunedStore
  <1>6. Alike(u, t) /\ Sound(t) /\ Settled(t, {p} \ {p}, {})
    BY <1>4, <1>5, SyncAlike
  <1>7. {p} \ {p} = {}
    OBVIOUS
  <1>8. Shaped(t)
    BY <1>5, <1>6, AlikeShaped
  <1> QED
    BY <1>5, <1>6, <1>7, <1>8 DEF TreeOK, Alike

-----------------------------------------------------------------------------
(* Messages *)

LEMMA MaxOfTwo ==
  ASSUME NEW a \in Int, NEW b \in Int
  PROVE  Max({a, b}) = IF a >= b THEN a ELSE b
  <1>1. PICK c : c = IF a >= b THEN a ELSE b
    OBVIOUS
  <1>2. c \in {a, b} /\ \A y \in {a, b} : c >= y
    BY <1>1
  <1>3. \A x \in {a, b} : (\A y \in {a, b} : x >= y) => x = c
    BY <1>1
  <1> QED
    BY <1>1, <1>2, <1>3 DEF Max

\* u is the store s with other messages in one folder, whose counts are to change
\* by dc and du.
Recounts(s, u, folder, dc, du) ==
  /\ IsStore(u) /\ u.pc = s.pc /\ u.hierarchy = s.hierarchy
  /\ DOMAIN u.contents = DOMAIN s.contents
  /\ \A f \in DOMAIN s.pc : f # folder =>
       /\ u.contents[Index(f)] = s.contents[Index(f)]
       /\ HeldBy(u, f) = HeldBy(s, f) /\ UnreadIn(u, f) = UnreadIn(s, f)
  /\ Filed(u) /\ u.contents[Index(folder)] = HeldBy(u, folder)
  /\ Cardinality(HeldBy(u, folder)) \in Nat /\ Cardinality(UnreadIn(u, folder)) \in Nat
  /\ s.pc[folder].content + dc = Cardinality(HeldBy(u, folder))
  /\ s.pc[folder].unread + du = Cardinality(UnreadIn(u, folder))

\* Messages and their table change and the counts of the folder with them:
\* what is left to show is that the counts are right again.
LEMMA AdjustedOK ==
  ASSUME NEW s, TreeOK(s), NEW folder \in DOMAIN s.pc, NEW u,
         NEW dc \in Int, NEW du \in Int, Recounts(s, u, folder, dc, du),
         NEW t, t = adjustCounts(u, folder, dc, du)
  PROVE  TreeOK(t) /\ DOMAIN t.pc = DOMAIN s.pc /\ t.msg = u.msg /\ SamePlaces(s, t)
  <1> USE DEF Recounts
  <1>0. Sound(s) /\ Settled(s, {}, {}) /\ Anchored(s) /\ Distinct(s) /\ Counted(s)
    BY DEF TreeOK, Shaped
  <1>1. PICK old : old = s.pc[folder]
    OBVIOUS
  <1>2. IsPC(old) /\ old.content \in Nat /\ old.unread \in Nat
    BY <1>0, <1>1 DEF Sound, IsPC
  <1>3. PICK c, n : c = Max({0, old.content + dc}) /\ n = Max({0, old.unread + du})
    OBVIOUS
  <1>4. /\ c = Cardinality(HeldBy(u, folder)) /\ n = Cardinality(UnreadIn(u, folder))
        /\ c \in Nat /\ n \in Nat
    <2>1. old.content + dc \in Nat /\ old.unread + du \in Nat /\ 0 \in Int
      BY <1>1
    <2>2. /\ c = IF 0 >= old.content + dc THEN 0 ELSE old.content + dc
          /\ n = IF 0 >= old.unread + du THEN 0 ELSE old.unread + du
      BY <1>3, <2>1, MaxOfTwo
    <2> QED
      BY <1>1, <2>1, <2>2
  <1>5. PICK pc : pc = [old EXCEPT !.content = c, !.unread = n]
    OBVIOUS
  <1>6. /\ pc.parent = old.parent /\ pc.name = old.name /\ pc.content = c /\ pc.unread = n
        /\ pc.subfolders = old.subfolders /\ IsPC(pc)
    BY <1>2, <1>4, <1>5 DEF IsPC
  <1>7. t = mutatePC(u, folder, pc)
    BY <1>1, <1>3, <1>5 DEF adjustCounts
  <1>8. (\A f : Kids(u, f) = Kids(s, f)) /\ (\A f : Rows(u, f) = Rows(s, f))
    BY DEF Kids, Rows
  <1>9. Sound(u) /\ Settled(u, {}, {})
    <2>1. Sound(u)
      BY <1>0 DEF Sound
    <2>2. Settled(u, {}, {})
      BY <1>0, <1>8 DEF Settled
    <2> QED
      BY <2>1, <2>2
  <1>10. SameBut(u, t, folder, pc) /\ Sound(t) /\ Settled(t, {} \ {folder}, {} \ {folder})
    <2>1. pc.subfolders <=> Kids(u, folder) # {}
      BY <1>0, <1>1, <1>6, <1>8 DEF Settled
    <2>2. Kids(u, folder) \cap {} = {} /\ {} \subseteq {} /\ NIDRootFolder \notin {}
      OBVIOUS
    <2>3. folder \in DOMAIN u.pc /\ pc.parent = u.pc[folder].parent /\ IsPC(pc)
      BY <1>1, <1>6
    <2> QED
      BY <1>7, <1>9, <2>1, <2>2, <2>3, MutateSettles
  <1>11. {} \ {folder} = {}
    OBVIOUS
  <1>12. /\ DOMAIN t.pc = DOMAIN s.pc /\ t.contents = u.contents /\ t.msg = u.msg
         /\ t.pc[folder] = pc
         /\ \A f \in DOMAIN s.pc : f # folder => t.pc[f] = s.pc[f]
         /\ \A f \in DOMAIN s.pc : t.pc[f].parent = s.pc[f].parent /\ t.pc[f].name = s.pc[f].name
    BY <1>1, <1>6, <1>10 DEF SameBut
  <1>13. Anchored(t)
    BY <1>0, <1>12 DEF Anchored
  <1>14. Distinct(t)
    BY <1>0, <1>12 DEF Distinct
  <1>15. Counted(t)
    <2>1. \A f : HeldBy(t, f) = HeldBy(u, f) /\ UnreadIn(t, f) = UnreadIn(u, f)
      BY <1>12 DEF HeldBy, UnreadIn
    <2>2. ASSUME NEW f \in DOMAIN s.pc, f # folder
          PROVE  /\ t.contents[Index(f)] = HeldBy(t, f)
                 /\ t.pc[f].content = Cardinality(HeldBy(t, f))
                 /\ t.pc[f].unread = Cardinality(UnreadIn(t, f))
      BY <1>0, <1>12, <2>1, <2>2 DEF Counted
    <2>3. /\ t.contents[Index(folder)] = HeldBy(t, folder)
          /\ t.pc[folder].content = Cardinality(HeldBy(t, folder))
          /\ t.pc[folder].unread = Cardinality(UnreadIn(t, folder))
      BY <1>4, <1>6, <1>12, <2>1
    <2> QED
      BY <1>12, <2>2, <2>3 DEF Counted
  <1>16. Filed(t)
    BY <1>12 DEF Filed
  <1>17. SamePlaces(s, t)
    BY <1>12 DEF SamePlaces
  <1> QED
    BY <1>10, <1>11, <1>12, <1>13, <1>14, <1>15, <1>16, <1>17 DEF TreeOK, Shaped

LEMMA MessageAddedOK ==
  ASSUME NEW s, TreeOK(s), NEW folder \in DOMAIN s.pc, NEW m, m \notin DOMAIN s.msg,
         NEW read, NEW t, t = WithMessage(s, m, folder, read)
  PROVE  /\ TreeOK(t) /\ DOMAIN t.pc = DOMAIN s.pc /\ SamePlaces(s, t)
         /\ t.msg = Put(s.msg, m, [folder |-> folder, read |-> read])
  <1>0. Sound(s) /\ Counted(s) /\ Filed(s)
    BY DEF TreeOK, Shaped
  <1>1. PICK new : new = [folder |-> folder, read |-> read]
    OBVIOUS
  <1>2. PICK i : i = Index(folder)
    OBVIOUS
  <1>3. PICK u : u = [s EXCEPT !.msg = Put(@, m, new), !.contents[i] = @ \cup {m}]
    OBVIOUS
  <1>4. PICK du : du = IF read THEN 0 ELSE 1
    OBVIOUS
  <1>5. t = adjustCounts(u, folder, 1, du) /\ du \in Int /\ 1 \in Int
    BY <1>1, <1>2, <1>3, <1>4 DEF WithMessage
  <1>6. i \in DOMAIN s.contents /\ IsStore(s)
    BY <1>0, <1>2 DEF Sound
  <1>7. /\ IsStore(u) /\ u.pc = s.pc /\ u.hierarchy = s.hierarchy
        /\ u.msg = Put(s.msg, m, new)
        /\ u.contents = [s.contents EXCEPT ![i] = @ \cup {m}]
    BY <1>3, <1>6 DEF IsStore
  <1>8. /\ DOMAIN u.msg = DOMAIN s.msg \cup {m} /\ u.msg[m] = new
        /\ \A x \in DOMAIN s.msg : u.msg[x] = s.msg[x]
    BY <1>7 DEF Put
  <1>9. /\ DOMAIN u.contents = DOMAIN s.contents
        /\ \A f \in DOMAIN s.pc : f # folder => u.contents[Index(f)] = s.contents[Index(f)]
        /\ u.contents[Index(folder)] = s.contents[Index(folder)] \cup {m}
    BY <1>0, <1>2, <1>6, <1>7 DEF Sound
  <1>10. new.folder = folder /\ new.read = read
    BY <1>1
  <1>11. \A f : f # folder => HeldBy(u, f) = HeldBy(s, f) /\ UnreadIn(u, f) = UnreadIn(s, f)
    BY <1>8, <1>10 DEF HeldBy, UnreadIn
  <1>12. /\ HeldBy(u, folder) = HeldBy(s, folder) \cup {m} /\ m \notin HeldBy(s, folder)
         /\ UnreadIn(u, folder) = IF read THEN UnreadIn(s, folder) ELSE UnreadIn(s, folder) \cup {m}
         /\ m \notin UnreadIn(s, folder)
    BY <1>8, <1>10 DEF HeldBy, UnreadIn
  <1>13. IsFiniteSet(HeldBy(s, folder)) /\ IsFiniteSet(UnreadIn(s, folder))
    BY <1>0, FS_Subset DEF Filed, HeldBy, UnreadIn
  <1>14. /\ Cardinality(HeldBy(u, folder)) = Cardinality(HeldBy(s, folder)) + 1
         /\ Cardinality(UnreadIn(u, folder)) = Cardinality(UnreadIn(s, folder)) + du
         /\ Cardinality(HeldBy(s, folder)) \in Nat /\ Cardinality(UnreadIn(s, folder)) \in Nat
    <2>1. Cardinality(HeldBy(s, folder)) \in Nat /\ Cardinality(UnreadIn(s, folder)) \in Nat
      BY <1>13, FS_CardinalityType
    <2>2. Cardinality(HeldBy(u, folder)) = Cardinality(HeldBy(s, folder)) + 1
      BY <1>12, <1>13, FS_AddElement
    <2>3. CASE read
      BY <1>4, <1>12, <2>1, <2>2, <2>3
    <2>4. CASE ~ read
      <3>1. UnreadIn(u, folder) = UnreadIn(s, folder) \cup {m}
        BY <1>12, <2>4
      <3>2. Cardinality(UnreadIn(s, folder) \cup {m}) = Cardinality(UnreadIn(s, folder)) + 1
        BY <1>12, <1>13, FS_AddElement
      <3> QED
        BY <1>4, <2>1, <2>2, <2>4, <3>1, <3>2
    <2> QED
      BY <2>3, <2>4
  <1>15. /\ s.pc[folder].content = Cardinality(HeldBy(s, folder))
         /\ s.pc[folder].unread = Cardinality(UnreadIn(s, folder))
         /\ s.contents[Index(folder)] = HeldBy(s, folder)
    BY <1>0 DEF Counted
  <1>16. Filed(u)
    <2>1. IsFiniteSet(DOMAIN u.msg)
      BY <1>0, <1>8, FS_AddElement DEF Filed
    <2> QED
      BY <1>0, <1>7, <1>8, <1>10, <2>1 DEF Filed
  <1>17. TreeOK(t) /\ DOMAIN t.pc = DOMAIN s.pc /\ t.msg = u.msg /\ SamePlaces(s, t)
    <2>1. /\ Cardinality(HeldBy(u, folder)) \in Nat /\ Cardinality(UnreadIn(u, folder)) \in Nat
          /\ s.pc[folder].content + 1 = Cardinality(HeldBy(u, folder))
          /\ s.pc[folder].unread + du = Cardinality(UnreadIn(u, folder))
          /\ u.contents[Index(folder)] = HeldBy(u, folder)
      BY <1>4, <1>9, <1>12, <1>14, <1>15
    <2>2. /\ IsStore(u) /\ u.pc = s.pc /\ u.hierarchy = s.hierarchy
          /\ DOMAIN u.contents = DOMAIN s.contents
          /\ \A f \in DOMAIN s.pc : f # folder =>
               /\ u.contents[Index(f)] = s.contents[Index(f)]
               /\ HeldBy(u, f) = HeldBy(s, f) /\ UnreadIn(u, f) = UnreadIn(s, f)
      BY <1>7, <1>9, <1>11
    <2>3. Recounts(s, u, folder, 1, du)
      BY <1>16, <2>1, <2>2 DEF Recounts
    <2>4. folder \in DOMAIN s.pc
      BY <1>0
    <2> QED
      BY <1>5, <2>3, <2>4, AdjustedOK
  <1> QED
    BY <1>1, <1>7, <1>17

\* The store DeleteMessage leaves.
WithoutMessage(s, m, folder) ==
  adjustCounts([s EXCEPT !.contents[Index(folder)] = @ \ {m}, !.msg = Without(@, {m})],
               folder, -1, IF s.msg[m].read THEN 0 ELSE -1)

LEMMA MessageRemovedOK ==
  ASSUME NEW s, TreeOK(s), NEW m \in DOMAIN s.msg, NEW folder, folder = s.msg[m].folder,
         NEW t, t = WithoutMessage(s, m, folder)
  PROVE  TreeOK(t) /\ DOMAIN t.pc = DOMAIN s.pc /\ t.msg = Without(s.msg, {m})
  <1>0. Sound(s) /\ Counted(s) /\ Filed(s) /\ folder \in DOMAIN s.pc
    BY DEF TreeOK, Shaped, Filed
  <1>2. PICK i : i = Index(folder)
    OBVIOUS
  <1>3. PICK u : u = [s EXCEPT !.contents[i] = @ \ {m}, !.msg = Without(@, {m})]
    OBVIOUS
  <1>4. PICK du : du = IF s.msg[m].read THEN 0 ELSE -1
    OBVIOUS
  <1>5. t = adjustCounts(u, folder, -1, du) /\ du \in Int /\ -1 \in Int
    BY <1>2, <1>3, <1>4 DEF WithoutMessage
  <1>6. i \in DOMAIN s.contents /\ IsStore(s)
    BY <1>0, <1>2 DEF Sound
  <1>7. /\ IsStore(u) /\ u.pc = s.pc /\ u.hierarchy = s.hierarchy
        /\ u.msg = Without(s.msg, {m})
        /\ u.contents = [s.contents EXCEPT ![i] = @ \ {m}]
    BY <1>3, <1>6 DEF IsStore
  <1>8. /\ DOMAIN u.msg = DOMAIN s.msg \ {m}
        /\ \A x \in DOMAIN u.msg : u.msg[x] = s.msg[x]
    BY <1>7 DEF Without
  <1>9. /\ DOMAIN u.contents = DOMAIN s.contents
        /\ \A f \in DOMAIN s.pc : f # folder => u.contents[Index(f)] = s.contents[Index(f)]
        /\ u.contents[Index(folder)] = s.contents[Index(folder)] \ {m}
    BY <1>0, <1>2, <1>6, <1>7 DEF Sound
  <1>11. \A f : f # folder => HeldBy(u, f) = HeldBy(s, f) /\ UnreadIn(u, f) = UnreadIn(s, f)
    BY <1>8 DEF HeldBy, UnreadIn
  <1>12. /\ HeldBy(u, folder) = HeldBy(s, folder) \ {m} /\ m \in HeldBy(s, folder)
         /\ UnreadIn(u, folder) = UnreadIn(s, folder) \ {m}
         /\ m \in UnreadIn(s, folder) <=> ~ s.msg[m].read
    BY <1>8 DEF HeldBy, UnreadIn
  <1>13. IsFiniteSet(HeldBy(s, folder)) /\ IsFiniteSet(UnreadIn(s, folder))
    BY <1>0, FS_Subset DEF Filed, HeldBy, UnreadIn
  <1>14. /\ Cardinality(HeldBy(u, folder)) = Cardinality(HeldBy(s, folder)) - 1
         /\ Cardinality(UnreadIn(u, folder)) = Cardinality(UnreadIn(s, folder)) + du
         /\ Cardinality(HeldBy(s, folder)) \in Nat /\ Cardinality(UnreadIn(s, folder)) \in Nat
         /\ Cardinality(HeldBy(u, folder)) \in Nat /\ Cardinality(UnreadIn(u, folder)) \in Nat
    <2>1. Cardinality(HeldBy(s, folder)) \in Nat /\ Cardinality(UnreadIn(s, folder)) \in Nat
      BY <1>13, FS_CardinalityType
    <2>2. /\ IsFiniteSet(HeldBy(u, folder)) /\ IsFiniteSet(UnreadIn(u, folder))
          /\ Cardinality(HeldBy(u, folder)) = Cardinality(HeldBy(s, folder)) - 1
          /\ Cardinality(UnreadIn(u, folder)) =
               IF m \in UnreadIn(s, folder) THEN Cardinality(UnreadIn(s, folder)) - 1
                                            ELSE Cardinality(UnreadIn(s, folder))
      BY <1>12, <1>13, FS_RemoveElement
    <2>3. Cardinality(HeldBy(u, folder)) \in Nat /\ Cardinality(UnreadIn(u, folder)) \in Nat
      BY <2>2, FS_CardinalityType
    <2> QED
      BY <1>4, <1>12, <2>1, <2>2, <2>3
  <1>15. /\ s.pc[folder].content = Cardinality(HeldBy(s, folder))
         /\ s.pc[folder].unread = Cardinality(UnreadIn(s, folder))
         /\ s.contents[Index(folder)] = HeldBy(s, folder)
    BY <1>0 DEF Counted
  <1>16. Filed(u)
    <2>1. IsFiniteSet(DOMAIN u.msg)
      BY <1>0, <1>8, FS_Subset DEF Filed
    <2> QED
      BY <1>0, <1>7, <1>8, <2>1 DEF Filed
  <1>17. TreeOK(t) /\ DOMAIN t.pc = DOMAIN s.pc /\ t.msg = u.msg
    <2>1. /\ Cardinality(HeldBy(u, folder)) \in Nat /\ Cardinality(UnreadIn(u, folder)) \in Nat
          /\ s.pc[folder].content + -1 = Cardinality(HeldBy(u, folder))
          /\ s.pc[folder].unread + du = Cardinality(UnreadIn(u, folder))
          /\ u.contents[Index(folder)] = HeldBy(u, folder)
      BY <1>4, <1>9, <1>12, <1>14, <1>15
    <2>2. /\ IsStore(u) /\ u.pc = s.pc /\ u.hierarchy = s.hierarchy
          /\ DOMAIN u.contents = DOMAIN s.contents
          /\ \A f \in DOMAIN s.pc : f # folder =>
               /\ u.contents[Index(f)] = s.contents[Index(f)]
               /\ HeldBy(u, f) = HeldBy(s, f) /\ UnreadIn(u, f) = UnreadIn(s, f)
      BY <1>7, <1>9, <1>11
    <2>3. Recounts(s, u, folder, -1, du)
      BY <1>16, <2>1, <2>2 DEF Recounts
    <2>4. folder \in DOMAIN s.pc
      BY <1>0
    <2> QED
      BY <1>5, <2>3, <2>4, AdjustedOK
  <1> QED
    BY <1>7, <1>17

-----------------------------------------------------------------------------
(* The store WriteMinimum leaves *)

LEMMA MinimumOK == TreeOK(Minimum)
  <1> DEFINE D == {NIDRootFolder, IPM, Waste, Finder}
             named(f) == IF f = IPM THEN IPMName ELSE IF f = Waste THEN WasteName ELSE FinderName
             leaf(f) == PC(NIDRootFolder, named(f))
             top == [PC(NoNID, "") EXCEPT !.subfolders = TRUE]
             pc == [f \in D |-> IF f = NIDRootFolder THEN top ELSE leaf(f)]
             I == {Index(f) : f \in D}
             under == [f \in {IPM, Waste, Finder} |->
                         [name |-> pc[f].name, content |-> 0, unread |-> 0,
                          subfolders |-> FALSE]]
             rows == [i \in I |-> IF i # Index(NIDRootFolder) THEN NoRows ELSE under]
             held == [i \in I |-> {}]
  <1>1. PICK s : s = Minimum
    OBVIOUS
  <1>2. s = [pc |-> pc, hierarchy |-> rows, contents |-> held, msg |-> NoRows]
    BY <1>1 DEF Minimum
  <1>3. FinderIndex \in Nat \ {0, 1, 2}
    BY FolderAssumption
  <1>4. /\ NIDRootFolder # IPM /\ NIDRootFolder # Waste /\ NIDRootFolder # Finder
        /\ IPM # Waste /\ IPM # Finder /\ Waste # Finder
        /\ NoNID \notin D
        /\ Index(NIDRootFolder) = 0 /\ Index(IPM) = 1 /\ Index(Waste) = 2
        /\ Index(Finder) = FinderIndex
    BY <1>3 DEF NIDRootFolder, IPM, Waste, Finder, NoNID, Index
  <1>5. /\ top.parent = NoNID /\ top.content = 0 /\ top.unread = 0 /\ top.subfolders = TRUE
        /\ IsPC(top)
    BY DEF PC, IsPC
  <1>6. \A f : /\ leaf(f).parent = NIDRootFolder /\ leaf(f).name = named(f) /\ leaf(f).content = 0
               /\ leaf(f).unread = 0 /\ leaf(f).subfolders = FALSE /\ IsPC(leaf(f))
    BY DEF PC, IsPC
  <1> HIDE DEF top, leaf
  <1>7. /\ DOMAIN pc = D /\ pc[NIDRootFolder] = top
        /\ \A f \in D \ {NIDRootFolder} : pc[f] = leaf(f)
    OBVIOUS
  <1>8. /\ DOMAIN rows = I /\ DOMAIN held = I /\ (\A f \in D : Index(f) \in I)
        /\ (\A i \in I : held[i] = {})
    OBVIOUS
  <1>9. /\ rows[Index(NIDRootFolder)] = under
        /\ \A f \in D \ {NIDRootFolder} : rows[Index(f)] = NoRows
    <2>1. \A f \in D \ {NIDRootFolder} : Index(f) # Index(NIDRootFolder)
      BY <1>3, <1>4
    <2> HIDE DEF under
    <2> QED
      BY <2>1
  <1>10. /\ DOMAIN under = {IPM, Waste, Finder} /\ DOMAIN NoRows = {}
         /\ \A f \in {IPM, Waste, Finder} :
              /\ under[f].name = pc[f].name /\ under[f].content = 0 /\ under[f].unread = 0
              /\ under[f].subfolders = FALSE
    <2> HIDE DEF pc
    <2> QED
      BY DEF NoRows
  <1> HIDE DEF pc, rows, under, held, I
  <1>11. /\ s.pc = pc /\ s.hierarchy = rows /\ s.contents = held /\ s.msg = NoRows
         /\ IsStore(s)
    BY <1>2 DEF IsStore
  <1>12. \A f \in D : IsPC(s.pc[f]) /\ s.pc[f].content = 0 /\ s.pc[f].unread = 0
    BY <1>5, <1>6, <1>7, <1>11
  <1>13. /\ DOMAIN s.pc = D /\ s.pc[NIDRootFolder].parent = NoNID
         /\ \A f \in D \ {NIDRootFolder} :
              s.pc[f].parent = NIDRootFolder /\ s.pc[f].name = named(f)
    BY <1>5, <1>6, <1>7, <1>11
  <1>14. /\ Kids(s, NIDRootFolder) = {IPM, Waste, Finder}
         /\ \A f \in D \ {NIDRootFolder} : Kids(s, f) = {}
    BY <1>4, <1>13 DEF Kids
  <1>15. IsFiniteSet(D)
    <2>1. \A S, x : IsFiniteSet(S) => IsFiniteSet(S \cup {x})
      BY FS_AddElement
    <2>2. D = ((({} \cup {NIDRootFolder}) \cup {IPM}) \cup {Waste}) \cup {Finder}
      OBVIOUS
    <2> HIDE DEF D
    <2> QED
      BY <2>1, <2>2, FS_EmptySet
  <1>16. Sound(s)
    <2>1. \A f, g \in D : Index(f) = Index(g) => f = g
      BY <1>3, <1>4
    <2>2. \A f \in DOMAIN s.pc \ {NIDRootFolder} : s.pc[f].parent \in DOMAIN s.pc \ {f}
      BY <1>13
    <2>3. \A f \in DOMAIN s.pc : Index(f) \in DOMAIN s.hierarchy /\ Index(f) \in DOMAIN s.contents
      BY <1>8, <1>11, <1>13
    <2> QED
      BY <1>4, <1>11, <1>12, <1>13, <1>15, <2>1, <2>2, <2>3 DEF Sound
  <1>17. Settled(s, {}, {})
    <2>1. ASSUME NEW f \in D PROVE DOMAIN Rows(s, f) = Kids(s, f)
      BY <1>9, <1>10, <1>11, <1>14 DEF Rows
    <2>2. ASSUME NEW f \in D PROVE s.pc[f].subfolders <=> Kids(s, f) # {}
      BY <1>5, <1>6, <1>7, <1>11, <1>14
    <2>3. ASSUME NEW f \in D, f # NIDRootFolder PROVE RowSays(Rows(s, s.pc[f].parent)[f], s.pc[f])
      <3>1. Rows(s, s.pc[f].parent)[f] = under[f] /\ s.pc[f] = leaf(f) /\ pc[f] = leaf(f)
        BY <1>7, <1>9, <1>11, <1>13, <2>3 DEF Rows
      <3>2. f \in {IPM, Waste, Finder}
        BY <2>3
      <3>3. /\ under[f].name = leaf(f).name /\ under[f].content = 0 /\ under[f].unread = 0
            /\ under[f].subfolders = FALSE
        BY <1>10, <3>1, <3>2
      <3>4. leaf(f).content = 0 /\ leaf(f).unread = 0 /\ leaf(f).subfolders = FALSE
        BY <1>6
      <3>5. RowSays(under[f], leaf(f))
        BY <3>3, <3>4 DEF RowSays
      <3> QED
        BY <3>1, <3>5
    <2> QED
      BY <1>13, <2>1, <2>2, <2>3 DEF Settled
  <1>18. Anchored(s)
    BY <1>13 DEF Anchored
  <1>19. Distinct(s)
    <2>1. \A f \in DOMAIN s.pc \ {NIDRootFolder} : protected(f)
      BY <1>13 DEF protected, IsSearch, Finder
    <2> QED
      BY <2>1 DEF Distinct
  <1>20. DOMAIN s.msg = {}
    BY <1>10, <1>11
  <1>21. Counted(s)
    <2>1. \A f : HeldBy(s, f) = {} /\ UnreadIn(s, f) = {}
      BY <1>20 DEF HeldBy, UnreadIn
    <2> QED
      BY <1>8, <1>11, <1>12, <1>13, <2>1, FS_EmptySet DEF Counted
  <1>22. Filed(s)
    BY <1>20, FS_EmptySet DEF Filed
  <1> QED
    BY <1>1, <1>16, <1>17, <1>18, <1>19, <1>21, <1>22 DEF TreeOK, Shaped

-----------------------------------------------------------------------------
(* The specification *)

LEMMA TreeInit == Init => TreeInv
  <1> SUFFICES ASSUME Init PROVE TreeInv
    OBVIOUS
  <1>1. tree = Minimum /\ nextFolder = 3 /\ nextMsg = 1
    BY DEF Init, WriteMinimum
  <1>2. DOMAIN Minimum.pc = {NIDRootFolder, IPM, Waste, Finder} /\ DOMAIN Minimum.msg = {}
    BY DEF Minimum, NoRows
  <1>3. Fresh
    BY <1>1, <1>2 DEF Fresh, NIDRootFolder, IPM, Waste, Index
  <1> QED
    BY <1>1, <1>3, MinimumOK DEF TreeInv

\* What the steps do to messages, as MessagesKept has it.
KeepMessages ==
  \A m \in DOMAIN tree.msg : m \in DOMAIN tree'.msg => tree'.msg[m] = tree.msg[m]

LEMMA TreeInvPrimed == TreeOK(tree') /\ Fresh' <=> TreeInv'
  BY DEF TreeInv, TreeOK, Sound, Settled, Shaped, Anchored, Distinct, Counted, Filed, Kids,
         HeldBy, UnreadIn, Rows, IsStore

LEMMA CreateStep ==
  ASSUME MaxIndex < FinderIndex, TreeInv, NEW f, NEW n, Create(f, n)
  PROVE  /\ TreeOK(tree') /\ Fresh' /\ KeepMessages
         /\ <<"normal", nextFolder>> \notin DOMAIN tree.pc
         /\ Placed(tree, tree', <<"normal", nextFolder>>, f, n)
  <1>0. TreeOK(tree) /\ Fresh /\ f \in DOMAIN tree.pc
    BY DEF TreeInv, Create, CanCreate, canHoldChildren
  <1>1. PICK nid : nid = <<"normal", nextFolder>>
    OBVIOUS
  <1>2. nextFolder \in Nat /\ nextFolder < FinderIndex /\ nextFolder' = nextFolder + 1
    BY <1>0, FolderAssumption DEF Create, Fresh
  <1>3. Index(nid) = nextFolder /\ Index(Finder) = FinderIndex /\ nid # NoNID
    BY <1>1 DEF Index, Finder, NoNID
  <1>4. \A g \in DOMAIN tree.pc : Index(g) # Index(nid)
    BY <1>0, <1>2, <1>3, FolderAssumption DEF Fresh
  <1>5. Unused(tree, nid)
    BY <1>3, <1>4 DEF Unused
  <1>6. ~ collision(tree, f, n, NoNID) /\ tree' = Created(tree, nid, f, n)
    BY <1>1 DEF Create, CanCreate
  <1>7. TreeOK(tree') /\ Placed(tree, tree', nid, f, n)
    BY <1>0, <1>5, <1>6, CreatedOK
  <1>8. DOMAIN tree'.pc = DOMAIN tree.pc \cup {nid} /\ tree'.msg = tree.msg
    BY <1>7 DEF Placed
  <1>9. Fresh'
    BY <1>0, <1>2, <1>3, <1>8 DEF Fresh, Create
  <1>10. KeepMessages
    BY <1>8 DEF KeepMessages
  <1> QED
    BY <1>1, <1>5, <1>7, <1>9, <1>10 DEF Unused

LEMMA PlannedStep ==
  ASSUME TreeInv, NEW f, NEW r, NEW m \in Nat, CreatePlannedMessage(m, f, r)
  PROVE  /\ TreeOK(tree') /\ Fresh' /\ KeepMessages
         /\ DOMAIN tree'.pc = DOMAIN tree.pc /\ SamePlaces(tree, tree')
         /\ tree'.msg = Put(tree.msg, m, [folder |-> f, read |-> r])
  <1>0. TreeOK(tree) /\ Fresh /\ f \in DOMAIN tree.pc
    BY DEF TreeInv, CreatePlannedMessage, canHoldMessages
  <1>1. m \notin DOMAIN tree.msg /\ tree' = WithMessage(tree, m, f, r)
    BY DEF CreatePlannedMessage
  <1>2. /\ TreeOK(tree') /\ DOMAIN tree'.pc = DOMAIN tree.pc /\ SamePlaces(tree, tree')
        /\ tree'.msg = Put(tree.msg, m, [folder |-> f, read |-> r])
    BY <1>0, <1>1, MessageAddedOK
  <1>3. /\ DOMAIN tree'.msg = DOMAIN tree.msg \cup {m}
        /\ \A x \in DOMAIN tree.msg : tree'.msg[x] = tree.msg[x]
    BY <1>1, <1>2 DEF Put
  <1>4. m \in Nat /\ nextMsg \in Nat
    BY <1>0 DEF Fresh
  <1>5. nextMsg' = Max({nextMsg, m + 1}) /\ nextMsg \in Int /\ m + 1 \in Int
    BY <1>4 DEF CreatePlannedMessage
  <1>6. nextMsg' \in Nat /\ nextMsg <= nextMsg' /\ m + 1 <= nextMsg'
    BY <1>4, <1>5, MaxOfTwo
  <1>7. \A x \in DOMAIN tree'.msg : x \in 0 .. nextMsg' - 1
    <2>1. ASSUME NEW x \in DOMAIN tree.msg PROVE x \in 0 .. nextMsg' - 1
      <3>1. x \in 0 .. nextMsg - 1
        BY <1>0 DEF Fresh
      <3> QED
        BY <1>4, <1>6, <3>1
    <2>2. m \in 0 .. nextMsg' - 1
      BY <1>4, <1>5, <1>6
    <2> QED
      BY <1>3, <2>1, <2>2
  <1>8. Fresh'
    BY <1>0, <1>2, <1>6, <1>7 DEF Fresh, CreatePlannedMessage
  <1> QED
    BY <1>2, <1>3, <1>8 DEF KeepMessages

LEMMA TreeStep ==
  ASSUME MaxIndex < FinderIndex, TreeInv, [Next]_vars
  PROVE  TreeInv' /\ KeepMessages
  <1>0. TreeOK(tree) /\ Fresh /\ Sound(tree)
    BY DEF TreeInv, TreeOK
  <1> SUFFICES TreeOK(tree') /\ Fresh' /\ KeepMessages
    BY TreeInvPrimed
  <1>1. ASSUME NEW f \in DOMAIN tree.pc, NEW n \in Names, Create(f, n)
        PROVE  TreeOK(tree') /\ Fresh' /\ KeepMessages
    BY <1>1, CreateStep
  <1>2. ASSUME NEW f \in DOMAIN tree.pc, NEW n \in Names, Rename(f, n)
        PROVE  TreeOK(tree') /\ Fresh' /\ KeepMessages
    <2>1. /\ f \in DOMAIN tree.pc \ {NIDRootFolder}
          /\ ~ collision(tree, tree.pc[f].parent, n, f)
          /\ tree' = mutatePC(tree, f, [tree.pc[f] EXCEPT !.name = n])
      BY <1>2 DEF Rename, protected, parentOf
    <2>2. TreeOK(tree') /\ DOMAIN tree'.pc = DOMAIN tree.pc /\ tree'.msg = tree.msg
      BY <1>0, <2>1, RenamedOK
    <2> QED
      BY <1>0, <1>2, <2>2 DEF Fresh, Rename, KeepMessages
  <1>3. ASSUME NEW f \in DOMAIN tree.pc, NEW p \in DOMAIN tree.pc, Move(f, p)
        PROVE  TreeOK(tree') /\ Fresh' /\ KeepMessages
    <2>1. /\ f \in DOMAIN tree.pc \ {NIDRootFolder} /\ p # tree.pc[f].parent
          /\ ~ contains(tree, f, p) /\ ~ collision(tree, p, tree.pc[f].name, NoNID)
          /\ tree' = Moved(tree, f, p)
      BY <1>3 DEF Move, CanMove, protected, parentOf
    <2>2. TreeOK(tree') /\ DOMAIN tree'.pc = DOMAIN tree.pc /\ tree'.msg = tree.msg
      BY <1>0, <2>1, MovedOK
    <2> QED
      BY <1>0, <1>3, <2>2 DEF Fresh, Move, KeepMessages
  <1>4. ASSUME NEW f \in DOMAIN tree.pc, Delete(f)
        PROVE  TreeOK(tree') /\ Fresh' /\ KeepMessages
    <2>1. /\ CanDelete(tree, f)
          /\ tree' = syncFlags(Pruned(tree, parentOf(tree, f), f, Subtree(tree, f)),
                               parentOf(tree, f))
      BY <1>4 DEF Delete, Pruned
    <2>2. TreeOK(tree') /\ DOMAIN tree'.pc \subseteq DOMAIN tree.pc /\ tree'.msg = tree.msg
      BY <1>0, <2>1, DeletedOK
    <2> QED
      BY <1>0, <1>4, <2>2 DEF Fresh, Delete, KeepMessages
  <1>5. ASSUME NEW f \in DOMAIN tree.pc, NEW r \in BOOLEAN, CreateMessage(f, r)
        PROVE  TreeOK(tree') /\ Fresh' /\ KeepMessages
    <2>1. nextMsg \notin DOMAIN tree.msg /\ nextMsg \in Nat /\ nextMsg' = nextMsg + 1
      BY <1>0, <1>5 DEF Fresh, CreateMessage
    <2>2. tree' = WithMessage(tree, nextMsg, f, r)
      BY <1>5 DEF CreateMessage
    <2>3. /\ TreeOK(tree') /\ DOMAIN tree'.pc = DOMAIN tree.pc
          /\ tree'.msg = Put(tree.msg, nextMsg, [folder |-> f, read |-> r])
      BY <1>0, <2>1, <2>2, MessageAddedOK
    <2>4. /\ DOMAIN tree'.msg = DOMAIN tree.msg \cup {nextMsg}
          /\ \A m \in DOMAIN tree.msg : tree'.msg[m] = tree.msg[m]
      BY <2>1, <2>3 DEF Put
    <2>5. Fresh'
      BY <1>0, <1>5, <2>1, <2>3, <2>4 DEF Fresh, CreateMessage
    <2> QED
      BY <2>3, <2>4, <2>5 DEF KeepMessages
  <1>6. ASSUME NEW f \in DOMAIN tree.pc, NEW r \in BOOLEAN, NEW m \in 1 .. MaxMessage,
               CreatePlannedMessage(m, f, r)
        PROVE  TreeOK(tree') /\ Fresh' /\ KeepMessages
    <2>1. m \in Nat
      OBVIOUS
    <2> QED
      BY <1>6, <2>1, PlannedStep
  <1>7. ASSUME NEW m \in DOMAIN tree.msg, DeleteMessage(m)
        PROVE  TreeOK(tree') /\ Fresh' /\ KeepMessages
    <2>1. PICK folder : folder = tree.msg[m].folder
      OBVIOUS
    <2>2. tree' = WithoutMessage(tree, m, folder)
      BY <1>7, <2>1 DEF DeleteMessage, WithoutMessage
    <2>3. /\ TreeOK(tree') /\ DOMAIN tree'.pc = DOMAIN tree.pc
          /\ tree'.msg = Without(tree.msg, {m})
      BY <1>0, <2>1, <2>2, MessageRemovedOK
    <2>4. /\ DOMAIN tree'.msg = DOMAIN tree.msg \ {m}
          /\ \A x \in DOMAIN tree'.msg : tree'.msg[x] = tree.msg[x]
      BY <2>3 DEF Without
    <2> QED
      BY <1>0, <1>7, <2>3, <2>4 DEF Fresh, DeleteMessage, KeepMessages
  <1>8. ASSUME UNCHANGED vars PROVE TreeOK(tree') /\ Fresh' /\ KeepMessages
    BY <1>0, <1>8 DEF vars, Fresh, KeepMessages
  <1> QED
    BY <1>1, <1>2, <1>3, <1>4, <1>5, <1>6, <1>7, <1>8 DEF Next

\* What the invariant says of the folders, the messages and the tree.
LEMMA MirroredRows == TreeInv => RowsMirrorFolders
  <1> SUFFICES ASSUME TreeInv, NEW f \in DOMAIN tree.pc
               PROVE  /\ Index(f) \in DOMAIN tree.hierarchy
                      /\ DOMAIN Rows(tree, f) = Children(f)
                      /\ tree.pc[f].subfolders <=> Children(f) # {}
                      /\ \A c \in Children(f) : RowSays(Rows(tree, f)[c], tree.pc[c])
    BY DEF RowsMirrorFolders, RowSays
  <1>1. Sound(tree) /\ Settled(tree, {}, {}) /\ Kids(tree, f) = Children(f)
    BY DEF TreeInv, TreeOK, Kids, Children
  <1>2. \A c \in Children(f) : c \in DOMAIN tree.pc \ {NIDRootFolder} /\ tree.pc[c].parent = f
    BY <1>1 DEF Children, Sound
  <1>3. \A c \in Children(f) : RowSays(Rows(tree, f)[c], tree.pc[c])
    BY <1>1, <1>2 DEF Settled
  <1>4. Index(f) \in DOMAIN tree.hierarchy
    BY <1>1 DEF Sound
  <1>5. /\ DOMAIN Rows(tree, f) = Children(f)
        /\ tree.pc[f].subfolders <=> Children(f) # {}
    BY <1>1 DEF Settled
  <1> QED
    BY <1>3, <1>4, <1>5

LEMMA ExactCounts == TreeInv => CountsMatchMessages
  <1>1. \A f : HeldBy(tree, f) = Holds(f)
    BY DEF HeldBy, Holds
  <1>2. \A f : UnreadIn(tree, f) = {m \in Holds(f) : ~ tree.msg[m].read}
    BY <1>1 DEF UnreadIn
  <1> QED
    BY <1>1, <1>2 DEF TreeInv, TreeOK, Shaped, Counted, CountsMatchMessages

LEMMA RootedTree == TreeInv => Rooted
  <1> SUFFICES ASSUME TreeInv PROVE Rooted
    OBVIOUS
  <1>1. Sound(tree) /\ Anchored(tree) /\ Filed(tree)
    BY DEF TreeInv, TreeOK, Shaped
  <1>2. ASSUME NEW f \in DOMAIN tree.pc
        PROVE  NIDRootFolder \in Ancestors(tree, f) /\ Ancestors(tree, f) \subseteq DOMAIN tree.pc
    <2>1. PICK S : S = Ancestors(tree, f)
      OBVIOUS
    <2>2. /\ f \in S /\ S \in SUBSET DOMAIN tree.pc
          /\ \A g \in S \ {NIDRootFolder} : tree.pc[g].parent \in S
      BY <1>1, <2>1, AncestorsClosed
    <2> QED
      BY <1>1, <2>1, <2>2 DEF Anchored
  <1> QED
    BY <1>1, <1>2 DEF Rooted, Filed

LEMMA DistinctSiblings == TreeInv => SiblingNamesDistinct
  BY DEF TreeInv, TreeOK, Shaped, Distinct, SiblingNamesDistinct

LEMMA TreeKept == MaxIndex < FinderIndex => (Spec => []TreeInv)
  <1> SUFFICES ASSUME MaxIndex < FinderIndex PROVE Spec => []TreeInv
    OBVIOUS
  <1>1. TreeInv /\ [Next]_vars => TreeInv'
    BY TreeStep
  <1> QED
    BY <1>1, TreeInit, PTL DEF Spec

\* Hierarchy tables and property contexts say the same after any folder
\* operations in any order: mutatePC, syncFlags and the row updates of Create,
\* Rename, Move and Delete leave no stale row and no stale subfolder flag.
THEOREM RowsStayMirrored == MaxIndex < FinderIndex => (Spec => []RowsMirrorFolders)
  <1> SUFFICES ASSUME MaxIndex < FinderIndex PROVE Spec => []RowsMirrorFolders
    OBVIOUS
  <1>1. Spec => []TreeInv
    BY TreeKept
  <1> QED
    BY <1>1, MirroredRows, PTL

\* The contents table and both counts of a folder are those of the messages in
\* it: adjustCounts is given the right difference by CreateMessage and
\* DeleteMessage and never has to cut a count off at zero.
THEOREM CountsStayExact == MaxIndex < FinderIndex => (Spec => []CountsMatchMessages)
  <1> SUFFICES ASSUME MaxIndex < FinderIndex PROVE Spec => []CountsMatchMessages
    OBVIOUS
  <1>1. Spec => []TreeInv
    BY TreeKept
  <1> QED
    BY <1>1, ExactCounts, PTL

\* Every folder hangs below the root and every message in a folder: the check
\* of Move against the folder's own descendants is enough to keep cycles out,
\* and Delete takes whole subtrees.
THEOREM TreeStaysRooted == MaxIndex < FinderIndex => (Spec => []Rooted)
  <1> SUFFICES ASSUME MaxIndex < FinderIndex PROVE Spec => []Rooted
    OBVIOUS
  <1>1. Spec => []TreeInv
    BY TreeKept
  <1> QED
    BY <1>1, RootedTree, PTL

\* Two folders of one parent, not both of them system folders, never have the
\* same name, whatever creations, renames and moves brought them there:
\* collision compares rows, and the rows are the children. Of the names
\* WriteMinimum gives nothing is assumed.
THEOREM SiblingsStayDistinct == MaxIndex < FinderIndex => (Spec => []SiblingNamesDistinct)
  <1> SUFFICES ASSUME MaxIndex < FinderIndex PROVE Spec => []SiblingNamesDistinct
    OBVIOUS
  <1>1. Spec => []TreeInv
    BY TreeKept
  <1> QED
    BY <1>1, DistinctSiblings, PTL

\* No step changes a message that stays: a new one takes no other's place,
\* whether CreateMessage was given its NID or took the next.
THEOREM MessagesStay == MaxIndex < FinderIndex => (Spec => MessagesKept)
  <1> SUFFICES ASSUME MaxIndex < FinderIndex PROVE Spec => MessagesKept
    OBVIOUS
  <1>1. TreeInv /\ [Next]_vars => [KeepMessages]_vars
    BY TreeStep
  <1>2. Spec => []TreeInv
    BY TreeKept
  <1> QED
    BY <1>1, <1>2, PTL DEF Spec, MessagesKept, KeepMessages

-----------------------------------------------------------------------------
(* Exporter: the plan stays a tree through every planning call, the store  *)
(* under construction keeps what is shown of a store above, and the file a *)
(* successful Finalize leaves is the plan.                                 *)

-----------------------------------------------------------------------------
(* Trees given by the parent of every reference *)

Links(p) == [r \in DOMAIN p |-> {p[r]} \ {0}]

Above(p, r) == Reach(Links(p), r)

Grounded(p) ==
  \A S \in SUBSET DOMAIN p :
    S # {} /\ (\A r \in S \ {RootFolderRef} : p[r] \in S) => RootFolderRef \in S

Hung(p) ==
  /\ IsFiniteSet(DOMAIN p)
  /\ RootFolderRef \in DOMAIN p /\ 0 \notin DOMAIN p
  /\ p[RootFolderRef] = 0
  /\ \A r \in DOMAIN p \ {RootFolderRef} : p[r] \in DOMAIN p

IsTree(p) == Hung(p) /\ Grounded(p)

\* The way to the root, and that it is the least set that parents do not leave.
LEMMA AboveClosed ==
  ASSUME NEW p, Hung(p), NEW r \in DOMAIN p
  PROVE  /\ r \in Above(p, r) /\ Above(p, r) \subseteq DOMAIN p
         /\ \A x \in Above(p, r) \ {RootFolderRef} : p[x] \in Above(p, r)
         /\ \A S : r \in S /\ (\A x \in S \cap DOMAIN p : x # RootFolderRef => p[x] \in S)
                     => Above(p, r) \subseteq S
  <1>1. PICK links : links = Links(p)
    OBVIOUS
  <1>2. /\ DOMAIN links = DOMAIN p /\ links[RootFolderRef] = {}
        /\ \A x \in DOMAIN p \ {RootFolderRef} : links[x] = {p[x]}
    BY <1>1 DEF Links, Hung
  <1>3. IsFiniteSet(DOMAIN links) /\ \A x \in DOMAIN links : links[x] \subseteq DOMAIN links
    BY <1>2 DEF Hung
  <1>4. PICK A : A = Reach(links, r)
    OBVIOUS
  <1>5. /\ r \in A /\ A \subseteq DOMAIN links /\ \A x \in A : links[x] \subseteq A
        /\ \A S : r \in S /\ (\A y \in S \cap DOMAIN links : links[y] \subseteq S) => A \subseteq S
    BY <1>2, <1>3, <1>4, ReachLeast
  <1>6. Above(p, r) = A
    BY <1>1, <1>4 DEF Above
  <1>7. \A x \in A \ {RootFolderRef} : p[x] \in A
    BY <1>2, <1>5
  <1>8. ASSUME NEW S, r \in S, \A x \in S \cap DOMAIN p : x # RootFolderRef => p[x] \in S
        PROVE  A \subseteq S
    <2>1. \A y \in S \cap DOMAIN links : links[y] \subseteq S
      BY <1>2, <1>8
    <2> QED
      BY <1>5, <1>8, <2>1
  <1> QED
    BY <1>2, <1>5, <1>6, <1>7, <1>8

\* Every reference adds one to the way of its parent, and nothing is on its
\* own way up.
LEMMA AboveStep ==
  ASSUME NEW p, IsTree(p), NEW r \in DOMAIN p \ {RootFolderRef}
  PROVE  /\ Above(p, r) = Above(p, p[r]) \cup {r} /\ r \notin Above(p, p[r])
         /\ Cardinality(Above(p, r)) = Cardinality(Above(p, p[r])) + 1
         /\ Cardinality(Above(p, p[r])) \in Nat
  <1>0. Hung(p) /\ Grounded(p) /\ p[r] \in DOMAIN p
    BY DEF IsTree, Hung
  <1>1. ASSUME NEW x \in DOMAIN p \ {RootFolderRef}
        PROVE  Above(p, x) = Above(p, p[x]) \cup {x} /\ Above(p, p[x]) \subseteq Above(p, x)
    <2>0. x \in DOMAIN p /\ p[x] \in DOMAIN p
      BY <1>0 DEF Hung
    <2>1. PICK A : A = Above(p, p[x])
      OBVIOUS
    <2>2. PICK B : B = Above(p, x)
      OBVIOUS
    <2>3. /\ p[x] \in A /\ A \subseteq DOMAIN p /\ \A y \in A \ {RootFolderRef} : p[y] \in A
          /\ \A S : p[x] \in S /\ (\A y \in S \cap DOMAIN p : y # RootFolderRef => p[y] \in S)
                      => A \subseteq S
      BY <1>0, <2>0, <2>1, AboveClosed
    <2>4. /\ x \in B /\ B \subseteq DOMAIN p /\ \A y \in B \ {RootFolderRef} : p[y] \in B
          /\ \A S : x \in S /\ (\A y \in S \cap DOMAIN p : y # RootFolderRef => p[y] \in S)
                      => B \subseteq S
      BY <1>0, <2>0, <2>2, AboveClosed
    <2>5. A \subseteq B
      BY <2>3, <2>4
    <2>6. B \subseteq A \cup {x}
      <3>1. x \in A \cup {x} /\ \A y \in (A \cup {x}) \cap DOMAIN p : y # RootFolderRef => p[y] \in A \cup {x}
        BY <2>3
      <3> HIDE <2>3
      <3> QED
        BY <2>4, <3>1
    <2> QED
      BY <2>1, <2>2, <2>4, <2>5, <2>6
  <1>2. Above(p, RootFolderRef) = {RootFolderRef}
    <2>1. RootFolderRef \in DOMAIN p
      BY <1>0 DEF Hung
    <2>2. PICK A : A = Above(p, RootFolderRef)
      OBVIOUS
    <2>3. /\ RootFolderRef \in A
          /\ \A S : RootFolderRef \in S /\ (\A y \in S \cap DOMAIN p : y # RootFolderRef => p[y] \in S)
                      => A \subseteq S
      BY <1>0, <2>1, <2>2, AboveClosed
    <2>4. \A y \in {RootFolderRef} \cap DOMAIN p : y # RootFolderRef => p[y] \in {RootFolderRef}
      OBVIOUS
    <2>5. A \subseteq {RootFolderRef}
      BY <2>3, <2>4
    <2> QED
      BY <2>2, <2>3, <2>5
  <1>3. ASSUME r \in Above(p, p[r]) PROVE FALSE
    <2>1. PICK C : C = {x \in Above(p, r) : r \in Above(p, x)}
      OBVIOUS
    <2>2. /\ r \in Above(p, r) /\ Above(p, r) \subseteq DOMAIN p
          /\ \A x \in Above(p, r) \ {RootFolderRef} : p[x] \in Above(p, r)
      BY <1>0, AboveClosed
    <2>3. C \in SUBSET DOMAIN p /\ r \in C
      BY <2>1, <2>2
    <2>4. ASSUME NEW x \in C \ {RootFolderRef} PROVE p[x] \in C
      <3>1. x \in Above(p, r) /\ r \in Above(p, x) /\ p[x] \in Above(p, r)
        BY <2>1, <2>2
      <3>2. Above(p, x) = Above(p, p[x]) \cup {x}
        BY <1>1, <2>2, <3>1
      <3>3. r \in Above(p, p[x])
        BY <1>3, <3>1, <3>2
      <3> QED
        BY <2>1, <3>1, <3>3
    <2>5. RootFolderRef \in C
      BY <1>0, <2>3, <2>4 DEF Grounded
    <2> QED
      BY <1>2, <2>1, <2>5
  <1>4. /\ IsFiniteSet(Above(p, p[r])) /\ Cardinality(Above(p, p[r])) \in Nat
    <2>1. Above(p, p[r]) \subseteq DOMAIN p
      BY <1>0, AboveClosed
    <2> QED
      BY <1>0, <2>1, FS_Subset, FS_CardinalityType DEF Hung
  <1>5. Cardinality(Above(p, p[r]) \cup {r}) = Cardinality(Above(p, p[r])) + 1
    BY <1>3, <1>4, FS_AddElement
  <1> QED
    BY <1>1, <1>3, <1>4, <1>5

\* A part of the tree that holds the parents of its members is a tree with the
\* same ways up.
LEMMA PartOfTree ==
  ASSUME NEW p, IsTree(p), NEW q, DOMAIN q \subseteq DOMAIN p, RootFolderRef \in DOMAIN q,
         \A r \in DOMAIN q : q[r] = p[r],
         \A r \in DOMAIN q \ {RootFolderRef} : p[r] \in DOMAIN q
  PROVE  IsTree(q) /\ \A r \in DOMAIN q : Above(q, r) = Above(p, r)
  <1>0. Hung(p) /\ Grounded(p)
    BY DEF IsTree
  <1>1. Hung(q)
    <2>1. IsFiniteSet(DOMAIN q)
      BY <1>0, FS_Subset DEF Hung
    <2> QED
      BY <1>0, <2>1 DEF Hung
  <1>2. Grounded(q)
    <2> SUFFICES ASSUME NEW S \in SUBSET DOMAIN q, S # {},
                        \A r \in S \ {RootFolderRef} : q[r] \in S
                 PROVE  RootFolderRef \in S
      BY DEF Grounded
    <2>1. S \in SUBSET DOMAIN p /\ \A r \in S \ {RootFolderRef} : p[r] \in S
      OBVIOUS
    <2> QED
      BY <1>0, <2>1 DEF Grounded
  <1>3. ASSUME NEW r \in DOMAIN q PROVE Above(q, r) = Above(p, r)
    <2>1. PICK A : A = Above(p, r)
      OBVIOUS
    <2>2. PICK B : B = Above(q, r)
      OBVIOUS
    <2>3. /\ r \in A /\ A \subseteq DOMAIN p /\ \A y \in A \ {RootFolderRef} : p[y] \in A
          /\ \A S : r \in S /\ (\A y \in S \cap DOMAIN p : y # RootFolderRef => p[y] \in S)
                      => A \subseteq S
      BY <1>0, <2>1, AboveClosed
    <2>4. /\ r \in B /\ B \subseteq DOMAIN q /\ \A y \in B \ {RootFolderRef} : q[y] \in B
          /\ \A S : r \in S /\ (\A y \in S \cap DOMAIN q : y # RootFolderRef => q[y] \in S)
                      => B \subseteq S
      BY <1>1, <2>2, AboveClosed
    <2>5. A \subseteq B
      <3>1. \A y \in B \cap DOMAIN p : y # RootFolderRef => p[y] \in B
        BY <2>4
      <3> QED
        BY <2>3, <2>4, <3>1
    <2>6. B \subseteq A
      <3>1. \A y \in A \cap DOMAIN q : y # RootFolderRef => q[y] \in A
        BY <2>3
      <3> QED
        BY <2>3, <2>4, <3>1
    <2> QED
      BY <2>1, <2>2, <2>5, <2>6
  <1> QED
    BY <1>1, <1>2, <1>3 DEF IsTree

\* A reference below one of the tree.
LEMMA GrownTree ==
  ASSUME NEW p, IsTree(p), NEW new, new \notin DOMAIN p, new # 0, NEW parent \in DOMAIN p,
         NEW q, DOMAIN q = DOMAIN p \cup {new}, q[new] = parent,
         \A r \in DOMAIN p : q[r] = p[r]
  PROVE  IsTree(q) /\ \A r \in DOMAIN p : Above(q, r) = Above(p, r)
  <1>0. Hung(p) /\ Grounded(p)
    BY DEF IsTree
  <1>1. Hung(q)
    <2>1. IsFiniteSet(DOMAIN q)
      BY <1>0, FS_AddElement DEF Hung
    <2> QED
      BY <1>0, <2>1 DEF Hung
  <1>2. Grounded(q)
    <2> SUFFICES ASSUME NEW S \in SUBSET DOMAIN q, S # {},
                        \A r \in S \ {RootFolderRef} : q[r] \in S
                 PROVE  RootFolderRef \in S
      BY DEF Grounded
    <2>1. PICK T : T = S \ {new}
      OBVIOUS
    <2>2. T \in SUBSET DOMAIN p /\ T # {}
      BY <1>0, <2>1 DEF Hung
    <2>3. \A r \in T \ {RootFolderRef} : p[r] \in T
      BY <1>0, <2>1, <2>2 DEF Hung
    <2>4. RootFolderRef \in T
      BY <1>0, <2>2, <2>3 DEF Grounded
    <2> QED
      BY <2>1, <2>4
  <1>3. IsTree(q)
    BY <1>1, <1>2 DEF IsTree
  <1>4. /\ DOMAIN p \subseteq DOMAIN q /\ RootFolderRef \in DOMAIN p
        /\ \A r \in DOMAIN p : p[r] = q[r]
        /\ \A r \in DOMAIN p \ {RootFolderRef} : q[r] \in DOMAIN p
    BY <1>0 DEF Hung
  <1>5. \A r \in DOMAIN p : Above(p, r) = Above(q, r)
    BY <1>3, <1>4, PartOfTree
  <1> QED
    BY <1>3, <1>5

\* A reference moved to a place that is not below it: only the ways that pass
\* through it change.
LEMMA MovedTree ==
  ASSUME NEW p, IsTree(p), NEW r \in DOMAIN p \ {RootFolderRef}, NEW parent \in DOMAIN p,
         r \notin Above(p, parent),
         NEW q, DOMAIN q = DOMAIN p, q[r] = parent,
         \A x \in DOMAIN p : x # r => q[x] = p[x]
  PROVE  IsTree(q) /\ \A x \in DOMAIN p : r \notin Above(q, x) => Above(q, x) = Above(p, x)
  <1>0. Hung(p) /\ Grounded(p)
    BY DEF IsTree
  <1>1. Hung(q)
    BY <1>0 DEF Hung
  <1>2. Grounded(q)
    <2> SUFFICES ASSUME NEW S \in SUBSET DOMAIN q, S # {},
                        \A x \in S \ {RootFolderRef} : q[x] \in S
                 PROVE  RootFolderRef \in S
      BY DEF Grounded
    <2>1. PICK A : A = Above(p, parent)
      OBVIOUS
    <2>2. /\ parent \in A /\ A \subseteq DOMAIN p /\ r \notin A
          /\ \A y \in A \ {RootFolderRef} : p[y] \in A
      BY <1>0, <2>1, AboveClosed
    <2>3. CASE r \in S
      <3>1. PICK T : T = S \cap A
        OBVIOUS
      <3>2. T \in SUBSET DOMAIN p /\ parent \in T
        BY <2>2, <2>3, <3>1
      <3>3. \A x \in T \ {RootFolderRef} : p[x] \in T
        BY <2>2, <3>1
      <3>4. RootFolderRef \in T
        BY <1>0, <3>2, <3>3 DEF Grounded
      <3> QED
        BY <3>1, <3>4
    <2>4. CASE r \notin S
      <3>1. S \in SUBSET DOMAIN p /\ \A x \in S \ {RootFolderRef} : p[x] \in S
        BY <2>4
      <3> QED
        BY <1>0, <3>1 DEF Grounded
    <2> QED
      BY <2>3, <2>4
  <1>3. ASSUME NEW x \in DOMAIN p, r \notin Above(q, x) PROVE Above(q, x) = Above(p, x)
    <2>1. PICK A : A = Above(p, x)
      OBVIOUS
    <2>2. PICK B : B = Above(q, x)
      OBVIOUS
    <2>3. /\ x \in A /\ A \subseteq DOMAIN p /\ \A y \in A \ {RootFolderRef} : p[y] \in A
          /\ \A S : x \in S /\ (\A y \in S \cap DOMAIN p : y # RootFolderRef => p[y] \in S)
                      => A \subseteq S
      BY <1>0, <2>1, AboveClosed
    <2>4. /\ x \in B /\ B \subseteq DOMAIN q /\ \A y \in B \ {RootFolderRef} : q[y] \in B
          /\ \A S : x \in S /\ (\A y \in S \cap DOMAIN q : y # RootFolderRef => q[y] \in S)
                      => B \subseteq S
      BY <1>1, <2>2, AboveClosed
    <2>5. A \subseteq B
      <3>1. \A y \in B \cap DOMAIN p : y # RootFolderRef => p[y] \in B
        BY <1>3, <2>2, <2>4
      <3> QED
        BY <2>3, <2>4, <3>1
    <2>6. B \subseteq A
      <3>1. \A y \in A \cap DOMAIN q : y # RootFolderRef => q[y] \in A
        BY <1>3, <2>2, <2>3, <2>5
      <3> QED
        BY <2>3, <2>4, <3>1
    <2> QED
      BY <2>1, <2>2, <2>5, <2>6
  <1> QED
    BY <1>1, <1>2, <1>3 DEF IsTree

-----------------------------------------------------------------------------
(* Lists of folders *)

\* A loop that keeps some entries builds a list of just those, each once.
LEMMA KeepWhat ==
  ASSUME NEW S, NEW s \in Seq(S), NEW K \in SUBSET DOMAIN s, NEW t, t = Keep(s, K)
  PROVE  /\ t \in Seq(S)
         /\ \E at \in [DOMAIN t -> K] :
              /\ \A n \in DOMAIN t : t[n] = s[at[n]]
              /\ \A m, n \in DOMAIN t : at[m] = at[n] => m = n
              /\ \A i \in K : \E n \in DOMAIN t : at[n] = i
  <1>1. DOMAIN s = 1 .. Len(s) /\ Len(s) \in Nat /\ \A i \in DOMAIN s : s[i] \in S
    OBVIOUS
  <1>2. IsFiniteSet(K) /\ Cardinality(K) \in Nat /\ K \subseteq Nat
    <2>1. IsFiniteSet(1 .. Len(s))
      BY <1>1, FS_Interval
    <2> QED
      BY <1>1, <2>1, FS_Subset, FS_CardinalityType
  <1>3. PICK c : c = Cardinality(K)
    OBVIOUS
  <1> DEFINE UpTo(i) == {j \in K : j <= i}
             rank == [i \in K |-> Cardinality(UpTo(i))]
  <1>4. ASSUME NEW i \in K
        PROVE  IsFiniteSet(UpTo(i)) /\ rank[i] \in 1 .. c /\ rank[i] = Cardinality(UpTo(i))
    <2>1. UpTo(i) \subseteq K /\ i \in UpTo(i)
      BY <1>2
    <2>2. /\ IsFiniteSet(UpTo(i)) /\ Cardinality(UpTo(i)) \in Nat
          /\ Cardinality(UpTo(i)) <= c
      BY <1>2, <1>3, <2>1, FS_Subset, FS_CardinalityType
    <2>3. Cardinality(UpTo(i)) # 0
      BY <2>1, <2>2, FS_EmptySet
    <2> QED
      BY <1>2, <1>3, <2>2, <2>3
  <1>5. ASSUME NEW i \in K, NEW j \in K, i < j PROVE rank[i] # rank[j]
    <2>1. UpTo(i) \subseteq UpTo(j) /\ j \in UpTo(j) /\ j \notin UpTo(i)
      BY <1>2, <1>5
    <2>2. UpTo(i) # UpTo(j)
      BY <2>1
    <2> HIDE DEF UpTo
    <2>3. Cardinality(UpTo(i)) # Cardinality(UpTo(j))
      BY <1>4, <2>1, <2>2, FS_Subset
    <2> QED
      BY <1>4, <2>3
  <1>6. \A i, j \in K : rank[i] = rank[j] => i = j
    <2> SUFFICES ASSUME NEW i \in K, NEW j \in K, rank[i] = rank[j] PROVE i = j
      OBVIOUS
    <2>1. i \in Nat /\ j \in Nat
      BY <1>2
    <2> HIDE DEF rank
    <2>2. ~ (i < j) /\ ~ (j < i)
      BY <1>5
    <2> QED
      BY <2>1, <2>2
  <1>7. rank \in [K -> 1 .. c]
    <2>1. \A i \in K : rank[i] \in 1 .. c
      BY <1>4
    <2> HIDE DEF UpTo
    <2> QED
      BY <2>1
  <1> HIDE DEF rank
  <1>8. \A n \in 1 .. c : \E i \in K : rank[i] = n
    <2>1. rank \in Injection(K, 1 .. c)
      BY <1>6, <1>7 DEF Injection, IsInjective
    <2>2. IsFiniteSet(1 .. c) /\ Cardinality(1 .. c) = c
      BY <1>2, <1>3, FS_Interval
    <2>3. rank \in Surjection(K, 1 .. c)
      BY <1>3, <2>1, <2>2, FS_Injection
    <2> QED
      BY <2>3 DEF Surjection
  <1> DEFINE at == [n \in 1 .. c |-> CHOOSE i \in K : Cardinality(UpTo(i)) = n]
  <1>9. ASSUME NEW n \in 1 .. c PROVE at[n] \in K /\ rank[at[n]] = n
    <2>1. \E i \in K : Cardinality(UpTo(i)) = n
      BY <1>4, <1>8
    <2> HIDE DEF UpTo
    <2>2. at[n] \in K /\ Cardinality(UpTo(at[n])) = n
      BY <2>1
    <2> QED
      BY <1>4, <2>2
  <1>10. t = [n \in 1 .. c |-> s[at[n]]]
    BY <1>3 DEF Keep
  <1> HIDE DEF at
  <1>11. DOMAIN t = 1 .. c /\ (\A n \in DOMAIN t : t[n] = s[at[n]]) /\ \A n \in 1 .. c : t[n] \in S
    BY <1>1, <1>9, <1>10
  <1>12. t \in Seq(S)
    <2>1. t \in [1 .. c -> S] /\ c \in Nat
      BY <1>2, <1>3, <1>10, <1>11
    <2> QED
      BY <2>1, SeqDef
  <1>13. at \in [DOMAIN t -> K]
    BY <1>9, <1>11 DEF at
  <1>14. \A m, n \in DOMAIN t : at[m] = at[n] => m = n
    BY <1>9, <1>11
  <1>15. ASSUME NEW i \in K PROVE \E n \in DOMAIN t : at[n] = i
    <2>1. rank[i] \in 1 .. c
      BY <1>4
    <2>2. at[rank[i]] \in K /\ rank[at[rank[i]]] = rank[i]
      BY <1>9, <2>1
    <2>3. at[rank[i]] = i
      BY <1>6, <2>2
    <2> QED
      BY <1>11, <2>1, <2>3
  <1> QED
    BY <1>11, <1>12, <1>13, <1>14, <1>15

-----------------------------------------------------------------------------
(* The plan *)

FolderRec ==
  [ref : Nat, parent : Nat, name : Names \cup {"Root", "IPM_SUBTREE"}, depth : Int]

RefsOf(fs) == {fs[i].ref : i \in DOMAIN fs}

Parents(fs) == [r \in RefsOf(fs) |-> PlanParent(fs, r)]

Listed(fs) ==
  fs \in Seq(FolderRec) /\ \A i, j \in DOMAIN fs : fs[i].ref = fs[j].ref => i = j

\* Depths are lengths of ways up, which is what recomputeDepth goes by.
DepthsRight(fs) ==
  \A i \in DOMAIN fs : fs[i].depth = Cardinality(Above(Parents(fs), fs[i].ref)) - 1

NamesDiffer(fs) ==
  \A i, j \in DOMAIN fs : fs[i].parent = fs[j].parent /\ fs[i].name = fs[j].name => i = j

PlanOK(fs) ==
  /\ Listed(fs) /\ IsTree(Parents(fs)) /\ DepthsRight(fs) /\ NamesDiffer(fs)
  /\ IPMSubtreeRef \in RefsOf(fs) /\ Parents(fs)[IPMSubtreeRef] = RootFolderRef

LEMMA ParentsOf ==
  ASSUME NEW fs, Listed(fs)
  PROVE  /\ DOMAIN Parents(fs) = RefsOf(fs)
         /\ \A i \in DOMAIN fs : fs[i].ref \in RefsOf(fs) /\ Parents(fs)[fs[i].ref] = fs[i].parent
         /\ \A r : PlanAncestors(fs, r) = Above(Parents(fs), r)
  <1>1. DOMAIN Parents(fs) = RefsOf(fs)
    BY DEF Parents
  <1>2. ASSUME NEW i \in DOMAIN fs
        PROVE  fs[i].ref \in RefsOf(fs) /\ Parents(fs)[fs[i].ref] = fs[i].parent
    <2>1. PICK r : r = fs[i].ref
      OBVIOUS
    <2>2. r \in RefsOf(fs)
      BY <2>1 DEF RefsOf
    <2>3. \A j \in DOMAIN fs : fs[j].ref = r => j = i
      BY <2>1 DEF Listed
    <2>4. (CHOOSE j \in DOMAIN fs : fs[j].ref = r) = i
      BY <2>1, <2>3
    <2>5. PlanParent(fs, r) = fs[i].parent
      BY <2>1, <2>4 DEF PlanParent
    <2> QED
      BY <2>1, <2>2, <2>5 DEF Parents
  <1>3. PlanUp(fs) = Links(Parents(fs))
    <2>1. PlanUp(fs) = [r \in RefsOf(fs) |-> {PlanParent(fs, r)} \ {0}]
      BY DEF PlanUp, RefsOf
    <2>2. \A r \in RefsOf(fs) : Parents(fs)[r] = PlanParent(fs, r)
      BY DEF Parents
    <2> QED
      BY <1>1, <2>1, <2>2 DEF Links
  <1> QED
    BY <1>1, <1>2, <1>3 DEF PlanAncestors, Above

\* A reference leads to the one entry that has it.
LEMMA FolderAt ==
  ASSUME Listed(folders)
  PROVE  /\ Refs = RefsOf(folders)
         /\ \A i \in DOMAIN folders : Folder(folders[i].ref) = folders[i]
         /\ \A r \in Refs : \E i \in DOMAIN folders : folders[i].ref = r /\ Folder(r) = folders[i]
  <1>1. Refs = RefsOf(folders)
    BY DEF Refs, RefsOf
  <1>2. ASSUME NEW i \in DOMAIN folders PROVE Folder(folders[i].ref) = folders[i]
    <2>1. PICK r : r = folders[i].ref
      OBVIOUS
    <2>2. \A j \in DOMAIN folders : folders[j].ref = r => j = i
      BY <2>1 DEF Listed
    <2>3. (CHOOSE j \in DOMAIN folders : folders[j].ref = r) = i
      BY <2>1, <2>2
    <2> QED
      BY <2>1, <2>3 DEF Folder
  <1> QED
    BY <1>1, <1>2 DEF Refs

LEMMA PlanCreated ==
  ASSUME PlanOK(folders), NEW parent, NEW name \in Names, CreateFolder(parent, name),
         nextFold \in Nat \ {0}, nextFold \notin RefsOf(folders)
  PROVE  PlanOK(folders') /\ RefsOf(folders') = RefsOf(folders) \cup {nextFold}
  <1>0. Listed(folders) /\ IsTree(Parents(folders)) /\ DepthsRight(folders) /\ NamesDiffer(folders)
    BY DEF PlanOK
  <1>1. PICK fs : fs = folders
    OBVIOUS
  <1>2. PICK gs : gs = folders'
    OBVIOUS
  <1>3. parent \in RefsOf(fs)
    BY <1>0, <1>1, FolderAt DEF CreateFolder
  <1>4. PICK k \in DOMAIN fs : fs[k].ref = parent /\ Folder(parent) = fs[k]
    BY <1>0, <1>1, <1>3, FolderAt
  <1>5. PICK new : new = [ref |-> nextFold, parent |-> parent, name |-> name,
                          depth |-> fs[k].depth + 1]
    OBVIOUS
  <1>6. gs = Append(fs, new)
    BY <1>1, <1>2, <1>4, <1>5 DEF CreateFolder
  <1>7. fs \in Seq(FolderRec) /\ fs[k] \in FolderRec
    BY <1>0, <1>1, <1>4 DEF Listed
  <1>8. /\ new \in FolderRec /\ new.ref = nextFold /\ new.parent = parent /\ new.name = name
        /\ new.depth = fs[k].depth + 1
    <2>1. parent \in Nat /\ fs[k].depth \in Int
      BY <1>4, <1>7 DEF FolderRec
    <2> QED
      BY <1>5, <2>1 DEF FolderRec
  <1>9. /\ gs \in Seq(FolderRec) /\ Len(gs) = Len(fs) + 1 /\ Len(fs) \in Nat
        /\ DOMAIN fs = 1 .. Len(fs) /\ DOMAIN gs = 1 .. (Len(fs) + 1)
        /\ gs[Len(fs) + 1] = new /\ \A i \in DOMAIN fs : gs[i] = fs[i]
    BY <1>6, <1>7, <1>8, AppendProperties, LenProperties
  <1>10. PICK n : n = Len(fs) + 1
    OBVIOUS
  <1>11. /\ DOMAIN gs = DOMAIN fs \cup {n} /\ n \notin DOMAIN fs
         /\ gs[n] = new /\ \A i \in DOMAIN fs : gs[i] = fs[i]
    BY <1>9, <1>10
  <1>12. RefsOf(gs) = RefsOf(fs) \cup {nextFold}
    BY <1>8, <1>11 DEF RefsOf
  <1>13. Listed(gs)
    <2>1. ASSUME NEW i \in DOMAIN fs PROVE fs[i].ref # nextFold
      BY <1>1 DEF RefsOf
    <2>2. ASSUME NEW i \in DOMAIN gs, NEW j \in DOMAIN gs, gs[i].ref = gs[j].ref PROVE i = j
      BY <1>0, <1>1, <1>8, <1>11, <2>1, <2>2 DEF Listed
    <2> QED
      BY <1>9, <2>2 DEF Listed
  <1>14. PICK p : p = Parents(fs)
    OBVIOUS
  <1>15. PICK q : q = Parents(gs)
    OBVIOUS
  <1>16. /\ DOMAIN p = RefsOf(fs)
         /\ \A i \in DOMAIN fs : fs[i].ref \in RefsOf(fs) /\ p[fs[i].ref] = fs[i].parent
    BY <1>0, <1>1, <1>14, ParentsOf
  <1>17. /\ DOMAIN q = RefsOf(gs)
         /\ \A i \in DOMAIN gs : gs[i].ref \in RefsOf(gs) /\ q[gs[i].ref] = gs[i].parent
    BY <1>13, <1>15, ParentsOf
  <1>18. /\ DOMAIN q = DOMAIN p \cup {nextFold} /\ q[nextFold] = parent
         /\ \A r \in DOMAIN p : q[r] = p[r]
    <2>1. q[nextFold] = parent
      BY <1>8, <1>11, <1>17
    <2>2. ASSUME NEW r \in DOMAIN p PROVE q[r] = p[r]
      <3>1. PICK i \in DOMAIN fs : r = fs[i].ref
        BY <1>16 DEF RefsOf
      <3> QED
        BY <1>11, <1>16, <1>17, <3>1
    <2> QED
      BY <1>12, <1>16, <1>17, <2>1, <2>2
  <1>19. IsTree(q) /\ \A r \in DOMAIN p : Above(q, r) = Above(p, r)
    <2>1. /\ IsTree(p) /\ nextFold \notin DOMAIN p /\ nextFold # 0 /\ parent \in DOMAIN p
      BY <1>0, <1>1, <1>3, <1>14, <1>16
    <2> QED
      BY <1>18, <2>1, GrownTree
  <1>20. DepthsRight(gs)
    <2>1. ASSUME NEW i \in DOMAIN fs PROVE gs[i].depth = Cardinality(Above(q, gs[i].ref)) - 1
      BY <1>0, <1>1, <1>11, <1>14, <1>16, <1>19 DEF DepthsRight
    <2>2. gs[n].depth = Cardinality(Above(q, gs[n].ref)) - 1
      <3>1. nextFold \in DOMAIN q \ {RootFolderRef}
        <4>1. RootFolderRef \in DOMAIN p
          BY <1>0, <1>1, <1>14 DEF IsTree, Hung
        <4> QED
          BY <1>1, <1>16, <1>18, <4>1
      <3>2. /\ Cardinality(Above(q, nextFold)) = Cardinality(Above(q, parent)) + 1
            /\ Cardinality(Above(q, parent)) \in Nat
        BY <1>18, <1>19, <3>1, AboveStep
      <3>3. gs[n].depth = fs[k].depth + 1 /\ gs[n].ref = nextFold
        BY <1>8, <1>11
      <3>4. fs[k].depth = Cardinality(Above(q, parent)) - 1
        BY <1>4, <1>11, <2>1
      <3> QED
        BY <3>2, <3>3, <3>4
    <2> QED
      BY <1>11, <1>15, <2>1, <2>2 DEF DepthsRight
  <1>21. NamesDiffer(gs)
    <2>1. ASSUME NEW i \in DOMAIN fs, fs[i].parent = parent PROVE fs[i].name # name
      <3>1. fs[i].ref # 0
        BY <1>0, <1>1, <1>14, <1>16 DEF IsTree, Hung
      <3> QED
        BY <1>1, <2>1, <3>1 DEF CreateFolder, planCollision
    <2> QED
      BY <1>0, <1>1, <1>8, <1>11, <2>1 DEF NamesDiffer
  <1>22. IPMSubtreeRef \in RefsOf(gs) /\ q[IPMSubtreeRef] = RootFolderRef
    BY <1>1, <1>12, <1>14, <1>16, <1>18 DEF PlanOK
  <1> QED
    BY <1>1, <1>2, <1>12, <1>13, <1>15, <1>19, <1>20, <1>21, <1>22 DEF PlanOK

\* A list whose entries have the references and parents of another.
LEMMA SameShape ==
  ASSUME NEW fs, Listed(fs), NEW gs, DOMAIN gs = DOMAIN fs,
         gs = [i \in DOMAIN gs |-> gs[i]],
         \A i \in DOMAIN fs : gs[i] \in FolderRec /\ gs[i].ref = fs[i].ref,
         \A i \in DOMAIN fs : gs[i].parent = fs[i].parent
  PROVE  Listed(gs) /\ RefsOf(gs) = RefsOf(fs) /\ Parents(gs) = Parents(fs)
  <1>1. fs \in Seq(FolderRec) /\ DOMAIN fs = 1 .. Len(fs) /\ Len(fs) \in Nat
    BY LenProperties DEF Listed
  <1>2. gs \in [1 .. Len(fs) -> FolderRec]
    BY <1>1
  <1>3. Listed(gs)
    BY <1>1, <1>2, SeqDef DEF Listed
  <1>4. RefsOf(gs) = RefsOf(fs)
    BY DEF RefsOf
  <1>5. ASSUME NEW r \in RefsOf(fs) PROVE Parents(gs)[r] = Parents(fs)[r]
    <2>1. PICK i \in DOMAIN fs : r = fs[i].ref
      BY DEF RefsOf
    <2>2. Parents(fs)[r] = fs[i].parent
      BY <2>1, ParentsOf
    <2>3. Parents(gs)[gs[i].ref] = gs[i].parent
      BY <1>3, ParentsOf
    <2> QED
      BY <2>1, <2>2, <2>3
  <1>6. Parents(gs) = Parents(fs)
    <2>1. /\ Parents(fs) = [r \in RefsOf(fs) |-> Parents(fs)[r]]
          /\ Parents(gs) = [r \in RefsOf(fs) |-> Parents(gs)[r]]
      BY <1>4 DEF Parents
    <2> QED
      BY <1>5, <2>1
  <1> QED
    BY <1>3, <1>4, <1>6

LEMMA PlanRenamed ==
  ASSUME PlanOK(folders), NEW ref, NEW name \in Names, RenameFolder(ref, name)
  PROVE  PlanOK(folders') /\ RefsOf(folders') = RefsOf(folders)
  <1>0. Listed(folders) /\ IsTree(Parents(folders)) /\ DepthsRight(folders) /\ NamesDiffer(folders)
    BY DEF PlanOK
  <1>1. PICK fs : fs = folders
    OBVIOUS
  <1>2. PICK gs : gs = folders'
    OBVIOUS
  <1>3. PICK k \in DOMAIN fs : fs[k].ref = ref /\ Folder(ref) = fs[k]
    BY <1>0, <1>1, FolderAt DEF RenameFolder
  <1>4. gs = [i \in DOMAIN fs |-> IF fs[i].ref = ref THEN [fs[i] EXCEPT !.name = name] ELSE fs[i]]
    BY <1>1, <1>2 DEF RenameFolder
  <1>5. \A i \in DOMAIN fs : fs[i] \in FolderRec /\ (fs[i].ref = ref <=> i = k)
    BY <1>0, <1>1, <1>3 DEF Listed
  <1>6. /\ DOMAIN gs = DOMAIN fs /\ gs = [i \in DOMAIN gs |-> gs[i]]
        /\ \A i \in DOMAIN fs : i # k => gs[i] = fs[i]
        /\ \A i \in DOMAIN fs : gs[i] \in FolderRec /\ gs[i].ref = fs[i].ref
        /\ \A i \in DOMAIN fs : gs[i].parent = fs[i].parent /\ gs[i].depth = fs[i].depth
        /\ gs[k].name = name
    BY <1>4, <1>5 DEF FolderRec
  <1>7. Listed(gs) /\ RefsOf(gs) = RefsOf(fs) /\ Parents(gs) = Parents(fs)
    BY <1>0, <1>1, <1>6, SameShape
  <1>8. DepthsRight(gs)
    BY <1>0, <1>1, <1>6, <1>7 DEF DepthsRight
  <1>9. NamesDiffer(gs)
    <2>1. ASSUME NEW i \in DOMAIN fs, i # k, fs[i].parent = fs[k].parent PROVE fs[i].name # name
      <3>1. ~ planCollision(fs[k].parent, name, ref)
        BY <1>3 DEF RenameFolder
      <3>2. fs[i].ref # ref
        BY <1>5, <2>1
      <3> QED
        BY <1>1, <2>1, <3>1, <3>2 DEF planCollision
    <2> QED
      BY <1>0, <1>1, <1>6, <2>1 DEF NamesDiffer
  <1> QED
    BY <1>0, <1>1, <1>2, <1>7, <1>8, <1>9 DEF PlanOK

LEMMA PlanMoved ==
  ASSUME PlanOK(folders), NEW ref, NEW parent, MoveFolder(ref, parent)
  PROVE  PlanOK(folders') /\ RefsOf(folders') = RefsOf(folders)
  <1>0. Listed(folders) /\ IsTree(Parents(folders)) /\ DepthsRight(folders) /\ NamesDiffer(folders)
    BY DEF PlanOK
  <1>1. PICK fs : fs = folders
    OBVIOUS
  <1>2. PICK gs : gs = folders'
    OBVIOUS
  <1>3. PICK k \in DOMAIN fs : fs[k].ref = ref /\ Folder(ref) = fs[k]
    BY <1>0, <1>1, FolderAt DEF MoveFolder
  <1>4. PICK ms : ms = [i \in DOMAIN fs |->
          IF fs[i].ref = ref THEN [fs[i] EXCEPT !.parent = parent] ELSE fs[i]]
    OBVIOUS
  <1>5. gs = recomputeDepth(ms, ref)
    BY <1>1, <1>2, <1>4 DEF MoveFolder
  <1>6. \A i \in DOMAIN fs : fs[i] \in FolderRec /\ (fs[i].ref = ref <=> i = k)
    BY <1>0, <1>1, <1>3 DEF Listed
  <1>7. parent \in RefsOf(fs) /\ parent \in Nat /\ ref \notin {RootFolderRef, IPMSubtreeRef}
    <2>1. parent \in RefsOf(fs) /\ ref \notin {RootFolderRef, IPMSubtreeRef}
      BY <1>0, <1>1, FolderAt DEF MoveFolder, systemFolder
    <2> QED
      BY <1>6, <2>1 DEF RefsOf, FolderRec
  <1>8. /\ DOMAIN ms = DOMAIN fs /\ (\A i \in DOMAIN fs : i # k => ms[i] = fs[i])
        /\ ms = [i \in DOMAIN ms |-> ms[i]]
        /\ \A i \in DOMAIN fs : ms[i] \in FolderRec /\ ms[i].ref = fs[i].ref
        /\ \A i \in DOMAIN fs : ms[i].name = fs[i].name /\ ms[i].depth = fs[i].depth
        /\ ms[k].parent = parent
    BY <1>4, <1>6, <1>7 DEF FolderRec
  <1>9. Listed(ms) /\ RefsOf(ms) = RefsOf(fs)
    <2>1. fs \in Seq(FolderRec) /\ DOMAIN fs = 1 .. Len(fs) /\ Len(fs) \in Nat
      BY <1>0, <1>1, LenProperties DEF Listed
    <2>2. ms \in [1 .. Len(fs) -> FolderRec]
      BY <1>8, <2>1
    <2>3. ms \in Seq(FolderRec)
      BY <2>1, <2>2, SeqDef
    <2>4. \A i, j \in DOMAIN ms : ms[i].ref = ms[j].ref => i = j
      BY <1>0, <1>1, <1>8 DEF Listed
    <2>5. RefsOf(ms) = RefsOf(fs)
      BY <1>8 DEF RefsOf
    <2> QED
      BY <2>3, <2>4, <2>5 DEF Listed
  <1>10. PICK p : p = Parents(fs)
    OBVIOUS
  <1>11. PICK q : q = Parents(ms)
    OBVIOUS
  <1>12. /\ DOMAIN p = RefsOf(fs) /\ \A r : PlanAncestors(fs, r) = Above(p, r)
         /\ \A i \in DOMAIN fs : fs[i].ref \in RefsOf(fs) /\ p[fs[i].ref] = fs[i].parent
    BY <1>0, <1>1, <1>10, ParentsOf
  <1>13. /\ DOMAIN q = RefsOf(fs) /\ \A r : PlanAncestors(ms, r) = Above(q, r)
         /\ \A i \in DOMAIN ms : q[ms[i].ref] = ms[i].parent
    BY <1>9, <1>11, ParentsOf
  <1>14. /\ q[ref] = parent /\ \A x \in DOMAIN p : x # ref => q[x] = p[x]
    <2>1. q[ref] = parent
      BY <1>3, <1>8, <1>13
    <2>2. ASSUME NEW x \in DOMAIN p, x # ref PROVE q[x] = p[x]
      <3>1. PICK i \in DOMAIN fs : x = fs[i].ref
        BY <1>12 DEF RefsOf
      <3>2. ms[i] = fs[i] /\ i \in DOMAIN ms
        BY <1>3, <1>8, <2>2, <3>1
      <3> QED
        BY <1>12, <1>13, <3>1, <3>2
    <2> QED
      BY <2>1, <2>2
  <1>15. IsTree(q) /\ \A x \in DOMAIN p : ref \notin Above(q, x) => Above(q, x) = Above(p, x)
    <2>1. /\ IsTree(p) /\ ref \in DOMAIN p \ {RootFolderRef} /\ parent \in DOMAIN p
          /\ DOMAIN q = DOMAIN p
      BY <1>0, <1>1, <1>3, <1>7, <1>10, <1>12, <1>13
    <2>2. ref \notin Above(p, parent)
      BY <1>1, <1>12 DEF MoveFolder
    <2> QED
      BY <1>14, <2>1, <2>2, MovedTree
  <1>16. ASSUME NEW i \in DOMAIN fs
         PROVE  /\ gs[i] = IF ref \in Above(q, ms[i].ref)
                           THEN [ms[i] EXCEPT !.depth = Cardinality(Above(q, ms[i].ref)) - 1]
                           ELSE ms[i]
                /\ Cardinality(Above(q, ms[i].ref)) \in Nat
    <2>1. gs[i] = IF ref \in Above(q, ms[i].ref)
                  THEN [ms[i] EXCEPT !.depth = Cardinality(Above(q, ms[i].ref)) - 1]
                  ELSE ms[i]
      BY <1>5, <1>8, <1>13 DEF recomputeDepth
    <2>2. ms[i].ref \in DOMAIN q /\ Hung(q)
      BY <1>8, <1>12, <1>13, <1>15 DEF IsTree
    <2>3. Above(q, ms[i].ref) \subseteq DOMAIN q
      BY <2>2, AboveClosed
    <2>4. Cardinality(Above(q, ms[i].ref)) \in Nat
      BY <2>2, <2>3, FS_Subset, FS_CardinalityType DEF Hung
    <2> QED
      BY <2>1, <2>4
  <1>17. ASSUME NEW i \in DOMAIN fs
         PROVE  /\ gs[i] \in FolderRec /\ gs[i].ref = ms[i].ref /\ gs[i].parent = ms[i].parent
                /\ gs[i].name = ms[i].name
                /\ gs[i].depth = Cardinality(Above(q, ms[i].ref)) - 1
    <2>1. ms[i] \in FolderRec
      BY <1>8
    <2>2. CASE ref \in Above(q, ms[i].ref)
      <3>1. PICK m : m = ms[i]
        OBVIOUS
      <3>2. PICK c : c = Cardinality(Above(q, ms[i].ref)) - 1
        OBVIOUS
      <3>3. gs[i] = [m EXCEPT !.depth = c] /\ c \in Int
        BY <1>16, <2>2, <3>1, <3>2
      <3>4. m \in FolderRec
        BY <2>1, <3>1
      <3>5. /\ [m EXCEPT !.depth = c] \in FolderRec
            /\ [m EXCEPT !.depth = c].ref = m.ref /\ [m EXCEPT !.depth = c].parent = m.parent
            /\ [m EXCEPT !.depth = c].name = m.name /\ [m EXCEPT !.depth = c].depth = c
        BY <3>3, <3>4 DEF FolderRec
      <3> QED
        BY <3>1, <3>2, <3>3, <3>5
    <2>3. CASE ref \notin Above(q, ms[i].ref)
      <3>1. gs[i] = ms[i] /\ ms[i].ref = fs[i].ref /\ ms[i].depth = fs[i].depth
        BY <1>8, <1>16, <2>3
      <3>2. Above(q, ms[i].ref) = Above(p, fs[i].ref)
        BY <1>12, <1>15, <2>3, <3>1
      <3>3. fs[i].depth = Cardinality(Above(p, fs[i].ref)) - 1
        BY <1>0, <1>1, <1>10 DEF DepthsRight
      <3> QED
        BY <2>1, <3>1, <3>2, <3>3
    <2> QED
      BY <2>2, <2>3
  <1>18. DOMAIN gs = DOMAIN ms /\ gs = [i \in DOMAIN gs |-> gs[i]]
    BY <1>5 DEF recomputeDepth
  <1>19. Listed(gs) /\ RefsOf(gs) = RefsOf(ms) /\ Parents(gs) = q
    BY <1>8, <1>9, <1>11, <1>17, <1>18, SameShape
  <1>20. DepthsRight(gs)
    BY <1>8, <1>17, <1>18, <1>19 DEF DepthsRight
  <1>21. NamesDiffer(gs)
    <2>1. ASSUME NEW i \in DOMAIN fs, i # k, fs[i].parent = parent PROVE fs[i].name # fs[k].name
      <3>1. ~ planCollision(parent, fs[k].name, ref)
        BY <1>3 DEF MoveFolder
      <3>2. fs[i].ref # ref
        BY <1>6, <2>1
      <3> QED
        BY <1>1, <2>1, <3>1, <3>2 DEF planCollision
    <2>2. NamesDiffer(ms)
      BY <1>0, <1>1, <1>8, <2>1 DEF NamesDiffer
    <2> QED
      BY <1>8, <1>17, <1>18, <2>2 DEF NamesDiffer
  <1>22. IPMSubtreeRef \in RefsOf(gs) /\ q[IPMSubtreeRef] = RootFolderRef
    BY <1>1, <1>7, <1>9, <1>10, <1>12, <1>14, <1>19 DEF PlanOK
  <1> QED
    BY <1>1, <1>2, <1>9, <1>15, <1>19, <1>20, <1>21, <1>22 DEF PlanOK

LEMMA PlanDeleted ==
  ASSUME PlanOK(folders), NEW ref, DeleteFolder(ref),
         NEW drop, drop = {r \in Refs : ref \in PlanAncestors(folders, r)}
  PROVE  PlanOK(folders') /\ RefsOf(folders') = RefsOf(folders) \ drop
  <1>0. Listed(folders) /\ IsTree(Parents(folders)) /\ DepthsRight(folders) /\ NamesDiffer(folders)
    BY DEF PlanOK
  <1>1. PICK fs : fs = folders
    OBVIOUS
  <1>2. PICK gs : gs = folders'
    OBVIOUS
  <1>3. PICK p : p = Parents(fs)
    OBVIOUS
  <1>4. /\ DOMAIN p = RefsOf(fs) /\ \A r : PlanAncestors(fs, r) = Above(p, r)
        /\ \A i \in DOMAIN fs : fs[i].ref \in RefsOf(fs) /\ p[fs[i].ref] = fs[i].parent
    BY <1>0, <1>1, <1>3, ParentsOf
  <1>5. drop = {r \in DOMAIN p : ref \in Above(p, r)}
    BY <1>0, <1>1, <1>4, FolderAt
  <1>6. IsTree(p) /\ Hung(p) /\ ref \notin {RootFolderRef, IPMSubtreeRef}
    BY <1>0, <1>1, <1>3 DEF IsTree, DeleteFolder, systemFolder
  <1>7. PICK K : K = {i \in DOMAIN fs : fs[i].ref \notin drop}
    OBVIOUS
  <1>8. gs = Keep(fs, K) /\ K \in SUBSET DOMAIN fs /\ fs \in Seq(FolderRec)
    <2>1. gs = Keep(fs, K)
      BY <1>1, <1>2, <1>7 DEF DeleteFolder
    <2> QED
      BY <1>0, <1>1, <1>7, <2>1 DEF Listed
  <1>9. gs \in Seq(FolderRec)
    BY <1>8, KeepWhat
  <1>10. PICK at \in [DOMAIN gs -> K] :
           /\ \A n \in DOMAIN gs : gs[n] = fs[at[n]]
           /\ \A m, n \in DOMAIN gs : at[m] = at[n] => m = n
           /\ \A i \in K : \E n \in DOMAIN gs : at[n] = i
    BY <1>8, KeepWhat
  <1>11. /\ \A n \in DOMAIN gs : at[n] \in DOMAIN fs /\ at[n] \in K
         /\ \A i \in K : i \in DOMAIN fs /\ fs[i].ref \notin drop
    BY <1>7, <1>10
  <1>12. Listed(gs)
    BY <1>0, <1>1, <1>9, <1>10, <1>11 DEF Listed
  <1>13. RefsOf(gs) = RefsOf(fs) \ drop
    <2>1. RefsOf(gs) \subseteq RefsOf(fs) \ drop
      BY <1>10, <1>11 DEF RefsOf
    <2>2. ASSUME NEW r \in RefsOf(fs) \ drop PROVE r \in RefsOf(gs)
      <3>1. PICK i \in DOMAIN fs : r = fs[i].ref
        BY DEF RefsOf
      <3>2. PICK n \in DOMAIN gs : at[n] = i
        BY <1>7, <1>10, <3>1
      <3> QED
        BY <1>10, <3>1, <3>2 DEF RefsOf
    <2> QED
      BY <2>1, <2>2
  <1>14. PICK q : q = Parents(gs)
    OBVIOUS
  <1>15. /\ DOMAIN q = RefsOf(gs)
         /\ \A n \in DOMAIN gs : gs[n].ref \in RefsOf(gs) /\ q[gs[n].ref] = gs[n].parent
    BY <1>12, <1>14, ParentsOf
  <1>16. \A r \in DOMAIN q : q[r] = p[r]
    <2> SUFFICES ASSUME NEW r \in DOMAIN q PROVE q[r] = p[r]
      OBVIOUS
    <2>1. PICK n \in DOMAIN gs : r = gs[n].ref
      BY <1>15 DEF RefsOf
    <2>2. gs[n] = fs[at[n]] /\ at[n] \in DOMAIN fs
      BY <1>10, <1>11
    <2> QED
      BY <1>4, <1>15, <2>1, <2>2
  <1>17. /\ Above(p, RootFolderRef) \subseteq {RootFolderRef} /\ RootFolderRef \in DOMAIN p
         /\ ref \notin Above(p, IPMSubtreeRef)
    <2>1. RootFolderRef \in DOMAIN p
      BY <1>6 DEF Hung
    <2>2. Above(p, RootFolderRef) \subseteq {RootFolderRef}
      <3>1. \A S : RootFolderRef \in S
                     /\ (\A x \in S \cap DOMAIN p : x # RootFolderRef => p[x] \in S)
                   => Above(p, RootFolderRef) \subseteq S
        BY <1>6, <2>1, AboveClosed
      <3>2. \A x \in {RootFolderRef} \cap DOMAIN p : x # RootFolderRef => p[x] \in {RootFolderRef}
        OBVIOUS
      <3> QED
        BY <3>1, <3>2
    <2>3. IPMSubtreeRef \in DOMAIN p \ {RootFolderRef} /\ p[IPMSubtreeRef] = RootFolderRef
      BY <1>1, <1>3, <1>4 DEF PlanOK, IPMSubtreeRef, RootFolderRef
    <2>4. Above(p, IPMSubtreeRef) = Above(p, RootFolderRef) \cup {IPMSubtreeRef}
      BY <1>6, <2>3, AboveStep
    <2> QED
      BY <1>6, <2>1, <2>2, <2>4
  <1>18. /\ DOMAIN q \subseteq DOMAIN p /\ RootFolderRef \in DOMAIN q
         /\ IPMSubtreeRef \in DOMAIN q
    BY <1>1, <1>3, <1>4, <1>5, <1>6, <1>13, <1>15, <1>17 DEF PlanOK
  <1>19. \A r \in DOMAIN q \ {RootFolderRef} : p[r] \in DOMAIN q
    <2> SUFFICES ASSUME NEW r \in DOMAIN q \ {RootFolderRef} PROVE p[r] \in DOMAIN q
      OBVIOUS
    <2>1. r \in DOMAIN p \ {RootFolderRef} /\ r \notin drop /\ p[r] \in DOMAIN p
      BY <1>4, <1>6, <1>13, <1>15 DEF Hung
    <2>2. Above(p, r) = Above(p, p[r]) \cup {r}
      BY <1>6, <2>1, AboveStep
    <2>3. p[r] \notin drop
      BY <1>5, <2>1, <2>2
    <2> QED
      BY <1>4, <1>13, <1>15, <2>1, <2>3
  <1>20. IsTree(q) /\ \A r \in DOMAIN q : Above(q, r) = Above(p, r)
    BY <1>6, <1>16, <1>18, <1>19, PartOfTree
  <1>21. DepthsRight(gs)
    <2> SUFFICES ASSUME NEW n \in DOMAIN gs
                 PROVE  gs[n].depth = Cardinality(Above(q, gs[n].ref)) - 1
      BY <1>14 DEF DepthsRight
    <2>1. gs[n] = fs[at[n]] /\ at[n] \in DOMAIN fs
      BY <1>10, <1>11
    <2>2. fs[at[n]].depth = Cardinality(Above(p, fs[at[n]].ref)) - 1
      BY <1>0, <1>1, <1>3, <2>1 DEF DepthsRight
    <2> QED
      BY <1>15, <1>20, <2>1, <2>2
  <1>22. NamesDiffer(gs)
    BY <1>0, <1>1, <1>10, <1>11 DEF NamesDiffer
  <1>23. IPMSubtreeRef \in RefsOf(gs) /\ q[IPMSubtreeRef] = RootFolderRef
    BY <1>1, <1>3, <1>15, <1>16, <1>18 DEF PlanOK
  <1> QED
    BY <1>1, <1>2, <1>12, <1>13, <1>14, <1>20, <1>21, <1>22, <1>23 DEF PlanOK

-----------------------------------------------------------------------------
(* The session *)

MessageRec ==
  [nid : Nat, folder : Nat, read : BOOLEAN, body : Readers \cup {NoReader}]

\* Messages are numbered as they come and lie in folders of the plan;
\* references are given out in order, so none comes twice.
PlanInv ==
  /\ PlanOK(folders)
  /\ nextFold \in Nat \ {0, 1, 2} /\ \A r \in RefsOf(folders) : r < nextFold
  /\ messages \in Seq(MessageRec)
  /\ \A i \in DOMAIN messages :
       messages[i].nid = i /\ messages[i].folder \in RefsOf(folders)

LEMMA PlanInit == ExporterInit => PlanInv
  <1> SUFFICES ASSUME ExporterInit PROVE PlanInv
    OBVIOUS
  <1>1. PICK fs : fs = folders
    OBVIOUS
  <1>2. /\ Len(fs) = 2 /\ DOMAIN fs = {1, 2}
        /\ fs[1] = [ref |-> 1, parent |-> 0, name |-> "Root", depth |-> 0]
        /\ fs[2] = [ref |-> 2, parent |-> 1, name |-> "IPM_SUBTREE", depth |-> 1]
        /\ fs \in Seq(FolderRec)
    BY <1>1 DEF ExporterInit, RootFolderRef, IPMSubtreeRef, FolderRec
  <1>3. Listed(fs) /\ RefsOf(fs) = {1, 2}
    BY <1>2 DEF Listed, RefsOf
  <1>4. PICK p : p = Parents(fs)
    OBVIOUS
  <1>5. DOMAIN p = {1, 2} /\ p[1] = 0 /\ p[2] = 1
    <2>1. /\ DOMAIN p = RefsOf(fs)
          /\ \A i \in DOMAIN fs : p[fs[i].ref] = fs[i].parent
      BY <1>3, <1>4, ParentsOf
    <2> QED
      BY <1>2, <1>3, <2>1
  <1>6. IsTree(p)
    <2>1. Hung(p)
      <3>1. IsFiniteSet({1} \cup {2})
        BY FS_Singleton, FS_AddElement
      <3>2. {1} \cup {2} = {1, 2}
        OBVIOUS
      <3> QED
        BY <1>5, <3>1, <3>2 DEF Hung, RootFolderRef
    <2>2. Grounded(p)
      BY <1>5 DEF Grounded, RootFolderRef
    <2> QED
      BY <2>1, <2>2 DEF IsTree
  <1>7. DepthsRight(fs)
    <2>1. /\ 1 \in Above(p, 1)
          /\ \A S : 1 \in S /\ (\A x \in S \cap DOMAIN p : x # 1 => p[x] \in S)
                      => Above(p, 1) \subseteq S
      BY <1>5, <1>6, AboveClosed DEF IsTree, RootFolderRef
    <2>2. Above(p, 1) \subseteq {1}
      BY <2>1
    <2>3. Above(p, 1) = {1}
      BY <2>1, <2>2
    <2>4. Cardinality(Above(p, 1)) = 1
      BY <2>3, FS_Singleton
    <2>5. Cardinality(Above(p, 2)) = 2
      BY <1>5, <1>6, <2>4, AboveStep DEF RootFolderRef
    <2> QED
      BY <1>2, <1>4, <2>4, <2>5 DEF DepthsRight
  <1>8. NamesDiffer(fs)
    BY <1>2 DEF NamesDiffer
  <1>9. PlanOK(folders)
    BY <1>1, <1>3, <1>4, <1>5, <1>6, <1>7, <1>8 DEF PlanOK, RootFolderRef, IPMSubtreeRef
  <1>10. messages = <<>> /\ nextFold = 3
    BY DEF ExporterInit
  <1> QED
    BY <1>1, <1>3, <1>9, <1>10 DEF PlanInv

LEMMA PlanStep ==
  ASSUME PlanInv, [ExporterNext]_exporterVars
  PROVE  PlanInv'
  <1>0. /\ PlanOK(folders) /\ Listed(folders) /\ Refs = RefsOf(folders)
        /\ nextFold \in Nat \ {0, 1, 2} /\ nextFold \notin RefsOf(folders)
    <2>1. PlanOK(folders) /\ Listed(folders)
      BY DEF PlanInv, PlanOK
    <2>2. nextFold \notin RefsOf(folders) /\ nextFold \in Nat \ {0, 1, 2}
      BY DEF PlanInv
    <2> QED
      BY <2>1, <2>2, FolderAt
  <1>1. \A r \in RefsOf(folders) : r < nextFold /\ r \in Nat
    <2>1. \A i \in DOMAIN folders : folders[i] \in FolderRec
      BY <1>0 DEF Listed
    <2>2. \A i \in DOMAIN folders : folders[i].ref \in Nat
      BY <2>1 DEF FolderRec
    <2> QED
      BY <2>2 DEF PlanInv, RefsOf
  <1>2. ASSUME PlanOK(folders'), nextFold' \in Nat, nextFold <= nextFold',
               \A r \in RefsOf(folders') : r < nextFold',
               messages' = messages,
               \A i \in DOMAIN messages : messages[i].folder \in RefsOf(folders')
        PROVE  PlanInv'
    <2>1. PlanOK(folders)'
      BY <1>2 DEF PlanOK, Listed, DepthsRight, NamesDiffer, RefsOf, Parents, PlanParent
    <2>2. RefsOf(folders)' = RefsOf(folders')
      BY DEF RefsOf
    <2> QED
      BY <1>0, <1>2, <2>1, <2>2 DEF PlanInv
  <1>3. ASSUME NEW r \in Refs, DeleteFolder(r) PROVE PlanInv'
    <2>1. PICK drop : drop = {x \in Refs : r \in PlanAncestors(folders, x)}
      OBVIOUS
    <2>2. PlanOK(folders') /\ RefsOf(folders') = RefsOf(folders) \ drop
      BY <1>0, <1>3, <2>1, PlanDeleted
    <2>3. /\ messages' = messages /\ nextFold' = nextFold
          /\ \A i \in DOMAIN messages : messages[i].folder \notin drop
      BY <1>3, <2>1 DEF DeleteFolder
    <2> QED
      BY <1>0, <1>2, <2>2, <2>3 DEF PlanInv
  <1>4. ASSUME NEW r \in Refs, NEW n \in Names, CreateFolder(r, n) PROVE PlanInv'
    <2>1. PlanOK(folders') /\ RefsOf(folders') = RefsOf(folders) \cup {nextFold}
      BY <1>0, <1>4, PlanCreated
    <2>2. messages' = messages /\ nextFold' = nextFold + 1
      BY <1>4 DEF CreateFolder
    <2>3. \A x \in RefsOf(folders') : x < nextFold'
      BY <1>0, <1>1, <2>1, <2>2
    <2> QED
      BY <1>0, <1>2, <2>1, <2>2, <2>3 DEF PlanInv
  <1>5. ASSUME NEW r \in Refs, NEW n \in Names, RenameFolder(r, n) PROVE PlanInv'
    <2>1. PlanOK(folders') /\ RefsOf(folders') = RefsOf(folders)
      BY <1>0, <1>5, PlanRenamed
    <2>2. messages' = messages /\ nextFold' = nextFold
      BY <1>5 DEF RenameFolder
    <2> QED
      BY <1>0, <1>2, <2>1, <2>2 DEF PlanInv
  <1>6. ASSUME NEW r \in Refs, NEW p \in Refs, MoveFolder(r, p) PROVE PlanInv'
    <2>1. PlanOK(folders') /\ RefsOf(folders') = RefsOf(folders)
      BY <1>0, <1>6, PlanMoved
    <2>2. messages' = messages /\ nextFold' = nextFold
      BY <1>6 DEF MoveFolder
    <2> QED
      BY <1>0, <1>2, <2>1, <2>2 DEF PlanInv
  <1>7. ASSUME NEW r \in Refs, NEW b \in BOOLEAN, NEW d \in Readers \cup {NoReader},
               PlanMessage(r, b, d)
        PROVE  PlanInv'
    <2>1. folders' = folders /\ nextFold' = nextFold
      BY <1>7 DEF PlanMessage
    <2>2. PlanOK(folders)' /\ RefsOf(folders)' = RefsOf(folders)
      <3>1. PlanOK(folders') /\ RefsOf(folders') = RefsOf(folders)
        BY <1>0, <2>1
      <3> QED
        BY <3>1 DEF PlanOK, Listed, DepthsRight, NamesDiffer, RefsOf, Parents, PlanParent
    <2>3. PICK ms : ms = messages
      OBVIOUS
    <2>4. PICK m : m = [nid |-> Len(ms) + 1, folder |-> r, read |-> b, body |-> d]
      OBVIOUS
    <2>5. messages' = Append(ms, m)
      BY <1>7, <2>3, <2>4 DEF PlanMessage
    <2>6. ms \in Seq(MessageRec) /\ Len(ms) \in Nat /\ DOMAIN ms = 1 .. Len(ms)
      BY <2>3, LenProperties DEF PlanInv
    <2>7. r \in Nat
      BY <1>0, <1>1
    <2>8. m \in MessageRec /\ m.nid = Len(ms) + 1 /\ m.folder = r
      BY <2>4, <2>6, <2>7 DEF MessageRec
    <2>9. /\ messages' \in Seq(MessageRec) /\ DOMAIN messages' = 1 .. (Len(ms) + 1)
          /\ messages'[Len(ms) + 1] = m /\ \A i \in 1 .. Len(ms) : messages'[i] = ms[i]
      BY <2>5, <2>6, <2>8, AppendProperties, LenProperties
    <2>10. \A i \in DOMAIN messages' :
             messages'[i].nid = i /\ messages'[i].folder \in RefsOf(folders)
      <3> SUFFICES ASSUME NEW i \in DOMAIN messages'
                   PROVE  messages'[i].nid = i /\ messages'[i].folder \in RefsOf(folders)
        OBVIOUS
      <3>1. CASE i = Len(ms) + 1
        BY <1>0, <2>8, <2>9, <3>1
      <3>2. CASE i # Len(ms) + 1
        <4>1. i \in DOMAIN ms /\ messages'[i] = ms[i]
          BY <2>6, <2>9, <3>2
        <4> QED
          BY <2>3, <4>1 DEF PlanInv
      <3> QED
        BY <3>1, <3>2
    <2> QED
      BY <1>0, <2>1, <2>2, <2>9, <2>10 DEF PlanInv
  <1>8. ASSUME UNCHANGED plan PROVE PlanInv'
    <2>1. folders' = folders /\ messages' = messages /\ nextFold' = nextFold
      BY <1>8 DEF plan
    <2>2. PlanOK(folders') /\ RefsOf(folders') = RefsOf(folders)
      BY <1>0, <2>1
    <2> QED
      BY <1>0, <1>2, <2>1, <2>2 DEF PlanInv
  <1>9. ASSUME Finalize \/ Finalizing \/ Close \/ EditStore PROVE UNCHANGED plan
    BY <1>9 DEF Finalize, Finalizing, Close, EditStore, CreateFromPlan, SkipFolder, NextPass,
                CreateFromPlanFails, FoldersDone, CreateMessagesFromPlan,
                CreateMessagesFromPlanFails, MessagesDone, CommitSink, CommitSinkFails, Fail,
                Return
  <1>10. CASE UNCHANGED exporterVars
    BY <1>8, <1>10 DEF exporterVars
  <1>11. CASE ExporterNext
    BY <1>3, <1>4, <1>5, <1>6, <1>7, <1>8, <1>9, <1>11 DEF ExporterNext
  <1> QED
    BY <1>10, <1>11

LEMMA TreeOfPlan == PlanInv => PlanIsTree
  <1> SUFFICES ASSUME PlanInv PROVE PlanIsTree
    OBVIOUS
  <1>0. /\ Listed(folders) /\ IsTree(Parents(folders)) /\ DepthsRight(folders)
        /\ NamesDiffer(folders) /\ Refs = RefsOf(folders)
    <2>1. Listed(folders)
      BY DEF PlanInv, PlanOK
    <2> QED
      BY <2>1, FolderAt DEF PlanInv, PlanOK
  <1>1. PICK p : p = Parents(folders)
    OBVIOUS
  <1>2. /\ DOMAIN p = Refs
        /\ \A i \in DOMAIN folders : p[folders[i].ref] = folders[i].parent
    BY <1>0, <1>1, ParentsOf
  <1>3. ASSUME NEW r \in Refs
        PROVE  /\ Folder(r).parent = p[r] /\ Folder(r).depth = Cardinality(Above(p, r)) - 1
    <2>1. PICK i \in DOMAIN folders : folders[i].ref = r /\ Folder(r) = folders[i]
      BY <1>0, FolderAt
    <2> QED
      BY <1>0, <1>1, <1>2, <2>1 DEF DepthsRight
  <1>4. ASSUME NEW r \in Refs \ {RootFolderRef}
        PROVE  Folder(r).parent \in Refs /\ Folder(r).depth = Folder(Folder(r).parent).depth + 1
    <2>1. p[r] \in Refs /\ r \in DOMAIN p \ {RootFolderRef}
      BY <1>0, <1>1, <1>2 DEF IsTree, Hung
    <2>2. /\ Cardinality(Above(p, r)) = Cardinality(Above(p, p[r])) + 1
          /\ Cardinality(Above(p, p[r])) \in Nat
      BY <1>0, <1>1, <2>1, AboveStep
    <2>3. Folder(p[r]).depth = Cardinality(Above(p, p[r])) - 1
      BY <1>3, <2>1
    <2>4. Folder(r).depth = Cardinality(Above(p, r)) - 1 /\ Folder(r).parent = p[r]
      BY <1>3
    <2> QED
      BY <2>1, <2>2, <2>3, <2>4
  <1>5. \A i \in DOMAIN messages : messages[i].folder \in Refs
    BY <1>0 DEF PlanInv
  <1> QED
    BY <1>0, <1>4, <1>5 DEF PlanIsTree, NamesDiffer

\* Whatever folders are planned, renamed, moved with all below them and
\* deleted again, the plan stays a tree with the right depths: MoveFolder
\* lets no cycle in, recomputeDepth reaches every folder that moved, and
\* DeleteFolder refuses to leave a message without its folder.
THEOREM PlanStaysTree == ExporterSpec => []PlanIsTree
  <1>1. PlanInv /\ [ExporterNext]_exporterVars => PlanInv'
    BY PlanStep
  <1> QED
    BY <1>1, PlanInit, TreeOfPlan, PTL DEF ExporterSpec

-----------------------------------------------------------------------------
(* Finalize, as predicates of the plan (fs, ms), the nodes (n), what is left *)
(* to do and the store (s)                                                   *)

\* The folders made so far: they are what the plan says of them, and besides
\* them there are only those of WriteMinimum.
Made(fs, n, s) ==
  /\ {RootFolderRef, IPMSubtreeRef} \subseteq DOMAIN n /\ DOMAIN n \subseteq RefsOf(fs)
  /\ n[RootFolderRef] = NIDRootFolder /\ n[IPMSubtreeRef] = IPM
  /\ \A q, r \in DOMAIN n : n[q] = n[r] => q = r
  /\ DOMAIN s.pc = {n[r] : r \in DOMAIN n} \cup DOMAIN Minimum.pc
  /\ \A i \in DOMAIN fs : fs[i].ref \in DOMAIN n \ {RootFolderRef, IPMSubtreeRef} =>
       /\ fs[i].parent \in DOMAIN n
       /\ s.pc[n[fs[i].ref]].name = fs[i].name
       /\ s.pc[n[fs[i].ref]].parent = n[fs[i].parent]

Taken(fs, todo) ==
  Listed(todo) /\ \A i \in DOMAIN todo : \E j \in DOMAIN fs : todo[i] = fs[j]

\* Every folder is made, left to this pass, or left to the next.
FoldersLeft(fs, n, todo, later, s) ==
  /\ Taken(fs, todo) /\ Taken(fs, later)
  /\ RefsOf(todo) \cap RefsOf(later) = {}
  /\ (RefsOf(todo) \cup RefsOf(later)) \cap DOMAIN n = {}
  /\ RefsOf(fs) = DOMAIN n \cup RefsOf(todo) \cup RefsOf(later)
  /\ DOMAIN s.msg = {}

\* The messages of the store are the first ones of the plan.
MessagesLeft(fs, ms, n, todo, s) ==
  /\ DOMAIN n = RefsOf(fs)
  /\ todo \in Seq(MessageRec) /\ Len(todo) <= Len(ms)
  /\ \A i \in DOMAIN todo : todo[i] = ms[Len(ms) - Len(todo) + i]
  /\ DOMAIN s.msg = 1 .. (Len(ms) - Len(todo))
  /\ \A i \in DOMAIN s.msg : s.msg[i] = [folder |-> n[ms[i].folder], read |-> ms[i].read]

Exported(fs, ms, res) ==
  res.end = "ok" => /\ Made(fs, res.nids, res.store)
                    /\ MessagesLeft(fs, ms, res.nids, <<>>, res.store)

ExportInv ==
  /\ phase \in {"folders", "messages", "commit"} => Made(folders, nids, tree)
  /\ phase = "folders" => FoldersLeft(folders, nids, pending, skipped, tree)
  /\ phase \in {"messages", "commit"} => MessagesLeft(folders, messages, nids, pending, tree)
  /\ phase = "commit" => pending = <<>>
  /\ Exported(folders, messages, result)

LEMMA ExportInvPrimed ==
  ASSUME phase' \in {"folders", "messages", "commit"} => Made(folders', nids', tree'),
         phase' = "folders" => FoldersLeft(folders', nids', pending', skipped', tree'),
         phase' \in {"messages", "commit"} =>
           MessagesLeft(folders', messages', nids', pending', tree'),
         phase' = "commit" => pending' = <<>>,
         Exported(folders', messages', result')
  PROVE  ExportInv'
  BY DEF ExportInv, Made, FoldersLeft, MessagesLeft, Exported, Taken, Listed, RefsOf

\* The first of what is left, and the rest.
LEMMA HeadTaken ==
  ASSUME NEW fs, NEW todo, Taken(fs, todo), todo # <<>>
  PROVE  /\ Taken(fs, Tail(todo)) /\ Head(todo) \in FolderRec
         /\ \E j \in DOMAIN fs : Head(todo) = fs[j]
         /\ RefsOf(todo) = RefsOf(Tail(todo)) \cup {Head(todo).ref}
         /\ Head(todo).ref \notin RefsOf(Tail(todo))
  <1>1. todo \in Seq(FolderRec)
    BY DEF Taken, Listed
  <1>2. Len(todo) \in Nat \ {0} /\ DOMAIN todo = 1 .. Len(todo)
    BY <1>1, EmptySeq, LenProperties
  <1>3. PICK rest : rest = Tail(todo)
    OBVIOUS
  <1>4. /\ rest \in Seq(FolderRec) /\ Head(todo) \in FolderRec
        /\ Len(rest) = Len(todo) - 1 /\ \A i \in 1 .. Len(rest) : rest[i] = todo[i + 1]
    BY <1>1, <1>3, HeadTailProperties
  <1>5. DOMAIN rest = 1 .. Len(todo) - 1
    BY <1>4, LenProperties
  <1>6. Head(todo) = todo[1] /\ 1 \in DOMAIN todo
    BY <1>1, <1>2
  <1>7. /\ \A i \in DOMAIN rest : i + 1 \in DOMAIN todo /\ i + 1 # 1 /\ rest[i] = todo[i + 1]
        /\ \A i, j \in DOMAIN rest : i + 1 = j + 1 => i = j
        /\ \A i \in DOMAIN todo : i # 1 => i - 1 \in DOMAIN rest /\ todo[i] = rest[i - 1]
    BY <1>2, <1>4, <1>5
  <1>8. \A i, j \in DOMAIN todo : todo[i].ref = todo[j].ref => i = j
    BY DEF Taken, Listed
  <1>9. Listed(rest)
    BY <1>4, <1>7, <1>8 DEF Listed
  <1>10. \A i \in DOMAIN todo : \E j \in DOMAIN fs : todo[i] = fs[j]
    BY DEF Taken
  <1>11. Taken(fs, rest)
    BY <1>7, <1>9, <1>10 DEF Taken
  <1>12. RefsOf(todo) = RefsOf(rest) \cup {todo[1].ref}
    <2>1. ASSUME NEW i \in DOMAIN todo PROVE todo[i].ref \in RefsOf(rest) \cup {todo[1].ref}
      BY <1>7 DEF RefsOf
    <2>2. ASSUME NEW i \in DOMAIN rest PROVE rest[i].ref \in RefsOf(todo)
      BY <1>7 DEF RefsOf
    <2>3. todo[1].ref \in RefsOf(todo)
      BY <1>6 DEF RefsOf
    <2> QED
      BY <2>1, <2>2, <2>3 DEF RefsOf
  <1>13. todo[1].ref \notin RefsOf(rest)
    BY <1>6, <1>7, <1>8 DEF RefsOf
  <1> QED
    BY <1>3, <1>4, <1>6, <1>10, <1>11, <1>12, <1>13

LEMMA AppendTaken ==
  ASSUME NEW fs, NEW later, Taken(fs, later), NEW f \in FolderRec,
         \E j \in DOMAIN fs : f = fs[j], f.ref \notin RefsOf(later)
  PROVE  Taken(fs, Append(later, f)) /\ RefsOf(Append(later, f)) = RefsOf(later) \cup {f.ref}
  <1>1. later \in Seq(FolderRec)
    BY DEF Taken, Listed
  <1>2. PICK more : more = Append(later, f)
    OBVIOUS
  <1>3. PICK l : l = Len(later) + 1
    OBVIOUS
  <1>4. /\ more \in Seq(FolderRec) /\ DOMAIN more = DOMAIN later \cup {l} /\ l \notin DOMAIN later
        /\ more[l] = f /\ \A i \in DOMAIN later : more[i] = later[i]
    <2>1. Len(later) \in Nat /\ DOMAIN later = 1 .. Len(later)
      BY <1>1, LenProperties
    <2>2. /\ more \in Seq(FolderRec) /\ Len(more) = l /\ more[l] = f
          /\ \A i \in 1 .. Len(later) : more[i] = later[i]
      BY <1>1, <1>2, <1>3, AppendProperties
    <2>3. DOMAIN more = 1 .. l
      BY <2>2, LenProperties
    <2> QED
      BY <1>3, <2>1, <2>2, <2>3
  <1>5. \A i \in DOMAIN later : later[i].ref # f.ref
    BY DEF RefsOf
  <1>6. Listed(more)
    BY <1>4, <1>5 DEF Listed, Taken
  <1>7. Taken(fs, more)
    BY <1>4, <1>6 DEF Taken
  <1>8. RefsOf(more) = RefsOf(later) \cup {f.ref}
    BY <1>4 DEF RefsOf
  <1> QED
    BY <1>2, <1>7, <1>8

LEMMA NothingTaken ==
  ASSUME NEW fs PROVE Taken(fs, <<>>) /\ RefsOf(<<>>) = {}
  <1>1. <<>> \in Seq(FolderRec) /\ DOMAIN <<>> = {}
    BY EmptySeq
  <1> QED
    BY <1>1 DEF Taken, Listed, RefsOf

\* A folder made below the node of its parent.
LEMMA FolderMade ==
  ASSUME NEW fs, Listed(fs), NEW n, NEW todo, NEW later, NEW s, Made(fs, n, s),
         FoldersLeft(fs, n, todo, later, s), todo # <<>>,
         NEW f, f = Head(todo), f.parent \in DOMAIN n,
         NEW nid, nid \notin DOMAIN s.pc,
         NEW t, Placed(s, t, nid, n[f.parent], f.name),
         NEW m, m = Put(n, f.ref, nid)
  PROVE  Made(fs, m, t) /\ FoldersLeft(fs, m, Tail(todo), later, t)
  <1>0. /\ {RootFolderRef, IPMSubtreeRef} \subseteq DOMAIN n /\ DOMAIN n \subseteq RefsOf(fs)
        /\ n[RootFolderRef] = NIDRootFolder /\ n[IPMSubtreeRef] = IPM
        /\ \A q, r \in DOMAIN n : n[q] = n[r] => q = r
        /\ DOMAIN s.pc = {n[r] : r \in DOMAIN n} \cup DOMAIN Minimum.pc
    BY DEF Made
  <1>1. PICK rest : rest = Tail(todo)
    OBVIOUS
  <1>2. /\ Taken(fs, todo) /\ Taken(fs, later) /\ RefsOf(todo) \cap RefsOf(later) = {}
        /\ (RefsOf(todo) \cup RefsOf(later)) \cap DOMAIN n = {}
        /\ RefsOf(fs) = DOMAIN n \cup RefsOf(todo) \cup RefsOf(later) /\ DOMAIN s.msg = {}
    BY DEF FoldersLeft
  <1>3. /\ Taken(fs, rest) /\ f \in FolderRec /\ (\E j \in DOMAIN fs : f = fs[j])
        /\ RefsOf(todo) = RefsOf(rest) \cup {f.ref} /\ f.ref \notin RefsOf(rest)
    BY <1>1, <1>2, HeadTaken
  <1>4. /\ DOMAIN t.pc = DOMAIN s.pc \cup {nid} /\ t.msg = s.msg
        /\ t.pc[nid].parent = n[f.parent] /\ t.pc[nid].name = f.name
        /\ \A g \in DOMAIN s.pc : t.pc[g].parent = s.pc[g].parent /\ t.pc[g].name = s.pc[g].name
    BY DEF Placed, SamePlaces
  <1>5. /\ DOMAIN m = DOMAIN n \cup {f.ref} /\ m[f.ref] = nid /\ f.ref \notin DOMAIN n
        /\ \A r \in DOMAIN n : m[r] = n[r] /\ r # f.ref
    BY <1>2, <1>3 DEF Put
  <1>6. FoldersLeft(fs, m, rest, later, t)
    BY <1>2, <1>3, <1>4, <1>5 DEF FoldersLeft
  <1>7. \A q, r \in DOMAIN m : m[q] = m[r] => q = r
    <2>1. \A r \in DOMAIN n : n[r] # nid
      BY <1>0
    <2> QED
      BY <1>0, <1>5, <2>1
  <1>8. DOMAIN t.pc = {m[r] : r \in DOMAIN m} \cup DOMAIN Minimum.pc
    BY <1>0, <1>4, <1>5
  <1>9. ASSUME NEW i \in DOMAIN fs, fs[i].ref \in DOMAIN m \ {RootFolderRef, IPMSubtreeRef}
        PROVE  /\ fs[i].parent \in DOMAIN m
               /\ t.pc[m[fs[i].ref]].name = fs[i].name
               /\ t.pc[m[fs[i].ref]].parent = m[fs[i].parent]
    <2>1. CASE fs[i].ref = f.ref
      <3>1. fs[i] = f
        BY <1>3, <2>1 DEF Listed
      <3> QED
        BY <1>4, <1>5, <3>1
    <2>2. CASE fs[i].ref # f.ref
      <3>1. fs[i].ref \in DOMAIN n \ {RootFolderRef, IPMSubtreeRef}
        BY <1>5, <1>9, <2>2
      <3>2. /\ fs[i].parent \in DOMAIN n
            /\ s.pc[n[fs[i].ref]].name = fs[i].name
            /\ s.pc[n[fs[i].ref]].parent = n[fs[i].parent]
        BY <3>1 DEF Made
      <3>3. n[fs[i].ref] \in DOMAIN s.pc /\ m[fs[i].ref] = n[fs[i].ref]
        BY <1>0, <1>5, <3>1
      <3> QED
        BY <1>4, <1>5, <3>2, <3>3
    <2> QED
      BY <2>1, <2>2
  <1>10. DOMAIN m \subseteq RefsOf(fs)
    BY <1>0, <1>2, <1>3, <1>5
  <1>11. /\ {RootFolderRef, IPMSubtreeRef} \subseteq DOMAIN m
         /\ m[RootFolderRef] = NIDRootFolder /\ m[IPMSubtreeRef] = IPM
    BY <1>0, <1>5
  <1>12. Made(fs, m, t)
    BY <1>7, <1>8, <1>9, <1>10, <1>11 DEF Made
  <1> QED
    BY <1>1, <1>6, <1>12

\* A message written into the node of its folder.
LEMMA MessageMade ==
  ASSUME NEW fs, NEW ms \in Seq(MessageRec), \A i \in DOMAIN ms : ms[i].nid = i,
         NEW n, NEW todo, NEW s, Made(fs, n, s),
         MessagesLeft(fs, ms, n, todo, s), todo # <<>>, NEW m, m = Head(todo)
  PROVE  /\ m.nid \in Nat
         /\ \A t : /\ DOMAIN t.pc = DOMAIN s.pc /\ SamePlaces(s, t)
                   /\ t.msg = Put(s.msg, m.nid, [folder |-> n[m.folder], read |-> m.read])
                   => Made(fs, n, t) /\ MessagesLeft(fs, ms, n, Tail(todo), t)
  <1>1. /\ DOMAIN n = RefsOf(fs)
        /\ todo \in Seq(MessageRec) /\ Len(todo) <= Len(ms)
        /\ \A i \in DOMAIN todo : todo[i] = ms[Len(ms) - Len(todo) + i]
        /\ DOMAIN s.msg = 1 .. (Len(ms) - Len(todo))
        /\ \A i \in DOMAIN s.msg : s.msg[i] = [folder |-> n[ms[i].folder], read |-> ms[i].read]
    BY DEF MessagesLeft
  <1>2. /\ Len(todo) \in Nat \ {0} /\ DOMAIN todo = 1 .. Len(todo)
        /\ Len(ms) \in Nat /\ DOMAIN ms = 1 .. Len(ms)
    BY <1>1, EmptySeq, LenProperties
  <1>3. PICK rest : rest = Tail(todo)
    OBVIOUS
  <1>4. /\ rest \in Seq(MessageRec) /\ Len(rest) = Len(todo) - 1 /\ m = todo[1]
        /\ \A i \in 1 .. Len(rest) : rest[i] = todo[i + 1]
    BY <1>1, <1>3, HeadTailProperties
  <1>5. DOMAIN rest = 1 .. Len(rest)
    BY <1>4, LenProperties
  <1>6. PICK k : k = Len(ms) - Len(todo) + 1
    OBVIOUS
  <1>7. /\ k \in DOMAIN ms /\ k \in Nat /\ m = ms[k] /\ m.nid = k
        /\ k = Len(ms) - Len(rest) /\ Len(rest) <= Len(ms)
        /\ 1 .. k = 1 .. (Len(ms) - Len(todo)) \cup {k} /\ k \notin 1 .. (Len(ms) - Len(todo))
    <2>1. k \in DOMAIN ms /\ k \in Nat /\ 1 \in DOMAIN todo
      BY <1>1, <1>2, <1>6
    <2>2. m = ms[k]
      BY <1>1, <1>4, <1>6, <2>1
    <2>3. /\ k = Len(ms) - Len(rest) /\ Len(rest) <= Len(ms)
          /\ 1 .. k = 1 .. (Len(ms) - Len(todo)) \cup {k} /\ k \notin 1 .. (Len(ms) - Len(todo))
      BY <1>1, <1>2, <1>4, <1>6
    <2> QED
      BY <2>1, <2>2, <2>3
  <1>8. \A i \in DOMAIN rest : rest[i] = ms[Len(ms) - Len(rest) + i]
    <2> SUFFICES ASSUME NEW i \in DOMAIN rest PROVE rest[i] = ms[Len(ms) - Len(rest) + i]
      OBVIOUS
    <2>1. i \in Nat /\ i + 1 \in DOMAIN todo /\ rest[i] = todo[i + 1]
      BY <1>2, <1>4, <1>5
    <2>2. todo[i + 1] = ms[Len(ms) - Len(todo) + (i + 1)]
      BY <1>1, <2>1
    <2>3. Len(ms) - Len(todo) + (i + 1) = Len(ms) - Len(rest) + i
      BY <1>2, <1>4, <2>1
    <2> QED
      BY <2>1, <2>2, <2>3
  <1>9. ASSUME NEW t, DOMAIN t.pc = DOMAIN s.pc, SamePlaces(s, t),
               t.msg = Put(s.msg, m.nid, [folder |-> n[m.folder], read |-> m.read])
        PROVE  Made(fs, n, t) /\ MessagesLeft(fs, ms, n, rest, t)
    <2>1. Made(fs, n, t)
      <3>1. \A r \in DOMAIN n : n[r] \in DOMAIN s.pc
        BY DEF Made
      <3>2. ASSUME NEW i \in DOMAIN fs, fs[i].ref \in DOMAIN n \ {RootFolderRef, IPMSubtreeRef}
            PROVE  /\ fs[i].parent \in DOMAIN n
                   /\ t.pc[n[fs[i].ref]].name = fs[i].name
                   /\ t.pc[n[fs[i].ref]].parent = n[fs[i].parent]
        <4>1. /\ fs[i].parent \in DOMAIN n
              /\ s.pc[n[fs[i].ref]].name = fs[i].name
              /\ s.pc[n[fs[i].ref]].parent = n[fs[i].parent]
          BY <3>2 DEF Made
        <4> QED
          BY <1>9, <3>1, <3>2, <4>1 DEF SamePlaces
      <3> QED
        BY <1>9, <3>2 DEF Made
    <2>2. PICK new : new = [folder |-> n[m.folder], read |-> m.read]
      OBVIOUS
    <2>3. /\ DOMAIN t.msg = DOMAIN s.msg \cup {k} /\ t.msg[k] = new
          /\ \A i \in DOMAIN s.msg : i # k => t.msg[i] = s.msg[i]
      BY <1>7, <1>9, <2>2 DEF Put
    <2>4. DOMAIN t.msg = 1 .. (Len(ms) - Len(rest))
      BY <1>1, <1>7, <2>3
    <2>5. \A i \in DOMAIN t.msg : t.msg[i] = [folder |-> n[ms[i].folder], read |-> ms[i].read]
      BY <1>1, <1>7, <2>2, <2>3
    <2> QED
      BY <1>1, <1>4, <1>7, <1>8, <2>1, <2>4, <2>5 DEF MessagesLeft
  <1> QED
    BY <1>3, <1>7, <1>9

\* The store Finalize starts from holds the two system folders of the plan,
\* and what is left are the others.
LEMMA FoldersStart ==
  ASSUME PlanInv, Finalize
  PROVE  Made(folders, nids', tree') /\ FoldersLeft(folders, nids', pending', skipped', tree')
  <1>1. PICK fs : fs = folders
    OBVIOUS
  <1>2. PICK n : n = nids'
    OBVIOUS
  <1>3. PICK sys : sys = {RootFolderRef, IPMSubtreeRef}
    OBVIOUS
  <1>4. Listed(fs) /\ fs \in Seq(FolderRec) /\ sys \subseteq RefsOf(fs)
    <2>1. Listed(fs) /\ IsTree(Parents(fs)) /\ IPMSubtreeRef \in RefsOf(fs)
      BY <1>1 DEF PlanInv, PlanOK
    <2>2. DOMAIN Parents(fs) = RefsOf(fs)
      BY <2>1, ParentsOf
    <2>3. RootFolderRef \in RefsOf(fs)
      BY <2>1, <2>2 DEF IsTree, Hung
    <2> QED
      BY <1>3, <2>1, <2>3 DEF Listed
  <1>5. /\ DOMAIN n = sys /\ n[RootFolderRef] = NIDRootFolder /\ n[IPMSubtreeRef] = IPM
        /\ tree' = Minimum /\ skipped' = <<>>
    BY <1>2, <1>3 DEF Finalize, RootFolderRef, IPMSubtreeRef
  <1>6. DOMAIN Minimum.pc = {NIDRootFolder, IPM, Waste, Finder} /\ DOMAIN Minimum.msg = {}
    BY DEF Minimum, NoRows
  <1>7. Made(fs, n, Minimum)
    <2>1. NIDRootFolder # IPM
      BY DEF NIDRootFolder, IPM
    <2>2. \A q, r \in DOMAIN n : n[q] = n[r] => q = r
      BY <1>3, <1>5, <2>1
    <2>3. DOMAIN Minimum.pc = {n[r] : r \in DOMAIN n} \cup DOMAIN Minimum.pc
      BY <1>3, <1>5, <1>6
    <2> QED
      BY <1>3, <1>4, <1>5, <2>2, <2>3 DEF Made
  <1>8. PICK K : K = {i \in DOMAIN fs : fs[i].ref \notin sys}
    OBVIOUS
  <1>9. PICK todo : todo = pending'
    OBVIOUS
  <1>10. todo = Keep(fs, K) /\ K \in SUBSET DOMAIN fs
    BY <1>1, <1>3, <1>8, <1>9 DEF Finalize, systemFolder
  <1>11. todo \in Seq(FolderRec)
    BY <1>4, <1>10, KeepWhat
  <1>12. PICK at \in [DOMAIN todo -> K] :
           /\ \A i \in DOMAIN todo : todo[i] = fs[at[i]]
           /\ \A i, j \in DOMAIN todo : at[i] = at[j] => i = j
           /\ \A k \in K : \E i \in DOMAIN todo : at[i] = k
    BY <1>4, <1>10, KeepWhat
  <1>13. \A i \in DOMAIN todo : at[i] \in DOMAIN fs /\ fs[at[i]].ref \notin sys
    BY <1>8, <1>12
  <1>14. Taken(fs, todo)
    <2>1. Listed(todo)
      BY <1>4, <1>11, <1>12, <1>13 DEF Listed
    <2> QED
      BY <1>12, <1>13, <2>1 DEF Taken
  <1>15. RefsOf(todo) = RefsOf(fs) \ sys
    <2>1. RefsOf(todo) \subseteq RefsOf(fs) \ sys
      BY <1>12, <1>13 DEF RefsOf
    <2>2. ASSUME NEW r \in RefsOf(fs) \ sys PROVE r \in RefsOf(todo)
      <3>1. PICK k \in DOMAIN fs : r = fs[k].ref
        BY DEF RefsOf
      <3>2. PICK i \in DOMAIN todo : at[i] = k
        BY <1>8, <1>12, <3>1
      <3> QED
        BY <1>12, <3>1, <3>2 DEF RefsOf
    <2> QED
      BY <2>1, <2>2
  <1>16. FoldersLeft(fs, n, todo, <<>>, Minimum)
    <2>1. Taken(fs, <<>>) /\ RefsOf(<<>>) = {}
      BY NothingTaken
    <2> QED
      BY <1>4, <1>5, <1>6, <1>14, <1>15, <2>1 DEF FoldersLeft
  <1> QED
    BY <1>1, <1>2, <1>5, <1>7, <1>9, <1>16

-----------------------------------------------------------------------------
(* The store under construction, and the file *)

SessionInv == PlanInv /\ TreeInv /\ ExportInv

LEMMA SessionInit == ExporterInit => SessionInv
  <1> SUFFICES ASSUME ExporterInit PROVE SessionInv
    OBVIOUS
  <1>1. Init
    BY DEF ExporterInit, Init
  <1>2. phase \in {"open", "store"} /\ result.end # "ok"
    BY DEF ExporterInit, Result
  <1>3. ExportInv
    BY <1>2 DEF ExportInv, Exported
  <1> QED
    BY <1>1, <1>3, PlanInit, TreeInit DEF SessionInv

\* The store when Finalize has begun or has ended: a blank one.
LEMMA BlankStore ==
  ASSUME tree' = Minimum, nextFolder' = 3, nextMsg' = 1
  PROVE  TreeOK(tree') /\ Fresh'
  <1>1. DOMAIN Minimum.pc = {NIDRootFolder, IPM, Waste, Finder} /\ DOMAIN Minimum.msg = {}
    BY DEF Minimum, NoRows
  <1>2. Fresh'
    BY <1>1 DEF Fresh, NIDRootFolder, IPM, Waste, Index
  <1> QED
    BY <1>2, MinimumOK

\* What a step has to show of the store and of the run.
Onwards ==
  /\ TreeOK(tree') /\ Fresh' /\ (UNCHANGED vars \/ tree' = Minimum \/ KeepMessages)
  /\ phase' \in {"folders", "messages", "commit"} => Made(folders, nids', tree')
  /\ phase' = "folders" => FoldersLeft(folders, nids', pending', skipped', tree')
  /\ phase' \in {"messages", "commit"} => MessagesLeft(folders, messages, nids', pending', tree')
  /\ phase' = "commit" => pending' = <<>>
  /\ Exported(folders, messages, result')

LEMMA ReturnStep ==
  ASSUME SessionInv, Return, Exported(folders, messages, result')
  PROVE  Onwards
  <1>1. tree' = Minimum /\ nextFolder' = 3 /\ nextMsg' = 1 /\ phase' = "open"
    BY DEF Return
  <1>2. TreeOK(tree') /\ Fresh'
    BY <1>1, BlankStore
  <1> QED
    BY <1>1, <1>2 DEF Onwards

LEMMA FoldersStep ==
  ASSUME MaxIndex < FinderIndex, SessionInv,
         CreateFromPlan \/ SkipFolder \/ NextPass \/ FoldersDone
  PROVE  Onwards
  <1>0. /\ phase = "folders" /\ TreeOK(tree) /\ Fresh /\ TreeInv
        /\ Made(folders, nids, tree) /\ FoldersLeft(folders, nids, pending, skipped, tree)
        /\ Listed(folders) /\ Exported(folders, messages, result) /\ result' = result
    <2>1. phase = "folders" /\ result' = result
      BY DEF CreateFromPlan, SkipFolder, NextPass, FoldersDone
    <2> QED
      BY <2>1 DEF SessionInv, TreeInv, ExportInv, PlanInv, PlanOK
  <1>1. /\ Taken(folders, pending) /\ Taken(folders, skipped)
        /\ RefsOf(pending) \cap RefsOf(skipped) = {}
        /\ (RefsOf(pending) \cup RefsOf(skipped)) \cap DOMAIN nids = {}
        /\ RefsOf(folders) = DOMAIN nids \cup RefsOf(pending) \cup RefsOf(skipped)
        /\ DOMAIN tree.msg = {}
    BY <1>0 DEF FoldersLeft
  <1>2. CASE CreateFromPlan
    <2>1. PICK f : f = Head(pending)
      OBVIOUS
    <2>2. PICK nid : nid = <<"normal", nextFolder>>
      OBVIOUS
    <2>3. /\ pending # <<>> /\ f.parent \in DOMAIN nids /\ Create(nids[f.parent], f.name)
          /\ nids' = Put(nids, f.ref, nid) /\ pending' = Tail(pending)
          /\ skipped' = skipped /\ phase' = phase
      BY <1>2, <2>1, <2>2 DEF CreateFromPlan
    <2>4. PICK p, name : p = nids[f.parent] /\ name = f.name
      OBVIOUS
    <2>5. Create(p, name)
      BY <2>3, <2>4
    <2>6. /\ TreeOK(tree') /\ Fresh' /\ KeepMessages
          /\ nid \notin DOMAIN tree.pc /\ Placed(tree, tree', nid, p, name)
      BY <1>0, <2>2, <2>5, CreateStep
    <2>7. /\ Made(folders, nids', tree')
          /\ FoldersLeft(folders, nids', Tail(pending), skipped, tree')
      BY <1>0, <2>1, <2>3, <2>4, <2>6, FolderMade
    <2> QED
      BY <1>0, <2>3, <2>6, <2>7 DEF Onwards
  <1>3. CASE SkipFolder
    <2>1. PICK f : f = Head(pending)
      OBVIOUS
    <2>2. /\ pending # <<>> /\ skipped' = Append(skipped, f) /\ pending' = Tail(pending)
          /\ UNCHANGED vars /\ nids' = nids /\ phase' = phase
      BY <1>3, <2>1 DEF SkipFolder
    <2>3. PICK rest : rest = Tail(pending)
      OBVIOUS
    <2>4. /\ Taken(folders, rest) /\ f \in FolderRec /\ (\E j \in DOMAIN folders : f = folders[j])
          /\ RefsOf(pending) = RefsOf(rest) \cup {f.ref} /\ f.ref \notin RefsOf(rest)
      BY <1>1, <2>1, <2>2, <2>3, HeadTaken
    <2>5. f.ref \notin RefsOf(skipped)
      BY <1>1, <2>4
    <2>6. PICK more : more = Append(skipped, f)
      OBVIOUS
    <2>7. Taken(folders, more) /\ RefsOf(more) = RefsOf(skipped) \cup {f.ref}
      BY <1>1, <2>4, <2>5, <2>6, AppendTaken
    <2>8. FoldersLeft(folders, nids, rest, more, tree)
      BY <1>1, <2>4, <2>5, <2>7 DEF FoldersLeft
    <2>9. tree' = tree /\ Fresh'
      BY <1>0, <2>2 DEF vars, Fresh
    <2> QED
      BY <1>0, <2>2, <2>3, <2>6, <2>8, <2>9 DEF Onwards
  <1>4. CASE NextPass
    <2>1. /\ pending = <<>> /\ pending' = skipped /\ skipped' = <<>>
          /\ UNCHANGED vars /\ nids' = nids /\ phase' = phase
      BY <1>4 DEF NextPass
    <2>2. Taken(folders, <<>>) /\ RefsOf(<<>>) = {}
      BY NothingTaken
    <2>3. FoldersLeft(folders, nids, skipped, <<>>, tree)
      BY <1>1, <2>1, <2>2 DEF FoldersLeft
    <2>4. tree' = tree /\ Fresh'
      BY <1>0, <2>1 DEF vars, Fresh
    <2> QED
      BY <1>0, <2>1, <2>3, <2>4 DEF Onwards
  <1>5. CASE FoldersDone
    <2>1. /\ pending = <<>> /\ skipped = <<>> /\ pending' = messages /\ phase' = "messages"
          /\ UNCHANGED vars /\ nids' = nids
      BY <1>5 DEF FoldersDone
    <2>2. RefsOf(<<>>) = {}
      BY NothingTaken
    <2>3. DOMAIN nids = RefsOf(folders)
      BY <1>1, <2>1, <2>2
    <2>4. messages \in Seq(MessageRec) /\ Len(messages) \in Nat /\ DOMAIN messages = 1 .. Len(messages)
      BY LenProperties DEF SessionInv, PlanInv
    <2>5. /\ Len(messages) <= Len(messages) /\ 1 .. (Len(messages) - Len(messages)) = {}
          /\ \A i \in DOMAIN messages : Len(messages) - Len(messages) + i = i
      BY <2>4
    <2>6. MessagesLeft(folders, messages, nids, messages, tree)
      BY <1>1, <2>3, <2>4, <2>5 DEF MessagesLeft
    <2>7. tree' = tree /\ Fresh'
      BY <1>0, <2>1 DEF vars, Fresh
    <2> QED
      BY <1>0, <2>1, <2>6, <2>7 DEF Onwards
  <1> QED
    BY <1>2, <1>3, <1>4, <1>5

LEMMA MessagesStep ==
  ASSUME SessionInv, CreateMessagesFromPlan \/ MessagesDone
  PROVE  Onwards
  <1>0. /\ phase = "messages" /\ TreeOK(tree) /\ Fresh /\ TreeInv
        /\ Made(folders, nids, tree) /\ MessagesLeft(folders, messages, nids, pending, tree)
        /\ messages \in Seq(MessageRec) /\ (\A i \in DOMAIN messages : messages[i].nid = i)
        /\ Exported(folders, messages, result) /\ result' = result /\ nids' = nids
    <2>1. phase = "messages" /\ result' = result /\ nids' = nids
      BY DEF CreateMessagesFromPlan, MessagesDone, run
    <2> QED
      BY <2>1 DEF SessionInv, TreeInv, ExportInv, PlanInv
  <1>1. CASE CreateMessagesFromPlan
    <2>1. PICK m : m = Head(pending)
      OBVIOUS
    <2>2. PICK nid, f, r : nid = m.nid /\ f = nids[m.folder] /\ r = m.read
      OBVIOUS
    <2>3. /\ pending # <<>> /\ CreatePlannedMessage(nid, f, r)
          /\ pending' = Tail(pending) /\ phase' = phase
      BY <1>1, <2>1, <2>2 DEF CreateMessagesFromPlan
    <2>4. /\ m.nid \in Nat
          /\ \A t : /\ DOMAIN t.pc = DOMAIN tree.pc /\ SamePlaces(tree, t)
                    /\ t.msg = Put(tree.msg, m.nid, [folder |-> nids[m.folder], read |-> m.read])
                    => /\ Made(folders, nids, t)
                       /\ MessagesLeft(folders, messages, nids, Tail(pending), t)
      BY <1>0, <2>1, <2>3, MessageMade
    <2>5. /\ TreeOK(tree') /\ Fresh' /\ KeepMessages
          /\ DOMAIN tree'.pc = DOMAIN tree.pc /\ SamePlaces(tree, tree')
          /\ tree'.msg = Put(tree.msg, nid, [folder |-> f, read |-> r])
      BY <1>0, <2>2, <2>3, <2>4, PlannedStep
    <2>6. /\ Made(folders, nids, tree')
          /\ MessagesLeft(folders, messages, nids, Tail(pending), tree')
      BY <2>2, <2>4, <2>5
    <2> QED
      BY <1>0, <2>3, <2>5, <2>6 DEF Onwards
  <1>2. CASE MessagesDone
    <2>1. pending = <<>> /\ pending' = pending /\ phase' = "commit" /\ UNCHANGED vars
      BY <1>2 DEF MessagesDone, run
    <2>2. tree' = tree /\ Fresh'
      BY <1>0, <2>1 DEF vars, Fresh
    <2> QED
      BY <1>0, <2>1, <2>2 DEF Onwards
  <1> QED
    BY <1>1, <1>2

LEMMA SessionStep ==
  ASSUME MaxIndex < FinderIndex, SessionInv, [ExporterNext]_exporterVars
  PROVE  SessionInv' /\ [KeepMessages]_vars
  <1>0. /\ PlanInv /\ TreeInv /\ ExportInv /\ TreeOK(tree) /\ Fresh
        /\ Exported(folders, messages, result)
    BY DEF SessionInv, TreeInv, ExportInv
  <1>1. PlanInv'
    BY <1>0, PlanStep
  <1>2. ASSUME TreeOK(tree'), Fresh', ExportInv', UNCHANGED vars \/ tree' = Minimum \/ KeepMessages
        PROVE  SessionInv' /\ [KeepMessages]_vars
    <2>1. TreeInv'
      BY <1>2, TreeInvPrimed
    <2>2. DOMAIN Minimum.msg = {}
      BY DEF Minimum, NoRows
    <2>3. [KeepMessages]_vars
      BY <1>2, <2>2 DEF KeepMessages
    <2> QED
      BY <1>1, <1>2, <2>1, <2>3 DEF SessionInv
  <1>3. ASSUME Onwards, folders' = folders, messages' = messages
        PROVE  SessionInv' /\ [KeepMessages]_vars
    <2>1. ExportInv'
      BY <1>3, ExportInvPrimed DEF Onwards
    <2> QED
      BY <1>2, <1>3, <2>1 DEF Onwards
  <1>4. ASSUME PlanChanged PROVE SessionInv' /\ [KeepMessages]_vars
    <2>1. UNCHANGED vars /\ phase' = "open" /\ result' = Result("none")
      BY <1>4 DEF PlanChanged
    <2>2. result'.end # "ok"
      BY <2>1 DEF Result
    <2>3. ExportInv'
      BY <2>1, <2>2 DEF ExportInv, Exported
    <2>4. tree' = tree /\ Fresh'
      BY <1>0, <2>1 DEF vars, Fresh
    <2> QED
      BY <1>0, <1>2, <2>1, <2>3, <2>4
  <1>5. ASSUME UNCHANGED plan PROVE folders' = folders /\ messages' = messages
    BY <1>5 DEF plan
  <1>6. ASSUME Finalize PROVE SessionInv' /\ [KeepMessages]_vars
    <2>1. /\ phase' = "folders" /\ UNCHANGED plan /\ result' = result
          /\ tree' = Minimum /\ nextFolder' = 3 /\ nextMsg' = 1
      BY <1>6 DEF Finalize
    <2>2. TreeOK(tree') /\ Fresh'
      BY <2>1, BlankStore
    <2>3. /\ Made(folders, nids', tree')
          /\ FoldersLeft(folders, nids', pending', skipped', tree')
      BY <1>0, <1>6, FoldersStart
    <2>4. Onwards
      BY <1>0, <2>1, <2>2, <2>3 DEF Onwards
    <2> QED
      BY <1>3, <1>5, <2>1, <2>4
  <1>7. ASSUME Finalizing PROVE SessionInv' /\ [KeepMessages]_vars
    <2>1. UNCHANGED plan
      BY <1>7 DEF Finalizing, CreateFromPlan, SkipFolder, NextPass, CreateFromPlanFails,
                  FoldersDone, CreateMessagesFromPlan, CreateMessagesFromPlanFails,
                  MessagesDone, CommitSink, CommitSinkFails, Fail, Return
    <2>2. CASE CreateFromPlan \/ SkipFolder \/ NextPass \/ FoldersDone
      BY <1>3, <1>5, <2>1, <2>2, FoldersStep
    <2>3. CASE CreateMessagesFromPlan \/ MessagesDone
      BY <1>3, <1>5, <2>1, <2>3, MessagesStep
    <2>4. CASE CreateFromPlanFails \/ CreateMessagesFromPlanFails \/ CommitSinkFails
      <3>1. Return /\ result' = Result("error")
        BY <2>4 DEF CreateFromPlanFails, CreateMessagesFromPlanFails, CommitSinkFails, Fail
      <3>2. Exported(folders, messages, result')
        BY <3>1 DEF Result, Exported
      <3>3. Onwards
        BY <3>1, <3>2, ReturnStep
      <3> QED
        BY <1>3, <1>5, <2>1, <3>3
    <2>5. CASE CommitSink
      <3>1. Return /\ phase = "commit" /\ result' = [end |-> "ok", store |-> tree, nids |-> nids]
        BY <2>5 DEF CommitSink
      <3>2. /\ Made(folders, nids, tree) /\ pending = <<>>
            /\ MessagesLeft(folders, messages, nids, pending, tree)
        BY <1>0, <3>1 DEF ExportInv
      <3>3. result'.store = tree /\ result'.nids = nids
        BY <3>1
      <3>4. Exported(folders, messages, result')
        BY <3>2, <3>3 DEF Exported
      <3>5. Onwards
        BY <3>1, <3>4, ReturnStep
      <3> QED
        BY <1>3, <1>5, <2>1, <3>5
    <2> QED
      BY <1>7, <2>2, <2>3, <2>4, <2>5 DEF Finalizing
  <1>8. ASSUME Close PROVE SessionInv' /\ [KeepMessages]_vars
    <2>1. UNCHANGED vars /\ UNCHANGED plan /\ phase' = "closed" /\ result' = result
      BY <1>8 DEF Close
    <2>2. tree' = tree /\ Fresh'
      BY <1>0, <2>1 DEF vars, Fresh
    <2>3. Onwards
      BY <1>0, <2>1, <2>2 DEF Onwards
    <2> QED
      BY <1>3, <1>5, <2>1, <2>3
  <1>9. ASSUME EditStore PROVE SessionInv' /\ [KeepMessages]_vars
    <2>1. Next /\ UNCHANGED plan /\ phase = "store" /\ phase' = phase /\ result' = result
      BY <1>9 DEF EditStore
    <2>2. TreeInv' /\ KeepMessages
      BY <1>0, <2>1, TreeStep
    <2>3. TreeOK(tree') /\ Fresh'
      BY <2>2, TreeInvPrimed
    <2>4. Onwards
      BY <1>0, <2>1, <2>2, <2>3 DEF Onwards
    <2> QED
      BY <1>3, <1>5, <2>1, <2>4
  <1>10. ASSUME UNCHANGED exporterVars PROVE SessionInv' /\ [KeepMessages]_vars
    <2>1. /\ UNCHANGED vars /\ UNCHANGED plan /\ phase' = phase /\ result' = result
          /\ tree' = tree /\ nids' = nids /\ pending' = pending /\ skipped' = skipped
      BY <1>10 DEF exporterVars, vars, run
    <2>2. Fresh'
      BY <1>0, <2>1 DEF vars, Fresh
    <2>3. Onwards
      BY <1>0, <2>1, <2>2 DEF Onwards, ExportInv
    <2> QED
      BY <1>3, <1>5, <2>1, <2>3
  <1>11. ASSUME NEW r \in Refs,
                \/ DeleteFolder(r)
                \/ \E n \in Names : CreateFolder(r, n) \/ RenameFolder(r, n)
                \/ \E p \in Refs : MoveFolder(r, p)
                \/ \E b \in BOOLEAN, d \in Readers \cup {NoReader} : PlanMessage(r, b, d)
         PROVE  PlanChanged
    BY <1>11 DEF DeleteFolder, CreateFolder, RenameFolder, MoveFolder, PlanMessage
  <1> QED
    BY <1>4, <1>6, <1>7, <1>8, <1>9, <1>10, <1>11 DEF ExporterNext

LEMMA SessionKept == MaxIndex < FinderIndex => (ExporterSpec => []SessionInv)
  <1> SUFFICES ASSUME MaxIndex < FinderIndex PROVE ExporterSpec => []SessionInv
    OBVIOUS
  <1>1. SessionInv /\ [ExporterNext]_exporterVars => SessionInv'
    BY SessionStep
  <1> QED
    BY <1>1, SessionInit, PTL DEF ExporterSpec

LEMMA MatchingFile == SessionInv => FileMatchesPlan
  <1> SUFFICES ASSUME SessionInv, result.end = "ok" PROVE FileMatchesPlan
    BY DEF FileMatchesPlan
  <1>1. PICK s : s = result.store
    OBVIOUS
  <1>2. PICK n : n = result.nids
    OBVIOUS
  <1>3. Made(folders, n, s) /\ MessagesLeft(folders, messages, n, <<>>, s)
    BY <1>1, <1>2 DEF SessionInv, ExportInv, Exported
  <1>4. Listed(folders) /\ messages \in Seq(MessageRec) /\ \A i \in DOMAIN messages : messages[i].nid = i
    BY DEF SessionInv, PlanInv, PlanOK
  <1>5. /\ Refs = RefsOf(folders)
        /\ \A r \in Refs : \E i \in DOMAIN folders : folders[i].ref = r /\ Folder(r) = folders[i]
    BY <1>4, FolderAt
  <1>6. DOMAIN n = Refs
    BY <1>3, <1>5 DEF MessagesLeft
  <1>7. DOMAIN s.pc = {n[r] : r \in Refs} \cup DOMAIN Minimum.pc
    BY <1>3, <1>6 DEF Made
  <1>8. \A q, r \in Refs : n[q] = n[r] => q = r
    BY <1>3, <1>6 DEF Made
  <1>9. ASSUME NEW r \in Refs, ~ systemFolder(r)
        PROVE  /\ s.pc[n[r]].name = Folder(r).name
               /\ s.pc[n[r]].parent = n[Folder(r).parent]
    <2>1. PICK i \in DOMAIN folders : folders[i].ref = r /\ Folder(r) = folders[i]
      BY <1>5
    <2>2. folders[i].ref \in DOMAIN n \ {RootFolderRef, IPMSubtreeRef}
      BY <1>6, <1>9, <2>1 DEF systemFolder
    <2> QED
      BY <1>3, <2>1, <2>2 DEF Made
  <1>10. DOMAIN messages = 1 .. Len(messages) /\ Len(messages) \in Nat
    BY <1>4, LenProperties
  <1>11. DOMAIN s.msg = DOMAIN messages
    <2>1. DOMAIN s.msg = 1 .. (Len(messages) - Len(<<>>)) /\ Len(<<>>) = 0
      BY <1>3, EmptySeq DEF MessagesLeft
    <2> QED
      BY <1>10, <2>1
  <1>12. DOMAIN s.msg = {messages[i].nid : i \in DOMAIN messages}
    BY <1>4, <1>11
  <1>13. \A i \in DOMAIN messages :
           s.msg[messages[i].nid] = [folder |-> n[messages[i].folder], read |-> messages[i].read]
    BY <1>3, <1>4, <1>11 DEF MessagesLeft
  <1> QED
    BY <1>1, <1>2, <1>6, <1>7, <1>8, <1>9, <1>12, <1>13 DEF FileMatchesPlan

\* A Finalize that succeeds has written the plan, whatever calls made it: every
\* folder once, under the node of its parent, in as many passes of
\* CreateFromPlan as the order of the plan takes, every message once and in
\* its folder, and nothing else.
THEOREM FileStaysPlan == MaxIndex < FinderIndex => (ExporterSpec => []FileMatchesPlan)
  <1> SUFFICES ASSUME MaxIndex < FinderIndex PROVE ExporterSpec => []FileMatchesPlan
    OBVIOUS
  <1>1. ExporterSpec => []SessionInv
    BY SessionKept
  <1> QED
    BY <1>1, MatchingFile, PTL

\* The store Finalize writes is coherent after every folder and message of the
\* plan, and so is one that is edited without a session, whatever DisplayName
\* the plan gives to WriteMinimum.
THEOREM ExportedStoreCoherent ==
  MaxIndex < FinderIndex =>
    (ExporterSpec => [](/\ RowsMirrorFolders /\ CountsMatchMessages
                        /\ Rooted /\ SiblingNamesDistinct))
  <1> SUFFICES ASSUME MaxIndex < FinderIndex
               PROVE  ExporterSpec => [](/\ RowsMirrorFolders /\ CountsMatchMessages
                                         /\ Rooted /\ SiblingNamesDistinct)
    OBVIOUS
  <1>1. SessionInv => TreeInv
    BY DEF SessionInv
  <1>2. ExporterSpec => []SessionInv
    BY SessionKept
  <1> QED
    BY <1>1, <1>2, MirroredRows, ExactCounts, RootedTree, DistinctSiblings, PTL

\* Finalize and the edits of a store change no message that is there: none of
\* the plan is written over another.
THEOREM ExportKeepsMessages == MaxIndex < FinderIndex => (ExporterSpec => MessagesKept)
  <1> SUFFICES ASSUME MaxIndex < FinderIndex PROVE ExporterSpec => MessagesKept
    OBVIOUS
  <1>1. SessionInv /\ [ExporterNext]_exporterVars => [KeepMessages]_vars
    BY SessionStep
  <1>2. ExporterSpec => []SessionInv
    BY SessionKept
  <1> QED
    BY <1>1, <1>2, PTL DEF ExporterSpec, MessagesKept, KeepMessages
=============================================================================
