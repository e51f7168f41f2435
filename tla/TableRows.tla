----------------------------- MODULE TableRows ------------------------------
(***************************************************************************)
(* The rows of a table context under construction: type TC of              *)
(* writer/v2/tc.go with its index byRow and its counter nextID.            *)
(*                                                                         *)
(* A row is [id, ver, cells]. byRow maps the id of a row to its position,  *)
(* which starts at 1 here and at 0 in the code. dwRowID has 32 bits;       *)
(* MaxRowID is the largest, so nextID comes back to 0 behind it.           *)
(***************************************************************************)
EXTENDS Integers, Sequences

CONSTANTS
  MaxRowID, \* 2^32 - 1
  RowIDs,   \* ids callers give to rows
  Columns,  \* the columns of the table but row id and row version
  Cells,    \* contents of a cell
  MaxRows,  \* bounds of the model: rows, row versions, ids the table chose
  MaxVer,
  MaxAutoID

ASSUME RowAssumption ==
  /\ {MaxRows, MaxVer, MaxAutoID} \subseteq Nat
  /\ MaxRowID \in Nat \ {0}
  /\ RowIDs \subseteq 1 .. MaxRowID

VARIABLE tab

EmptyCells == [col \in {} |-> 0]

EmptyTable == [rows |-> <<>>, byRow |-> [id \in {} |-> 0], nextID |-> 1]

After(id, nextID) == IF id >= nextID THEN (id + 1) % (MaxRowID + 1) ELSE nextID

AddID(t, id) ==
  [rows   |-> Append(t.rows, [id |-> id, ver |-> 1, cells |-> EmptyCells]),
   byRow  |-> [r \in DOMAIN t.byRow \cup {id} |->
                 IF r = id THEN Len(t.rows) + 1 ELSE t.byRow[r]],
   nextID |-> After(id, t.nextID)]

WithRow(t, i, row) ==
  [rows |-> [t.rows EXCEPT ![i] = row], byRow |-> t.byRow, nextID |-> t.nextID]

SetCell(t, id, col, cell) ==
  LET i == t.byRow[id]
      r == t.rows[i]
  IN  WithRow(t, i, [id |-> r.id, ver |-> r.ver + 1,
                     cells |-> [c \in DOMAIN r.cells \cup {col} |->
                                  IF c = col THEN cell ELSE r.cells[c]]])

ClearCell(t, id, col) ==
  LET i == t.byRow[id]
      r == t.rows[i]
  IN  WithRow(t, i, [id |-> r.id, ver |-> r.ver + 1,
                     cells |-> [c \in DOMAIN r.cells \ {col} |-> r.cells[c]]])

\* Seeded bug: the rows behind the one that goes keep their positions.
DeleteKeepsIndex(t, id) ==
  LET i == t.byRow[id]
  IN  [rows   |-> [j \in 1 .. Len(t.rows) - 1 |-> t.rows[IF j < i THEN j ELSE j + 1]],
       byRow  |-> [r \in DOMAIN t.byRow \ {id} |-> t.byRow[r]],
       nextID |-> t.nextID]

\* The rows behind the one that goes move up, and so do their positions.
DeleteRow(t, id) ==
  LET i == t.byRow[id]
  IN  [rows   |-> [j \in 1 .. Len(t.rows) - 1 |-> t.rows[IF j < i THEN j ELSE j + 1]],
       byRow  |-> [r \in DOMAIN t.byRow \ {id} |->
                     IF t.byRow[r] > i THEN t.byRow[r] - 1 ELSE t.byRow[r]],
       nextID |-> t.nextID]

-----------------------------------------------------------------------------
(* Operations. A caller may add rows with ids of its own (AddID) and rows   *)
(* with the next id (Add), which is refused when nextID came back to 0 or    *)
(* to an id in use.                                                         *)

AddRowWith(id) ==
  /\ Len(tab.rows) < MaxRows
  /\ id # 0 /\ id \notin DOMAIN tab.byRow
  /\ tab' = AddID(tab, id)

Add == tab.nextID <= MaxAutoID /\ AddRowWith(tab.nextID)

Set(id, col, cell) ==
  /\ id \in DOMAIN tab.byRow /\ tab.rows[tab.byRow[id]].ver < MaxVer
  /\ tab' = SetCell(tab, id, col, cell)

Clear(id, col) ==
  /\ id \in DOMAIN tab.byRow /\ tab.rows[tab.byRow[id]].ver < MaxVer
  /\ tab' = ClearCell(tab, id, col)

DeleteByID(id) ==
  /\ id \in DOMAIN tab.byRow
  /\ tab' = DeleteRow(tab, id)

TableInit == tab = EmptyTable

TableNext ==
  \/ Add
  \/ \E id \in RowIDs : AddRowWith(id)
  \/ \E id \in DOMAIN tab.byRow :
       \/ DeleteByID(id)
       \/ \E col \in Columns : Clear(id, col) \/ \E v \in Cells : Set(id, col, v)

TableSpec == TableInit /\ [][TableNext]_tab

-----------------------------------------------------------------------------
(* Properties *)

\* The code replaces byRow entry by entry as rows come, go and move; whatever
\* the order of the calls, byRow leads from every id to the row with that id
\* and every row is found through it, so that Set, Clear and Delete never
\* reach another row.
RowIndexExact ==
  /\ \A i \in 1 .. Len(tab.rows) :
       tab.rows[i].id \in DOMAIN tab.byRow /\ tab.byRow[tab.rows[i].id] = i
  /\ \A id \in DOMAIN tab.byRow :
       tab.byRow[id] \in 1 .. Len(tab.rows) /\ tab.rows[tab.byRow[id]].id = id
=============================================================================
