---------------------------- MODULE TableContext ----------------------------
(***************************************************************************)
(* Table contexts: writer/v2/tc.go and inspect_table.go.                   *)
(*                                                                         *)
(* A builder t is [heap, cols, rgib] and the rows of TableRows; a column   *)
(* is [id, typ, size, off, bit]. A row is its bytes, with the cell         *)
(* existence bitmap (CEB) behind the columns, so that columns that overlap *)
(* each other or the bitmap and rows that are cut show. The contents of a  *)
(* fixed cell are bytes too.                                               *)
(***************************************************************************)
EXTENDS PropertyContext, TableRows

CONSTANTS
  TCINFOFixedSize, TCOLDESCSize,
  MaxTCColumns

PidTagLtpRowId == 26610  \* 0x67F2
PidTagLtpRowVer == 26611 \* 0x67F3

-----------------------------------------------------------------------------
(* Columns *)

\* A tag is the id and the type.
TypeCode(typ) ==
  CASE typ = "Integer16" -> 2 [] typ = "Integer32" -> 3 [] typ = "Boolean" -> 11
    [] typ = "Object" -> 13 [] typ = "Integer64" -> 20 [] typ = "String" -> 31
    [] typ = "Time" -> 64 [] OTHER -> 258

TagLess(a, b) == a.id < b.id \/ (a.id = b.id /\ TypeCode(a.typ) < TypeCode(b.typ))

isLtpRowID(col) == col.id = PidTagLtpRowId /\ col.typ = "Integer32"

isLtpRowVer(col) == col.id = PidTagLtpRowVer /\ col.typ = "Integer32"

isWrongTypeLtp(col) ==
  col.id \in {PidTagLtpRowId, PidTagLtpRowVer} /\ col.typ # "Integer32"

tcColSize(typ) ==
  CASE typ = "Boolean" -> 1
    [] typ = "Integer16" -> 2
    [] typ \in {"Integer64", "Time"} -> 8
    [] OTHER -> 4

tcFixedCell(typ) ==
  typ \in {"Boolean", "Integer16", "Integer32", "Integer64", "Time"}

\* A column a caller asks for; size 0 is the size of the type.
Column(id, typ, size) ==
  [id |-> id, typ |-> typ, size |-> IF size = 0 THEN tcColSize(typ) ELSE size,
   off |-> 0, bit |-> 0]

ensureSpecialPair(cols) ==
  LET add(out, has, col) == IF has THEN out ELSE Append(out, col)
      hasID  == \E i \in DOMAIN cols : isLtpRowID(cols[i])
      hasVer == \E i \in DOMAIN cols : isLtpRowVer(cols[i])
  IN  add(add(cols, hasID, Column(PidTagLtpRowId, "Integer32", 4)),
          hasVer, Column(PidTagLtpRowVer, "Integer32", 4))

\* What the 8-, 4-, 2- and 1-byte groups are: the positions in cols of the
\* ordinary columns of a size.
GroupOf(cols, size) ==
  SetToSortSeq({i \in DOMAIN cols : /\ cols[i].size = size
                                    /\ ~ isLtpRowID(cols[i]) /\ ~ isLtpRowVer(cols[i])}, <)

LayoutIn(cols, order) ==
  LET at(i) == CHOOSE k \in DOMAIN order : order[k] = i
      size(k) == cols[order[k]].size
      off(n) == 8 + Total([k \in 1 .. n |-> size(k)])
      upTo(s) == off(Cardinality({k \in DOMAIN order : size(k) >= s}))
  IN  [cols |-> [i \in DOMAIN cols |->
         IF isLtpRowID(cols[i]) THEN [cols[i] EXCEPT !.off = 0, !.bit = 0]
         ELSE IF isLtpRowVer(cols[i]) THEN [cols[i] EXCEPT !.off = 4, !.bit = 1]
         ELSE [cols[i] EXCEPT !.off = off(at(i) - 1), !.bit = at(i) + 1]],
       rgib |-> <<upTo(4), upTo(2), upTo(1), upTo(1) + (Len(cols) + 7) \div 8>>]

\* Row id and version first, then the groups by size; a bit for each column.
assignColumnLayout(cols) ==
  LayoutIn(cols, GroupOf(cols, 8) \o GroupOf(cols, 4) \o GroupOf(cols, 2) \o GroupOf(cols, 1))

\* NewTC accepts the columns: no id twice, sizes that have a group.
CanNewTC(draft) ==
  LET cols == ensureSpecialPair(draft)
  IN  /\ \A i \in DOMAIN cols :
           /\ ~ isWrongTypeLtp(cols[i]) /\ cols[i].size \in {1, 2, 4, 8}
           /\ isLtpRowID(cols[i]) \/ isLtpRowVer(cols[i]) => cols[i].size = 4
      /\ Len(cols) <= MaxTCColumns
      /\ \A i, j \in DOMAIN cols : cols[i].id = cols[j].id => i = j

NewTC(draft) ==
  [heap |-> NewHeap("TC")] @@ assignColumnLayout(ensureSpecialPair(draft))

Ordinary(cols) ==
  {c \in Range(cols) : ~ isLtpRowID(c) /\ ~ isLtpRowVer(c)}

-----------------------------------------------------------------------------
(* Rows *)

tableRowSize(rgib) == rgib[4]

tableRowsPerBlock(rowSize) == MaxDataBlockCB \div rowSize

tableRowOffset(idx, rowSize, blocked) ==
  LET rpb == tableRowsPerBlock(rowSize)
  IN  IF ~ blocked \/ rpb < 1 THEN idx * rowSize
      ELSE (idx \div rpb) * (rpb * rowSize) + (idx % rpb) * rowSize

\* The n bytes of x < 2^31, the lowest first.
BytesOf(x, n) == [k \in 1 .. n |-> IF k > 4 THEN 0 ELSE (x \div 256 ^ (k - 1)) % 256]

\* The four bytes from offset off on as a number.
NumberAt(row, off) ==
  row[off + 1] + 256 * row[off + 2] + 65536 * row[off + 3] + 16777216 * row[off + 4]

\* buf with bytes from offset off on.
Overwrite(buf, off, bytes) ==
  [k \in DOMAIN buf |-> IF k - off \in DOMAIN bytes THEN bytes[k - off] ELSE buf[k]]

\* Bit number bit of the CEB.
cebHas(row, rgib, bit) == (row[rgib[3] + bit \div 8 + 1] \div 2 ^ (bit % 8)) % 2 = 1

cebSet(row, rgib, bit) ==
  IF cebHas(row, rgib, bit) THEN row
  ELSE [row EXCEPT ![rgib[3] + bit \div 8 + 1] = @ + 2 ^ (bit % 8)]

placeCell(h, typ, a) == IF typ = "Object" THEN newSub(h, a) ELSE Allocate(h, a)

WithBytes(s, off, bytes) == [s EXCEPT !.row = Overwrite(@, off, bytes)]

\* The HNID has four bytes whatever the size of the column: it goes over what
\* is behind a smaller one, and where the row is too short for it PutUint32
\* panics, which ends the call as a refusal does.
WithPlaced(s, col, p) ==
  IF p.hnid = Refused \/ col.off + 4 > Len(s.row)
  THEN [s EXCEPT !.heap = p.heap, !.ok = FALSE]
  ELSE WithBytes([s EXCEPT !.heap = p.heap], col.off, BytesOf(p.hnid, 4))

\* A fixed cell is cut to the size of its column, or leaves the rest of it
\* unwritten; any other is placed and its HNID written.
PutCell(s, col, a) ==
  IF tcFixedCell(col.typ) THEN WithBytes(s, col.off, SubSeq(a.data, 1, Min({a.cb, col.size})))
  ELSE WithPlaced(s, col, placeCell(s.heap, col.typ, a))

\* One column of a row, after those before it: its bit and then its bytes.
encodeCell(s, rgib, col, r) ==
  LET marked == [s EXCEPT !.row = cebSet(@, rgib, col.bit)]
  IN  IF ~ s.ok THEN s
      ELSE IF isLtpRowID(col) THEN WithBytes(marked, col.off, BytesOf(r.id, 4))
      ELSE IF isLtpRowVer(col) THEN WithBytes(marked, col.off, BytesOf(r.ver, 4))
      ELSE IF col.id \in DOMAIN r.cells THEN PutCell(marked, col, r.cells[col.id])
      ELSE s

encodeRow(h, t, r) ==
  FoldLeft(LAMBDA s, col : encodeCell(s, t.rgib, col, r),
           [heap |-> h, row |-> [k \in 1 .. tableRowSize(t.rgib) |-> 0], ok |-> TRUE],
           t.cols)

\* Seeded bug: a leaf of a large matrix is filled to the last byte.
matrixFullLeaf(rowSize) == MaxDataBlockCB

\* A leaf of a large matrix has whole rows.
matrixLeafCB(rowSize) == tableRowsPerBlock(rowSize) * rowSize

WithEncoded(s, e) == [heap |-> e.heap, ok |-> e.ok, bytes |-> s.bytes \o e.row]

encodeRows(t, rows) ==
  FoldLeft(LAMBDA s, r : IF s.ok THEN WithEncoded(s, encodeRow(s.heap, t, r)) ELSE s,
           [heap |-> t.heap, ok |-> TRUE, bytes |-> <<>>], rows)

\* The matrix: nothing, an allocation, or a subnode.
putMatrix(s, rowSize) ==
  LET matrix == [cb |-> Len(s.bytes), data |-> s.bytes]
  IN  IF ~ s.ok THEN Placed(s.heap, Refused)
      ELSE IF s.bytes = <<>> THEN Placed(s.heap, 0)
      ELSE IF matrix.cb <= HeapMaxAlloc THEN Allocate(s.heap, matrix)
      ELSE IF tableRowsPerBlock(rowSize) < 1 THEN Placed(s.heap, Refused)
      ELSE newSubChunked(s.heap, matrix, matrixLeafCB(rowSize))

\* TCINFO. Its columns are in the order of their tags, with the offsets and
\* bits they have.
putTCINFO(t, matrix, p) ==
  IF p.hnid = Refused THEN p
  ELSE AsRoot(Allocate(p.heap,
         [cb |-> TCINFOFixedSize + TCOLDESCSize * Len(t.cols),
          data |-> [tcinfo |-> SortSeq(t.cols, TagLess), rgib |-> t.rgib,
                    index |-> p.hnid, matrix |-> matrix]]))

putRowIndex(t, rows, p) ==
  IF p.hnid = Refused THEN p
  ELSE putTCINFO(t, p.hnid,
         BuildBTH(p.heap, [i \in DOMAIN rows |-> [key |-> rows[i].id, val |-> i - 1]], 4, 4))

BuiltTC(t, p) == [tc |-> [t EXCEPT !.heap = p.heap], ok |-> p.hnid # Refused]

\* build: the rows, the matrix, the row index, TCINFO, until one is refused.
buildTC(t, rows) ==
  BuiltTC(t, putRowIndex(t, rows, putMatrix(encodeRows(t, rows), tableRowSize(t.rgib))))

AttachBuiltTC(c, h, nid, q) == AttachBuilt(c, h, nid, q.ok, q.tc.heap)

\* AttachTo: the table becomes the subnode nid of another heap.
AttachTC(c, h, nid, t, rows) == AttachBuiltTC(c, h, nid, buildTC(t, rows))

-----------------------------------------------------------------------------
(* Reading *)

\* The offsets of the ordinary columns of a size are packed from start on.
Packed(cols, size, start) ==
  LET group == {c \in Ordinary(cols) : c.size = size}
  IN  {c.off : c \in group} = {start + size * k : k \in 0 .. Cardinality(group) - 1}

SizeOf(cols, size) == size * Cardinality({c \in Ordinary(cols) : c.size = size})

validateSpecialColumns(cols) ==
  /\ \A c \in Range(cols) : ~ isWrongTypeLtp(c)
  /\ \E c \in Range(cols) : isLtpRowID(c) /\ c.off = 0 /\ c.bit = 0 /\ c.size = 4
  /\ \E c \in Range(cols) : isLtpRowVer(c) /\ c.off = 4 /\ c.bit = 1 /\ c.size = 4
  /\ \A c \in Ordinary(cols) : c.bit \notin {0, 1} /\ c.off >= 8

validateIbDataGroups(cols, rgib) ==
  LET want4b == 8 + SizeOf(cols, 8) + SizeOf(cols, 4)
      want2b == want4b + SizeOf(cols, 2)
      want1b == want2b + SizeOf(cols, 1)
  IN  /\ Packed(cols, 8, 8) /\ Packed(cols, 4, 8 + SizeOf(cols, 8))
      /\ Packed(cols, 2, want4b) /\ Packed(cols, 1, want2b)
      /\ rgib = <<want4b, want2b, want1b, want1b + (Len(cols) + 7) \div 8>>

\* InspectTable and validateColumnLayout, of what the root of the heap is.
InspectTable(a) ==
  /\ a.cb >= TCINFOFixedSize /\ "tcinfo" \in DOMAIN a.data
  /\ a.cb >= TCINFOFixedSize + TCOLDESCSize * Len(a.data.tcinfo)
  /\ LET cols == a.data.tcinfo
         rgib == a.data.rgib
     IN  /\ rgib[1] <= rgib[2] /\ rgib[2] <= rgib[3] /\ rgib[3] <= rgib[4]
         /\ \A i \in DOMAIN cols : cols[i].bit < Len(cols) /\ cols[i].size \in {1, 2, 4, 8}
         /\ \A i, j \in DOMAIN cols : cols[i].bit = cols[j].bit => i = j
         /\ \A i \in 1 .. Len(cols) - 1 : TagLess(cols[i], cols[i + 1])
         /\ validateSpecialColumns(cols)
         /\ validateIbDataGroups(cols, rgib)

RowAt(matrix, off, rowSize) == SubSeq(matrix, off + 1, off + rowSize)

\* Every entry of the row index leads to a row of its own, in the matrix, with
\* its id and the bits of the special pair.
InspectTableRows(info, ents, matrix) ==
  LET rowSize == tableRowSize(info.rgib)
      blocked == info.matrix # 0 /\ ~ IsHID(info.matrix)
  IN  /\ tableRowsPerBlock(rowSize) >= 1
      /\ IF info.matrix = 0 THEN ents = <<>> /\ matrix.cb = 0
         ELSE /\ IsInjective([i \in DOMAIN ents |-> ents[i].val])
              /\ \A i \in DOMAIN ents :
                   LET off == tableRowOffset(ents[i].val, rowSize, blocked)
                       row == RowAt(matrix.data, off, rowSize)
                   IN  /\ off + rowSize <= matrix.cb
                       /\ NumberAt(row, 0) = ents[i].key
                       /\ cebHas(row, info.rgib, 0) /\ cebHas(row, info.rgib, 1)
              /\ \A i \in DOMAIN info.tcinfo :
                   ents # <<>> => info.tcinfo[i].off + info.tcinfo[i].size <= rowSize
              /\ ~ blocked => matrix.cb = Len(ents) * rowSize

WholeRows(blocks, leaves, rowSize) ==
  \A k \in DOMAIN leaves : blocks[leaves[k]].cb % rowSize = 0

\* No leaf of a matrix in a subnode cuts a row or has too many.
inspectMatrixLeaves(v, info) ==
  LET found == SubnodeEntries(v, info.matrix)
  IN  /\ found # <<>>
      /\ \A e \in Range(found) :
           WholeRows(v.blocks, dataTreeLeaves(v.blocks, e.data), tableRowSize(info.rgib))

NoTable == [ok |-> FALSE]

openRows(v, info, ents, matrix) ==
  IF /\ matrix.cb # Refused
     /\ InspectTableRows(info, ents, matrix)
     /\ info.matrix # 0 /\ ~ IsHID(info.matrix) => inspectMatrixLeaves(v, info)
  THEN [ok |-> TRUE, v |-> v, info |-> info, matrix |-> matrix.data, ids |-> Keys(ents)]
  ELSE NoTable

openTCINFO(v, a) ==
  IF ~ InspectTable(a) THEN NoTable
  ELSE IF ~ IsBTH(v, a.data.index) THEN NoTable
  ELSE openRows(v, a.data, CollectBTH(v, a.data.index), Read(v, a.data.matrix))

\* openTCHeap: what is read of a table, ok when every check passed.
openTCHeap(v) ==
  IF v.ok /\ v.sig = "TC" THEN openTCINFO(v, Read(v, v.root)) ELSE NoTable

OpenEntry(v, found) ==
  IF found = <<>> THEN NoView
  ELSE openHeapBids(v.blocks, Last(found).data, Last(found).sub)

\* openSubTC: the subnode child of a node, as a heap.
openSub(v, child) == OpenEntry(v, SubnodeEntries(v, child))

RowFound(tv, found, rowSize) ==
  LET blocked == tv.info.matrix # 0 /\ ~ IsHID(tv.info.matrix)
  IN  IF found = <<>> THEN <<>>
      ELSE RowAt(tv.matrix, tableRowOffset(found[1].val, rowSize, blocked), rowSize)

\* The bytes of the row, <<>> for an id that is not in the row index.
rowBytes(tv, id) ==
  RowFound(tv, LookupBTH(tv.v, tv.info.index, id), tableRowSize(tv.info.rgib))

\* Get of a cell that exists: the bytes of a fixed one, what the HNID of any
\* other leads to. In a column too small for an HNID Uint32 panics.
GetCell(tv, row, col) ==
  IF tcFixedCell(col.typ)
  THEN [cb |-> col.size, data |-> SubSeq(row, col.off + 1, col.off + col.size)]
  ELSE IF col.size < 4 THEN Garbled
  ELSE LET hnid == NumberAt(row, col.off)
       IN  IF col.typ = "Object" /\ (IsHID(hnid) \/ NIDTypeOf(hnid) # NIDTypeLTP) THEN Garbled
           ELSE Read(tv.v, hnid)

RowIn(tv, id, row) ==
  LET has == {c \in Ordinary(tv.info.tcinfo) : cebHas(row, tv.info.rgib, c.bit)}
  IN  [id |-> id, ver |-> NumberAt(row, 4),
       cells |-> [i \in {c.id : c \in has} |->
                    GetCell(tv, row, CHOOSE c \in has : c.id = i)]]

\* The row as Load reads it.
LoadRow(tv, id) == RowIn(tv, id, rowBytes(tv, id))

\* Load fails on a cell that Get cannot read.
CanLoadTC(tv) ==
  tv.ok /\ \A id \in Range(tv.ids) :
             \A cell \in Range(LoadRow(tv, id).cells) : cell.cb # Refused

\* Load: the rows come in the order of their ids, nextID behind the last.
LoadRows(tv) ==
  LET ids == tv.ids
  IN  [rows   |-> [i \in DOMAIN ids |-> LoadRow(tv, ids[i])],
       byRow  |-> [id \in Range(ids) |-> CHOOSE i \in DOMAIN ids : ids[i] = id],
       nextID |-> FoldLeft(LAMBDA n, id : After(id, n), 1, ids)]

LoadTC(tv) ==
  [heap |-> NewHeap("TC"), cols |-> tv.info.tcinfo, rgib |-> tv.info.rgib]
=============================================================================
