-------------------------- MODULE PropertyContext ---------------------------
(***************************************************************************)
(* Property contexts: writer/v2/pc.go.                                     *)
(*                                                                         *)
(* A builder p is [heap, props]: the heap under construction and, by       *)
(* property id, [typ, cb, data, hnid]. hnid is not 0 when the value has    *)
(* its place already; data is then what was streamed there, which the code *)
(* does not keep and the model keeps to know what should be read back.     *)
(* order, the ids as they were added, is sorted before it is used and left *)
(* out. The typed setters of the code encode a value and call Set.         *)
(***************************************************************************)
EXTENDS NodeHeap

CONSTANT PCLeafValueSize

Put(f, k, v) == [x \in DOMAIN f \cup {k} |-> IF x = k THEN v ELSE f[x]]

Without(f, K) == [x \in DOMAIN f \ K |-> f[x]]

EmptyMap == [x \in {} |-> 0]

ptypFixedSize(typ) ==
  CASE typ \in {"Integer16", "Boolean"} -> 2
    [] typ = "Integer32" -> 4
    [] typ \in {"Integer64", "Time"} -> 8
    [] typ = "GUID" -> 16
    [] OTHER -> 0

ptypInline(typ) == ptypFixedSize(typ) \in 1 .. 4

-----------------------------------------------------------------------------
(* The builder *)

NewPC == [heap |-> NewHeap("PC"), props |-> EmptyMap]

pcProp(typ, a, hnid) == [typ |-> typ, cb |-> a.cb, data |-> a.data, hnid |-> hnid]

PCSet(p, id, typ, a) == [p EXCEPT !.props = Put(@, id, pcProp(typ, a, 0))]

PCDelete(p, id) == [p EXCEPT !.props = Without(@, {id})]

SetObjectNID(p, id, nid) ==
  [p EXCEPT !.props = Put(@, id, pcProp("Object", Empty, nid))]

StreamedTo(p, id, a, s) ==
  [cat |-> s.cat, ok |-> s.hnid # Refused,
   pc |-> [p EXCEPT !.heap = s.heap,
                    !.props = IF s.hnid = Refused THEN @
                              ELSE Put(@, id, pcProp("Binary", a, s.hnid))]]

\* Placed in the heap, or in the catalog, before the property is replaced.
SetBinaryStream(c, p, id, a, left) ==
  StreamedTo(p, id, a, AllocateStream(c, p.heap, a, left))

SetBinary(c, p, id, a) ==
  IF a.cb > HeapMaxAlloc THEN SetBinaryStream(c, p, id, a, a.cb)
  ELSE [cat |-> c, pc |-> PCSet(p, id, "Binary", a), ok |-> TRUE]

\* The HNID of a property; the value itself when it is short, an object in a
\* subnode of its own however short.
place(h, pr) ==
  IF pr.hnid # 0 THEN Placed(h, pr.hnid)
  ELSE IF pr.typ = "Object" THEN newSub(h, pr)
  ELSE IF ptypInline(pr.typ)
  THEN Placed(h, IF pr.cb = 0 THEN 0 ELSE IF pr.cb \in {1, 2, 4} THEN pr.data ELSE Refused)
  ELSE Allocate(h, pr)

\* One property more.
PlacedProp(s, id, typ, q) ==
  [heap |-> q.heap, ok |-> q.hnid # Refused,
   ents |-> Append(s.ents, [key |-> id, val |-> [typ |-> typ, hnid |-> q.hnid]])]

placeAll(p) ==
  FoldLeft(LAMBDA s, id : IF s.ok
                          THEN PlacedProp(s, id, p.props[id].typ, place(s.heap, p.props[id]))
                          ELSE s,
           [heap |-> p.heap, ok |-> TRUE, ents |-> <<>>],
           SetToSortSeq(DOMAIN p.props, <))

PutPCEntries(s) ==
  IF s.ok THEN BuildBTH(s.heap, s.ents, 2, PCLeafValueSize) ELSE Placed(s.heap, Refused)

BuiltPC(p, q) == [pc |-> [p EXCEPT !.heap = q.heap], ok |-> q.hnid # Refused]

\* A second build appends to what the first left in the heap. Properties
\* before one that is refused keep the place they got.
buildPC(p) == BuiltPC(p, PutPCEntries(placeAll(p)))

\* The heap of a context or table that was built, ok or not, becomes the
\* subnode nid of heap h.
AttachBuilt(c, h, nid, ok, child) ==
  IF ok THEN AttachHeap(c, h, nid, child) ELSE [cat |-> c, ok |-> FALSE, heap |-> h]

AttachBuiltPC(c, h, nid, q) == AttachBuilt(c, h, nid, q.ok, q.pc.heap)

\* AttachTo.
AttachPC(c, h, nid, p) == AttachBuiltPC(c, h, nid, buildPC(p))

-----------------------------------------------------------------------------
(* The view *)

IsBTHHeader(a) == a.cb >= BTHHeaderSize /\ "levels" \in DOMAIN a.data

IsBTH(v, header) == IsBTHHeader(Read(v, header))

\* OpenPC of a heap that was opened, v.
OpenPC(v) == v.ok /\ v.sig = "PC" /\ IsBTH(v, v.root)

Keys(ents) == [i \in DOMAIN ents |-> ents[i].key]

IDs(v) == Keys(CollectBTH(v, v.root))

resolve(v, typ, hnid) ==
  IF typ = "Object"
  THEN IF IsHID(hnid) \/ NIDTypeOf(hnid) # NIDTypeLTP THEN Garbled ELSE Read(v, hnid)
  ELSE IF ptypInline(typ)
  THEN [cb |-> ptypFixedSize(typ),
        data |-> IF ptypFixedSize(typ) = 2 THEN hnid % 65536 ELSE hnid]
  ELSE Read(v, hnid)

GetFound(v, found) ==
  IF found = <<>> THEN pcProp("none", Garbled, 0)
  ELSE LET val == found[1].val
       IN  pcProp(val.typ, resolve(v, val.typ, val.hnid), 0)

\* Get: [typ, cb, data], with cb Refused when there is no such property or it
\* cannot be read.
Get(v, id) == GetFound(v, LookupBTH(v, v.root, id))

\* Load: a new builder with the properties that were read, all of them as Add
\* leaves them; one that cannot be read refuses the whole.
CanLoadPC(v) == \A id \in Range(IDs(v)) : Get(v, id).cb # Refused

LoadPC(v) == [NewPC EXCEPT !.props = [id \in Range(IDs(v)) |-> Get(v, id)]]
=============================================================================
