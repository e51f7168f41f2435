------------------------------ MODULE Contexts ------------------------------
(***************************************************************************)
(* A session that writes property contexts, tables and messages into one   *)
(* catalog: the builders of PropertyContext and TableContext over the      *)
(* blocks of NodeTrees, CreateMessage and DeleteMessage of messages.go for *)
(* the messages of one folder, the deletion of nodes and Encode.           *)
(*                                                                         *)
(* Who else may write between two calls on a builder is the point: values  *)
(* longer than HeapMaxAlloc are in the catalog long before their node is,  *)
(* a builder may be committed twice, to two nodes, or after the node that  *)
(* shared its blocks was deleted. want is what was last committed to each  *)
(* node.                                                                   *)
(***************************************************************************)
EXTENDS Attachments

CONSTANTS
  NodeIDs,  \* nodes that contexts are committed to
  Values,   \* properties callers set: [id, typ, cb, data]
  Streams,  \* properties callers stream: [id, cb, data, left], left bytes in the reader
  Drafts,   \* columns callers ask for
  Folder,   \* the node of the folder whose messages are written
  Sessions  \* bounds of the model, a set of [builders, calls, messages]: builders
            \* in use one after the other, calls on each, messages written

VARIABLES
  nodes, \* NBT: node |-> [data, sub]
  cat,   \* BBT: [blocks, next]
  b,     \* the builder in use; the rows of a table are in tab
  want,
  ids,   \* next node indexes of messages and attachments
  left,  \* bytes left in the readers of attachments
  max    \* the bounds of this session

vars == <<nodes, cat, b, tab, want, ids, left, max>>

NoBuilder == [kind |-> "none", nth |-> 0]

\* One more call on the builder.
Called(kind, builder) ==
  /\ b.kind = kind /\ b.calls < max.calls
  /\ b' = [builder EXCEPT !.calls = @ + 1]

Contents == RelatedNID(Folder, NIDTypeContentsTable)

contentsColumns == <<Column(PidTagSubject, "String", 0)>>

-----------------------------------------------------------------------------
(* What should be read *)

PCWant(props) ==
  [kind |-> "pc",
   props |-> [id \in DOMAIN props |->
     LET pr == props[id]
     IN  [typ  |-> pr.typ,
          cb   |-> IF ptypInline(pr.typ) THEN ptypFixedSize(pr.typ) ELSE pr.cb,
          data |-> IF ptypInline(pr.typ) /\ pr.cb = 0 THEN 0 ELSE pr.data]]]

CellWant(cols, id, cell) ==
  LET col == CHOOSE c \in Range(cols) : c.id = id
  IN  IF ~ tcFixedCell(col.typ) THEN [cb |-> cell.cb, data |-> cell.data]
      ELSE [cb |-> col.size,
            data |-> [k \in 1 .. col.size |-> IF k <= cell.cb THEN cell.data[k] ELSE 0]]

\* No cell is in a column too small for its HNID.
HaveRoom(cols, rows) ==
  \A r \in Range(rows), col \in Range(cols) :
    col.id \in DOMAIN r.cells /\ ~ tcFixedCell(col.typ) => col.size >= 4

TCWant(cols, rows) ==
  [kind |-> "tc", room |-> HaveRoom(cols, rows),
   rows |-> {[id |-> r.id, ver |-> r.ver,
              cells |-> [c \in DOMAIN r.cells |-> CellWant(cols, c, r.cells[c])]]
             : r \in Range(rows)}]

-----------------------------------------------------------------------------
(* Nodes *)

Open(n) == openHeapBids(cat.blocks, nodes[n].data, nodes[n].sub)

NodeOver(ns, n, m, ok) ==
  LET to == PutNode(ns, n, m.data, m.sub)
  IN  [ok |-> ok /\ m.ok, nodes |-> to, cat |-> Released(ns, to, m.cat, n)]

\* Heap.Commit, in a transaction, of a heap that was built, ok or not: both
\* catalogs after it, or ok is FALSE.
commitHeap(ns, c, n, ok, h) == NodeOver(ns, n, materialize(c, h), ok)

CommitBuiltPC(ns, c, n, q) == commitHeap(ns, c, n, q.ok, q.pc.heap)

CommitBuiltTC(ns, c, n, q) == commitHeap(ns, c, n, q.ok, q.tc.heap)

OpenTC(ns, c, n) == openTCHeap(openHeapBids(c.blocks, ns[n].data, ns[n].sub))

\* patchTC: the table of node n was loaded from tv; new, its rows after the
\* change, are committed to n again.
patchTC(ns, c, n, tv, new) ==
  CommitBuiltTC(ns, c, n, buildTC(LoadTC(tv), new.rows))
    @@ [want |-> TCWant(tv.info.tcinfo, new.rows)]

DeleteNode(n) ==
  /\ n \in DOMAIN nodes
  /\ nodes' = Without(nodes, {n})
  /\ cat' = Released(nodes, nodes', cat, n)
  /\ want' = Without(want, {n})
  /\ UNCHANGED <<b, tab, ids, left>>

\* Encode reclaims the blocks nobody names, before it writes the trees.
Encode ==
  /\ cat' = reclaimOrphans(nodes, cat)
  /\ cat' # cat
  /\ UNCHANGED <<nodes, b, tab, want, ids, left>>

-----------------------------------------------------------------------------
(* Builders *)

Start(builder, table) ==
  /\ b.nth < max.builders
  /\ b' = builder @@ [nth |-> b.nth + 1, calls |-> 0]
  /\ tab' = table
  /\ UNCHANGED <<nodes, cat, want, ids, left>>

NewContext == Start([kind |-> "pc", pc |-> NewPC], EmptyTable)

NewTable(draft) ==
  /\ CanNewTC(draft)
  /\ Start([kind |-> "tc", tc |-> NewTC(draft)], EmptyTable)

\* Load of the context or the table of node n.
LoadContext(n) ==
  /\ n \in DOMAIN nodes /\ want[n].kind = "pc"
  /\ \E v \in {Open(n)} :
       CanLoadPC(v) /\ Start([kind |-> "pc", pc |-> LoadPC(v)], EmptyTable)

LoadTable(n) ==
  /\ n \in DOMAIN nodes /\ want[n].kind = "tc"
  /\ \E tv \in {openTCHeap(Open(n))} :
       CanLoadTC(tv) /\ Start([kind |-> "tc", tc |-> LoadTC(tv)], LoadRows(tv))

\* Set, and Add of an id that is not there yet.
SetProperty(v) ==
  /\ Called("pc", [b EXCEPT !.pc = PCSet(@, v.id, v.typ, v)])
  /\ UNCHANGED <<nodes, cat, tab, want, ids, left>>

DeleteProperty(id) ==
  /\ Called("pc", [b EXCEPT !.pc = PCDelete(@, id)])
  /\ id \in DOMAIN b.pc.props
  /\ UNCHANGED <<nodes, cat, tab, want, ids, left>>

\* SetBinaryStream, also as SetBinary calls it.
StreamProperty(v) ==
  /\ b.kind = "pc"
  /\ \E s \in {SetBinaryStream(cat, b.pc, v.id, v, v.left)} :
       Called("pc", [b EXCEPT !.pc = s.pc]) /\ cat' = s.cat
  /\ UNCHANGED <<nodes, tab, want, ids, left>>

EditRows(op) ==
  /\ Called("tc", b) /\ op
  /\ UNCHANGED <<nodes, cat, want, ids, left>>

\* The catalogs after a call; a transaction that is refused leaves them alone.
Outcome(r, wanted) ==
  IF r.ok THEN nodes' = r.nodes /\ cat' = r.cat /\ want' = wanted
  ELSE UNCHANGED <<nodes, cat, want>>

\* Commit to node n. What the build put into the heap of the builder stays
\* there when the transaction is refused.
CommitContext(n) ==
  /\ b.kind = "pc"
  /\ \E q \in {buildPC(b.pc)} :
       /\ Called("pc", [b EXCEPT !.pc = q.pc])
       /\ Outcome(CommitBuiltPC(nodes, cat, n, q), Put(want, n, PCWant(b.pc.props)))
  /\ UNCHANGED <<tab, ids, left>>

CommitTable(n) ==
  /\ b.kind = "tc"
  /\ \E q \in {buildTC(b.tc, tab.rows)} :
       /\ Called("tc", [b EXCEPT !.tc = q.tc])
       /\ Outcome(CommitBuiltTC(nodes, cat, n, q),
                  Put(want, n, TCWant(b.tc.cols, tab.rows)))
  /\ UNCHANGED <<tab, ids, left>>

-----------------------------------------------------------------------------
(* Messages *)

\* createMessageLocked: the context and what hangs below it, its node, and the
\* row in the contents table. The counts of the folder, which the code adjusts
\* then, and planned NIDs are in FolderTree.
MessageNode(m, nid) ==
  [CommitBuiltPC(nodes, m.s.cat, nid, buildPC(m.pc)) EXCEPT !.ok = @ /\ m.s.ok]

AddContentsRow(to, tv, nid, subject) ==
  [patchTC(to.nodes, to.cat, Contents, tv,
           SetCell(AddID(LoadRows(tv), nid), nid, PidTagSubject, subject))
     EXCEPT !.ok = @ /\ to.ok]

ContentsRow(to, nid, w) ==
  AddContentsRow(to, OpenTC(to.nodes, to.cat, Contents), nid, MessageWrites[w].subject)

\* A message that is refused leaves the node indexes it took and the readers it
\* read.
CreateMessage(w) ==
  LET nid == MakeNID(NIDTypeNormalMessage, ids.msg)
  IN  /\ ids.msg <= max.messages
      /\ validateAttachmentTree(w, 0, {})
      /\ \E m \in {messagePC([cat |-> cat, left |-> left, att |-> ids.att, ok |-> TRUE], nid, w)} :
           /\ \E r \in {ContentsRow(MessageNode(m, nid), nid, w)} :
                Outcome(r, Put(Put(want, Contents, r.want), nid, [kind |-> "message", w |-> w]))
           /\ ids' = [msg |-> ids.msg + 1, att |-> m.s.att]
           /\ left' = m.s.left
      /\ UNCHANGED <<b, tab>>

DeleteContentsRow(tv, nid) ==
  patchTC(nodes, cat, Contents, tv, DeleteRow(LoadRows(tv), nid))

\* The row, and then the node.
WithoutNode(r, nid) ==
  LET ns == Without(r.nodes, {nid})
  IN  [r EXCEPT !.nodes = ns, !.cat = Released(r.nodes, ns, @, nid)]

deleteMessageLocked(nid) ==
  WithoutNode(DeleteContentsRow(OpenTC(nodes, cat, Contents), nid), nid)

DeleteMessage(nid) ==
  /\ nid \in DOMAIN nodes /\ want[nid].kind = "message"
  /\ \E r \in {deleteMessageLocked(nid)} :
       Outcome(r, Without(Put(want, Contents, r.want), {nid}))
  /\ UNCHANGED <<b, tab, ids, left>>

-----------------------------------------------------------------------------

\* The folder is there with an empty contents table.
Init ==
  LET none == [blocks |-> EmptyMap, next |-> 1]
      Bodies == {a \in UNION {Range(MessageWrites[w].atts) : w \in DOMAIN MessageWrites} : a.body}
  IN  /\ \E to \in {CommitBuiltTC(EmptyMap, none, Contents,
                                  buildTC(NewTC(contentsColumns), <<>>))} :
           nodes = to.nodes /\ cat = to.cat
      /\ want = [n \in {Contents} |-> TCWant(NewTC(contentsColumns).cols, <<>>)]
      /\ b = NoBuilder /\ tab = EmptyTable
      /\ max \in Sessions
      /\ ids = [msg |-> 1, att |-> 1]
      /\ left = [d \in {a.data : a \in Bodies} |-> (CHOOSE a \in Bodies : a.data = d).left]

Next ==
  /\ \/ NewContext
     \/ \E d \in Drafts : NewTable(d)
     \/ \E v \in Values : SetProperty(v) \/ DeleteProperty(v.id)
     \/ \E v \in Streams : StreamProperty(v)
     \/ EditRows(Add)
     \/ \E id \in RowIDs : EditRows(AddRowWith(id))
     \/ \E id \in DOMAIN tab.byRow :
          \/ EditRows(DeleteByID(id))
          \/ \E col \in Ordinary(b.tc.cols) :
               \/ EditRows(Clear(id, col.id))
               \/ \E v \in Cells : v.typ = col.typ /\ EditRows(Set(id, col.id, v))
     \/ \E n \in NodeIDs : \/ CommitContext(n) \/ CommitTable(n)
                           \/ LoadContext(n) \/ LoadTable(n)
                           \/ DeleteNode(n)
     \/ \E w \in DOMAIN MessageWrites : CreateMessage(w)
     \/ \E n \in DOMAIN nodes : DeleteMessage(n)
     \/ Encode
  /\ UNCHANGED max

Spec == Init /\ [][Next]_vars

-----------------------------------------------------------------------------
(* Properties *)

SameProperty(got, pr) == got.typ = pr.typ /\ SameValue(got, pr)

ContextIs(v, props) ==
  /\ OpenPC(v)
  /\ IDs(v) = SetToSortSeq(DOMAIN props, <)
  /\ \A id \in DOMAIN props : SameProperty(Get(v, id), props[id])

TableIs(tv, rows) ==
  /\ tv.ok
  /\ tv.ids = SetToSortSeq({r.id : r \in rows}, <)
  /\ {LoadRow(tv, tv.ids[i]) : i \in DOMAIN tv.ids} = rows

\* Every context that was committed opens, with all the checks of OpenHeap and
\* OpenBTH, and gives exactly the properties of its last Commit: through later
\* commits, builders that share its blocks, failed streams, deletions of other
\* nodes and Encode (pc.go Commit and OpenPC).
ContextsReadBack ==
  \A n \in DOMAIN nodes : want[n].kind = "pc" => ContextIs(Open(n), want[n].props)

\* The same for tables: OpenTC accepts the layout, the row index and the
\* matrix, and every row has the id, version and cells of the last Commit,
\* whether the matrix is in the heap or in a subnode (tc.go build and
\* openTCHeap). It is not so of a table with a value in a column of one or two
\* bytes, which NewTC accepts and which has no room for the HNID (tc.go:268).
TablesReadBack ==
  \A n \in DOMAIN nodes :
    want[n].kind = "tc" /\ want[n].room => TableIs(openTCHeap(Open(n)), want[n].rows)

\* A message gives back its recipients and attachments, embedded messages with
\* all that is below them, and nothing of another message
\* (attachments.go attachAttachments, writeEmbeddedMessage).
MessagesReadBack ==
  \A n \in DOMAIN nodes :
    want[n].kind = "message" => MessageReads(Open(n), n, want[n].w)

\* The blocks that can be reached from the nodes.
Reachable ==
  LET owns == Owners(nodes, cat.blocks)
      from[s \in SUBSET Nat] ==
        LET more == s \cup {o[2] : o \in {o \in owns : o[1] \in s}}
        IN  IF more = s THEN s ELSE from[more]
  IN  from[{0}] \ {0}

\* No tree of a node misses a block, and Encode would keep the blocks of the
\* trees and nothing else: whatever was streamed and never committed, or
\* belonged to a deleted node, goes (ndb.go reclaimOrphans, resyncAfterDrop).
TreesAndNothingElse == DOMAIN reclaimOrphans(nodes, cat).blocks = Reachable
=============================================================================
