---------------------------- MODULE Attachments -----------------------------
(***************************************************************************)
(* A message and what hangs below it: writer/v2/attachments.go and         *)
(* writeMessagePC of messages.go. The message is a property context; its   *)
(* recipient table, its attachment table and every attachment are subnodes *)
(* of it, an embedded message is a subnode of its attachment, with all of  *)
(* that below it again.                                                    *)
(*                                                                         *)
(* A MessageWrite is a name, as the code knows it by its address. Of the   *)
(* properties and columns, which are all set alike, those are modelled     *)
(* that tell messages and attachments apart. s threads through a write     *)
(* what it changes: [cat, left, att, ok], with the bytes that are left in  *)
(* the readers and the next node index of an attachment.                   *)
(***************************************************************************)
EXTENDS TableContext

CONSTANTS
  MessageWrites, \* name |-> [subject, recips, atts]; subject and each of recips a
                 \* value, an attachment is [name, cb, data, body, embedded]
  NoMessage,     \* embedded of an attachment by value
  MaxAttachmentsPerMessage,
  MaxAttachmentBytes,
  MaxEmbeddedDepth

NIDTypeNormalMessage == 4
NIDTypeAttachment == 5
NIDTypeContentsTable == 14
NIDTypeAttachmentTable == 17
NIDTypeRecipientTable == 18

PidTagSubject == 55
PidTagHasAttachments == 3611
PidTagAttachNumber == 3617
PidTagAttachMethod == 14085
PidTagAttachFilename == 14084
PidTagAttachDataBinary == 14081
PidTagDisplayName == 12289

AttachMethodByValue == 1
AttachMethodEmbedded == 5

attachmentColumns ==
  <<Column(PidTagAttachNumber, "Integer32", 0), Column(PidTagAttachFilename, "String", 0)>>

recipientColumns == <<Column(PidTagDisplayName, "String", 0)>>

IntValue(n, cb) == [cb |-> cb, data |-> n]

IntCell(n) == [cb |-> 4, data |-> BytesOf(n, 4)]

-----------------------------------------------------------------------------
(* Validation *)

\* seen are the messages on the way down, so one message may be embedded
\* twice side by side.
RECURSIVE validateAttachmentTree(_, _, _)
validateAttachmentTree(w, depth, seen) ==
  LET atts == MessageWrites[w].atts
  IN  /\ Len(atts) <= MaxAttachmentsPerMessage
      /\ \A i \in DOMAIN atts :
           /\ atts[i].cb <= MaxAttachmentBytes
           /\ atts[i].embedded # NoMessage =>
                /\ atts[i].cb = 0 /\ ~ atts[i].body
                /\ depth + 1 <= MaxEmbeddedDepth
                /\ atts[i].embedded \notin seen
                /\ validateAttachmentTree(atts[i].embedded, depth + 1,
                                          seen \cup {atts[i].embedded})

-----------------------------------------------------------------------------
(* Writing *)

writeAttachmentRow(t, nid, number, a) ==
  SetCell(SetCell(AddID(t, nid), nid, PidTagAttachNumber, IntCell(number)),
          nid, PidTagAttachFilename, a.name)

writeRecipientRows(t, recips) ==
  FoldLeft(LAMBDA u, r : SetCell(AddID(u, u.nextID), u.nextID, PidTagDisplayName, r),
           t, recips)

\* buildAttachmentPC without the data.
attachmentPC(number, a) ==
  PCSet(PCSet(NewPC, PidTagAttachNumber, "Integer32", IntValue(number, 4)),
        PidTagAttachMethod, "Integer32",
        IntValue(IF a.embedded = NoMessage THEN AttachMethodByValue
                 ELSE AttachMethodEmbedded, 4))

\* s after r was written.
Wrote(s, r) == [s EXCEPT !.cat = r.cat, !.ok = r.ok]

WithData(s, r) == [s |-> Wrote(s, r), pc |-> r.pc]

Consumed(s, a) ==
  [s EXCEPT !.left[a.data] = @ - Min({@, a.cb})]

\* The data of an attachment: streamed from its reader, which is then at its
\* end, or set.
setAttachData(s, pc, a) ==
  IF a.body
  THEN WithData(Consumed(s, a),
                SetBinaryStream(s.cat, pc, PidTagAttachDataBinary, a, s.left[a.data]))
  ELSE WithData(s, SetBinary(s.cat, pc, PidTagAttachDataBinary, a))

\* Seeded bug: the table has the index of the message it is embedded in.
TableNIDShared(nid, type) == MakeNID(type, 1)

TableNID(nid, type) == RelatedNID(nid, type)

\* The message inner, in s, hangs below the attachment as the subnode nid.
WithEmbedded(s, pc, nid, below) ==
  [s  |-> Wrote(s, below),
   pc |-> SetObjectNID([pc EXCEPT !.heap = below.heap], PidTagAttachDataBinary, nid)]

embedMessage(pc, nid, inner) ==
  IF inner.s.ok
  THEN WithEmbedded(inner.s, pc, nid, AttachPC(inner.s.cat, pc.heap, nid, inner.pc))
  ELSE [s |-> inner.s, pc |-> pc]

\* x is what a message has so far: [s, heap, tab] with the rows of its
\* attachment table. att is the next attachment, number i, as [s, pc].
Attached(s, up, table) == [s |-> Wrote(s, up), heap |-> up.heap, tab |-> table]

attachOne(x, nid, i, a, att) ==
  IF att.s.ok
  THEN Attached(att.s, AttachPC(att.s.cat, x.heap, nid, att.pc),
                writeAttachmentRow(x.tab, nid, i - 1, a))
  ELSE [x EXCEPT !.s = att.s]

\* The attachment table, when there are attachments, behind the attachments.
attachTable(x, nid, atts) ==
  IF atts = <<>> \/ ~ x.s.ok THEN x
  ELSE Attached(x.s,
         AttachTC(x.s.cat, x.heap, TableNID(nid, NIDTypeAttachmentTable),
                  NewTC(attachmentColumns), x.tab.rows),
         x.tab)

WrittenTo(pc, x) == [s |-> x.s, pc |-> [pc EXCEPT !.heap = x.heap]]

\* writeMessagePC and writeEmbeddedMessage up to the point where the context is
\* committed or attached, with attachAttachments and buildAttachmentPC for each
\* attachment. The check for cycles that writeEmbeddedMessage repeats is left
\* out.
RECURSIVE messagePC(_, _, _)
messagePC(s, nid, w) ==
  LET msg  == MessageWrites[w]
      pc0  == PCSet(PCSet(NewPC, PidTagSubject, "String", msg.subject),
                    PidTagHasAttachments, "Boolean",
                    IntValue(IF msg.atts = <<>> THEN 0 ELSE 1, 2))
      rec  == AttachTC(s.cat, pc0.heap, TableNID(nid, NIDTypeRecipientTable),
                       NewTC(recipientColumns),
                       writeRecipientRows(EmptyTable, msg.recips).rows)
      One(x, i) ==
        LET a    == msg.atts[i]
            anid == MakeNID(NIDTypeAttachment, x.s.att)
            s1   == [x.s EXCEPT !.att = @ + 1]
            emb  == RelatedNID(anid, NIDTypeNormalMessage)
        IN  IF ~ x.s.ok THEN x
            ELSE attachOne(x, anid, i, a,
                   IF a.embedded = NoMessage THEN setAttachData(s1, attachmentPC(i - 1, a), a)
                   ELSE embedMessage(attachmentPC(i - 1, a), emb,
                                     messagePC(s1, emb, a.embedded)))
  IN  WrittenTo(pc0, attachTable(
        FoldLeft(One, Attached(s, rec, EmptyTable), [i \in DOMAIN msg.atts |-> i]),
        nid, msg.atts))

-----------------------------------------------------------------------------
(* What a reader finds *)

SameValue(got, want) == got.cb = want.cb /\ got.data = want.data

\* The rows of the table in subnode nid of v: no such subnode, or each with
\* the cells of rows, in the order of the ids.
TableHas(tv, rows) ==
  /\ tv.ok
  /\ Len(tv.ids) = Len(rows)
  /\ \A i \in DOMAIN rows : LoadRow(tv, tv.ids[i]).cells = rows[i]

TableReads(v, nid, rows) == TableHas(openTCHeap(openSub(v, nid)), rows)

NumberedPC(av, i) == OpenPC(av) /\ Get(av, PidTagAttachNumber).data = i

RECURSIVE MessageReads(_, _, _)
MessageReads(v, nid, w) ==
  LET msg   == MessageWrites[w]
      table == openSub(v, RelatedNID(nid, NIDTypeAttachmentTable))
  IN  /\ OpenPC(v)
      /\ SameValue(Get(v, PidTagSubject), msg.subject)
      /\ Get(v, PidTagHasAttachments).data = (IF msg.atts = <<>> THEN 0 ELSE 1)
      /\ TableReads(v, RelatedNID(nid, NIDTypeRecipientTable),
                    [i \in DOMAIN msg.recips |-> [c \in {PidTagDisplayName} |-> msg.recips[i]]])
      /\ msg.atts = <<>> => ~ table.ok
      /\ msg.atts # <<>> =>
           /\ TableReads(v, RelatedNID(nid, NIDTypeAttachmentTable),
                [i \in DOMAIN msg.atts |->
                   [c \in {PidTagAttachNumber, PidTagAttachFilename} |->
                      IF c = PidTagAttachNumber THEN IntCell(i - 1) ELSE msg.atts[i].name]])
           /\ \A i \in DOMAIN msg.atts, ids \in {openTCHeap(table).ids} :
                \A a \in {msg.atts[i]}, av \in {openSub(v, ids[i])} :
                  /\ NumberedPC(av, i - 1)
                  /\ a.embedded = NoMessage =>
                       SameValue(Get(av, PidTagAttachDataBinary), a)
                  /\ a.embedded # NoMessage =>
                       LET emb == RelatedNID(ids[i], NIDTypeNormalMessage)
                       IN  MessageReads(openSub(av, emb), emb, a.embedded)
=============================================================================
