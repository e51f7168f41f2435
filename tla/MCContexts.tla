----------------------------- MODULE MCContexts -----------------------------
(***************************************************************************)
(* TLC instance of Contexts. Pages have 30 bytes, an allocation at most    *)
(* 16: a leaf of a property context has one property, three of them need   *)
(* two index levels and about as many pages as one heap may have, and the  *)
(* third page has a bitmap.                                                *)
(***************************************************************************)
EXTENDS Contexts

CONSTANTS Short, Long, Streamed, Lost, Obj, Name, Other, Body, Cut, File \* payloads

MCFillLevels == <<16, 8, 4>>

Value(cb, data) == [cb |-> cb, data |-> data]

\* One builder with many calls, two with few, messages with a stream waiting.
MCSessions ==
  {[builders |-> 1, calls |-> 5, messages |-> 0],
   [builders |-> 2, calls |-> 2, messages |-> 0],
   [builders |-> 1, calls |-> 1, messages |-> 2]}

MCValues ==
  {[id |-> 10, typ |-> "Integer32", cb |-> 4, data |-> 32],
   [id |-> 10, typ |-> "Integer32", cb |-> 3, data |-> 33],
   [id |-> 11, typ |-> "Object", cb |-> 3, data |-> Obj],
   [id |-> 12, typ |-> "String", cb |-> 10, data |-> Short]}

MCStreams ==
  {[id |-> 12, cb |-> 65, data |-> Streamed, left |-> 65],
   [id |-> 12, cb |-> 65, data |-> Lost, left |-> 40]}

\* The first has rows of 13 bytes, two in a block; the second of 18. In the
\* last three the HNID of the string goes over the CEB, over two Booleans, whose
\* table is then not loaded, and past the row.
MCDrafts ==
  {<<Column(20, "String", 0)>>,
   <<Column(21, "Boolean", 0), Column(PidTagLtpRowId, "Integer32", 4),
     Column(20, "Integer64", 0)>>,
   <<Column(20, "String", 0), Column(20, "Boolean", 0)>>,
   <<Column(20, "String", 2), Column(21, "Boolean", 0)>>,
   <<Column(20, "String", 2), Column(21, "Boolean", 0), Column(22, "Boolean", 0)>>,
   <<Column(20, "String", 1)>>}

MCCells ==
  {[typ |-> "String", cb |-> 20, data |-> Long],
   [typ |-> "Integer64", cb |-> 8, data |-> BytesOf(7, 8)],
   [typ |-> "Boolean", cb |-> 1, data |-> BytesOf(1, 1)]}

File1(cb, data, body) ==
  [name |-> Value(4, Name), cb |-> cb, data |-> data, body |-> body,
   embedded |-> NoMessage, left |-> cb]

Embedded(w) ==
  [name |-> Value(20, Other), cb |-> 0, data |-> NoData, body |-> FALSE,
   embedded |-> w, left |-> 0]

Mail(recips, atts) == [subject |-> Value(5, Short), recips |-> recips, atts |-> atts]

MCMessageWrites ==
  [plain |-> Mail(<<Value(3, Name), Value(20, Other)>>, <<>>),
   two   |-> Mail(<<>>, <<File1(8, File, FALSE), File1(40, Body, TRUE)>>),
   nest  |-> Mail(<<Value(3, Name)>>, <<Embedded("two")>>),
   twins |-> Mail(<<>>, <<Embedded("plain"), Embedded("plain")>>),
   loop  |-> Mail(<<>>, <<Embedded("loop")>>),
   deep  |-> Mail(<<>>, <<Embedded("nest")>>),
   cut   |-> Mail(<<>>, <<[File1(40, Cut, TRUE) EXCEPT !.left = 35]>>)]
=============================================================================
