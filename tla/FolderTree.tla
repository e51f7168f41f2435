----------------------------- MODULE FolderTree -----------------------------
(***************************************************************************)
(* The v2 object model: FolderTree in writer/v2/folders.go and             *)
(* messages.go, on the nodes WriteMinimum (minpst.go) leaves.              *)
(*                                                                         *)
(* A folder is a property context (its PC) and three tables that share its *)
(* node index: hierarchy, contents, FAI. Each child has a row in the       *)
(* hierarchy table of its parent that repeats what the PC says. Every      *)
(* operation runs in runTxn, which undoes it when a step fails, so an      *)
(* operation is one action; the calls it makes are operators from one      *)
(* store to the next, applied in the order of the code.                    *)
(*                                                                         *)
(* A name stands for all spellings strings.EqualFold takes for equal.      *)
(* EntryIDs, times and the other properties are copied with the name, and  *)
(* are left out. Nothing in the code writes FAI rows.                      *)
(***************************************************************************)
EXTENDS Integers, FiniteSets, FiniteSetsExt, Walk

CONSTANTS
  Names,          \* folder names callers give
  IPMName,        \* spec.DisplayName: what a caller of WriteMinimum wants
  WasteName, FinderName, \* the names WriteMinimum gives to the other two
  FinderIndex,    \* node index of the first search folder, 0x4000
  MaxFolders,     \* limits.MaxFolders, the four folders of Init included
  MaxFolderDepth, \* limits.MaxFolderDepth, the root has depth 1
  MaxMessage,     \* bound of the model: message indexes
  MaxIndex        \* bound of the model: node indexes of folders

ASSUME FolderAssumption ==
  /\ {MaxFolders, MaxFolderDepth, MaxMessage} \subseteq Nat
  /\ MaxIndex \in Nat /\ FinderIndex \in Nat \ {0, 1, 2}

VARIABLES
  tree,       \* the nodes of the store, see Store
  nextFolder, \* rgnid of normal folders: the next node index
  nextMsg     \* rgnid of normal messages

vars == <<tree, nextFolder, nextMsg>>

\* A node id of a folder is its type and index.
NIDRootFolder == <<"normal", 0>>
IPM == <<"normal", 1>>
Waste == <<"normal", 2>>
Finder == <<"search", FinderIndex>>
NoNID == <<"none", 0>>

NID == ({"normal"} \X (0 .. MaxIndex)) \cup {Finder}

IsSearch(nid) == nid[1] = "search"

\* RelatedNID: the tables of a folder are found by its index alone.
Index(nid) == nid[2]

protected(nid) == nid \in {NIDRootFolder, IPM, Waste} \/ IsSearch(nid)

-----------------------------------------------------------------------------
(* Stores: s.pc maps a folder to its PC and NBT parent, s.hierarchy and     *)
(* s.contents an index to the rows of its tables, s.msg a message to its    *)
(* parent and read flag.                                                    *)

Put(f, k, v) == [x \in DOMAIN f \cup {k} |-> IF x = k THEN v ELSE f[x]]

Without(f, K) == [x \in DOMAIN f \ K |-> f[x]]

NoRows == [x \in {} |-> 0]

Rows(s, nid) == s.hierarchy[Index(nid)]

PC(parent, name) ==
  [parent |-> parent, name |-> name, content |-> 0, unread |-> 0,
   subfolders |-> FALSE]

rowState(s, nid) ==
  [name |-> s.pc[nid].name, content |-> s.pc[nid].content,
   unread |-> s.pc[nid].unread, subfolders |-> DOMAIN Rows(s, nid) # {}]

upsertChildRow(s, parent, child) ==
  [s EXCEPT !.hierarchy[Index(parent)] = Put(@, child, rowState(s, child))]

removeChildRow(s, parent, child) ==
  [s EXCEPT !.hierarchy[Index(parent)] = Without(@, {child})]

\* The PC is written, then its row in the parent's table, if there is one.
mutatePC(s, nid, pc) ==
  LET t == [s EXCEPT !.pc[nid] = pc]
  IN  IF pc.parent = NoNID THEN t ELSE upsertChildRow(t, pc.parent, nid)

syncFlags(s, nid) ==
  mutatePC(s, nid, [s.pc[nid] EXCEPT !.subfolders = DOMAIN Rows(s, nid) # {}])

SetParent(s, nid, parent) == [s EXCEPT !.pc[nid].parent = parent]

parentOf(s, nid) == IF nid \in DOMAIN s.pc THEN s.pc[nid].parent ELSE NoNID

Up(s) == [f \in DOMAIN s.pc |-> {parentOf(s, f)} \ {NoNID}]

Down(s) == [f \in DOMAIN s.pc |-> DOMAIN Rows(s, f)]

\* The folders the loop of contains and depthOf visits.
Ancestors(s, nid) == Reach(Up(s), nid)

contains(s, ancestor, nid) == ancestor \in Ancestors(s, nid)

depthOf(s, nid) == Cardinality(Ancestors(s, nid))

folderCount(s) == Cardinality(DOMAIN s.pc)

canHoldChildren(s, nid) == nid \in DOMAIN s.pc /\ ~ IsSearch(nid)

canHoldMessages(s, nid) == nid \in DOMAIN s.pc /\ ~ IsSearch(nid)

\* Seeded bug: the row of the folder itself is all that is compared.
collisionWithItself(s, parent, name, except) ==
  \E c \in DOMAIN Rows(s, parent) \cap {except} : Rows(s, parent)[c].name = name

collision(s, parent, name, except) ==
  \E c \in DOMAIN Rows(s, parent) \ {except} : Rows(s, parent)[c].name = name

\* What deleteLocked visits: it follows the rows.
Subtree(s, nid) == Reach(Down(s), nid)

adjustCounts(s, nid, dContent, dUnread) ==
  LET pc == s.pc[nid]
  IN  mutatePC(s, nid, [pc EXCEPT !.content = Max({0, @ + dContent}),
                                  !.unread = Max({0, @ + dUnread})])

-----------------------------------------------------------------------------
(* Folders *)

CanCreate(s, parent, name) ==
  /\ canHoldChildren(s, parent)
  /\ ~ collision(s, parent, name, NoNID)
  /\ depthOf(s, parent) + 1 <= MaxFolderDepth
  /\ folderCount(s) < MaxFolders

\* The PC, three empty tables, the row, the parent's flag.
Created(s, nid, parent, name) ==
  LET t == [s EXCEPT !.pc = Put(@, nid, PC(parent, name)),
                     !.hierarchy = Put(@, Index(nid), NoRows),
                     !.contents = Put(@, Index(nid), {})]
  IN  syncFlags(upsertChildRow(t, parent, nid), parent)

Create(parent, name) ==
  /\ nextFolder <= MaxIndex
  /\ CanCreate(tree, parent, name)
  /\ tree' = Created(tree, <<"normal", nextFolder>>, parent, name)
  /\ nextFolder' = nextFolder + 1
  /\ UNCHANGED nextMsg

Rename(nid, name) ==
  /\ ~ protected(nid)
  /\ parentOf(tree, nid) # NoNID
  /\ ~ collision(tree, parentOf(tree, nid), name, nid)
  /\ tree' = mutatePC(tree, nid, [tree.pc[nid] EXCEPT !.name = name])
  /\ UNCHANGED <<nextFolder, nextMsg>>

\* Seeded bug: a folder may go under its own descendant.
CanMoveAnywhere(s, nid, newParent) ==
  /\ ~ protected(nid)
  /\ canHoldChildren(s, newParent)
  /\ nid # newParent
  /\ parentOf(s, nid) \notin {NoNID, newParent}
  /\ ~ collision(s, newParent, s.pc[nid].name, NoNID)
  /\ depthOf(s, newParent) + 1 <= MaxFolderDepth

\* The depth of newParent is checked, the height of what moves is not.
CanMove(s, nid, newParent) ==
  /\ ~ protected(nid)
  /\ canHoldChildren(s, newParent)
  /\ ~ contains(s, nid, newParent)
  /\ parentOf(s, nid) \notin {NoNID, newParent}
  /\ ~ collision(s, newParent, s.pc[nid].name, NoNID)
  /\ depthOf(s, newParent) + 1 <= MaxFolderDepth

\* Seeded bug: the flag of the folder left behind is not written.
MovedOneFlag(s, nid, newParent) ==
  LET t == SetParent(removeChildRow(s, parentOf(s, nid), nid), nid, newParent)
  IN  syncFlags(mutatePC(t, nid, t.pc[nid]), newParent)

Moved(s, nid, newParent) ==
  LET oldParent == parentOf(s, nid)
      t == SetParent(removeChildRow(s, oldParent, nid), nid, newParent)
  IN  syncFlags(syncFlags(mutatePC(t, nid, t.pc[nid]), oldParent), newParent)

Move(nid, newParent) ==
  /\ CanMove(tree, nid, newParent)
  /\ tree' = Moved(tree, nid, newParent)
  /\ UNCHANGED <<nextFolder, nextMsg>>

\* A folder with messages, a descendant included, refuses the whole.
CanDelete(s, nid) ==
  /\ nid \in DOMAIN s.pc
  /\ \A f \in Subtree(s, nid) : ~ protected(f) /\ s.contents[Index(f)] = {}

Delete(nid) ==
  LET gone   == Subtree(tree, nid)
      parent == parentOf(tree, nid)
      t      == removeChildRow(tree, parent, nid)
  IN  /\ CanDelete(tree, nid)
      /\ tree' = syncFlags([t EXCEPT !.pc = Without(@, gone),
                              !.hierarchy = Without(@, {Index(f) : f \in gone}),
                              !.contents = Without(@, {Index(f) : f \in gone})],
                           parent)
      /\ UNCHANGED <<nextFolder, nextMsg>>

-----------------------------------------------------------------------------
(* Messages *)

WithMessage(s, m, folder, read) ==
  adjustCounts([s EXCEPT !.msg = Put(@, m, [folder |-> folder, read |-> read]),
                         !.contents[Index(folder)] = @ \cup {m}],
               folder, 1, IF read THEN 0 ELSE 1)

\* CreateMessage without a NID.
CreateMessage(folder, read) ==
  /\ nextMsg <= MaxMessage
  /\ canHoldMessages(tree, folder)
  /\ tree' = WithMessage(tree, nextMsg, folder, read)
  /\ nextMsg' = nextMsg + 1
  /\ UNCHANGED nextFolder

\* Seeded bug: EnsureIndex is not called.
CreatePlannedAgain(m, folder, read) ==
  /\ m \notin DOMAIN tree.msg
  /\ canHoldMessages(tree, folder)
  /\ tree' = WithMessage(tree, m, folder, read)
  /\ UNCHANGED <<nextFolder, nextMsg>>

\* CreateMessage with the NID of an export plan.
CreatePlannedMessage(m, folder, read) ==
  /\ m \notin DOMAIN tree.msg
  /\ canHoldMessages(tree, folder)
  /\ tree' = WithMessage(tree, m, folder, read)
  /\ nextMsg' = Max({nextMsg, m + 1})
  /\ UNCHANGED nextFolder

\* Seeded bug: an unread message is taken off the content count only.
DeleteKeepsUnread(m) ==
  LET folder == tree.msg[m].folder
      t == [tree EXCEPT !.contents[Index(folder)] = @ \ {m},
                        !.msg = Without(@, {m})]
  IN  /\ m \in DOMAIN tree.msg
      /\ tree' = adjustCounts(t, folder, -1, 0)
      /\ UNCHANGED <<nextFolder, nextMsg>>

DeleteMessage(m) ==
  LET folder == tree.msg[m].folder
      t == [tree EXCEPT !.contents[Index(folder)] = @ \ {m},
                        !.msg = Without(@, {m})]
  IN  /\ m \in DOMAIN tree.msg
      /\ tree' = adjustCounts(t, folder, -1, IF tree.msg[m].read THEN 0 ELSE -1)
      /\ UNCHANGED <<nextFolder, nextMsg>>

-----------------------------------------------------------------------------

\* The folders of WriteMinimum.
Minimum ==
  LET pc == [f \in {NIDRootFolder, IPM, Waste, Finder} |->
               IF f = NIDRootFolder
               THEN [PC(NoNID, "") EXCEPT !.subfolders = TRUE]
               ELSE PC(NIDRootFolder, IF f = IPM THEN IPMName
                                      ELSE IF f = Waste THEN WasteName
                                      ELSE FinderName)]
      index == {Index(f) : f \in DOMAIN pc}
  IN  [pc |-> pc,
       hierarchy |-> [i \in index |->
         IF i # Index(NIDRootFolder) THEN NoRows
         ELSE [f \in {IPM, Waste, Finder} |->
                 [name |-> pc[f].name, content |-> 0, unread |-> 0,
                  subfolders |-> FALSE]]],
       contents |-> [i \in index |-> {}],
       msg |-> NoRows]

WriteMinimum == tree = Minimum /\ nextFolder = 3 /\ nextMsg = 1

Init == WriteMinimum

Next ==
  \/ \E f \in DOMAIN tree.pc :
       \/ Delete(f)
       \/ \E n \in Names : Create(f, n) \/ Rename(f, n)
       \/ \E p \in DOMAIN tree.pc : Move(f, p)
       \/ \E r \in BOOLEAN :
            \/ CreateMessage(f, r)
            \/ \E m \in 1 .. MaxMessage : CreatePlannedMessage(m, f, r)
  \/ \E m \in DOMAIN tree.msg : DeleteMessage(m)

Spec == Init /\ [][Next]_vars

-----------------------------------------------------------------------------
(* Properties *)

Children(nid) == {c \in DOMAIN tree.pc : tree.pc[c].parent = nid}

\* Hierarchy tables and PCs say the same, after any operations in any order:
\* the rows of a folder are its children, each row repeats the child's PC,
\* the flag is set when there are rows ("keep the folder PC and related
\* hierarchy/contents/FAI tables coherent", doc.go; "stay in lockstep",
\* mutatePC).
RowsMirrorFolders ==
  \A f \in DOMAIN tree.pc :
    /\ Index(f) \in DOMAIN tree.hierarchy
    /\ DOMAIN Rows(tree, f) = Children(f)
    /\ tree.pc[f].subfolders <=> Children(f) # {}
    /\ \A c \in Children(f) :
         LET row == Rows(tree, f)[c]
             pc  == tree.pc[c]
         IN  /\ row.name = pc.name /\ row.subfolders = pc.subfolders
             /\ row.content = pc.content /\ row.unread = pc.unread

Holds(f) == {m \in DOMAIN tree.msg : tree.msg[m].folder = f}

\* The contents table and the counts of a folder are those of the messages
\* whose parent it is ("Contents-table rows and folder content/unread counts
\* stay coherent with the message node", doc.go); adjustCounts never has to
\* cut a count off at zero.
CountsMatchMessages ==
  \A f \in DOMAIN tree.pc :
    /\ tree.contents[Index(f)] = Holds(f)
    /\ tree.pc[f].content = Cardinality(Holds(f))
    /\ tree.pc[f].unread = Cardinality({m \in Holds(f) : ~ tree.msg[m].read})

\* Every folder hangs below the root and every message in a folder: no move
\* makes a cycle, no deletion leaves an orphan.
Rooted ==
  /\ \A f \in DOMAIN tree.pc :
       NIDRootFolder \in Ancestors(tree, f) /\ Ancestors(tree, f) \subseteq DOMAIN tree.pc
  /\ \A m \in DOMAIN tree.msg : tree.msg[m].folder \in DOMAIN tree.pc

\* Two folders of one parent never have the same name, by whatever mix of
\* creations, renames and moves they came there, unless both are system
\* folders: WriteMinimum takes any DisplayName for the first of them, also that
\* of another (minpst.go:180).
SiblingNamesDistinct ==
  \A f, g \in DOMAIN tree.pc \ {NIDRootFolder} :
    tree.pc[f].parent = tree.pc[g].parent /\ tree.pc[f].name = tree.pc[g].name
      => f = g \/ (protected(f) /\ protected(g))

\* A new message takes the place of no other, whether its NID was planned or
\* is the next one.
MessagesKept ==
  [][\A m \in DOMAIN tree.msg :
       m \in DOMAIN tree'.msg => tree'.msg[m] = tree.msg[m]]_vars
=============================================================================
