------------------------------ MODULE Exporter ------------------------------
(***************************************************************************)
(* The export session of writer/v2/exporter.go. It collects a plan of      *)
(* folders and messages; Finalize writes a blank store and then the plan,  *)
(* one FolderTree transaction per folder and message, and commits it.      *)
(* The store under construction is FolderTree's tree. A store may also be  *)
(* opened and edited without a session (OpenFolderTree).                   *)
(*                                                                         *)
(* s.folders and s.plan.Folders hold the same folders, by reference and in *)
(* order of creation: updatePlanFolder and DeleteFolder change both, and   *)
(* the model keeps the second. An attachment is the reader of its body:    *)
(* CreateMessage hashes and rewinds it (or a spool of it), Finalize reads  *)
(* it to its end and leaves it there.                                      *)
(***************************************************************************)
EXTENDS FolderTree, Sequences

CONSTANTS
  PlanMaxFolders,  \* opts.Limits.MaxFolders, root and IPM included
  PlanMaxDepth,    \* opts.Limits.MaxFolderDepth, the root has depth 0
  MaxRef,          \* bound of the model: folder references
  Readers,         \* bodies of attachments
  NoReader

ASSUME ExporterAssumption ==
  {PlanMaxFolders, PlanMaxDepth, MaxRef} \subseteq Nat /\ NoReader \notin Readers

VARIABLES
  folders,  \* plan.Folders: [ref, parent, name, depth]
  messages, \* plan.Messages: [nid, folder, read, body]
  nextFold, \* next folder reference
  spent,    \* the readers that stand at their end
  phase,    \* "open", "folders", "messages", "commit", "closed"; "store" when
            \* there is no session
  pending,  \* what CreateFromPlan or CreateMessagesFromPlan has still to do
  skipped,  \* the folders the pass of CreateFromPlan leaves to the next
  progress, \* whether the pass has made a folder
  nids,     \* references to nodes of the store under construction
  result    \* how the last Finalize of this plan ended, and what it wrote

plan == <<folders, messages, nextFold>>

run == <<pending, skipped, progress, nids>>

exporterVars == <<vars, plan, spent, phase, run, result>>

RootFolderRef == 1
IPMSubtreeRef == 2

Result(end) == [end |-> end, store |-> Minimum, nids |-> NoRows]

systemFolder(ref) == ref \in {RootFolderRef, IPMSubtreeRef}

Refs == {folders[i].ref : i \in DOMAIN folders}

Folder(ref) == folders[CHOOSE i \in DOMAIN folders : folders[i].ref = ref]

planCollision(parent, name, except) ==
  \E i \in DOMAIN folders : /\ folders[i].parent = parent
                            /\ folders[i].ref # except /\ folders[i].name = name

\* What a loop over s that appends the entries at the places K builds.
Keep(s, K) ==
  [n \in 1 .. Cardinality(K) |->
     s[CHOOSE i \in K : Cardinality({j \in K : j <= i}) = n]]

PlanChanged ==
  /\ phase = "open"
  /\ result' = Result("none")
  /\ UNCHANGED <<vars, phase, run>>

-----------------------------------------------------------------------------
(* Planning *)

CreateFolder(parent, name) ==
  LET depth == Folder(parent).depth + 1
  IN  /\ PlanChanged
      /\ nextFold <= MaxRef
      /\ parent \in Refs
      /\ ~ planCollision(parent, name, 0)
      /\ depth <= PlanMaxDepth
      /\ Len(folders) < PlanMaxFolders
      /\ folders' = Append(folders, [ref |-> nextFold, parent |-> parent,
                                     name |-> name, depth |-> depth])
      /\ nextFold' = nextFold + 1
      /\ UNCHANGED <<messages, spent>>

RenameFolder(ref, name) ==
  /\ PlanChanged
  /\ ref \in Refs /\ ~ systemFolder(ref)
  /\ ~ planCollision(Folder(ref).parent, name, ref)
  /\ folders' = [i \in DOMAIN folders |->
       IF folders[i].ref = ref THEN [folders[i] EXCEPT !.name = name] ELSE folders[i]]
  /\ UNCHANGED <<messages, nextFold, spent>>

PlanParent(fs, ref) ==
  IF \E i \in DOMAIN fs : fs[i].ref = ref
  THEN fs[CHOOSE i \in DOMAIN fs : fs[i].ref = ref].parent ELSE 0

PlanUp(fs) == [r \in {fs[i].ref : i \in DOMAIN fs} |-> {PlanParent(fs, r)} \ {0}]

\* The references on the way from ref to the root.
PlanAncestors(fs, ref) == Reach(PlanUp(fs), ref)

\* Seeded bug: the depths below the folder stay.
recomputeOne(fs, ref) ==
  [i \in DOMAIN fs |->
     IF fs[i].ref = ref
     THEN [fs[i] EXCEPT !.depth = Cardinality(PlanAncestors(fs, ref)) - 1]
     ELSE fs[i]]

\* Depths again, of the folder and of all that is below it.
recomputeDepth(fs, ref) ==
  [i \in DOMAIN fs |->
     LET above == PlanAncestors(fs, fs[i].ref)
     IN  IF ref \in above THEN [fs[i] EXCEPT !.depth = Cardinality(above) - 1]
         ELSE fs[i]]

MoveFolder(ref, parent) ==
  LET moved == [i \in DOMAIN folders |->
        IF folders[i].ref = ref THEN [folders[i] EXCEPT !.parent = parent]
        ELSE folders[i]]
  IN  /\ PlanChanged
      /\ {ref, parent} \subseteq Refs /\ ~ systemFolder(ref)
      /\ ref \notin PlanAncestors(folders, parent)
      /\ ~ planCollision(parent, Folder(ref).name, ref)
      /\ Folder(parent).depth + 1 <= PlanMaxDepth
      /\ folders' = recomputeDepth(moved, ref)
      /\ UNCHANGED <<messages, nextFold, spent>>

DeleteFolder(ref) ==
  LET drop == {r \in Refs : ref \in PlanAncestors(folders, r)}
  IN  /\ PlanChanged
      /\ ref \in Refs /\ ~ systemFolder(ref)
      /\ \A i \in DOMAIN messages : messages[i].folder \notin drop
      /\ folders' = Keep(folders, {i \in DOMAIN folders : folders[i].ref \notin drop})
      /\ UNCHANGED <<messages, nextFold, spent>>

\* snapshotAttachments reads the body and rewinds it.
PlanMessage(folder, read, body) ==
  /\ PlanChanged
  /\ Len(messages) < MaxMessage
  /\ folder \in Refs
  /\ messages' = Append(messages, [nid |-> Len(messages) + 1, folder |-> folder,
                                   read |-> read, body |-> body])
  /\ spent' = spent \ {body}
  /\ UNCHANGED <<folders, nextFold>>

-----------------------------------------------------------------------------
(* Finalize *)

\* NewNDB, WriteMinimum, OpenFolderTree; the system folders are there already.
Finalize ==
  /\ phase = "open"
  /\ phase' = "folders"
  /\ tree' = Minimum /\ nextFolder' = 3 /\ nextMsg' = 1
  /\ nids' = [r \in {RootFolderRef, IPMSubtreeRef} |->
                IF r = RootFolderRef THEN NIDRootFolder ELSE IPM]
  /\ pending' = Keep(folders, {i \in DOMAIN folders : ~ systemFolder(folders[i].ref)})
  /\ skipped' = <<>> /\ progress' = FALSE
  /\ UNCHANGED <<plan, spent, result>>

\* Finalize returns; its store and maps are gone.
Return ==
  /\ phase' = "open"
  /\ tree' = Minimum /\ nextFolder' = 3 /\ nextMsg' = 1
  /\ pending' = <<>> /\ skipped' = <<>> /\ progress' = FALSE /\ nids' = NoRows
  /\ UNCHANGED <<plan, spent>>

Fail == Return /\ result' = Result("error")

\* Seeded bug: a folder whose parent is not made yet goes under the IPM
\* subtree.
CreateUnderIPM ==
  LET f == Head(pending)
      p == IF f.parent \in DOMAIN nids THEN nids[f.parent] ELSE IPM
  IN  /\ phase = "folders" /\ pending # <<>>
      /\ Create(p, f.name)
      /\ nids' = Put(nids, f.ref, <<"normal", nextFolder>>)
      /\ pending' = Tail(pending)
      /\ progress' = TRUE
      /\ UNCHANGED <<plan, spent, phase, skipped, result>>

\* CreateFromPlan: the next folder of the pass, when its parent is made.
CreateFromPlan ==
  LET f == Head(pending)
  IN  /\ phase = "folders" /\ pending # <<>>
      /\ f.parent \in DOMAIN nids
      /\ Create(nids[f.parent], f.name)
      /\ nids' = Put(nids, f.ref, <<"normal", nextFolder>>)
      /\ pending' = Tail(pending)
      /\ progress' = TRUE
      /\ UNCHANGED <<plan, spent, phase, skipped, result>>

\* A folder whose parent comes later in the plan waits for the next pass.
SkipFolder ==
  /\ phase = "folders" /\ pending # <<>>
  /\ Head(pending).parent \notin DOMAIN nids
  /\ skipped' = Append(skipped, Head(pending))
  /\ pending' = Tail(pending)
  /\ UNCHANGED <<vars, plan, spent, phase, progress, nids, result>>

\* Seeded bug: there is one pass.
OnePass == FALSE

NextPass ==
  /\ phase = "folders" /\ pending = <<>> /\ skipped # <<>> /\ progress
  /\ pending' = skipped
  /\ skipped' = <<>> /\ progress' = FALSE
  /\ UNCHANGED <<vars, plan, spent, phase, nids, result>>

\* Create refuses, or a pass has made nothing.
CreateFromPlanFails ==
  /\ phase = "folders"
  /\ IF pending # <<>>
     THEN /\ Head(pending).parent \in DOMAIN nids
          /\ ~ CanCreate(tree, nids[Head(pending).parent], Head(pending).name)
     ELSE skipped # <<>> /\ ~ progress
  /\ Fail

FoldersDone ==
  /\ phase = "folders" /\ pending = <<>> /\ skipped = <<>>
  /\ phase' = "messages"
  /\ pending' = messages
  /\ UNCHANGED <<vars, plan, spent, skipped, progress, nids, result>>

\* A known folder, a free node, and a body that was not read to its end
\* before: then AllocateStream would get fewer bytes than the size says.
Writable(m) ==
  m.folder \in DOMAIN nids /\ m.nid \notin DOMAIN tree.msg /\ m.body \notin spent

\* Attachments are read as the message is written.
CreateMessagesFromPlan ==
  LET m == Head(pending)
  IN  /\ phase = "messages" /\ pending # <<>>
      /\ Writable(m)
      /\ CreatePlannedMessage(m.nid, nids[m.folder], m.read)
      /\ spent' = spent \cup ({m.body} \ {NoReader})
      /\ pending' = Tail(pending)
      /\ UNCHANGED <<plan, phase, skipped, progress, nids, result>>

CreateMessagesFromPlanFails ==
  /\ phase = "messages" /\ pending # <<>>
  /\ ~ Writable(Head(pending))
  /\ Fail

MessagesDone ==
  /\ phase = "messages" /\ pending = <<>>
  /\ phase' = "commit"
  /\ UNCHANGED <<vars, plan, spent, run, result>>

\* CommitTo the sink (CommitTxn); the session stays open.
CommitSink ==
  /\ phase = "commit"
  /\ Return
  /\ result' = [end |-> "ok", store |-> tree, nids |-> nids]

CommitSinkFails == phase = "commit" /\ Fail

\* Nothing can be called after Close.
Close ==
  /\ phase = "open"
  /\ phase' = "closed"
  /\ UNCHANGED <<vars, plan, spent, run, result>>

-----------------------------------------------------------------------------

\* The operations of FolderTree, on a store nobody exports.
EditStore ==
  /\ phase = "store"
  /\ Next
  /\ UNCHANGED <<plan, spent, phase, run, result>>

-----------------------------------------------------------------------------

\* New, with seedSystemFolders, or a blank store.
ExporterInit ==
  /\ WriteMinimum
  /\ folders = <<[ref |-> RootFolderRef, parent |-> 0, name |-> "Root", depth |-> 0],
                 [ref |-> IPMSubtreeRef, parent |-> RootFolderRef,
                  name |-> "IPM_SUBTREE", depth |-> 1]>>
  /\ messages = <<>> /\ nextFold = 3
  /\ spent = {} /\ phase \in {"open", "store"}
  /\ pending = <<>> /\ skipped = <<>> /\ progress = FALSE /\ nids = NoRows
  /\ result = Result("none")

Finalizing ==
  \/ CreateFromPlan \/ SkipFolder \/ NextPass \/ CreateFromPlanFails \/ FoldersDone
  \/ CreateMessagesFromPlan \/ CreateMessagesFromPlanFails \/ MessagesDone
  \/ CommitSink \/ CommitSinkFails

ExporterNext ==
  \/ \E r \in Refs : \/ DeleteFolder(r)
                     \/ \E n \in Names : CreateFolder(r, n) \/ RenameFolder(r, n)
                     \/ \E p \in Refs : MoveFolder(r, p)
                     \/ \E b \in BOOLEAN, d \in Readers \cup {NoReader} :
                          PlanMessage(r, b, d)
  \/ Finalize \/ Finalizing \/ Close \/ EditStore

\* Finalize is one call: it runs to its end.
ExporterSpec ==
  ExporterInit /\ [][ExporterNext]_exporterVars /\ WF_exporterVars(Finalizing)

-----------------------------------------------------------------------------
(* Properties *)

\* The plan is a tree: every folder's parent is in it, its depth is one more
\* than the parent's (MoveFolder has to correct all that moves with a folder),
\* siblings differ in name, every message is in one of its folders.
PlanIsTree ==
  /\ \A r \in Refs \ {RootFolderRef} :
       LET f == Folder(r)
       IN  f.parent \in Refs /\ f.depth = Folder(f.parent).depth + 1
  /\ \A i, j \in DOMAIN folders :
       folders[i].parent = folders[j].parent /\ folders[i].name = folders[j].name
         => i = j
  /\ \A i \in DOMAIN messages : messages[i].folder \in Refs

\* When Finalize has succeeded the file is the plan: every folder under the
\* node of its parent with its name, every message in its folder with its
\* flag, and nothing else but what WriteMinimum made ("Finalize writes planned
\* user folders onto the skeleton", doc.go).
FileMatchesPlan ==
  result.end = "ok" =>
    LET s   == result.store
        nid == result.nids
    IN  /\ DOMAIN nid = Refs
        /\ DOMAIN s.pc = {nid[r] : r \in Refs} \cup DOMAIN Minimum.pc
        /\ \A q, r \in Refs : nid[q] = nid[r] => q = r
        /\ \A r \in Refs : ~ systemFolder(r) =>
             /\ s.pc[nid[r]].name = Folder(r).name
             /\ s.pc[nid[r]].parent = nid[Folder(r).parent]
        /\ DOMAIN s.msg = {messages[i].nid : i \in DOMAIN messages}
        /\ \A i \in DOMAIN messages :
             s.msg[messages[i].nid] = [folder |-> nid[messages[i].folder],
                                       read |-> messages[i].read]

\* Plans the store can hold: within its limits, which count the two other
\* folders of a blank store and the root's own level, and without the names
\* those folders have.
PlanFits ==
  /\ Len(folders) + 2 <= MaxFolders
  /\ \A i \in DOMAIN folders :
       /\ folders[i].depth + 1 <= MaxFolderDepth
       /\ folders[i].parent = RootFolderRef =>
            folders[i].name \notin {IPMName, WasteName, FinderName}

\* Every body stands at its start, and no two attachments share one.
BodiesUnread ==
  \A i, j \in DOMAIN messages :
    messages[i].body # NoReader =>
      /\ messages[i].body \notin spent
      /\ messages[i].body = messages[j].body => i = j

\* Finalize ends, and it refuses no plan that fits the store and whose bodies
\* are unread: whatever creations, renames, moves and deletions made the plan,
\* it gets as far as the commit.
FittingPlansCommit ==
  (phase = "folders" /\ nextFolder = 3 /\ nextMsg = 1 /\ PlanFits /\ BodiesUnread)
    ~> (phase = "commit")
=============================================================================
