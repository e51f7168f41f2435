----------------------------- MODULE CommitTxn ------------------------------
(***************************************************************************)
(* Publishing a commit: CommitTo and CommitFile of writer/v2/ndb.go over   *)
(* the handles and the two-phase write of writer/v2/tx.go.                 *)
(*                                                                         *)
(* A version stands for everything a mutation writes. A file holds a       *)
(* header (Invalid, or valid and naming the version of its trees) and a    *)
(* body (a version, or Torn), once as the operating system shows it        *)
(* (cache) and once as a crash leaves it (disk). A sink writes to a file;  *)
(* the FileSinks the store opened itself work only while they are open.    *)
(* Where the spool's bytes come from is the subject of SpoolTxn.           *)
(***************************************************************************)
EXTENDS Integers, FiniteSets

CONSTANTS
  File,     \* files the store and its user may create
  User,     \* the caller's own file
  None,
  MaxVer,   \* bound of the model on the number of mutations
  InPlace   \* whether CommitTo may be given the file the store reads from

ASSUME CommitAssumption ==
  /\ User \notin File
  /\ None \notin File \cup {User}
  /\ MaxVer \in Nat
  /\ InPlace \in BOOLEAN

Invalid == -1
Torn == -2

\* The handles of the store: whether the file's own FileSink, whether a type
\* sameIO can compare, and what closing it closes.
Handles ==
  [file : File \cup {User}, own : BOOLEAN, core : BOOLEAN,
   life : {"temp", "close", "borrowed"}]

\* The commits that may run.
Jobs ==
  [op : {"CommitTo", "CommitFile"},
   pc : {"header", "sync1", "body", "sync2", "valid", "sync3",
         "adopt", "rename", "syncDir", "open"},
   target : File \cup {User}, dst : Handles \cup {None},
   body : Torn .. MaxVer,
   oldWork : Handles \cup {None}, oldIO : Handles \cup {None}]

ASSUME NoneAssumption == None \notin Handles /\ None \notin Jobs

VARIABLES
  cache, disk,  \* contents of every file
  path,         \* the file the committed path names
  names,        \* the files it may name after a crash
  open,         \* files whose own FileSink is open
  io, work, hold, \* handles of the Store
  ver,          \* the version in memory
  last,         \* the last version given out
  job,          \* the commit that is running
  down          \* the program is not running

vars == <<cache, disk, path, names, open, io, work, hold, ver, last, job, down>>
files == <<cache, disk, path, names>>
handles == <<io, work, hold>>

Blank == [hdr |-> Invalid, body |-> Torn]

-----------------------------------------------------------------------------
(* Handles *)

\* own: the store's FileSink on the file, not a sink of the caller; core: a
\* type sameIO can compare, not a wrapper.
Handle(f, own, core, life) == [file |-> f, own |-> own, core |-> core, life |-> life]

sameIO(a, b) ==
  a.core /\ b.core /\ a.file = b.file /\ a.own = b.own

Readable(h) == h.own => h.file \in open

\* What closing a handle closes: nothing that is borrowed.
Closes(h) == IF h = None THEN {} ELSE IF h.life = "borrowed" THEN {} ELSE {h.file}

\* Seeded bug: the old source is always closed.
RetainsNothing(h, dst) == FALSE

\* retainOwned: whether the old source is kept as hold.
Retains(h, dst) ==
  /\ h # None
  /\ h.life = "close"
  /\ ~ dst.core \/ sameIO(dst, h)
  /\ hold = None

\* reader(): the spool if there is one.
Source == IF work # None THEN work ELSE io

\* The version the bytes of the source are; no source is a blank store.
SourceBody ==
  IF Source = None THEN 0
  ELSE IF Readable(Source) THEN cache[Source.file].body ELSE Torn

Referenced ==
  names \cup {path}
    \cup {h.file : h \in {io, work, hold} \ {None}}
    \cup (IF job = None THEN {} ELSE
            {job.target} \cup {h.file : h \in {job.oldIO, job.oldWork, job.dst} \ {None}})

Unused == File \ Referenced

\* The contents c without the files nothing refers to after the step: a file
\* that has neither a name nor a handle is gone.
Remaining(c) ==
  [f \in File \cup {User} |-> IF f \in Referenced' \cup {User} THEN c[f] ELSE Blank]

Collect(c) == cache' = Remaining(c) /\ disk' = Remaining(disk)

Idle == ~ down /\ job = None

\* The contents after a write of one part of a file.
PutHeader(f, v) == [cache EXCEPT ![f] = [hdr |-> v, body |-> cache[f].body]]
PutBody(f, v) == [cache EXCEPT ![f] = [hdr |-> cache[f].hdr, body |-> v]]

-----------------------------------------------------------------------------
(* Mutations *)

\* A mutation writes to the spool, made from the source when there is none.
Mutate ==
  /\ Idle
  /\ last < MaxVer
  /\ last' = last + 1
  /\ ver' = last'
  /\ \E f \in (IF work = None THEN Unused ELSE {work.file}) :
       /\ cache' = PutBody(f, ver')
       /\ work' = Handle(f, TRUE, TRUE, "temp")
       /\ open' = open \cup {f}
  /\ UNCHANGED <<disk, path, names, io, hold, job, down>>

-----------------------------------------------------------------------------
(* Steps of a commit *)

Job(op, target, dst, oldWork, oldIO) ==
  [op |-> op, pc |-> "header", target |-> target, dst |-> dst,
   body |-> SourceBody, oldWork |-> oldWork, oldIO |-> oldIO]

At(pc) == ~ down /\ job # None /\ job.pc = pc

Goto(pc) == job' = [job EXCEPT !.pc = pc]

\* The sinks a caller may name: its own, bare or wrapped; the file the path
\* names, opened by itself; the store's own FileSink, bare or wrapped.
Destinations ==
  {d \in Handles :
     /\ d.life = "borrowed"
     /\ \/ ~ d.own /\ d.file = User
        \/ InPlace /\ ~ d.own /\ d.core /\ d.file = path
        \/ /\ InPlace /\ d.own
           /\ \E h \in {io, hold} \ {None} : h.life = "close" /\ h.file = d.file}

\* CommitTo: the image is written to a stage nobody else sees, and the stage
\* becomes the source before the destination is touched.
CommitTo(dst) ==
  /\ Idle
  /\ \E f \in Unused :
       /\ cache' = [cache EXCEPT ![f] = [hdr |-> ver, body |-> SourceBody]]
       /\ open' = open \cup {f}
       /\ io' = Handle(f, TRUE, TRUE, "temp")
       /\ job' = Job("CommitTo", dst.file, dst, work, io)
  /\ work' = None
  /\ UNCHANGED <<disk, path, names, hold, ver, last, down>>

\* CommitFile begins: path.tmp is created.
CommitFile ==
  /\ Idle
  /\ \E f \in Unused :
       /\ open' = open \cup {f}
       /\ job' = Job("CommitFile", f, None, None, None)
  /\ UNCHANGED <<files, handles, ver, last, down>>

\* A write to the target works unless it goes through a closed FileSink.
CanWrite == job.dst # None => Readable(job.dst)

\* Seeded bug: the INVALID header is not synced before the body.
WriteInvalidUnsynced ==
  /\ At("header") /\ CanWrite
  /\ cache' = PutHeader(job.target, Invalid)
  /\ Goto("body")
  /\ UNCHANGED <<disk, path, names, open, handles, ver, last, down>>

\* writeHeader(INVALID).
WriteInvalid ==
  /\ At("header") /\ CanWrite
  /\ cache' = PutHeader(job.target, Invalid)
  /\ Goto("sync1")
  /\ UNCHANGED <<disk, path, names, open, handles, ver, last, down>>

\* writeBody and the tree pages, or the copy of the stage.
WriteBody ==
  /\ At("body") /\ CanWrite
  /\ cache' = PutBody(job.target, job.body)
  /\ Goto("sync2")
  /\ UNCHANGED <<disk, path, names, open, handles, ver, last, down>>

\* Seeded bug: path.tmp is renamed before its header is synced.
WriteValidUnsynced ==
  /\ At("valid") /\ CanWrite
  /\ cache' = PutHeader(job.target, ver)
  /\ Goto(IF job.op = "CommitFile" THEN "rename" ELSE "sync3")
  /\ UNCHANGED <<disk, path, names, open, handles, ver, last, down>>

\* writeHeader(VALID2): the header names the roots of this version.
WriteValid ==
  /\ At("valid") /\ CanWrite
  /\ cache' = PutHeader(job.target, ver)
  /\ Goto("sync3")
  /\ UNCHANGED <<disk, path, names, open, handles, ver, last, down>>

AfterSync(pc) ==
  CASE pc = "sync1" -> "body"
    [] pc = "sync2" -> "valid"
    [] pc = "sync3" -> IF job.op = "CommitFile" THEN "rename" ELSE "adopt"

Sync ==
  \E pc \in {"sync1", "sync2", "sync3"} :
    /\ At(pc) /\ CanWrite
    /\ disk' = [disk EXCEPT ![job.target] = cache[job.target]]
    /\ Goto(AfterSync(pc))
    /\ UNCHANGED <<cache, path, names, open, handles, ver, last, down>>

-----------------------------------------------------------------------------
(* The end of CommitTo *)

\* The handles after the old source was retained or closed.
KeepSource(extra) ==
  LET kept == Retains(job.oldIO, job.dst)
  IN  /\ hold' = IF kept THEN job.oldIO ELSE hold
      /\ open' = open \ (extra \cup (IF kept THEN {} ELSE Closes(job.oldIO)))

\* What a write that fails may have left behind.
PartWritten ==
  IF ~ CanWrite THEN {}
  ELSE CASE job.pc = "header" -> {PutHeader(job.target, Invalid)}
         [] job.pc = "body"   -> {PutBody(job.target, Torn)}
         [] job.pc = "valid"  -> {PutHeader(job.target, ver)}
         [] OTHER -> {}

\* publishSink fails: the stage stays the source.
PublishFails ==
  /\ ~ down /\ job # None /\ job.op = "CommitTo"
  /\ job.pc # "adopt"
  /\ KeepSource(Closes(job.oldWork))
  /\ job' = None
  /\ UNCHANGED <<path, names, io, work, ver, last, down>>
  /\ \E c \in {cache} \cup PartWritten : Collect(c)

\* adoptPublished: the destination becomes the source, the stage and the old
\* handles go; a hold the destination cannot write through is released.
adoptPublished ==
  LET kept     == Retains(job.oldIO, job.dst)
      newHold  == IF kept THEN job.oldIO ELSE hold
      released == newHold # None /\ job.dst.core /\ ~ sameIO(job.dst, newHold)
  IN  /\ At("adopt")
      /\ io' = job.dst
      /\ hold' = IF released THEN None ELSE newHold
      /\ open' = open \ (Closes(io) \cup Closes(job.oldWork)
                           \cup (IF kept THEN {} ELSE Closes(job.oldIO))
                           \cup (IF released THEN Closes(newHold) ELSE {}))
      /\ job' = None
      /\ UNCHANGED <<path, names, work, ver, last, down>>
      /\ Collect(cache)

-----------------------------------------------------------------------------
(* The end of CommitFile *)

\* Any failure before the rename: path.tmp is closed and removed, the
\* snapshot restored.
CommitFileFails ==
  /\ ~ down /\ job # None /\ job.op = "CommitFile"
  /\ job.pc \notin {"syncDir", "open"}
  /\ open' = open \ {job.target}
  /\ job' = None
  /\ UNCHANGED <<path, names, handles, ver, last, down>>
  /\ Collect(cache)

\* closeSink and replacePath.
Rename ==
  /\ At("rename")
  /\ open' = open \ {job.target}
  /\ path' = job.target
  /\ names' = names \cup {job.target}
  /\ Goto("syncDir")
  /\ UNCHANGED <<cache, disk, handles, ver, last, down>>

syncDir ==
  /\ At("syncDir")
  /\ names' = {path}
  /\ Goto("open")
  /\ UNCHANGED <<path, open, handles, ver, last, down>>
  /\ Collect(cache)

\* Seeded bug: the hold is forgotten and not closed.
adoptForgetsHold ==
  /\ At("open")
  /\ io' = Handle(job.target, TRUE, TRUE, "close")
  /\ work' = None
  /\ hold' = None
  /\ open' = (open \ (Closes(work) \cup Closes(io))) \cup {job.target}
  /\ job' = None
  /\ UNCHANGED <<path, names, ver, last, down>>
  /\ Collect(cache)

\* openCommitted and adopt: the new file is the source, every old handle goes.
adopt ==
  /\ At("open")
  /\ io' = Handle(job.target, TRUE, TRUE, "close")
  /\ work' = None
  /\ hold' = None
  /\ open' = (open \ (Closes(work) \cup Closes(io) \cup Closes(hold)))
               \cup {job.target}
  /\ job' = None
  /\ UNCHANGED <<path, names, ver, last, down>>
  /\ Collect(cache)

\* syncDir or openCommitted fails: the store keeps the source it has.
failAdopt ==
  /\ At("syncDir") \/ At("open")
  /\ job' = None
  /\ UNCHANGED <<files, open, handles, ver, last, down>>

-----------------------------------------------------------------------------
(* The end of the program *)

\* What a crash may leave of a file: each part as synced or as written.
Outcomes(f) ==
  IF f = None THEN {Blank} ELSE
    [hdr  : {disk[f].hdr, cache[f].hdr},
     body : {disk[f].body, cache[f].body}
              \cup (IF disk[f].body = cache[f].body THEN {} ELSE {Torn})]

Opens(c) == c.hdr # Invalid

Stop == /\ down' = TRUE
        /\ job' = None
        /\ open' = {}
        /\ io' = None /\ work' = None /\ hold' = None
        /\ ver' = 0

\* Power goes at any moment; temporary files are of no further interest.
Crash ==
  /\ ~ down
  /\ \E p \in names :
       /\ path' = p
       /\ names' = {p}
       /\ \E user \in Outcomes(User), c \in Outcomes(p) :
            LET left == [f \in File \cup {User} |->
                           IF f = User THEN user ELSE IF f = p THEN c ELSE Blank]
            IN  cache' = left /\ disk' = left
  /\ Stop
  /\ UNCHANGED last

\* NDB.Close, and the program ends.
Close ==
  /\ Idle
  /\ Stop
  /\ UNCHANGED <<path, names, last>>
  /\ Collect(cache)

\* The program starts on the path.
OpenNDBFile ==
  /\ down
  /\ path # None
  /\ Opens(cache[path])
  /\ down' = FALSE
  /\ ver' = cache[path].hdr
  /\ io' = Handle(path, TRUE, TRUE, "close")
  /\ open' = {path}
  /\ UNCHANGED <<files, work, hold, last, job>>

\* The program starts without a file it can open.
NewNDB ==
  /\ down
  /\ path # None => ~ Opens(cache[path])
  /\ down' = FALSE
  /\ UNCHANGED <<files, open, handles, ver, last, job>>

Init ==
  /\ cache = [f \in File \cup {User} |-> Blank]
  /\ disk = cache
  /\ path = None
  /\ names = {None}
  /\ open = {}
  /\ io = None /\ work = None /\ hold = None
  /\ ver = 0
  /\ last = 0
  /\ job = None
  /\ down = FALSE

Next ==
  \/ Mutate
  \/ \E dst \in Destinations : CommitTo(dst)
  \/ CommitFile
  \/ WriteInvalid \/ WriteBody \/ WriteValid \/ Sync
  \/ PublishFails \/ adoptPublished
  \/ CommitFileFails \/ Rename \/ syncDir \/ adopt \/ failAdopt
  \/ Crash \/ Close \/ OpenNDBFile \/ NewNDB

Spec == Init /\ [][Next]_vars

-----------------------------------------------------------------------------
(* Properties *)

Content == [hdr : Invalid .. MaxVer, body : Torn .. MaxVer]

TypeOK ==
  /\ cache \in [File \cup {User} -> Content]
  /\ disk \in [File \cup {User} -> Content]
  /\ path \in File \cup {None}
  /\ names \subseteq File \cup {None}
  /\ open \subseteq File
  /\ {io, work, hold} \subseteq Handles \cup {None}
  /\ job \in Jobs \cup {None}
  /\ ver \in 0 .. last /\ last \in 0 .. MaxVer
  /\ down \in BOOLEAN

\* At every moment of a commit, after every failure and whatever file the
\* caller named as destination, the store can read the version it holds in
\* memory ("A dest publish failure keeps the complete stage readable and
\* cannot destroy the only valid source through a hidden alias", doc.go).
SourceReadable == ~ down => SourceBody = ver

\* A FileSink the store opened is always owned by a handle of the store or of
\* the running commit, so that Close closes it: "hold is never overwritten",
\* replaced stages and spools are closed (retainOwned, adopt, adoptPublished).
NoLeakedHandle ==
  LET owners == {h \in {io, work, hold} \ {None} : h.life # "borrowed"}
      jobs   == IF job = None THEN {}
                ELSE {h \in {job.oldIO, job.oldWork} \ {None} : h.life # "borrowed"}
      temp   == IF job # None /\ job.op = "CommitFile" THEN {job.target} ELSE {}
  IN  open \subseteq {h.file : h \in owners \cup jobs} \cup temp

\* A crash at any step of any publication, also in place over the file the
\* store was opened from, leaves no file with a valid header over a body of
\* another version: INVALID is on disk before the body changes, the body
\* before VALID.
ValidMeansComplete ==
  \A f \in File \cup {User} :
    /\ Opens(disk[f]) => disk[f].body = disk[f].hdr
    /\ f \in {User, path} => \A c \in Outcomes(f) : Opens(c) => c.body = c.hdr

\* The version a file holds for who opens it, 0 where it is absent and -1
\* where it is refused.
Version(p, c) ==
  IF p = None THEN 0 ELSE IF Opens(c) /\ c.body = c.hdr THEN c.hdr ELSE -1

\* CommitFile implements AtomicFile: a crash at any step leaves a file that
\* opens, holding the last version whose commit returned or one a later commit
\* had already renamed into place, never a mixture and never nothing.
Abstract == INSTANCE AtomicFile WITH
  mem    <- IF down /\ path # None THEN Version(path, cache[path]) ELSE ver,
  stored <- UNION {{Version(p, c) : c \in Outcomes(p)} : p \in names}

ImplementsAtomicFile == Abstract!Spec
=============================================================================
