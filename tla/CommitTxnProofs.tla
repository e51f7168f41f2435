-------------------------- MODULE CommitTxnProofs ---------------------------
(***************************************************************************)
(* Proofs about CommitTxn, for any number of files, any number of          *)
(* mutations, and both for callers that publish over the file the store    *)
(* reads from and for callers that do not.                                 *)
(***************************************************************************)
EXTENDS CommitTxn, TLAPS

Named == (names \ {None}) \cup {User}

\* A file shown as c and synced as d: no crash leaves a valid header of it
\* over a body of another version.
CrashSafe(c, d) ==
  \A h \in {c.hdr, d.hdr} : h # Invalid => c.body = h /\ d.body = h

Owned(h) == h # None /\ h.life # "borrowed"

Owns(h, f) == Owned(h) /\ h.file = f

OpenIfOwned(h) == Owned(h) => h.own /\ h.core /\ h.file \in open

Apart(a, b) == a # None /\ b # None => a.file # b.file

\* The two owned handles a source and a hold may be: a hold exists only beside
\* a source that is not an opened path.
HoldBeside(h) ==
  hold # None /\ h # None =>
    h.life # "close" /\ (h.life = "temp" => h.file # hold.file)

\* The store's own FileSink behind a borrowed destination.
Backs(h, d) == h # None /\ h.life = "close" /\ h.file = d.file

Versions(n) == [hdr : Invalid .. n, body : Torn .. n]

\* The type, but for the contents of files and for down.
Typed ==
  /\ path \in File \cup {None}
  /\ names \subseteq File \cup {None}
  /\ open \subseteq File
  /\ {io, work, hold} \subseteq Handles \cup {None}
  /\ job \in Jobs \cup {None}
  /\ ver \in 0 .. last /\ last \in 0 .. MaxVer

\* No file holds a version that was not made yet.
Made ==
  /\ cache \in [File \cup {User} -> Versions(last)]
  /\ disk \in [File \cup {User} -> Versions(last)]

\* The files a crash may show are safe, and so is every synced file.
FilesSafe ==
  /\ path \in names
  /\ \A f \in Named : CrashSafe(cache[f], disk[f])
  /\ \A f \in File \cup {User} : disk[f].hdr # Invalid => disk[f].body = disk[f].hdr

\* Every handle that has to be closed is open, and the spool and a stage are
\* files of their own.
HandlesSound ==
  /\ OpenIfOwned(io) /\ OpenIfOwned(work) /\ OpenIfOwned(hold)
  /\ work # None => work.life = "temp" /\ work.file \notin names
  /\ Apart(work, io) /\ Apart(work, hold)
  /\ hold # None => hold.life = "close"
  /\ HoldBeside(io)

DownMeansNothing ==
  down => /\ job = None /\ open = {} /\ ver = 0
          /\ io = None /\ work = None /\ hold = None

\* What a running commit has written and synced at each of its steps.
Written(c, d, pc) ==
  /\ pc \in {"sync1", "body", "sync2", "valid"} => c.hdr = Invalid
  /\ pc \in {"body", "sync2", "valid", "sync3"} => d.hdr = Invalid
  /\ pc \in {"sync2", "valid", "sync3"} => c.body = ver
  /\ pc \in {"valid", "sync3"} => d.body = ver
  /\ pc = "sync3" => c.hdr = ver
  /\ pc \in {"adopt", "rename", "syncDir", "open"} =>
       c = [hdr |-> ver, body |-> ver] /\ d = c

\* CommitTo reads from its stage, which is none of the files it closes or
\* writes; a destination that needs an own FileSink has a handle that keeps it.
CommitToSound ==
  /\ job.pc \notin {"rename", "syncDir", "open"}
  /\ job.dst # None /\ job.dst.life = "borrowed" /\ job.target = job.dst.file
  /\ work = None
  /\ io # None /\ io.life = "temp" /\ io.file # job.target
  /\ Apart(io, job.oldIO) /\ Apart(io, job.oldWork) /\ Apart(io, hold)
  /\ io.file \notin names
  /\ OpenIfOwned(job.oldIO) /\ OpenIfOwned(job.oldWork)
  /\ job.oldWork # None => job.oldWork.life = "temp"
  /\ Apart(job.oldWork, job.oldIO) /\ Apart(job.oldWork, hold)
  /\ HoldBeside(job.oldIO)
  /\ job.dst.own => Backs(job.oldIO, job.dst) \/ Backs(hold, job.dst)

\* CommitFile writes a file that nothing else refers to until it is renamed.
CommitFileSound ==
  /\ job.pc # "adopt"
  /\ job.dst = None /\ job.oldIO = None /\ job.oldWork = None
  /\ job.target \in File
  /\ \A h \in {io, work, hold} : h # None => h.file # job.target
  /\ job.pc \notin {"syncDir", "open"} => job.target \notin names
  /\ job.pc \in {"syncDir", "open"} => path = job.target /\ job.target \notin open

JobSound ==
  job # None =>
    /\ job.body = ver
    /\ Written(cache[job.target], disk[job.target], job.pc)
    /\ job.op = "CommitTo" => CommitToSound
    /\ job.op = "CommitFile" => CommitFileSound

\* NoLeakedHandle, owner by owner.
EveryOpenOwned ==
  \A f \in open :
    \/ Owns(io, f) \/ Owns(work, f) \/ Owns(hold, f)
    \/ /\ job # None
       /\ \/ Owns(job.oldIO, f) \/ Owns(job.oldWork, f)
          \/ job.op = "CommitFile" /\ f = job.target

\* The inductive invariant.
IInv ==
  /\ Typed /\ down \in BOOLEAN /\ Made /\ FilesSafe
  /\ HandlesSound /\ DownMeansNothing /\ JobSound
  /\ SourceReadable /\ EveryOpenOwned

\* What the refinement needs besides, where the caller never publishes over a
\* file of the store: a file at the path is complete and synced for good.
NamesSettled ==
  ~ InPlace =>
    /\ \A p \in names \ {None} :
         disk[p] = cache[p] /\ Opens(cache[p]) /\ cache[p].body = cache[p].hdr
    /\ job # None /\ job.op = "CommitTo" => job.target = User

-----------------------------------------------------------------------------

LEMMA OwnersClose ==
  EveryOpenOwned => NoLeakedHandle
  <1> SUFFICES ASSUME EveryOpenOwned PROVE NoLeakedHandle
    OBVIOUS
  <1> QED
    BY DEF EveryOpenOwned, NoLeakedHandle, Owns, Owned

LEMMA TypeFollows ==
  Typed /\ down \in BOOLEAN /\ Made => TypeOK
  <1>1. ASSUME Typed, Made
        PROVE  /\ cache \in [File \cup {User} -> Content]
               /\ disk \in [File \cup {User} -> Content]
    BY <1>1, CommitAssumption DEF Typed, Made, Versions, Content, Invalid, Torn
  <1> QED
    BY <1>1 DEF Typed, TypeOK

LEMMA NewHandle ==
  ASSUME NEW f \in File \cup {User}, NEW own \in BOOLEAN, NEW core \in BOOLEAN,
         NEW life \in {"temp", "close", "borrowed"}
  PROVE  LET h == Handle(f, own, core, life)
         IN  /\ h \in Handles /\ h # None
             /\ h.file = f /\ h.own = own /\ h.core = core /\ h.life = life
  BY NoneAssumption DEF Handle, Handles

LEMMA OwnHandle ==
  ASSUME NEW h, NEW f \in File, NEW life \in {"temp", "close"}, h = Handle(f, TRUE, TRUE, life)
  PROVE  h \in Handles /\ h # None /\ h.file = f /\ h.own /\ h.core /\ h.life = life
  <1>1. f \in File \cup {User} /\ life \in {"temp", "close", "borrowed"} /\ TRUE \in BOOLEAN
    OBVIOUS
  <1>2. \A own, core \in BOOLEAN :
          LET g == Handle(f, own, core, life)
          IN  /\ g \in Handles /\ g # None
              /\ g.file = f /\ g.own = own /\ g.core = core /\ g.life = life
    BY <1>1, NewHandle
  <1> QED
    BY <1>1, <1>2, Zenon

LEMMA InitIInv == Init => IInv
  <1> SUFFICES ASSUME Init PROVE IInv
    OBVIOUS
  <1> USE CommitAssumption, NoneAssumption DEF Init
  <1>1. Typed
    BY DEF Typed
  <1>d. down \in BOOLEAN
    OBVIOUS
  <1>a. Blank \in Versions(last)
    BY DEF Versions, Blank, Invalid, Torn
  <1>b. Made
    BY <1>a DEF Made
  <1>2. FilesSafe
    BY DEF FilesSafe, Named, CrashSafe, Blank, Invalid
  <1>3. HandlesSound /\ DownMeansNothing /\ JobSound
    BY DEF HandlesSound, DownMeansNothing, JobSound, Owned, OpenIfOwned, Apart, HoldBeside
  <1>4. SourceReadable /\ EveryOpenOwned
    BY DEF SourceReadable, SourceBody, Source, EveryOpenOwned
  <1> QED
    BY <1>1, <1>b, <1>d, <1>2, <1>3, <1>4 DEF IInv

LEMMA MutateIInv == IInv /\ Mutate => IInv'
  <1> SUFFICES ASSUME IInv, Mutate PROVE IInv'
    OBVIOUS
  <1> USE CommitAssumption, NoneAssumption DEF IInv
  <1>0. /\ Typed /\ Made /\ job = None /\ job' = None
        /\ ver' = last + 1 /\ last' = last + 1 /\ last < MaxVer
        /\ disk' = disk /\ path' = path /\ names' = names /\ io' = io /\ hold' = hold
    BY DEF Mutate, Idle
  <1>1. PICK f \in File :
          /\ f \notin names
          /\ io # None => io.file # f
          /\ hold # None => hold.file # f
          /\ work # None => f = work.file
          /\ cache' = PutBody(f, ver')
          /\ work' = Handle(f, TRUE, TRUE, "temp")
          /\ open' = open \cup {f}
    BY DEF Mutate, Unused, Referenced, HandlesSound, Typed, Apart, OpenIfOwned, Owned
  <1>a. /\ work' \in Handles /\ work' # None /\ work'.file = f
        /\ work'.own /\ work'.core /\ work'.life = "temp"
    BY <1>1, OwnHandle
  <1>2. Typed'
    <2>1. ver' \in 0 .. last' /\ last' \in 0 .. MaxVer
      BY <1>0 DEF Typed
    <2>2. open' \subseteq File /\ {io, work, hold}' \subseteq Handles \cup {None}
      BY <1>0, <1>1, <1>a DEF Typed
    <2> QED
      BY <1>0, <2>1, <2>2 DEF Typed
  <1>d. down' \in BOOLEAN /\ ~ down'
    BY DEF Mutate, Idle
  <1>3. Made'
    BY <1>0, <1>1 DEF Typed, Made, PutBody, Versions, Invalid, Torn
  <1>4. FilesSafe'
    BY <1>0, <1>1 DEF PutBody, FilesSafe, Named, CrashSafe, Typed, Made, Versions
  <1>5. HandlesSound'
    BY <1>0, <1>1, <1>a DEF HandlesSound, OpenIfOwned, Owned, Apart, HoldBeside
  <1>6. DownMeansNothing' /\ JobSound'
    BY <1>0, <1>d DEF DownMeansNothing, JobSound
  <1>8. SourceReadable'
    BY <1>0, <1>1, <1>a DEF PutBody, SourceReadable, SourceBody, Source, Readable, Made
  <1>9. EveryOpenOwned'
    BY <1>0, <1>1, <1>a DEF EveryOpenOwned, Owns, Owned
  <1> QED
    BY <1>2, <1>d, <1>3, <1>4, <1>5, <1>6, <1>8, <1>9

-----------------------------------------------------------------------------
(* Writing the destination *)

LEMMA JobStep ==
  ASSUME IInv, job # None, ~ down,
         UNCHANGED <<path, names, open, handles, ver, last, down>>,
         NEW q \in {"sync1", "body", "sync2", "valid", "sync3", "adopt", "rename"},
         Goto(q), job.pc \notin {"syncDir", "open"},
         job.op = "CommitTo" => q # "rename",
         job.op = "CommitFile" => q # "adopt",
         Made',
         \A f \in File \cup {User} :
           f # job.target => cache'[f] = cache[f] /\ disk'[f] = disk[f],
         Written(cache'[job.target], disk'[job.target], q),
         job.target \in Named => CrashSafe(cache'[job.target], disk'[job.target]),
         disk'[job.target].hdr # Invalid =>
           disk'[job.target].body = disk'[job.target].hdr
  PROVE  IInv'
  <1> USE CommitAssumption, NoneAssumption DEF IInv
  <1>1. job \in Jobs
    BY DEF Typed
  <1>2. /\ job' \in Jobs /\ job' # None /\ job'.pc = q
        /\ job'.op = job.op /\ job'.target = job.target /\ job'.dst = job.dst
        /\ job'.body = job.body /\ job'.oldWork = job.oldWork
        /\ job'.oldIO = job.oldIO
    BY <1>1 DEF Goto, Jobs
  <1>3. Typed'
    BY <1>2 DEF Typed, handles
  <1>4. down' \in BOOLEAN
    OBVIOUS
  <1>5. FilesSafe'
    BY DEF FilesSafe, Named, Typed
  <1>6. HandlesSound' /\ DownMeansNothing'
    BY DEF HandlesSound, DownMeansNothing, OpenIfOwned, Owned, Apart, HoldBeside, handles
  <1>7. Written(cache[job.target], disk[job.target], job.pc)'
    BY <1>2 DEF Written
  <1>8. ASSUME job.op = "CommitTo" PROVE CommitToSound'
    BY <1>2, <1>8 DEF JobSound, CommitToSound, OpenIfOwned, Owned, Apart, HoldBeside, Backs, handles
  <1>9. ASSUME job.op = "CommitFile" PROVE CommitFileSound'
    BY <1>2, <1>9 DEF JobSound, CommitFileSound, handles
  <1>10. JobSound'
    BY <1>2, <1>7, <1>8, <1>9 DEF JobSound
  <1>11. SourceReadable'
    <2>1. Source' = Source
      BY DEF Source, handles
    <2>2. Source # None => Source.file # job.target /\ Source.file \in File \cup {User}
      BY <1>1 DEF JobSound, CommitToSound, CommitFileSound, Source, Typed, Jobs, Handles
    <2> QED
      BY <2>1, <2>2 DEF SourceReadable, SourceBody, Readable
  <1>12. EveryOpenOwned'
    BY <1>2 DEF EveryOpenOwned, Owns, Owned, handles
  <1> QED
    BY <1>3, <1>4, <1>5, <1>6, <1>10, <1>11, <1>12

LEMMA WriteInvalidIInv == IInv /\ WriteInvalid => IInv'
  <1> SUFFICES ASSUME IInv, WriteInvalid PROVE IInv'
    OBVIOUS
  <1> USE CommitAssumption DEF IInv
  <1>1. job \in Jobs /\ job # None /\ job.pc = "header" /\ job.target \in File \cup {User}
    BY DEF WriteInvalid, At, Typed, Jobs
  <1>2. Made'
    BY <1>1 DEF WriteInvalid, Made, Typed, PutHeader, Versions, Invalid, Torn
  <1>3. Written(cache'[job.target], disk'[job.target], "sync1")
    BY <1>1 DEF WriteInvalid, PutHeader, Made, Written
  <1>4. job.target \in Named => CrashSafe(cache'[job.target], disk'[job.target])
    BY <1>1 DEF WriteInvalid, PutHeader, Made, FilesSafe, CrashSafe
  <1>5. /\ \A f \in File \cup {User} :
             f # job.target => cache'[f] = cache[f] /\ disk'[f] = disk[f]
        /\ disk'[job.target].hdr # Invalid =>
             disk'[job.target].body = disk'[job.target].hdr
    BY <1>1 DEF WriteInvalid, PutHeader, Made, FilesSafe
  <1> QED
    BY <1>1, <1>2, <1>3, <1>4, <1>5, JobStep DEF WriteInvalid, At

LEMMA WriteBodyIInv == IInv /\ WriteBody => IInv'
  <1> SUFFICES ASSUME IInv, WriteBody PROVE IInv'
    OBVIOUS
  <1> USE CommitAssumption DEF IInv
  <1>1. job \in Jobs /\ job # None /\ job.pc = "body" /\ job.target \in File \cup {User}
    BY DEF WriteBody, At, Typed, Jobs
  <1>2. Made'
    BY <1>1 DEF WriteBody, Made, Typed, PutBody, Versions, Invalid, Torn, JobSound
  <1>3. Written(cache'[job.target], disk'[job.target], "sync2")
    BY <1>1 DEF WriteBody, PutBody, Made, Written, JobSound
  <1>4. CrashSafe(cache'[job.target], disk'[job.target])
    BY <1>1 DEF WriteBody, PutBody, Made, CrashSafe, Written, JobSound
  <1>5. /\ \A f \in File \cup {User} :
             f # job.target => cache'[f] = cache[f] /\ disk'[f] = disk[f]
        /\ disk'[job.target].hdr # Invalid =>
             disk'[job.target].body = disk'[job.target].hdr
    BY <1>1 DEF WriteBody, PutBody, Made, FilesSafe
  <1> QED
    BY <1>1, <1>2, <1>3, <1>4, <1>5, JobStep DEF WriteBody, At

LEMMA WriteValidIInv == IInv /\ WriteValid => IInv'
  <1> SUFFICES ASSUME IInv, WriteValid PROVE IInv'
    OBVIOUS
  <1> USE CommitAssumption DEF IInv
  <1>1. job \in Jobs /\ job # None /\ job.pc = "valid" /\ job.target \in File \cup {User}
    BY DEF WriteValid, At, Typed, Jobs
  <1>2. Made'
    BY <1>1 DEF WriteValid, Made, Typed, PutHeader, Versions, Invalid, Torn
  <1>3. Written(cache'[job.target], disk'[job.target], "sync3")
    BY <1>1 DEF WriteValid, PutHeader, Made, Written, JobSound
  <1>4. CrashSafe(cache'[job.target], disk'[job.target])
    BY <1>1 DEF WriteValid, PutHeader, Made, CrashSafe, Written, JobSound
  <1>5. /\ \A f \in File \cup {User} :
             f # job.target => cache'[f] = cache[f] /\ disk'[f] = disk[f]
        /\ disk'[job.target].hdr # Invalid =>
             disk'[job.target].body = disk'[job.target].hdr
    BY <1>1 DEF WriteValid, PutHeader, Made, FilesSafe
  <1> QED
    BY <1>1, <1>2, <1>3, <1>4, <1>5, JobStep DEF WriteValid, At

LEMMA SyncIInv == IInv /\ Sync => IInv'
  <1> SUFFICES ASSUME IInv, Sync PROVE IInv'
    OBVIOUS
  <1> USE CommitAssumption DEF IInv
  <1>0. PICK pc \in {"sync1", "sync2", "sync3"} :
          /\ At(pc) /\ Goto(AfterSync(pc))
          /\ disk' = [disk EXCEPT ![job.target] = cache[job.target]]
          /\ UNCHANGED <<cache, path, names, open, handles, ver, last, down>>
    BY DEF Sync
  <1>1. job \in Jobs /\ job # None /\ ~ down /\ job.pc = pc
        /\ job.target \in File \cup {User}
    BY <1>0 DEF At, Typed, Jobs
  <1> DEFINE q == AfterSync(pc)
  <1>a. /\ q \in {"body", "valid", "adopt", "rename"}
        /\ pc = "sync1" => q = "body"
        /\ pc = "sync2" => q = "valid"
        /\ pc = "sync3" => q \in {"adopt", "rename"}
        /\ job.op = "CommitTo" => q # "rename"
        /\ job.op = "CommitFile" => q # "adopt"
    BY <1>1 DEF AfterSync, Jobs
  <1>b. /\ cache' = cache /\ disk'[job.target] = cache[job.target]
        /\ \A f \in File \cup {User} : f # job.target => disk'[f] = disk[f]
    BY <1>0, <1>1 DEF Made
  <1>2. Made'
    BY <1>0, <1>1 DEF Made
  <1>c. /\ cache[job.target] \in Versions(last)
        /\ Written(cache[job.target], disk[job.target], pc)
    BY <1>1 DEF Made, JobSound
  <1>3. Written(cache'[job.target], disk'[job.target], q)
    BY <1>a, <1>b, <1>c DEF Written, Versions
  <1>4. CrashSafe(cache'[job.target], disk'[job.target])
    BY <1>a, <1>b, <1>c DEF Written, CrashSafe
  <1>5. disk'[job.target].hdr # Invalid =>
             disk'[job.target].body = disk'[job.target].hdr
    BY <1>4 DEF CrashSafe
  <1> HIDE DEF q
  <1> QED
    BY <1>0, <1>1, <1>a, <1>b, <1>2, <1>3, <1>4, <1>5, JobStep DEF q

-----------------------------------------------------------------------------
(* Starting a commit *)

\* A file nothing refers to is none of the files the store knows.
LEMMA UnusedApart ==
  ASSUME Typed, NEW f \in Unused
  PROVE  /\ f \in File /\ f \notin names
         /\ \A h \in {io, work, hold} : h # None => h.file # f
  BY DEF Unused, Referenced

LEMMA DestinationSound ==
  ASSUME IInv, NEW dst \in Destinations, NEW f \in Unused
  PROVE  /\ dst \in Handles /\ dst # None /\ dst.life = "borrowed" /\ dst.file # f
         /\ dst.own => Backs(io, dst) \/ Backs(hold, dst)
         /\ ~ InPlace => dst.file = User
  <1>1. dst \in Handles /\ dst # None /\ dst.life = "borrowed"
    BY NoneAssumption DEF Destinations
  <1>2. CASE ~ dst.own /\ dst.file = User
    BY <1>1, <1>2, UnusedApart, CommitAssumption DEF IInv
  <1>3. CASE InPlace /\ ~ dst.own /\ dst.file = path
    BY <1>1, <1>3 DEF Unused, Referenced
  <1>4. CASE /\ InPlace /\ dst.own
             /\ \E h \in {io, hold} \ {None} : h.life = "close" /\ h.file = dst.file
    BY <1>1, <1>4, UnusedApart DEF IInv, Backs
  <1> QED
    BY <1>2, <1>3, <1>4 DEF Destinations

LEMMA CommitToIInv ==
  ASSUME IInv, NEW dst \in Destinations, CommitTo(dst) PROVE IInv'
  <1> USE CommitAssumption, NoneAssumption DEF IInv
  <1>0. /\ job = None /\ ~ down /\ work' = None
        /\ UNCHANGED <<disk, path, names, hold, ver, last, down>>
        /\ SourceBody = ver
    BY DEF CommitTo, Idle, SourceReadable
  <1>1. PICK f \in Unused :
          /\ cache' = [cache EXCEPT ![f] = [hdr |-> ver, body |-> ver]]
          /\ open' = open \cup {f}
          /\ io' = Handle(f, TRUE, TRUE, "temp")
          /\ job' = Job("CommitTo", dst.file, dst, work, io)
    BY <1>0 DEF CommitTo
  <1>2. /\ f \in File /\ f \notin names
        /\ io # None => io.file # f
        /\ work # None => work.file # f
        /\ hold # None => hold.file # f
    BY <1>1, UnusedApart
  <1>3. /\ io' \in Handles /\ io' # None /\ io'.file = f /\ io'.own /\ io'.core
        /\ io'.life = "temp"
    BY <1>1, <1>2, OwnHandle
  <1>4. /\ dst \in Handles /\ dst # None /\ dst.life = "borrowed" /\ dst.file # f
        /\ dst.own => Backs(io, dst) \/ Backs(hold, dst)
    BY <1>1, DestinationSound
  <1>5. /\ job' \in Jobs /\ job' # None /\ job'.op = "CommitTo" /\ job'.pc = "header"
        /\ job'.dst = dst /\ job'.target = dst.file /\ job'.body = ver
        /\ job'.oldWork = work /\ job'.oldIO = io
    BY <1>0, <1>1, <1>4 DEF Job, Jobs, Handles, Typed, Torn
  <1>6. Typed'
    BY <1>0, <1>1, <1>2, <1>3, <1>5 DEF Typed
  <1>7. down' \in BOOLEAN
    BY <1>0
  <1>8. Made' /\ FilesSafe'
    BY <1>0, <1>1, <1>2 DEF Made, FilesSafe, Named, Typed, Versions, Invalid, Torn
  <1>9. HandlesSound' /\ DownMeansNothing'
    BY <1>0, <1>1, <1>2, <1>3
       DEF HandlesSound, DownMeansNothing, OpenIfOwned, Owned, Apart, HoldBeside
  <1>10. CommitToSound'
    <2>1. /\ job'.pc \notin {"rename", "syncDir", "open"}
          /\ job'.dst # None /\ job'.dst.life = "borrowed" /\ job'.target = job'.dst.file
          /\ work' = None /\ io' # None /\ io'.life = "temp" /\ io'.file # job'.target
          /\ io'.file \notin names'
      BY <1>0, <1>2, <1>3, <1>4, <1>5
    <2>2. Apart(io', job'.oldIO) /\ Apart(io', job'.oldWork) /\ Apart(io', hold')
      BY <1>0, <1>2, <1>3, <1>5 DEF Apart
    <2>3. OpenIfOwned(job.oldIO)' /\ OpenIfOwned(job.oldWork)'
      BY <1>1, <1>5 DEF HandlesSound, OpenIfOwned, Owned
    <2>4. /\ job'.oldWork # None => job'.oldWork.life = "temp"
          /\ Apart(job'.oldWork, job'.oldIO) /\ Apart(job'.oldWork, hold')
          /\ HoldBeside(job.oldIO)'
      BY <1>0, <1>5 DEF HandlesSound, Apart, HoldBeside
    <2>5. job'.dst.own => Backs(job'.oldIO, job'.dst) \/ Backs(hold', job'.dst)
      BY <1>0, <1>4, <1>5 DEF Backs
    <2> QED
      BY <2>1, <2>2, <2>3, <2>4, <2>5 DEF CommitToSound, Apart, Backs
  <1>11. JobSound'
    BY <1>0, <1>5, <1>10 DEF JobSound, Written
  <1>12. SourceReadable'
    BY <1>0, <1>1, <1>2, <1>3 DEF SourceReadable, SourceBody, Source, Readable, Made
  <1>13. EveryOpenOwned'
    <2>1. ASSUME NEW g \in open
          PROVE  Owns(job'.oldIO, g) \/ Owns(job'.oldWork, g) \/ Owns(hold', g)
      BY <1>0, <1>5 DEF EveryOpenOwned
    <2>2. Owns(io', f)
      BY <1>3 DEF Owns, Owned
    <2>3. open' = open \cup {f} /\ job' # None
      BY <1>1, <1>5
    <2> QED
      BY <2>1, <2>2, <2>3 DEF EveryOpenOwned, Owns, Owned
  <1> QED
    BY <1>6, <1>7, <1>8, <1>9, <1>11, <1>12, <1>13

LEMMA CommitFileIInv == IInv /\ CommitFile => IInv'
  <1> SUFFICES ASSUME IInv, CommitFile PROVE IInv'
    OBVIOUS
  <1> USE CommitAssumption, NoneAssumption DEF IInv
  <1>0. /\ job = None /\ ~ down /\ SourceBody = ver
        /\ UNCHANGED <<cache, disk, path, names, io, work, hold, ver, last, down>>
    BY DEF CommitFile, Idle, SourceReadable, files, handles
  <1>1. PICK f \in Unused :
          open' = open \cup {f} /\ job' = Job("CommitFile", f, None, None, None)
    BY DEF CommitFile
  <1>2. /\ f \in File /\ f \notin names
        /\ \A h \in {io, work, hold} : h # None => h.file # f
    BY <1>1, UnusedApart
  <1>5. /\ job' \in Jobs /\ job' # None /\ job'.op = "CommitFile" /\ job'.pc = "header"
        /\ job'.dst = None /\ job'.target = f /\ job'.body = ver
        /\ job'.oldWork = None /\ job'.oldIO = None
    BY <1>0, <1>1, <1>2 DEF Job, Jobs, Typed, Torn
  <1>6. Typed'
    BY <1>0, <1>1, <1>2, <1>5 DEF Typed
  <1>7. down' \in BOOLEAN
    BY <1>0
  <1>8. Made' /\ FilesSafe'
    BY <1>0 DEF Made, FilesSafe, Named
  <1>9. HandlesSound' /\ DownMeansNothing'
    BY <1>0, <1>1
       DEF HandlesSound, DownMeansNothing, OpenIfOwned, Owned, Apart, HoldBeside
  <1>11. JobSound'
    BY <1>0, <1>2, <1>5 DEF JobSound, Written, CommitFileSound
  <1>12. SourceReadable'
    BY <1>0, <1>1, <1>2 DEF SourceReadable, SourceBody, Source, Readable
  <1>13. EveryOpenOwned'
    BY <1>0, <1>1, <1>5 DEF EveryOpenOwned, Owns, Owned
  <1> QED
    BY <1>6, <1>7, <1>8, <1>9, <1>11, <1>12, <1>13

-----------------------------------------------------------------------------
(* Ending a commit *)

\* Collecting what nothing refers to leaves every file that is referred to.
LEMMA CollectFrame ==
  ASSUME Typed, Made, NEW c \in [File \cup {User} -> Versions(last)],
         Collect(c), last' = last
  PROVE  /\ Made'
         /\ \A f \in File \cup {User} :
              /\ f \in Referenced' \cup {User} => cache'[f] = c[f] /\ disk'[f] = disk[f]
              /\ disk'[f] \in {disk[f], Blank}
  <1>1. Blank \in Versions(last)
    BY DEF Typed, Versions, Blank, Invalid, Torn
  <1> QED
    BY <1>1 DEF Collect, Remaining, Made

LEMMA CollectIInv ==
  ASSUME IInv, NEW c \in [File \cup {User} -> Versions(last)],
         Collect(c), last' = last, path' = path,
         names' \subseteq names, path \in names',
         \A f \in Named : CrashSafe(c[f], disk[f])
  PROVE  /\ Made' /\ FilesSafe'
         /\ \A f \in File : 
              f \in names' \/ (\E h \in {io', work', hold'} : h # None /\ h.file = f) =>
                cache'[f] = c[f] /\ disk'[f] = disk[f]
         /\ cache'[User] = c[User]
  <1> USE DEF IInv
  <1>1. Made'
    BY CollectFrame
  <1>2. \A f \in File \cup {User} :
              /\ f \in Referenced' \cup {User} => cache'[f] = c[f] /\ disk'[f] = disk[f]
              /\ disk'[f] \in {disk[f], Blank}
    BY CollectFrame
  <1>3. /\ names' \subseteq Referenced'
        /\ \A h \in {io', work', hold'} : h # None => h.file \in Referenced'
    BY DEF Referenced
  <1>4. FilesSafe'
    BY <1>2, <1>3 DEF FilesSafe, Named, Typed, Blank
  <1> QED
    BY <1>1, <1>2, <1>3, <1>4

LEMMA PartWrittenSafe ==
  ASSUME IInv, job # None, NEW c \in {cache} \cup PartWritten
  PROVE  /\ c \in [File \cup {User} -> Versions(last)]
         /\ \A f \in File \cup {User} : f # job.target => c[f] = cache[f]
         /\ \A f \in Named : CrashSafe(c[f], disk[f])
  <1> USE CommitAssumption DEF IInv
  <1>1. job.target \in File \cup {User} /\ Named \subseteq File \cup {User}
    BY DEF Typed, Jobs, Named
  <1>2. Written(cache[job.target], disk[job.target], job.pc)
    BY DEF JobSound
  <1>3. CASE c = cache
    BY <1>3 DEF Made, FilesSafe
  <1>4. CASE job.pc = "header" /\ c = PutHeader(job.target, Invalid)
    <2>1. c \in [File \cup {User} -> Versions(last)]
      BY <1>1, <1>4 DEF PutHeader, Made, Versions, Typed, Invalid, Torn
    <2> QED
      BY <1>1, <1>4, <2>1 DEF PutHeader, FilesSafe, Made, CrashSafe
  <1>5. CASE job.pc = "body" /\ c = PutBody(job.target, Torn)
    <2>1. c \in [File \cup {User} -> Versions(last)]
      BY <1>1, <1>5 DEF PutBody, Made, Versions, Typed, Invalid, Torn
    <2> QED
      BY <1>1, <1>2, <1>5, <2>1 DEF PutBody, FilesSafe, Made, CrashSafe, Written
  <1>6. CASE job.pc = "valid" /\ c = PutHeader(job.target, ver)
    <2>1. c \in [File \cup {User} -> Versions(last)]
      BY <1>1, <1>6 DEF PutHeader, Made, Versions, Typed, Invalid, Torn
    <2> QED
      BY <1>1, <1>2, <1>6, <2>1 DEF PutHeader, FilesSafe, Made, CrashSafe, Written
  <1>7. c \in PartWritten =>
          \/ job.pc = "header" /\ c = PutHeader(job.target, Invalid)
          \/ job.pc = "body" /\ c = PutBody(job.target, Torn)
          \/ job.pc = "valid" /\ c = PutHeader(job.target, ver)
    BY DEF PartWritten
  <1> QED
    BY <1>3, <1>4, <1>5, <1>6, <1>7

\* Closing a handle closes what it owns.
LEMMA ClosesOwned ==
  ASSUME NEW h, OpenIfOwned(h)
  PROVE  Closes(h) = {f \in open : Owns(h, f)}
  BY DEF Closes, Owns, Owned, OpenIfOwned

LEMMA PublishFailsIInv == IInv /\ PublishFails => IInv'
  <1> SUFFICES ASSUME IInv, PublishFails PROVE IInv'
    OBVIOUS
  <1> USE CommitAssumption, NoneAssumption DEF IInv
  <1>0. /\ job \in Jobs /\ job # None /\ job.op = "CommitTo" /\ CommitToSound
        /\ UNCHANGED <<path, names, io, work, ver, last>>
        /\ job' = None /\ KeepSource(Closes(job.oldWork))
        /\ job.oldIO \in Handles \cup {None}
    BY DEF PublishFails, JobSound, Typed, Jobs
  <1>1. PICK c \in {cache} \cup PartWritten : Collect(c)
    BY DEF PublishFails
  <1>2. /\ c \in [File \cup {User} -> Versions(last)]
        /\ \A f \in File \cup {User} : f # job.target => c[f] = cache[f]
        /\ \A f \in Named : CrashSafe(c[f], disk[f])
    BY <1>0, PartWrittenSafe
  <1>3. /\ Made' /\ FilesSafe'
        /\ \A f \in File : io.file = f => cache'[f] = c[f]
    BY <1>0, <1>1, <1>2, CollectIInv DEF CommitToSound, FilesSafe
  <1>4. down' \in BOOLEAN /\ ~ down'
    BY DEF PublishFails
  <1>5. /\ hold' \in {hold, job.oldIO} /\ open' \subseteq open
        /\ hold' = hold => (hold # None => hold.file \in open')
        /\ hold' # hold => /\ hold = None /\ job.oldIO # None /\ job.oldIO.life = "close"
                           /\ job.oldIO.file \in open'
        /\ \A f \in open' : ~ Owns(job.oldWork, f)
        /\ \A f \in open' : Owns(job.oldIO, f) => hold' = job.oldIO
        /\ io.file \in open' /\ io.own /\ io.core
    <2>1. Closes(job.oldWork) = {f \in open : Owns(job.oldWork, f)}
      BY <1>0, ClosesOwned DEF CommitToSound
    <2>2. Closes(job.oldIO) = {f \in open : Owns(job.oldIO, f)}
      BY <1>0, ClosesOwned DEF CommitToSound
    <2>3. io.own /\ io.core /\ io.file \in open
      BY <1>0 DEF HandlesSound, OpenIfOwned, Owned, CommitToSound
    <2>4. CASE Retains(job.oldIO, job.dst)
      <3>1. /\ hold = None /\ hold' = job.oldIO /\ open' = open \ Closes(job.oldWork)
            /\ job.oldIO # None /\ job.oldIO.life = "close"
        BY <1>0, <2>4 DEF KeepSource, Retains
      <3> QED
        BY <1>0, <2>1, <2>3, <3>1 DEF CommitToSound, OpenIfOwned, Owned, Owns, Apart
    <2>5. CASE ~ Retains(job.oldIO, job.dst)
      <3>1. hold' = hold /\ open' = open \ (Closes(job.oldWork) \cup Closes(job.oldIO))
        BY <1>0, <2>5 DEF KeepSource
      <3>2. hold # None => hold.file \in open'
        BY <1>0, <2>1, <2>2, <3>1
           DEF CommitToSound, HandlesSound, OpenIfOwned, Owned, Owns, Apart, HoldBeside, Handles
      <3> QED
        BY <1>0, <2>1, <2>2, <2>3, <3>1, <3>2 DEF CommitToSound, Owned, Owns, Apart
    <2> QED
      BY <2>4, <2>5
  <1>6. Typed'
    BY <1>0, <1>5 DEF Typed
  <1>7. HandlesSound' /\ DownMeansNothing' /\ JobSound'
    BY <1>0, <1>4, <1>5 DEF HandlesSound, DownMeansNothing, JobSound, OpenIfOwned, Owned,
        Apart, HoldBeside, CommitToSound
  <1>8. SourceReadable'
    <2>1. io \in Handles /\ io.file \in File /\ io.file # job.target
      BY <1>0, <1>5 DEF CommitToSound, Typed
    <2>2. cache[io.file].body = ver /\ cache'[io.file] = cache[io.file]
      BY <1>0, <1>2, <1>3, <1>5, <2>1
         DEF CommitToSound, SourceReadable, SourceBody, Source, Readable, PublishFails
    <2> QED
      BY <1>0, <1>5, <2>1, <2>2 DEF SourceReadable, SourceBody, Source, Readable, CommitToSound
  <1>9. EveryOpenOwned'
    BY <1>0, <1>5 DEF EveryOpenOwned, Owns, Owned, CommitToSound
  <1> QED
    BY <1>3, <1>4, <1>6, <1>7, <1>8, <1>9

LEMMA adoptPublishedIInv == IInv /\ adoptPublished => IInv'
  <1> SUFFICES ASSUME IInv, adoptPublished PROVE IInv'
    OBVIOUS
  <1> USE CommitAssumption, NoneAssumption DEF IInv
  <1> DEFINE kept     == Retains(job.oldIO, job.dst)
             newHold  == IF kept THEN job.oldIO ELSE hold
             released == newHold # None /\ job.dst.core /\ ~ sameIO(job.dst, newHold)
  <1>0. /\ job \in Jobs /\ job # None /\ job.pc = "adopt" /\ job.op = "CommitTo"
        /\ CommitToSound /\ UNCHANGED <<path, names, work, ver, last>>
        /\ job' = None /\ Collect(cache) /\ io' = job.dst
        /\ job.oldIO \in Handles \cup {None} /\ job.dst \in Handles
        /\ job.target \in File \cup {User}
    BY DEF adoptPublished, At, JobSound, CommitFileSound, CommitToSound, Typed, Jobs
  <1>1. /\ hold' = IF released THEN None ELSE newHold
        /\ open' = open \ (Closes(io) \cup Closes(job.oldWork)
                             \cup (IF kept THEN {} ELSE Closes(job.oldIO))
                             \cup (IF released THEN Closes(newHold) ELSE {}))
    BY DEF adoptPublished
  <1>2. \A f \in Named : CrashSafe(cache[f], disk[f])
    BY DEF FilesSafe
  <1>3. /\ Made' /\ FilesSafe'
        /\ \A f \in File : f = io'.file /\ io' # None => cache'[f] = cache[f]
        /\ cache'[User] = cache[User]
    BY <1>0, <1>2, CollectIInv DEF Made, FilesSafe
  <1>4. down' \in BOOLEAN /\ ~ down'
    BY DEF adoptPublished, At
  <1>5. /\ Closes(io) = {f \in open : Owns(io, f)}
        /\ Closes(job.oldWork) = {f \in open : Owns(job.oldWork, f)}
        /\ Closes(job.oldIO) = {f \in open : Owns(job.oldIO, f)}
        /\ Closes(hold) = {f \in open : Owns(hold, f)}
    BY <1>0, ClosesOwned DEF CommitToSound, HandlesSound
  <1>6. /\ newHold # None =>
             /\ newHold \in Handles /\ newHold.life = "close" /\ newHold.own
             /\ newHold.core /\ newHold.file \in open
             /\ newHold.file # io.file /\ ~ Owns(job.oldWork, newHold.file)
             /\ ~ kept => ~ Owns(job.oldIO, newHold.file)
        /\ kept => hold = None
        /\ job.dst.own => newHold # None /\ newHold.file = job.dst.file
    <2>1. CASE kept
      <3>1. /\ newHold = job.oldIO /\ job.oldIO # None /\ job.oldIO.life = "close"
            /\ hold = None
        BY <2>1 DEF Retains
      <3> QED
        BY <1>0, <2>1, <3>1 DEF CommitToSound, OpenIfOwned, Owned, Owns, Apart, Backs
    <2>2. CASE ~ kept
      <3>1. newHold = hold
        BY <2>2
      <3>2. hold # None =>
              /\ hold \in Handles /\ hold.life = "close" /\ hold.own /\ hold.core
              /\ hold.file \in open /\ hold.file # io.file
              /\ ~ Owns(job.oldWork, hold.file) /\ ~ Owns(job.oldIO, hold.file)
        BY <1>0 DEF CommitToSound, HandlesSound, OpenIfOwned, Owned, Owns, Apart,
                    HoldBeside, Typed, Handles
      <3>3. job.dst.own => hold # None /\ hold.file = job.dst.file
        <4>1. SUFFICES ASSUME job.dst.own, Backs(job.oldIO, job.dst) PROVE FALSE
          BY <1>0 DEF CommitToSound, Backs
        <4>2. /\ job.oldIO # None /\ job.oldIO.life = "close" /\ job.oldIO.core
              /\ job.oldIO.own /\ job.oldIO.file = job.dst.file /\ hold = None
          BY <1>0, <4>1 DEF Backs, CommitToSound, HoldBeside, OpenIfOwned, Owned
        <4>3. job.oldIO.own = job.dst.own
          BY <1>0, <4>1, <4>2 DEF Handles
        <4> QED
          BY <2>2, <4>1, <4>2, <4>3 DEF Retains, sameIO
      <3> QED
        BY <2>2, <3>1, <3>2, <3>3
    <2> QED
      BY <2>1, <2>2
  <1>7. job.dst.own => ~ released
    <2>1. SUFFICES ASSUME job.dst.own, released PROVE FALSE
      OBVIOUS
    <2>2. newHold.own = job.dst.own /\ newHold.core /\ newHold.file = job.dst.file
      BY <1>0, <1>6, <2>1 DEF Handles
    <2> QED
      BY <2>1, <2>2 DEF sameIO
  <1> HIDE DEF kept
  <1>8. /\ open' \subseteq open
        /\ \A f \in open' : /\ ~ Owns(io, f) /\ ~ Owns(job.oldWork, f)
                            /\ Owns(job.oldIO, f) => kept
        /\ hold' # None => hold' = newHold /\ hold'.file \in open'
        /\ \A f \in open' : newHold # None /\ newHold.file = f => hold' = newHold
        /\ job.dst.own => job.dst.file \in open'
    <2>1. newHold # None => Closes(newHold) = {f \in open : f = newHold.file}
      BY <1>6 DEF Closes
    <2>2. CASE released
      BY <1>1, <1>5, <1>6, <1>7, <2>1, <2>2
    <2>3. CASE ~ released
      BY <1>0, <1>1, <1>5, <1>6, <1>7, <2>3 DEF Owns, CommitToSound
    <2> QED
      BY <2>2, <2>3
  <1> HIDE DEF newHold, released
  <1>9. Typed'
    BY <1>0, <1>6, <1>8 DEF Typed
  <1>10. HandlesSound' /\ DownMeansNothing' /\ JobSound'
    BY <1>0, <1>4, <1>6, <1>8 DEF HandlesSound, DownMeansNothing, JobSound, OpenIfOwned,
        Owned, Apart, HoldBeside, CommitToSound
  <1>11. SourceReadable'
    <2>1. cache[job.target].body = ver /\ job.target = job.dst.file
      BY <1>0 DEF JobSound, Written, CommitToSound
    <2>2. cache'[job.dst.file] = cache[job.dst.file]
      BY <1>0, <1>3, <2>1
    <2>3. Source' = io' /\ io' # None /\ Readable(io)'
      BY <1>0, <1>8 DEF Source, Readable, CommitToSound
    <2> QED
      BY <1>0, <2>1, <2>2, <2>3 DEF SourceReadable, SourceBody, CommitToSound
  <1>12. EveryOpenOwned'
    <2>1. ASSUME NEW f \in open' PROVE Owns(hold, f)'
      <3>1. Owns(hold, f) \/ Owns(job.oldIO, f)
        BY <1>0, <1>8 DEF EveryOpenOwned, Owns, Owned, CommitToSound
      <3>2. newHold # None /\ newHold.file = f
        BY <1>8, <3>1 DEF newHold, Owns, Owned, kept, Retains
      <3> QED
        BY <1>6, <1>8, <3>2 DEF Owns, Owned
    <2> QED
      BY <2>1 DEF EveryOpenOwned
  <1> QED
    BY <1>3, <1>4, <1>9, <1>10, <1>11, <1>12

LEMMA CommitFileFailsIInv == IInv /\ CommitFileFails => IInv'
  <1> SUFFICES ASSUME IInv, CommitFileFails PROVE IInv'
    OBVIOUS
  <1> USE CommitAssumption, NoneAssumption DEF IInv
  <1>0. /\ job \in Jobs /\ job # None /\ job.op = "CommitFile" /\ CommitFileSound
        /\ UNCHANGED <<path, names, io, work, hold, ver, last>>
        /\ job' = None /\ open' = open \ {job.target} /\ Collect(cache)
    BY DEF CommitFileFails, JobSound, Typed, handles
  <1>1. \A f \in Named : CrashSafe(cache[f], disk[f])
    BY DEF FilesSafe
  <1>2. /\ Made' /\ FilesSafe'
        /\ \A f \in File :
             (\E h \in {io, work, hold} : h # None /\ h.file = f) => cache'[f] = cache[f]
        /\ cache'[User] = cache[User]
    BY <1>0, <1>1, CollectIInv DEF Made, FilesSafe
  <1>3. down' \in BOOLEAN /\ ~ down' /\ ~ down
    BY DEF CommitFileFails
  <1>4. Typed'
    BY <1>0 DEF Typed
  <1>5. HandlesSound' /\ DownMeansNothing' /\ JobSound'
    BY <1>0, <1>3 DEF HandlesSound, DownMeansNothing, JobSound, OpenIfOwned, Owned,
        Apart, HoldBeside, CommitFileSound
  <1>6. SourceReadable'
    <2>1. Source' = Source /\ Source \in {None, io, work}
      BY <1>0 DEF Source
    <2>2. Source # None => /\ Source.file \in File \cup {User}
                           /\ Source.file # job.target
                           /\ cache'[Source.file] = cache[Source.file]
      BY <1>0, <1>2, <2>1 DEF CommitFileSound, Typed, Handles
    <2> QED
      BY <1>0, <1>3, <2>1, <2>2 DEF SourceReadable, SourceBody, Readable
  <1>7. EveryOpenOwned'
    BY <1>0 DEF EveryOpenOwned, Owns, Owned, CommitFileSound
  <1> QED
    BY <1>2, <1>3, <1>4, <1>5, <1>6, <1>7

LEMMA RenameIInv == IInv /\ Rename => IInv'
  <1> SUFFICES ASSUME IInv, Rename PROVE IInv'
    OBVIOUS
  <1> USE CommitAssumption, NoneAssumption DEF IInv
  <1>0. /\ job \in Jobs /\ job # None /\ job.pc = "rename" /\ job.op = "CommitFile"
        /\ CommitFileSound /\ job.target \in File
        /\ UNCHANGED <<cache, disk, io, work, hold, ver, last>>
        /\ path' = job.target /\ names' = names \cup {job.target}
        /\ open' = open \ {job.target} /\ Goto("syncDir")
    BY DEF Rename, At, JobSound, CommitToSound, CommitFileSound, Typed, Jobs, handles
  <1>1. /\ job' \in Jobs /\ job' # None /\ job'.pc = "syncDir"
        /\ job'.op = job.op /\ job'.target = job.target /\ job'.dst = job.dst
        /\ job'.body = job.body /\ job'.oldWork = job.oldWork
        /\ job'.oldIO = job.oldIO
    BY <1>0 DEF Goto, Jobs
  <1>2. Typed' /\ Made'
    BY <1>0, <1>1 DEF Typed, Made
  <1>3. down' \in BOOLEAN /\ ~ down' /\ ~ down
    BY DEF Rename, At
  <1>4. cache[job.target] = [hdr |-> ver, body |-> ver] /\ disk[job.target] = cache[job.target]
    BY <1>0 DEF JobSound, Written
  <1>5. FilesSafe'
    BY <1>0, <1>4 DEF FilesSafe, Named, CrashSafe
  <1>6. HandlesSound' /\ DownMeansNothing'
    BY <1>0, <1>3 DEF HandlesSound, DownMeansNothing, OpenIfOwned, Owned, Apart, HoldBeside,
        CommitFileSound
  <1>7. JobSound'
    BY <1>0, <1>1, <1>4 DEF JobSound, Written, CommitFileSound
  <1>8. SourceReadable'
    BY <1>0, <1>3 DEF SourceReadable, SourceBody, Source, Readable, CommitFileSound
  <1>9. EveryOpenOwned'
    BY <1>0, <1>1 DEF EveryOpenOwned, Owns, Owned, CommitFileSound
  <1> QED
    BY <1>2, <1>3, <1>5, <1>6, <1>7, <1>8, <1>9

LEMMA syncDirIInv == IInv /\ syncDir => IInv'
  <1> SUFFICES ASSUME IInv, syncDir PROVE IInv'
    OBVIOUS
  <1> USE CommitAssumption, NoneAssumption DEF IInv
  <1>0. /\ job \in Jobs /\ job # None /\ job.pc = "syncDir" /\ job.op = "CommitFile"
        /\ CommitFileSound /\ job.target \in File /\ path = job.target
        /\ UNCHANGED <<path, open, io, work, hold, ver, last>>
        /\ names' = {path} /\ Collect(cache) /\ Goto("open")
    BY DEF syncDir, At, JobSound, CommitToSound, CommitFileSound, Typed, Jobs, handles
  <1>1. /\ job' \in Jobs /\ job' # None /\ job'.pc = "open"
        /\ job'.op = job.op /\ job'.target = job.target /\ job'.dst = job.dst
        /\ job'.body = job.body /\ job'.oldWork = job.oldWork
        /\ job'.oldIO = job.oldIO
    BY <1>0 DEF Goto, Jobs
  <1>2. \A f \in Named : CrashSafe(cache[f], disk[f])
    BY DEF FilesSafe
  <1>3. /\ Made' /\ FilesSafe'
        /\ \A f \in File :
             f \in names' \/ (\E h \in {io, work, hold} : h # None /\ h.file = f) =>
               cache'[f] = cache[f] /\ disk'[f] = disk[f]
        /\ cache'[User] = cache[User]
    BY <1>0, <1>2, CollectIInv DEF Made, FilesSafe
  <1>4. down' \in BOOLEAN /\ ~ down' /\ ~ down
    BY DEF syncDir, At
  <1>5. Typed'
    BY <1>0, <1>1 DEF Typed
  <1>6. HandlesSound' /\ DownMeansNothing'
    BY <1>0, <1>4 DEF HandlesSound, DownMeansNothing, OpenIfOwned, Owned, Apart, HoldBeside,
        FilesSafe
  <1>7. JobSound'
    BY <1>0, <1>1, <1>3 DEF JobSound, Written, CommitFileSound
  <1>8. SourceReadable'
    <2>1. Source' = Source /\ Source \in {None, io, work}
      BY <1>0 DEF Source
    <2>2. Source # None => /\ Source.file \in File \cup {User}
                           /\ cache'[Source.file] = cache[Source.file]
      BY <1>0, <1>3, <2>1 DEF Typed, Handles
    <2> QED
      BY <1>0, <1>4, <2>1, <2>2 DEF SourceReadable, SourceBody, Readable
  <1>9. EveryOpenOwned'
    BY <1>0, <1>1 DEF EveryOpenOwned, Owns, Owned
  <1> QED
    BY <1>3, <1>4, <1>5, <1>6, <1>7, <1>8, <1>9

LEMMA adoptIInv == IInv /\ adopt => IInv'
  <1> SUFFICES ASSUME IInv, adopt PROVE IInv'
    OBVIOUS
  <1> USE CommitAssumption, NoneAssumption DEF IInv
  <1>0. /\ job \in Jobs /\ job # None /\ job.pc = "open" /\ job.op = "CommitFile"
        /\ CommitFileSound /\ job.target \in File
        /\ UNCHANGED <<path, names, ver, last>>
        /\ work' = None /\ hold' = None /\ job' = None /\ Collect(cache)
        /\ io' = Handle(job.target, TRUE, TRUE, "close")
        /\ open' = (open \ (Closes(work) \cup Closes(io) \cup Closes(hold)))
                     \cup {job.target}
    BY DEF adopt, At, JobSound, CommitToSound, CommitFileSound, Typed, Jobs
  <1>1. /\ io' \in Handles /\ io' # None /\ io'.file = job.target /\ io'.own /\ io'.core
        /\ io'.life = "close"
    <2>1. PICK f \in File : f = job.target /\ io' = Handle(f, TRUE, TRUE, "close")
      BY <1>0
    <2> QED
      BY <2>1, OwnHandle
  <1>2. \A f \in Named : CrashSafe(cache[f], disk[f])
    BY DEF FilesSafe
  <1>3. /\ Made' /\ FilesSafe'
        /\ \A f \in File : io' # None /\ f = io'.file => cache'[f] = cache[f]
    BY <1>0, <1>2, CollectIInv DEF Made, FilesSafe
  <1>4. down' \in BOOLEAN /\ ~ down'
    BY DEF adopt, At
  <1>5. /\ Closes(io) = {f \in open : Owns(io, f)}
        /\ Closes(work) = {f \in open : Owns(work, f)}
        /\ Closes(hold) = {f \in open : Owns(hold, f)}
    BY ClosesOwned DEF HandlesSound
  <1>6. Typed'
    BY <1>0, <1>1 DEF Typed
  <1>7. HandlesSound' /\ DownMeansNothing' /\ JobSound'
    BY <1>0, <1>1, <1>4 DEF HandlesSound, DownMeansNothing, JobSound, OpenIfOwned, Owned,
        Apart, HoldBeside
  <1>8. SourceReadable'
    <2>1. cache[job.target].body = ver
      BY <1>0 DEF JobSound, Written
    <2> QED
      BY <1>0, <1>1, <1>3, <2>1 DEF SourceReadable, SourceBody, Source, Readable
  <1>9. EveryOpenOwned'
    BY <1>0, <1>1, <1>5 DEF EveryOpenOwned, Owns, Owned, CommitFileSound
  <1> QED
    BY <1>3, <1>4, <1>6, <1>7, <1>8, <1>9

LEMMA failAdoptIInv == IInv /\ failAdopt => IInv'
  <1> SUFFICES ASSUME IInv, failAdopt PROVE IInv'
    OBVIOUS
  <1> USE CommitAssumption, NoneAssumption DEF IInv
  <1>0. /\ job \in Jobs /\ job # None /\ job.pc \in {"syncDir", "open"}
        /\ job.op = "CommitFile" /\ CommitFileSound /\ job' = None
        /\ UNCHANGED <<cache, disk, path, names, open, io, work, hold, ver, last>>
    BY DEF failAdopt, At, JobSound, CommitToSound, CommitFileSound, Typed, Jobs, files, handles
  <1>1. down' \in BOOLEAN /\ ~ down' /\ ~ down
    BY DEF failAdopt, At
  <1>2. Typed' /\ Made' /\ FilesSafe'
    BY <1>0 DEF Typed, Made, FilesSafe, Named
  <1>3. HandlesSound' /\ DownMeansNothing' /\ JobSound'
    BY <1>0, <1>1 DEF HandlesSound, DownMeansNothing, JobSound, OpenIfOwned, Owned, Apart, HoldBeside
  <1>4. SourceReadable'
    BY <1>0, <1>1 DEF SourceReadable, SourceBody, Source, Readable
  <1>5. EveryOpenOwned'
    BY <1>0 DEF EveryOpenOwned, Owns, Owned, CommitFileSound
  <1> QED
    BY <1>1, <1>2, <1>3, <1>4, <1>5

-----------------------------------------------------------------------------
(* Ending and starting the program *)

LEMMA StopIInv ==
  ASSUME IInv, Stop, last' = last, path' \in names', names' \subseteq names,
         Made', FilesSafe'
  PROVE  IInv'
  <1>1. Typed'
    BY DEF IInv, Typed, Stop
  <1>2. down' \in BOOLEAN
    BY DEF Stop
  <1>3. HandlesSound' /\ DownMeansNothing' /\ JobSound' /\ EveryOpenOwned'
    BY DEF Stop, HandlesSound, DownMeansNothing, JobSound, EveryOpenOwned, OpenIfOwned,
           Owned, Apart, HoldBeside
  <1>4. SourceReadable'
    BY DEF Stop, SourceReadable
  <1> QED
    BY <1>1, <1>2, <1>3, <1>4 DEF IInv

LEMMA CrashIInv == IInv /\ Crash => IInv'
  <1> SUFFICES ASSUME IInv, Crash PROVE IInv'
    OBVIOUS
  <1> USE CommitAssumption DEF IInv
  <1>0. PICK p \in names :
          /\ path' = p /\ names' = {p}
          /\ \E user \in Outcomes(User), c \in Outcomes(p) :
               /\ cache' = [f \in File \cup {User} |->
                              IF f = User THEN user ELSE IF f = p THEN c ELSE Blank]
               /\ disk' = cache'
    BY DEF Crash
  <1>1. PICK user \in Outcomes(User), c \in Outcomes(p) :
          /\ path' = p /\ names' = {p}
          /\ cache' = [f \in File \cup {User} |->
                         IF f = User THEN user ELSE IF f = p THEN c ELSE Blank]
          /\ disk' = cache'
    BY <1>0
  <1>2. Stop /\ last' = last
    BY DEF Crash
  <1>3. ASSUME NEW f \in Named, NEW o \in Outcomes(f)
        PROVE  o \in Versions(last) /\ (o.hdr # Invalid => o.body = o.hdr)
    <2>1. /\ f # None /\ f \in File \cup {User} /\ CrashSafe(cache[f], disk[f])
          /\ cache[f] \in Versions(last) /\ disk[f] \in Versions(last) /\ last \in Nat
      BY DEF Named, Typed, FilesSafe, Made
    <2>2. /\ o = [hdr |-> o.hdr, body |-> o.body]
          /\ o.hdr \in {disk[f].hdr, cache[f].hdr}
          /\ \/ o.body \in {disk[f].body, cache[f].body}
             \/ o.body = Torn /\ disk[f].body # cache[f].body
      BY <2>1 DEF Outcomes
    <2> QED
      BY <2>1, <2>2 DEF CrashSafe, Versions, Torn, Invalid
  <1>4. Blank \in Versions(last) /\ Blank.hdr = Invalid
    BY DEF Typed, Versions, Blank, Invalid, Torn
  <1>5. user \in Versions(last) /\ (user.hdr # Invalid => user.body = user.hdr)
    BY <1>1, <1>3 DEF Named
  <1>6. p # None => c \in Versions(last) /\ (c.hdr # Invalid => c.body = c.hdr)
    BY <1>1, <1>3 DEF Named
  <1>7. \A f \in File \cup {User} : /\ cache'[f] \in Versions(last)
                                    /\ cache'[f].hdr # Invalid => cache'[f].body = cache'[f].hdr
    BY <1>1, <1>4, <1>5, <1>6
  <1>8. Made'
    BY <1>1, <1>2, <1>7 DEF Made
  <1>9. FilesSafe'
    <2>1. Named' \subseteq File \cup {User}
      BY <1>1 DEF Named, Typed
    <2>2. \A f \in File \cup {User} : CrashSafe(cache'[f], disk'[f])
      BY <1>1, <1>7 DEF CrashSafe
    <2>3. path' \in names'
      BY <1>1
    <2> QED BY <1>1, <1>7, <2>1, <2>2, <2>3 DEF FilesSafe
  <1> QED
    BY <1>1, <1>2, <1>8, <1>9, StopIInv

LEMMA CloseIInv == IInv /\ Close => IInv'
  <1> SUFFICES ASSUME IInv, Close PROVE IInv'
    OBVIOUS
  <1>1. Made' /\ FilesSafe'
    <2>1. \A f \in Named : CrashSafe(cache[f], disk[f])
      BY DEF IInv, FilesSafe
    <2> QED
      BY <2>1, CollectIInv DEF Close, IInv, Made, FilesSafe
  <1> QED
    BY <1>1, StopIInv DEF Close, IInv, FilesSafe

LEMMA OpenNDBFileIInv == IInv /\ OpenNDBFile => IInv'
  <1> SUFFICES ASSUME IInv, OpenNDBFile PROVE IInv'
    OBVIOUS
  <1> USE CommitAssumption, NoneAssumption DEF IInv
  <1>0. /\ job = None /\ work = None /\ hold = None
        /\ path \in File /\ open' = {path} /\ ver' = cache[path].hdr
        /\ cache[path].hdr # Invalid /\ io' = Handle(path, TRUE, TRUE, "close")
        /\ UNCHANGED <<cache, disk, path, names, work, hold, last, job>>
    BY DEF OpenNDBFile, DownMeansNothing, Opens, Typed, files
  <1>1. down' \in BOOLEAN /\ ~ down'
    BY DEF OpenNDBFile
  <1>2. /\ io' \in Handles /\ io' # None /\ io'.file = path /\ io'.own /\ io'.core
        /\ io'.life = "close"
    <2>1. PICK f \in File : f = path /\ io' = Handle(f, TRUE, TRUE, "close")
      BY <1>0
    <2> QED
      BY <2>1, OwnHandle
  <1>3. cache[path] \in Versions(last) /\ cache[path].body = cache[path].hdr
    BY <1>0 DEF Made, FilesSafe, Named, CrashSafe
  <1>4. Typed'
    <2>1. ver' \in 0 .. last'
      BY <1>0, <1>3 DEF Typed, Versions, Invalid
    <2> QED
      BY <1>0, <1>2, <2>1 DEF Typed
  <1>5. Made' /\ FilesSafe'
    BY <1>0 DEF Made, FilesSafe, Named
  <1>6. HandlesSound' /\ DownMeansNothing' /\ JobSound' /\ EveryOpenOwned'
    BY <1>0, <1>1, <1>2 DEF HandlesSound, DownMeansNothing, JobSound, EveryOpenOwned,
           OpenIfOwned, Owned, Owns, Apart, HoldBeside
  <1>7. SourceReadable'
    BY <1>0, <1>2, <1>3 DEF SourceReadable, SourceBody, Source, Readable
  <1> QED
    BY <1>1, <1>4, <1>5, <1>6, <1>7

LEMMA NewNDBIInv == IInv /\ NewNDB => IInv'
  <1> SUFFICES ASSUME IInv, NewNDB PROVE IInv'
    OBVIOUS
  <1> USE CommitAssumption, NoneAssumption DEF IInv
  <1>0. /\ job = None /\ io = None /\ work = None /\ hold = None /\ ver = 0 /\ open = {}
        /\ UNCHANGED <<cache, disk, path, names, open, io, work, hold, ver, last, job>>
    BY DEF NewNDB, DownMeansNothing, files, handles
  <1>1. down' \in BOOLEAN /\ ~ down'
    BY DEF NewNDB
  <1>2. Typed' /\ Made' /\ FilesSafe'
    BY <1>0 DEF Typed, Made, FilesSafe, Named
  <1>3. HandlesSound' /\ DownMeansNothing' /\ JobSound' /\ EveryOpenOwned'
    BY <1>0, <1>1 DEF HandlesSound, DownMeansNothing, JobSound, EveryOpenOwned,
           OpenIfOwned, Owned, Owns, Apart, HoldBeside
  <1>4. SourceReadable'
    BY <1>0 DEF SourceReadable, SourceBody, Source
  <1> QED
    BY <1>1, <1>2, <1>3, <1>4

-----------------------------------------------------------------------------
(* The theorems *)

LEMMA StutterIInv == IInv /\ UNCHANGED vars => IInv'
  <1> SUFFICES ASSUME IInv, UNCHANGED vars PROVE IInv'
    OBVIOUS
  <1> USE DEF IInv, vars
  <1>1. Typed' /\ Made' /\ FilesSafe'
    BY DEF Typed, Made, FilesSafe, Named
  <1>2. HandlesSound' /\ DownMeansNothing' /\ JobSound' /\ EveryOpenOwned'
    BY DEF HandlesSound, DownMeansNothing, JobSound, EveryOpenOwned, Written,
           CommitToSound, CommitFileSound, Backs, OpenIfOwned, Owned, Owns, Apart, HoldBeside
  <1>3. SourceReadable'
    BY DEF SourceReadable, SourceBody, Source, Readable
  <1>4. down' \in BOOLEAN
    OBVIOUS
  <1> QED
    BY <1>1, <1>2, <1>3, <1>4

LEMMA Inductive == Spec => []IInv
  <1>1. IInv /\ [Next]_vars => IInv'
    BY MutateIInv, CommitToIInv, CommitFileIInv, WriteInvalidIInv, WriteBodyIInv,
       WriteValidIInv, SyncIInv, PublishFailsIInv, adoptPublishedIInv,
       CommitFileFailsIInv, RenameIInv, syncDirIInv, adoptIInv, failAdoptIInv,
       CrashIInv, CloseIInv, OpenNDBFileIInv, NewNDBIInv, StutterIInv DEF Next
  <1> QED
    BY <1>1, InitIInv, PTL DEF Spec

LEMMA OutcomesSafe ==
  ASSUME IInv PROVE ValidMeansComplete
  <1> USE CommitAssumption DEF IInv
  <1>1. \A f \in File \cup {User} : Opens(disk[f]) => disk[f].body = disk[f].hdr
    BY DEF FilesSafe, Opens
  <1>2. ASSUME NEW f \in File \cup {User}, f \in {User, path}, NEW o \in Outcomes(f), Opens(o)
        PROVE  o.body = o.hdr
    <2>1. f # None /\ CrashSafe(cache[f], disk[f])
      BY <1>2 DEF FilesSafe, Named
    <2>2. /\ o.hdr \in {disk[f].hdr, cache[f].hdr}
          /\ \/ o.body \in {disk[f].body, cache[f].body}
             \/ o.body = Torn /\ disk[f].body # cache[f].body
      BY <1>2, <2>1 DEF Outcomes
    <2> QED
      BY <1>2, <2>1, <2>2 DEF CrashSafe, Opens
  <1> QED
    BY <1>1, <1>2 DEF ValidMeansComplete

\* The type invariant of CommitTxn: what the sinks, the handles of a Store and
\* a running CommitTo or CommitFile can be.
THEOREM TypeCorrect == Spec => []TypeOK
  <1>1. IInv => TypeOK
    BY TypeFollows DEF IInv
  <1> QED
    BY <1>1, Inductive, PTL

\* Whatever fails in CommitTo and CommitFile, and whichever of its own files
\* the caller publishes over, the store still reads the version it holds.
THEOREM SourceStaysReadable == Spec => []SourceReadable
  <1>1. IInv => SourceReadable
    BY DEF IInv
  <1> QED
    BY <1>1, Inductive, PTL

\* No FileSink the store opened is ever left without a handle that closes it
\* (retainOwned, adopt, adoptPublished).
THEOREM HandlesNeverLeak == Spec => []NoLeakedHandle
  <1>1. IInv => NoLeakedHandle
    BY OwnersClose DEF IInv
  <1> QED
    BY <1>1, Inductive, PTL

\* The two-phase write of tx.go: a crash at any moment, also while publishing
\* in place, leaves no file with a valid header over a foreign body.
THEOREM ValidStaysComplete == Spec => []ValidMeansComplete
  <1>1. IInv => ValidMeansComplete
    BY OutcomesSafe
  <1> QED
    BY <1>1, Inductive, PTL

-----------------------------------------------------------------------------
(* CommitFile implements AtomicFile *)

\* The version the file p holds.
Shown(p) == IF p = None THEN 0 ELSE cache[p].hdr

Mem == IF down /\ path # None THEN Version(path, cache[path]) ELSE ver
Stored == UNION {{Version(p, c) : c \in Outcomes(p)} : p \in names}

\* While the files at the path are settled they hold one version each.
LEMMA SettledView ==
  ~ InPlace /\ IInv /\ NamesSettled =>
    /\ Mem = IF down THEN Shown(path) ELSE ver
    /\ Stored = {Shown(p) : p \in names}
  <1> SUFFICES ASSUME ~ InPlace, IInv, NamesSettled
               PROVE  /\ Mem = IF down THEN Shown(path) ELSE ver
                      /\ Stored = {Shown(p) : p \in names}
    OBVIOUS
  <1>1. ASSUME NEW p \in names, NEW c \in Outcomes(p)
        PROVE  Version(p, c) = Shown(p)
    <2>1. CASE p = None
      BY <2>1 DEF Version, Shown
    <2>2. CASE p # None
      <3>1. disk[p] = cache[p] /\ Opens(cache[p]) /\ cache[p].body = cache[p].hdr
        BY <2>2 DEF NamesSettled
      <3>2. c.hdr = cache[p].hdr /\ c.body = cache[p].body
        BY <2>2, <3>1 DEF Outcomes
      <3> QED
        BY <2>2, <3>1, <3>2 DEF Version, Shown, Opens
    <2> QED
      BY <2>1, <2>2
  <1>2. ASSUME NEW p \in names PROVE \E c \in Outcomes(p) : TRUE
    <2>1. CASE p = None
      BY <2>1 DEF Outcomes
    <2>2. CASE p # None
      <3>1. [hdr |-> disk[p].hdr, body |-> disk[p].body] \in Outcomes(p)
        BY <2>2 DEF Outcomes
      <3> QED
        BY <3>1
    <2> QED
      BY <2>1, <2>2
  <1>3. Stored = {Shown(p) : p \in names}
    BY <1>1, <1>2 DEF Stored
  <1>4. Mem = IF down THEN Shown(path) ELSE ver
    <2>1. path # None => Version(path, cache[path]) = Shown(path)
      BY DEF Version, Shown, NamesSettled, IInv, FilesSafe
    <2>2. down => ver = 0
      BY DEF IInv, DownMeansNothing
    <2> QED
      BY <2>1, <2>2 DEF Mem, Shown
  <1> QED
    BY <1>3, <1>4

\* Most steps touch no file at the path.
KeepsNames ==
  /\ ~ down /\ ~ down'
  /\ names' = names /\ path' = path
  /\ \A p \in names \ {None} : cache'[p] = cache[p] /\ disk'[p] = disk[p]
  /\ job' # None /\ job'.op = "CommitTo" => job'.target = User

LEMMA TargetUnnamed ==
  ASSUME ~ InPlace, IInv, NamesSettled, job # None, job.pc \notin {"syncDir", "open"}
  PROVE  job.target \notin names /\ job.target \in File \cup {User}
  BY CommitAssumption DEF NamesSettled, IInv, JobSound, CommitFileSound, Typed, Jobs

LEMMA WritesKeepNames ==
  ASSUME ~ InPlace, IInv, NamesSettled, WriteInvalid \/ WriteBody \/ WriteValid \/ Sync
  PROVE  KeepsNames /\ UNCHANGED <<ver, last>>
  <1>1. /\ job \in Jobs /\ job # None /\ ~ down /\ ~ down'
        /\ UNCHANGED <<path, names, ver, last>> /\ \E q : Goto(q)
    BY DEF WriteInvalid, WriteBody, WriteValid, Sync, At, IInv, Typed
  <1>2. job.pc \notin {"syncDir", "open"}
    BY DEF WriteInvalid, WriteBody, WriteValid, Sync, At
  <1>3. job.target \notin names
    BY <1>1, <1>2, TargetUnnamed
  <1>4. job'.op = job.op /\ job'.target = job.target
    BY <1>1 DEF Goto, Jobs
  <1>5. names \ {None} \subseteq File
    BY DEF IInv, Typed
  <1>6. \A p \in names \ {None} : cache'[p] = cache[p]
    BY <1>3, <1>5 DEF WriteInvalid, WriteBody, WriteValid, Sync, PutHeader, PutBody, IInv, Made
  <1>7. \A p \in names \ {None} : disk'[p] = disk[p]
    BY <1>3, <1>5 DEF WriteInvalid, WriteBody, WriteValid, Sync, IInv, Made
  <1> QED
    BY <1>1, <1>4, <1>6, <1>7 DEF KeepsNames, NamesSettled

LEMMA StartsKeepNames ==
  ASSUME ~ InPlace, IInv, NamesSettled,
         CommitFile \/ \E dst \in Destinations : CommitTo(dst)
  PROVE  KeepsNames /\ UNCHANGED <<ver, last>>
  <1>1. CASE CommitFile
    BY <1>1 DEF CommitFile, Idle, KeepsNames, Job, files
  <1>2. ASSUME NEW dst \in Destinations, CommitTo(dst) PROVE KeepsNames /\ UNCHANGED <<ver, last>>
    <2>1. PICK f \in Unused :
            /\ cache' = [cache EXCEPT ![f] = [hdr |-> ver, body |-> SourceBody]]
            /\ job' = Job("CommitTo", dst.file, dst, work, io)
      BY <1>2 DEF CommitTo
    <2>2. f \notin names /\ dst.file = User
      BY <1>2, UnusedApart, DestinationSound DEF IInv
    <2>3. \A p \in names \ {None} : cache'[p] = cache[p]
      BY <2>1, <2>2 DEF IInv, Made, Typed
    <2> QED
      BY <1>2, <2>1, <2>2, <2>3 DEF CommitTo, Idle, KeepsNames, Job
  <1> QED
    BY <1>1, <1>2

LEMMA EndsKeepNames ==
  ASSUME ~ InPlace, IInv, NamesSettled,
         PublishFails \/ adoptPublished \/ CommitFileFails \/ adopt \/ failAdopt
  PROVE  KeepsNames /\ UNCHANGED <<ver, last>>
  <1> USE DEF IInv
  <1>1. /\ ~ down /\ ~ down' /\ job # None /\ job' = None
        /\ UNCHANGED <<path, names, ver, last>> /\ names \ {None} \subseteq File
    <2>1. names \ {None} \subseteq File
      BY DEF Typed
    <2>2. CASE PublishFails
      BY <2>1, <2>2 DEF PublishFails
    <2>3. CASE adoptPublished
      BY <2>1, <2>3 DEF adoptPublished, At
    <2>4. CASE CommitFileFails
      BY <2>1, <2>4 DEF CommitFileFails
    <2>5. CASE adopt
      BY <2>1, <2>5 DEF adopt, At
    <2>6. CASE failAdopt
      BY <2>1, <2>6 DEF failAdopt, At, files
    <2> QED
      BY <2>2, <2>3, <2>4, <2>5, <2>6
  <1>2. CASE failAdopt
    BY <1>1, <1>2 DEF failAdopt, files, KeepsNames
  <1>3. CASE PublishFails
    <2>1. PICK c \in {cache} \cup PartWritten : Collect(c)
      BY <1>3 DEF PublishFails
    <2>2. /\ c \in [File \cup {User} -> Versions(last)]
          /\ \A f \in File \cup {User} : f # job.target => c[f] = cache[f]
          /\ \A f \in Named : CrashSafe(c[f], disk[f])
      BY <1>1, PartWrittenSafe
    <2>3. job.target \notin names
      BY <1>1, <1>3, TargetUnnamed DEF PublishFails, JobSound, CommitToSound
    <2>4. \A p \in names \ {None} : cache'[p] = c[p] /\ disk'[p] = disk[p]
      BY <1>1, <2>1, <2>2, CollectIInv DEF FilesSafe
    <2> QED
      BY <1>1, <2>2, <2>3, <2>4 DEF KeepsNames
  <1>4. CASE adoptPublished \/ CommitFileFails \/ adopt
    <2>1. Collect(cache)
      BY <1>4 DEF adoptPublished, CommitFileFails, adopt
    <2>2. \A f \in Named : CrashSafe(cache[f], disk[f])
      BY DEF FilesSafe
    <2>3. \A p \in names \ {None} : cache'[p] = cache[p] /\ disk'[p] = disk[p]
      BY <1>1, <2>1, <2>2, CollectIInv DEF Made, FilesSafe
    <2> QED
      BY <1>1, <2>3 DEF KeepsNames
  <1> QED
    BY <1>2, <1>3, <1>4

LEMMA MutateKeepsNames ==
  ASSUME ~ InPlace, IInv, NamesSettled, Mutate
  PROVE  KeepsNames
  <1>1. PICK f : cache' = PutBody(f, ver') /\ f \notin names
    BY UnusedApart DEF Mutate, IInv, HandlesSound
  <1>2. \A p \in names \ {None} : cache'[p] = cache[p]
    BY <1>1 DEF PutBody, IInv, Made, Typed
  <1> QED
    BY <1>2 DEF Mutate, Idle, KeepsNames

\* The steps that replace, settle, lose or reopen the file at the path.
LEMMA RenameNames ==
  ASSUME IInv, Rename
  PROVE  /\ ~ down /\ ~ down' /\ UNCHANGED <<cache, disk, ver, last>>
         /\ names' = names \cup {path'} /\ path' # None
         /\ cache[path'] = [hdr |-> ver, body |-> ver] /\ disk[path'] = cache[path']
         /\ job'.op = "CommitFile"
  <1>1. /\ job \in Jobs /\ job # None /\ job.op = "CommitFile" /\ job.target \in File
        /\ Written(cache[job.target], disk[job.target], "rename")
        /\ path' = job.target /\ names' = names \cup {job.target} /\ Goto("syncDir")
    BY DEF Rename, At, IInv, JobSound, CommitToSound, CommitFileSound, Typed, Jobs
  <1>2. job'.op = job.op
    BY <1>1 DEF Goto, Jobs
  <1> QED
    BY <1>1, <1>2, CommitAssumption DEF Rename, At, Written

LEMMA syncDirNames ==
  ASSUME IInv, syncDir
  PROVE  /\ ~ down /\ ~ down' /\ UNCHANGED <<ver, last, path>>
         /\ path # None /\ path \in names /\ names' = {path}
         /\ cache'[path] = cache[path] /\ disk'[path] = disk[path]
         /\ cache[path].hdr = ver /\ job'.op = "CommitFile"
  <1> USE DEF IInv
  <1>1. /\ job \in Jobs /\ job # None /\ job.op = "CommitFile" /\ job.target \in File
        /\ Written(cache[job.target], disk[job.target], "syncDir")
        /\ path = job.target /\ names' = {path} /\ Goto("open") /\ Collect(cache)
        /\ path \in names /\ last' = last /\ path' = path
    BY DEF syncDir, At, JobSound, CommitToSound, CommitFileSound, Typed, Jobs, FilesSafe
  <1>2. job'.op = job.op
    BY <1>1 DEF Goto, Jobs
  <1>3. \A f \in Named : CrashSafe(cache[f], disk[f])
    BY DEF FilesSafe
  <1>4. cache'[path] = cache[path] /\ disk'[path] = disk[path]
    BY <1>1, <1>3, CollectIInv DEF Made
  <1> QED
    BY <1>1, <1>2, <1>4, CommitAssumption DEF syncDir, At, Written

LEMMA CrashNames ==
  ASSUME ~ InPlace, IInv, NamesSettled, Crash
  PROVE  /\ down' /\ job' = None /\ last' = last
         /\ path' \in names /\ names' = {path'}
         /\ path' # None => /\ cache'[path'] = cache[path'] /\ disk'[path'] = cache'[path']
  <1>1. PICK p \in names :
          /\ path' = p /\ names' = {p}
          /\ \E c \in Outcomes(p) :
               p # None => cache'[p] = c /\ disk'[p] = c
    BY CommitAssumption DEF Crash, IInv, Typed
  <1>2. PICK c \in Outcomes(p) : p # None => cache'[p] = c /\ disk'[p] = c
    BY <1>1
  <1>3. p # None => c = cache[p]
    <2>1. SUFFICES ASSUME p # None PROVE c = cache[p]
      OBVIOUS
    <2>2. disk[p] = cache[p] /\ cache[p] \in Versions(last)
      BY <2>1 DEF NamesSettled, IInv, Typed, Made
    <2>3. c.hdr = cache[p].hdr /\ c.body = cache[p].body /\ c = [hdr |-> c.hdr, body |-> c.body]
      BY <2>1, <2>2 DEF Outcomes
    <2> QED
      BY <2>2, <2>3 DEF Versions
  <1> QED
    BY <1>1, <1>2, <1>3 DEF Crash, Stop

LEMMA CloseNames ==
  ASSUME IInv, Close
  PROVE  /\ ~ down /\ down' /\ job' = None /\ UNCHANGED <<path, names, last>>
         /\ \A p \in names \ {None} : cache'[p] = cache[p] /\ disk'[p] = disk[p]
  <1>1. \A f \in Named : CrashSafe(cache[f], disk[f])
    BY DEF IInv, FilesSafe
  <1>2. \A p \in names \ {None} : cache'[p] = cache[p] /\ disk'[p] = disk[p]
    BY <1>1, CollectIInv DEF Close, IInv, Made, FilesSafe, Typed
  <1> QED
    BY <1>2 DEF Close, Stop, Idle

LEMMA SettledStep ==
  ASSUME ~ InPlace, IInv, NamesSettled, [Next]_vars PROVE NamesSettled'
  <1>1. CASE KeepsNames
    BY <1>1 DEF KeepsNames, NamesSettled, Opens
  <1>2. CASE Rename
    <2>1. ver # Invalid
      BY DEF IInv, Typed, Invalid
    <2> QED
      BY <1>2, <2>1, RenameNames DEF NamesSettled, Opens
  <1>3. CASE syncDir
    BY <1>3, syncDirNames DEF NamesSettled, Opens
  <1>4. CASE Crash
    BY <1>4, CrashNames DEF NamesSettled, Opens
  <1>5. CASE Close
    BY <1>5, CloseNames DEF NamesSettled, Opens
  <1>6. CASE OpenNDBFile \/ NewNDB \/ UNCHANGED vars
    BY <1>6 DEF OpenNDBFile, NewNDB, vars, files, NamesSettled, Opens
  <1> QED
    BY <1>1, <1>2, <1>3, <1>4, <1>5, <1>6, WritesKeepNames, StartsKeepNames,
       EndsKeepNames, MutateKeepsNames DEF Next

LEMMA SettledViewNext ==
  (~ InPlace /\ IInv /\ NamesSettled =>
    /\ Mem = IF down THEN Shown(path) ELSE ver
    /\ Stored = {Shown(p) : p \in names})'
  BY SettledView, PTL

\* The steps of AtomicFile under the refinement mapping.
LEMMA AbstractNext ==
  /\ Abstract!Init <=> Mem = 0 /\ last = 0 /\ Stored = {0}
  /\ Abstract!Mutate <=> /\ last < MaxVer /\ last' = last + 1
                         /\ Mem' = last' /\ Stored' = Stored
  /\ Abstract!Replace <=> Stored' = Stored \cup {Mem} /\ Mem' = Mem /\ last' = last
  /\ Abstract!Settle <=> /\ Mem \in Stored /\ Stored' = {Mem}
                         /\ Mem' = Mem /\ last' = last
  /\ Abstract!Crash <=> \E v \in Stored : Mem' = v /\ Stored' = {v} /\ last' = last
  /\ Abstract!Reopen <=> Mem' \in Stored /\ last' = last /\ Stored' = Stored
  BY DEF Abstract!Init, Abstract!Mutate, Abstract!Replace, Abstract!Settle,
         Abstract!Crash, Abstract!Reopen, Mem, Stored

\* Every step of CommitTxn is a step of AtomicFile or leaves its state alone.
LEMMA AbstractStep ==
  ASSUME ~ InPlace, IInv, NamesSettled, IInv', NamesSettled', [Next]_vars
  PROVE  \/ Abstract!Next
         \/ Mem' = Mem /\ last' = last /\ Stored' = Stored
  <1>1. /\ Mem = IF down THEN Shown(path) ELSE ver
        /\ Stored = {Shown(p) : p \in names}
        /\ Mem' = IF down' THEN Shown(path)' ELSE ver'
        /\ Stored' = {Shown(p)' : p \in names'}
    BY SettledView, SettledViewNext
  <1>2. ASSUME KeepsNames PROVE Stored' = Stored /\ Mem = ver /\ Mem' = ver'
    BY <1>1, <1>2 DEF KeepsNames, Shown
  <1>3. CASE Mutate
    <2>1. Stored' = Stored /\ Mem' = ver'
      BY <1>2, <1>3, MutateKeepsNames
    <2> QED
      BY <1>3, <2>1, AbstractNext DEF Mutate, Abstract!Next
  <1>4. CASE KeepsNames /\ UNCHANGED <<ver, last>>
    BY <1>2, <1>4
  <1>5. CASE Rename
    <2>1. Shown(path)' = ver /\ Mem = ver /\ Mem' = ver
      BY <1>1, <1>5, RenameNames DEF Shown
    <2>2. Stored' = Stored \cup {ver}
      BY <1>1, <1>5, <2>1, RenameNames DEF Shown
    <2> QED
      BY <1>5, <2>1, <2>2, RenameNames, AbstractNext DEF Abstract!Next
  <1>6. CASE syncDir
    <2>1. Mem = ver /\ Mem' = ver /\ ver \in Stored /\ Stored' = {ver} /\ last' = last
      BY <1>1, <1>6, syncDirNames DEF Shown
    <2> QED
      BY <2>1, AbstractNext DEF Abstract!Next
  <1>7. CASE Crash
    <2>1. Shown(path)' \in Stored
      BY <1>1, <1>7, CrashNames DEF Shown
    <2>2. Mem' = Shown(path)' /\ Stored' = {Shown(path)'} /\ last' = last
      BY <1>1, <1>7, CrashNames
    <2> QED
      BY <2>1, <2>2, AbstractNext DEF Abstract!Next
  <1>8. CASE Close
    <2>1. Stored' = Stored /\ last' = last /\ Mem' \in Stored
      BY <1>1, <1>8, CloseNames DEF Shown, IInv, FilesSafe
    <2> QED
      BY <2>1, AbstractNext DEF Abstract!Next
  <1>9. CASE OpenNDBFile
    <2>1. down /\ ~ down' /\ UNCHANGED <<cache, path, names, last>> /\ path # None /\ ver' = cache[path].hdr
      BY <1>9 DEF OpenNDBFile, files
    <2> QED
      BY <1>1, <2>1 DEF Shown
  <1>10. CASE NewNDB
    <2>1. /\ down /\ ~ down' /\ UNCHANGED <<cache, path, names, last, ver>> /\ ver = 0
          /\ path = None
      BY <1>10 DEF NewNDB, files, NamesSettled, IInv, FilesSafe, DownMeansNothing
    <2> QED
      BY <1>1, <2>1 DEF Shown
  <1>11. CASE UNCHANGED vars
    BY <1>1, <1>11 DEF vars, Shown
  <1> QED
    BY <1>3, <1>4, <1>5, <1>6, <1>7, <1>8, <1>9, <1>10, <1>11, WritesKeepNames,
       StartsKeepNames, EndsKeepNames DEF Next

\* CommitFile is atomic: as long as the caller publishes over none of the
\* store's own files, every behaviour of the commit code, with its failures,
\* crashes and restarts, is one of the atomic file.
THEOREM CommitFileAtomic == ~ InPlace => (Spec => ImplementsAtomicFile)
  <1> SUFFICES ASSUME ~ InPlace PROVE Spec => ImplementsAtomicFile
    OBVIOUS
  <1>1. Init => NamesSettled /\ Abstract!Init
    <2> SUFFICES ASSUME Init PROVE NamesSettled /\ Abstract!Init
      OBVIOUS
    <2>1. IInv /\ NamesSettled
      BY InitIInv DEF Init, NamesSettled
    <2>2. Mem = 0 /\ last = 0 /\ Stored = {0}
      BY <2>1, SettledView DEF Init, Shown
    <2> QED
      BY <2>1, <2>2, AbstractNext
  <1>2. IInv /\ NamesSettled /\ [Next]_vars => NamesSettled'
    BY SettledStep
  <1>3. /\ IInv /\ NamesSettled /\ IInv' /\ NamesSettled' /\ [Next]_vars
        => [Abstract!Next]_<<IF down /\ path # None THEN Version(path, cache[path]) ELSE ver,
                             last,
                             UNION {{Version(p, c) : c \in Outcomes(p)} : p \in names}>>
    BY AbstractStep DEF Mem, Stored
  <1> QED
    BY <1>1, <1>2, <1>3, Inductive, PTL DEF Spec, ImplementsAtomicFile, Abstract!Spec
=============================================================================
