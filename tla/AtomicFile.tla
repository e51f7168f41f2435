----------------------------- MODULE AtomicFile -----------------------------
(***************************************************************************)
(* What CommitFile of writer/v2 promises of the path it writes: "A crash   *)
(* before rename leaves the previous file. After rename the new file is    *)
(* the committed image even if reopen fails." (ndb.go). A program holds a  *)
(* version in memory and a path holds one version on disk; while a commit  *)
(* has replaced the path but not synced its directory the path may turn    *)
(* out to hold either.                                                     *)
(***************************************************************************)
EXTENDS Integers

CONSTANT MaxVer   \* versions are 0 .. MaxVer, 0 the blank file or no file

VARIABLES
  mem,     \* the version in memory
  last,    \* the last version made
  stored   \* the versions a crash may leave at the path

Init == mem = 0 /\ last = 0 /\ stored = {0}

\* The program changes its data.
Mutate ==
  /\ last < MaxVer
  /\ last' = last + 1
  /\ mem' = last'
  /\ UNCHANGED stored

\* The path now names the version in memory, perhaps not for good.
Replace == stored' = stored \cup {mem} /\ UNCHANGED <<mem, last>>

\* The replacement is on disk.
Settle == mem \in stored /\ stored' = {mem} /\ UNCHANGED <<mem, last>>

\* The machine fails and the program reopens the path.
Crash == \E v \in stored : mem' = v /\ stored' = {v} /\ UNCHANGED last

\* The program ends by itself and reopens the path.
Reopen == mem' \in stored /\ UNCHANGED <<last, stored>>

Next == Mutate \/ Replace \/ Settle \/ Crash \/ Reopen

Spec == Init /\ [][Next]_<<mem, last, stored>>
=============================================================================
