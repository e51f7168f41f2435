------------------------------- MODULE BTree --------------------------------
(***************************************************************************)
(* The pages of an NBT or BBT, written bottom-up from sorted entries and   *)
(* searched by separator keys: encodeTree and walk of writer/v2/ndb.go,    *)
(* which the legacy BTWriter (pkg/ndb/btree_write.go) and searchNBT        *)
(* (pkg/ndb/database.go) share but for the separator they store.           *)
(*                                                                         *)
(* A page is [level, kids]; a kid of a leaf is an entry, [key, val], a kid *)
(* of another page is [key, ref], ref the page below.                      *)
(***************************************************************************)
EXTENDS Sequences, Walk

CONSTANTS
  MaxLeaf,     \* MaxNBTLeafEntries, MaxBBTLeafEntries
  MaxNonleaf   \* MaxBTNonleafEntries

ASSUME BTreeAssumption == MaxLeaf \in Nat \ {0} /\ MaxNonleaf \in Nat \ {0, 1}

\* The elements of a set of numbers in ascending order.
Ascending(S) ==
  [i \in 1 .. Cardinality(S) |->
     CHOOSE x \in S : Cardinality({y \in S : y < x}) = i - 1]

\* Seeded bug: a last run that is not full is lost.
FullChunks(s, n) ==
  [i \in 1 .. (IF Len(s) < n THEN 1 ELSE Len(s) \div n) |->
     SubSeq(s, (i - 1) * n + 1, IF i * n < Len(s) THEN i * n ELSE Len(s))]

\* s cut into runs of n, the last one shorter.
Chunks(s, n) ==
  [i \in 1 .. (Len(s) + n - 1) \div n |->
     SubSeq(s, (i - 1) * n + 1, IF i * n < Len(s) THEN i * n ELSE Len(s))]

\* Seeded bug: the other end of the page.
Swapped(chunk, side) == chunk[IF side = "first" THEN Len(chunk) ELSE 1].key

\* The key a parent stores for a page: the first one under it in the v2
\* writer, the last one in the legacy writer.
Separator(chunk, side) == chunk[IF side = "first" THEN 1 ELSE Len(chunk)].key

\* The loop over the levels: the pages written so far, the refs of the last
\* level, and its number.
Built(pages, refs, level) == [pages |-> pages, refs |-> refs, level |-> level]

\* The pages that hold the chunks, on one level, and the refs to them, behind
\* the n pages written before.
PagesOf(chunks, level) == [i \in DOMAIN chunks |-> [level |-> level, kids |-> chunks[i]]]
RefsOf(chunks, n, side) ==
  [i \in DOMAIN chunks |-> [key |-> Separator(chunks[i], side), ref |-> n + i]]

\* One level more, unless one page is left.
AddLevel(s, side) ==
  LET chunks == Chunks(s.refs, MaxNonleaf)
  IN  IF Len(s.refs) = 1 THEN s
      ELSE Built(s.pages \o PagesOf(chunks, s.level + 1),
                 RefsOf(chunks, Len(s.pages), side), s.level + 1)

\* What n rounds of the loop have built, for every n.
AddLevels(s, side) ==
  LET built[n \in Nat] == IF n = 0 THEN s ELSE AddLevel(built[n - 1], side)
  IN  built

\* The pages in the order they are allocated, the root last; ref is a
\* position in that order. No entries are one empty leaf. A level is shorter
\* than the one below, so that there are fewer levels than entries.
encodeTree(entries, side) ==
  LET chunks == Chunks(entries, MaxLeaf)
  IN  IF entries = <<>> THEN <<[level |-> 0, kids |-> <<>>]>>
      ELSE AddLevels(Built(PagesOf(chunks, 0), RefsOf(chunks, 0, side), 0),
                     side)[Len(entries)].pages

\* Seeded bug: the first child whose key is not below k.
chooseNext(kids, k) == {i \in DOMAIN kids : kids[i].key >= k
                          /\ \A j \in DOMAIN kids : kids[j].key >= k => j >= i}

\* The last child whose key is not above k; none when k is below all of them.
chooseChild(kids, k) == {i \in DOMAIN kids : kids[i].key <= k
                           /\ \A j \in DOMAIN kids : kids[j].key <= k => j <= i}

\* The pages a search for k can be at after ref: the child chosen in ref, none
\* when k is below the first key, and ref itself when it is a leaf.
Descend(pages, refs, k) ==
  UNION {IF pages[ref].level = 0 THEN {ref}
         ELSE {pages[ref].kids[i].ref : i \in chooseChild(pages[ref].kids, k)} : ref \in refs}

\* walk: the leaf the search for k ends at, if there is one. A child is one
\* level below its page.
walk(pages, ref, k) ==
  LET at[n \in Nat] == IF n = 0 THEN {ref} ELSE Descend(pages, at[n - 1], k)
  IN  at[pages[ref].level]

\* The first entry with key k in that leaf, if there is one.
Search(pages, ref, k) ==
  UNION {LET kids == pages[leaf].kids
         IN  {kids[i] : i \in {i \in DOMAIN kids :
                kids[i].key = k /\ \A j \in 1 .. i - 1 : kids[j].key # k}} :
           leaf \in walk(pages, ref, k)}

\* The pages that each page leads to.
Below(pages) ==
  [p \in DOMAIN pages |-> IF pages[p].level = 0 THEN {}
                          ELSE {pages[p].kids[i].ref : i \in DOMAIN pages[p].kids}]

\* The pages of the tree under ref.
PagesUnder(pages, ref) == Reach(Below(pages), ref)

\* CheckTrees: every separator is the first key of the page it stands for. An
\* empty leaf counts as key 0.
SeparatorsAreFirstKeys(pages, ref) ==
  \A p \in PagesUnder(pages, ref) : pages[p].level > 0 =>
    \A i \in DOMAIN pages[p].kids :
      LET child == pages[pages[p].kids[i].ref].kids
      IN  pages[p].kids[i].key = IF child = <<>> THEN 0 ELSE child[1].key
=============================================================================
