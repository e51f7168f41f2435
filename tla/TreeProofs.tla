----------------------------- MODULE TreeProofs ------------------------------
(***************************************************************************)
(* Proofs about TreeImage and LegacyTree, for page capacities, keys,       *)
(* numbers of entries and commits of any size. The trees encodeTree builds *)
(* are described by the entries that each page spans; the recursion of the *)
(* loop over the levels and of the search is induction on rounds, by the   *)
(* first failure (WalkProofs). The first half leads to the theorems over   *)
(* Spec, the specification of TreeImage; the second, from "Lists out of    *)
(* runs" on, to those over LegacySpec, the specification of LegacyTree.    *)
(***************************************************************************)
EXTENDS TreeImage, LegacyTree, WalkProofs, SequenceTheorems

-----------------------------------------------------------------------------
(* Ranks *)

\* R puts the elements of S in one order.
Orders(R, S) ==
  /\ \A x \in S : <<x, x>> \notin R
  /\ \A x, y \in S : x # y => <<x, y>> \in R \/ <<y, x>> \in R
  /\ \A x, y, z \in S : <<x, y>> \in R /\ <<y, z>> \in R => <<x, z>> \in R

Rank(S, R, x) == Cardinality({y \in S : <<y, x>> \in R})

\* The rank of an element counts up along the set.
LEMMA RankMonotone ==
  ASSUME NEW S, NEW R, Orders(R, S), IsFiniteSet(S), NEW x \in S, NEW z \in S, <<x, z>> \in R
  PROVE  Rank(S, R, x) \in Nat /\ Rank(S, R, z) \in Nat /\ Rank(S, R, x) < Rank(S, R, z)
  <1> DEFINE X == {y \in S : <<y, x>> \in R}
             Z == {y \in S : <<y, z>> \in R}
  <1>1. X \in SUBSET Z /\ Z \in SUBSET S /\ x \in Z /\ x \notin X
    <2>1. \A y \in S : <<y, x>> \in R => <<y, z>> \in R
      BY DEF Orders
    <2>2. <<x, x>> \notin R
      BY DEF Orders
    <2> QED
      BY <2>1, <2>2
  <1>2. IsFiniteSet(Z)
    BY <1>1, FS_Subset
  <1>3. IsFiniteSet(X) /\ Cardinality(X) <= Cardinality(Z)
        /\ (Cardinality(Z) = Cardinality(X) => Z = X)
    BY <1>1, <1>2, FS_Subset
  <1>4. Cardinality(X) \in Nat /\ Cardinality(Z) \in Nat
    BY <1>2, <1>3, FS_CardinalityType
  <1>5. Z # X
    BY <1>1
  <1>6. Rank(S, R, x) = Cardinality(X) /\ Rank(S, R, z) = Cardinality(Z)
    BY DEF Rank
  <1> HIDE DEF X, Z
  <1> QED
    BY <1>3, <1>4, <1>5, <1>6

LEMMA RankBound ==
  ASSUME NEW S, NEW R, Orders(R, S), IsFiniteSet(S), NEW x \in S
  PROVE  Rank(S, R, x) \in 0 .. Cardinality(S) - 1
  <1> DEFINE X == {y \in S : <<y, x>> \in R}
  <1>1. X \in SUBSET S /\ x \notin X
    BY DEF Orders
  <1>2. IsFiniteSet(X) /\ Cardinality(X) <= Cardinality(S)
        /\ (Cardinality(S) = Cardinality(X) => S = X)
    BY <1>1, FS_Subset
  <1>3. Cardinality(X) \in Nat /\ Cardinality(S) \in Nat
    BY <1>2, FS_CardinalityType
  <1>4. S # X
    BY <1>1
  <1>5. Rank(S, R, x) = Cardinality(X)
    BY DEF Rank
  <1> HIDE DEF X
  <1> QED
    BY <1>2, <1>3, <1>4, <1>5

\* Every rank below the size of the set is taken.
LEMMA RankOnto ==
  ASSUME NEW S, NEW R, Orders(R, S), IsFiniteSet(S), NEW i \in 1 .. Cardinality(S)
  PROVE  \E x \in S : Rank(S, R, x) = i - 1
  <1> DEFINE n == Cardinality(S)
             f == [x \in S |-> Rank(S, R, x)]
             T == 0 .. n - 1
  <1>1. n \in Nat
    BY FS_CardinalityType
  <1>2. IsFiniteSet(T) /\ Cardinality(T) = n
    <2>1. 0 \in Int /\ n - 1 \in Int
      BY <1>1
    <2>2. IsFiniteSet(0 .. n - 1)
          /\ Cardinality(0 .. n - 1) = IF 0 > n - 1 THEN 0 ELSE (n - 1) - 0 + 1
      BY <2>1, FS_Interval
    <2> QED
      BY <1>1, <2>2
  <1>3. f \in [S -> T]
    BY RankBound
  <1>4. \A x, z \in S : f[x] = f[z] => x = z
    <2> SUFFICES ASSUME NEW x \in S, NEW z \in S, x # z PROVE Rank(S, R, x) # Rank(S, R, z)
      OBVIOUS
    <2>1. <<x, z>> \in R \/ <<z, x>> \in R
      BY DEF Orders
    <2>2. CASE <<x, z>> \in R
      <3>1. Rank(S, R, x) \in Nat /\ Rank(S, R, z) \in Nat /\ Rank(S, R, x) < Rank(S, R, z)
        BY <2>2, RankMonotone
      <3> QED
        BY <3>1
    <2>3. CASE <<z, x>> \in R
      <3>1. Rank(S, R, x) \in Nat /\ Rank(S, R, z) \in Nat /\ Rank(S, R, z) < Rank(S, R, x)
        BY <2>3, RankMonotone
      <3> QED
        BY <3>1
    <2> QED
      BY <2>1, <2>2, <2>3
  <1> HIDE DEF f
  <1>5. f \in Injection(S, T)
    BY <1>3, <1>4 DEF Injection, IsInjective
  <1>6. f \in Surjection(S, T)
    <2> HIDE DEF T, n
    <2>1. Cardinality(S) = Cardinality(T)
      BY <1>2 DEF n
    <2> QED
      BY <1>2, <1>5, <2>1, FS_Injection
  <1>7. i - 1 \in T
    BY <1>1
  <1>8. \A t \in T : \E x \in S : f[x] = t
    BY <1>6 DEF Surjection
  <1> QED
    BY <1>7, <1>8 DEF f

\* The numbers of S in their order.
Less(S) == {p \in S \X S : p[1] < p[2]}

LEMMA LessOrders ==
  ASSUME NEW S \in SUBSET Nat
  PROVE  Orders(Less(S), S) /\ \A x, y \in S : <<x, y>> \in Less(S) <=> x < y
  <1>1. \A x, y \in S : <<x, y>> \in Less(S) <=> x < y
    BY DEF Less
  <1>2. \A x, y \in S : x \in Nat /\ y \in Nat
    OBVIOUS
  <1> QED
    BY <1>1, <1>2 DEF Orders

\* s lists the numbers of S upwards.
Lists(s, S) ==
  /\ DOMAIN s = 1 .. Cardinality(S)
  /\ \A i \in DOMAIN s : s[i] \in S
  /\ \A i, j \in DOMAIN s : i < j => s[i] < s[j]
  /\ \A x \in S : \E i \in DOMAIN s : s[i] = x

LEMMA AscendingLists ==
  ASSUME NEW S \in SUBSET Nat, IsFiniteSet(S)
  PROVE  Lists(Ascending(S), S)
  <1> DEFINE n == Cardinality(S)
             R == Less(S)
             a == Ascending(S)
  <1>1. n \in Nat
    BY FS_CardinalityType
  <1>o. Orders(R, S) /\ \A x, y \in S : <<x, y>> \in R <=> x < y
    BY LessOrders
  <1> HIDE DEF R
  <1>r. ASSUME NEW x \in S PROVE {y \in S : y < x} = {y \in S : <<y, x>> \in R}
    BY <1>o
  <1>2. a = [i \in 1 .. n |-> CHOOSE x \in S : Cardinality({y \in S : y < x}) = i - 1]
    BY DEF Ascending
  <1> HIDE DEF a
  <1>3. ASSUME NEW i \in 1 .. n PROVE a[i] \in S /\ Rank(S, R, a[i]) = i - 1
    <2>1. \A x \in S : Cardinality({y \in S : y < x}) = Rank(S, R, x)
      BY <1>r DEF Rank
    <2>2. \E x \in S : Cardinality({y \in S : y < x}) = i - 1
      <3>1. PICK x \in S : Rank(S, R, x) = i - 1
        BY <1>o, RankOnto
      <3> QED
        BY <2>1, <3>1
    <2>3. a[i] = CHOOSE x \in S : Cardinality({y \in S : y < x}) = i - 1
      BY <1>2
    <2>4. a[i] \in S /\ Cardinality({y \in S : y < a[i]}) = i - 1
      BY <2>2, <2>3
    <2> QED
      BY <2>1, <2>4
  <1>4. DOMAIN a = 1 .. n
    BY <1>2
  <1>5. ASSUME NEW i \in 1 .. n, NEW j \in 1 .. n, i < j PROVE a[i] < a[j]
    <2> SUFFICES ASSUME ~ (a[i] < a[j]) PROVE FALSE
      OBVIOUS
    <2>1. a[i] \in Nat /\ a[j] \in Nat /\ a[i] \in S /\ a[j] \in S
      BY <1>3
    <2>2. CASE a[i] = a[j]
      BY <1>3, <1>5, <2>2
    <2>3. CASE a[j] < a[i]
      <3>1. Rank(S, R, a[j]) < Rank(S, R, a[i])
        BY <1>o, <2>1, <2>3, RankMonotone
      <3> QED
        BY <1>3, <1>5, <3>1
    <2> QED
      BY <2>1, <2>2, <2>3
  <1>6. ASSUME NEW x \in S PROVE \E i \in 1 .. n : a[i] = x
    <2>1. Rank(S, R, x) \in 0 .. n - 1
      BY <1>o, RankBound
    <2>2. PICK i \in 1 .. n : i - 1 = Rank(S, R, x)
      BY <1>1, <2>1
    <2>3. a[i] \in S /\ Rank(S, R, a[i]) = Rank(S, R, x) /\ Rank(S, R, x) \in Nat
      BY <1>1, <1>3, <2>1, <2>2
    <2>4. ~ (a[i] < x) /\ ~ (x < a[i])
      <3>1. a[i] < x => Rank(S, R, a[i]) < Rank(S, R, x)
        BY <1>o, <2>3, RankMonotone
      <3>2. x < a[i] => Rank(S, R, x) < Rank(S, R, a[i])
        BY <1>o, <2>3, RankMonotone
      <3> QED
        BY <2>3, <3>1, <3>2
    <2>5. a[i] \in Nat /\ x \in Nat
      BY <2>3
    <2> QED
      BY <2>4, <2>5
  <1> HIDE DEF n
  <1>7. Lists(a, S)
    BY <1>3, <1>4, <1>5, <1>6 DEF Lists, n
  <1> QED
    BY <1>7 DEF a

-----------------------------------------------------------------------------
(* Pages that AllocatePage hands out *)

\* The pages at are different, and none of them is taken.
Granted(at, taken, n) ==
  /\ at \in [1 .. n -> Nat \ taken]
  /\ \A i, j \in 1 .. n : at[i] = at[j] => i = j

LEMMA AllocatePagesGrants ==
  ASSUME NEW taken \in SUBSET Nat, IsFiniteSet(taken), NEW n \in Nat
  PROVE  Granted(AllocatePages(taken, n), taken, n)
  <1> DEFINE c == Cardinality(taken)
             All == 0 .. n + c - 1
             F == All \ taken
             a == Ascending(F)
  <1>1. c \in Nat
    BY FS_CardinalityType
  <1>2. IsFiniteSet(All) /\ Cardinality(All) = n + c
    <2>1. 0 \in Int /\ n + c - 1 \in Int
      BY <1>1
    <2>2. IsFiniteSet(0 .. n + c - 1)
          /\ Cardinality(0 .. n + c - 1) = IF 0 > n + c - 1 THEN 0 ELSE (n + c - 1) - 0 + 1
      BY <2>1, FS_Interval
    <2> QED
      BY <1>1, <2>2
  <1>3. F \in SUBSET Nat /\ F \in SUBSET All /\ F \cap taken = {}
    BY <1>1
  <1>4. IsFiniteSet(F) /\ Cardinality(F) \in Nat
    BY <1>2, <1>3, FS_Subset, FS_CardinalityType
  <1>5. Cardinality(F) >= n
    <2> HIDE DEF c, All, F
    <2>1. IsFiniteSet(F \cup taken)
          /\ Cardinality(F \cup taken) = Cardinality(F) + c - Cardinality(F \cap taken)
      BY <1>4, FS_Union DEF c
    <2>2. Cardinality(F \cap taken) = 0
      BY <1>3, FS_EmptySet
    <2>3. All \in SUBSET (F \cup taken)
      BY DEF F
    <2>4. Cardinality(All) <= Cardinality(F \cup taken)
      BY <2>1, <2>3, FS_Subset
    <2> QED
      BY <1>1, <1>2, <1>4, <2>1, <2>2, <2>4
  <1> HIDE DEF F
  <1>6. Lists(a, F)
    BY <1>3, <1>4, AscendingLists
  <1>7. AllocatePages(taken, n) = SubSeq(a, 1, n)
    BY DEF AllocatePages, F
  <1> HIDE DEF a
  <1>9. \A i \in 1 .. n : i \in DOMAIN a /\ a[i] \in Nat \ taken
    <2>1. DOMAIN a = 1 .. Cardinality(F) /\ \A i \in DOMAIN a : a[i] \in F
      BY <1>6 DEF Lists
    <2>2. \A i \in 1 .. n : i \in 1 .. Cardinality(F)
      BY <1>4, <1>5
    <2> QED
      BY <1>3, <2>1, <2>2
  <1>8. SubSeq(a, 1, n) \in [1 .. n -> Nat \ taken] /\ \A i \in 1 .. n : SubSeq(a, 1, n)[i] = a[i]
    <2>1. /\ SubSeq(a, 1, n) \in Seq(Nat \ taken)
          /\ Len(SubSeq(a, 1, n)) = IF 1 <= n THEN n - 1 + 1 ELSE 0
          /\ \A i \in 1 .. n - 1 + 1 : SubSeq(a, 1, n)[i] = a[1 + i - 1]
      <3>1. 1 \in Int /\ n \in Int /\ \A i \in 1 .. n : a[i] \in Nat \ taken
        BY <1>9
      <3> QED
        BY <3>1, SubSeqProperties
    <2>2. Len(SubSeq(a, 1, n)) = n /\ \A i \in 1 .. n : i \in 1 .. n - 1 + 1 /\ 1 + i - 1 = i
      BY <2>1
    <2> QED
      BY <2>1, <2>2, LenProperties
  <1>10. \A i, j \in 1 .. n : a[i] = a[j] => i = j
    <2> SUFFICES ASSUME NEW i \in 1 .. n, NEW j \in 1 .. n, i < j PROVE a[i] # a[j]
      OBVIOUS
    <2>1. a[i] < a[j] /\ a[i] \in Nat /\ a[j] \in Nat
      BY <1>6, <1>9 DEF Lists
    <2> QED
      BY <2>1
  <1> QED
    BY <1>7, <1>8, <1>9, <1>10 DEF Granted

-----------------------------------------------------------------------------
(* Rounds of a loop *)

\* What a loop whose round is step has made of x after k rounds, for every k:
\* there is such a function. It is the least relation that the rounds close.
Iterates(g, S, step, x) ==
  g \in [Nat -> S] /\ g[0] = x /\ \A k \in Nat : g[k + 1] = step[g[k]]

LEMMA RoundsExist ==
  ASSUME NEW S, NEW step \in [S -> S], NEW x \in S
  PROVE  \E g : Iterates(g, S, step, x)
  <1> DEFINE Good(C) == /\ <<0, x>> \in C
                        /\ \A k \in Nat, y \in S : <<k, y>> \in C => <<k + 1, step[y]>> \in C
             M == {c \in Nat \X S : \A C \in SUBSET (Nat \X S) : Good(C) => c \in C}
             F == {k \in Nat : ~ \E y \in S : <<k, y>> \in M /\ \A z \in S : <<k, z>> \in M => z = y}
  <1>1. Good(M)
    <2>1. <<0, x>> \in M
      OBVIOUS
    <2>2. ASSUME NEW k \in Nat, NEW y \in S, <<k, y>> \in M PROVE <<k + 1, step[y]>> \in M
      <3>1. <<k + 1, step[y]>> \in Nat \X S
        OBVIOUS
      <3>2. ASSUME NEW C \in SUBSET (Nat \X S), Good(C) PROVE <<k + 1, step[y]>> \in C
        BY <2>2, <3>2
      <3> HIDE DEF Good
      <3> QED
        BY <3>1, <3>2
    <2> HIDE DEF M
    <2> QED
      BY <2>1, <2>2
  <1>2. \A C \in SUBSET (Nat \X S) : Good(C) => M \subseteq C
    OBVIOUS
  <1>3. M \in SUBSET (Nat \X S)
    OBVIOUS
  <1> HIDE DEF M
  <1>4. 0 \notin F
    <2> DEFINE C == {c \in M : c[1] = 0 => c[2] = x}
    <2>1. C \in SUBSET (Nat \X S) /\ Good(C)
      BY <1>1, <1>3
    <2>2. M \subseteq C
      BY <1>2, <2>1
    <2> QED
      BY <1>1, <2>2
  <1>5. ASSUME NEW k \in Nat, k \notin F PROVE k + 1 \notin F
    <2>1. PICK y \in S : <<k, y>> \in M /\ \A z \in S : <<k, z>> \in M => z = y
      BY <1>5
    <2>2. <<k + 1, step[y]>> \in M /\ step[y] \in S
      BY <1>1, <2>1
    <2>3. ASSUME NEW z \in S, <<k + 1, z>> \in M, z # step[y] PROVE FALSE
      <3> DEFINE C == M \ {<<k + 1, z>>}
      <3>1. C \in SUBSET (Nat \X S) /\ <<0, x>> \in C
        BY <1>1, <1>3
      <3>2. ASSUME NEW j \in Nat, NEW w \in S, <<j, w>> \in C PROVE <<j + 1, step[w]>> \in C
        <4>1. <<j + 1, step[w]>> \in M
          BY <1>1, <3>2
        <4>2. <<j + 1, step[w]>> # <<k + 1, z>>
          <5> SUFFICES ASSUME j + 1 = k + 1, step[w] = z PROVE FALSE
            OBVIOUS
          <5>1. j = k
            OBVIOUS
          <5> QED
            BY <2>1, <2>3, <3>2, <5>1
        <4> QED
          BY <4>1, <4>2
      <3>3. M \subseteq C
        BY <1>2, <3>1, <3>2
      <3> QED
        BY <2>3, <3>3
    <2> QED
      BY <2>2, <2>3
  <1>6. F \in SUBSET Nat
    OBVIOUS
  <1>7. F = {}
    <2> HIDE DEF F
    <2> QED
      BY <1>4, <1>5, <1>6, FirstFailure
  <1> DEFINE g == [k \in Nat |-> CHOOSE y \in S : <<k, y>> \in M]
  <1>8. \A k \in Nat : g[k] \in S /\ <<k, g[k]>> \in M /\ \A z \in S : <<k, z>> \in M => z = g[k]
    BY <1>7
  <1>9. g \in [Nat -> S]
    BY <1>8
  <1> HIDE DEF g
  <1>10. g[0] = x
    BY <1>1, <1>8
  <1>11. ASSUME NEW k \in Nat PROVE g[k + 1] = step[g[k]]
    <2>1. g[k] \in S /\ <<k, g[k]>> \in M /\ k + 1 \in Nat
      BY <1>8
    <2>2. <<k + 1, step[g[k]]>> \in M
      BY <1>1, <2>1
    <2>3. step[g[k]] \in S
      BY <2>1
    <2> QED
      BY <1>8, <2>1, <2>2, <2>3
  <1> QED
    BY <1>9, <1>10, <1>11 DEF Iterates

-----------------------------------------------------------------------------
(* Chunks *)

\* How many runs of n there are in a list of l, and where run i ends.
Runs(l, n) == (l + n - 1) \div n

RunEnd(l, n, i) == IF i * n < l THEN i * n ELSE l

\* A number of runs is the least that covers the list.
LEMMA RunsCover ==
  ASSUME NEW l \in Nat \ {0}, NEW n \in Nat \ {0}
  PROVE  /\ Runs(l, n) \in Nat \ {0}
         /\ l <= Runs(l, n) * n /\ (Runs(l, n) - 1) * n < l
  <1> DEFINE a == l + n - 1
             q == a \div n
  <1>1. a \in Nat /\ q \in Int /\ q * n <= a /\ a < (q + 1) * n
    OBVIOUS
  <1>2. q > 0
    <2> SUFFICES ASSUME q <= 0 PROVE FALSE
      BY <1>1
    <2> HIDE DEF q, a
    <2>1. q + 1 <= 1 /\ q + 1 \in Int
      BY <1>1
    <2>2. (q + 1) * n <= n
      BY <2>1
    <2>3. a < n
      BY <1>1, <2>2
    <2> QED
      BY <2>3 DEF a
  <1>3. (q + 1) * n = q * n + n /\ (q - 1) * n = q * n - n
    BY <1>1
  <1>4. q * n \in Int
    BY <1>1
  <1>5. l <= q * n /\ (q - 1) * n < l
    BY <1>1, <1>3, <1>4
  <1> QED
    BY <1>1, <1>2, <1>5 DEF Runs

\* Where a list of l is cut in runs: first and last give the ends of each of
\* the m runs, which follow one another and leave nothing out.
Cuts(first, last, m, l) ==
  /\ m \in Nat \ {0}
  /\ first \in [1 .. m -> 1 .. l] /\ last \in [1 .. m -> 1 .. l]
  /\ first[1] = 1
  /\ \A i \in 1 .. m : first[i] <= last[i]
  /\ \A i, j \in 1 .. m : i < j => last[i] < first[j]
  /\ \A x \in 1 .. l : \E i \in 1 .. m : first[i] <= x /\ x <= last[i]

\* chunks are the runs of s.
CutInto(s, chunks, first, last) ==
  /\ Cuts(first, last, Len(chunks), Len(s))
  /\ DOMAIN chunks = 1 .. Len(chunks)
  /\ \A i \in DOMAIN chunks :
       /\ DOMAIN chunks[i] = 1 .. last[i] - first[i] + 1
       /\ \A j \in DOMAIN chunks[i] : chunks[i][j] = s[first[i] + j - 1]

LEMMA Times ==
  ASSUME NEW a \in Nat, NEW b \in Nat, NEW n \in Nat, a <= b
  PROVE  a * n \in Nat /\ b * n \in Nat /\ a * n <= b * n
  <1>1. b - a \in Nat /\ (b - a) * n \in Nat
    OBVIOUS
  <1>2. (b - a) * n = b * n - a * n
    OBVIOUS
  <1>3. a * n \in Nat /\ b * n \in Nat
    OBVIOUS
  <1> QED
    BY <1>1, <1>2, <1>3

LEMMA RunsCut ==
  ASSUME NEW l \in Nat \ {0}, NEW n \in Nat \ {0}
  PROVE  Cuts([i \in 1 .. Runs(l, n) |-> (i - 1) * n + 1],
              [i \in 1 .. Runs(l, n) |-> RunEnd(l, n, i)], Runs(l, n), l)
  <1>1. PICK m \in Nat \ {0} : m = Runs(l, n)
    BY RunsCover
  <1>2. l <= m * n /\ (m - 1) * n < l
    BY <1>1, RunsCover
  <1> DEFINE F(i) == (i - 1) * n + 1
             L(i) == RunEnd(l, n, i)
  <1>3. ASSUME NEW i \in 1 .. m
        PROVE  /\ (i - 1) * n \in Nat /\ i * n \in Nat /\ i * n = (i - 1) * n + n
               /\ (i - 1) * n < l
    <2>1. i - 1 \in Nat /\ m - 1 \in Nat /\ i - 1 <= m - 1
      OBVIOUS
    <2>2. (i - 1) * n \in Nat /\ (m - 1) * n \in Nat /\ (i - 1) * n <= (m - 1) * n
      BY <2>1, Times
    <2>3. i * n \in Nat /\ i * n = (i - 1) * n + n
      OBVIOUS
    <2> QED
      BY <1>2, <2>2, <2>3
  <1>4. ASSUME NEW i \in 1 .. m
        PROVE  F(i) \in 1 .. l /\ L(i) \in 1 .. l /\ F(i) <= L(i)
    <2>1. PICK u \in Nat : u = (i - 1) * n
      BY <1>3
    <2>2. PICK v \in Nat : v = i * n
      BY <1>3
    <2>3. v = u + n /\ u < l
      BY <1>3, <2>1, <2>2
    <2>4. F(i) = u + 1 /\ L(i) = IF v < l THEN v ELSE l
      BY <2>1, <2>2 DEF RunEnd
    <2> HIDE DEF F, L
    <2> QED
      BY <2>3, <2>4
  <1>5. ASSUME NEW i \in 1 .. m, NEW j \in 1 .. m, i < j PROVE L(i) < F(j)
    <2>1. i \in Nat /\ j - 1 \in Nat /\ i <= j - 1
      BY <1>5
    <2>2. i * n \in Nat /\ (j - 1) * n \in Nat /\ i * n <= (j - 1) * n
      BY <2>1, Times
    <2>3. (j - 1) * n < l
      BY <1>3
    <2> QED
      BY <2>2, <2>3 DEF RunEnd
  <1>6. ASSUME NEW x \in 1 .. l PROVE \E i \in 1 .. m : F(i) <= x /\ x <= L(i)
    <2>0. x \in Nat \ {0}
      OBVIOUS
    <2>1. PICK i \in Nat \ {0} : i = Runs(x, n)
      BY <2>0, RunsCover
    <2>2. x <= i * n /\ (i - 1) * n < x
      BY <2>0, <2>1, RunsCover
    <2>3. i <= m
      <3> SUFFICES ASSUME m <= i - 1 PROVE FALSE
        OBVIOUS
      <3>1. m * n \in Nat /\ (i - 1) * n \in Nat /\ m * n <= (i - 1) * n
        BY Times
      <3> QED
        BY <1>2, <2>2, <3>1
    <2>4. (i - 1) * n \in Nat /\ i * n \in Nat
      BY <1>3, <2>3
    <2>5. F(i) <= x /\ x <= L(i)
      <3>1. PICK u \in Nat : u = (i - 1) * n
        BY <2>4
      <3>2. PICK v \in Nat : v = i * n
        BY <2>4
      <3>3. F(i) = u + 1 /\ L(i) = IF v < l THEN v ELSE l
        BY <3>1, <3>2 DEF RunEnd
      <3> HIDE DEF F, L
      <3> QED
        BY <2>2, <3>1, <3>2, <3>3
    <2> HIDE DEF F, L
    <2> QED
      BY <2>3, <2>5
  <1>7. 1 \in 1 .. m /\ F(1) = 1
    OBVIOUS
  <1> DEFINE first == [i \in 1 .. m |-> F(i)]
             last  == [i \in 1 .. m |-> L(i)]
  <1>8. /\ first \in [1 .. m -> 1 .. l] /\ last \in [1 .. m -> 1 .. l]
        /\ \A i \in 1 .. m : first[i] = F(i) /\ last[i] = L(i)
    BY <1>4
  <1> HIDE DEF first, last, F, L
  <1>9. /\ first[1] = 1
        /\ \A i \in 1 .. m : first[i] <= last[i]
    BY <1>4, <1>7, <1>8
  <1>10. \A i, j \in 1 .. m : i < j => last[i] < first[j]
    BY <1>5, <1>8
  <1>11. \A x \in 1 .. l : \E i \in 1 .. m : first[i] <= x /\ x <= last[i]
    BY <1>6, <1>8
  <1>12. Cuts(first, last, m, l)
    BY <1>8, <1>9, <1>10, <1>11 DEF Cuts
  <1> QED
    BY <1>1, <1>12 DEF first, last, F, L

LEMMA ChunksCut ==
  ASSUME NEW A, NEW s \in Seq(A), s # <<>>, NEW n \in Nat \ {0}
  PROVE  /\ \E first, last : CutInto(s, Chunks(s, n), first, last)
         /\ Chunks(s, n) \in Seq(Seq(A))
         /\ Len(s) >= 2 /\ n >= 2 => Len(Chunks(s, n)) < Len(s)
  <1>1. PICK l \in Nat \ {0} : l = Len(s) /\ DOMAIN s = 1 .. l
    BY EmptySeq, LenProperties
  <1>2. PICK m \in Nat \ {0} : m = Runs(l, n)
    BY RunsCover
  <1> DEFINE first == [i \in 1 .. m |-> (i - 1) * n + 1]
             last  == [i \in 1 .. m |-> RunEnd(l, n, i)]
             c == Chunks(s, n)
  <1>3. Cuts(first, last, m, l)
    BY <1>2, RunsCut
  <1>4. c = [i \in 1 .. m |-> SubSeq(s, first[i], last[i])]
    BY <1>1, <1>2 DEF Chunks, Runs, RunEnd
  <1> HIDE DEF first, last, c
  <1>5. ASSUME NEW i \in 1 .. m
        PROVE  /\ c[i] \in Seq(A) /\ DOMAIN c[i] = 1 .. last[i] - first[i] + 1
               /\ \A j \in DOMAIN c[i] : c[i][j] = s[first[i] + j - 1]
    <2>1. PICK x \in 1 .. l : x = first[i]
      BY <1>3 DEF Cuts
    <2>2. PICK y \in 1 .. l : y = last[i]
      BY <1>3 DEF Cuts
    <2>3. x <= y /\ x \in Int /\ y \in Int
      BY <1>3, <2>1, <2>2 DEF Cuts
    <2>4. \A z \in x .. y : s[z] \in A
      BY <1>1, <2>3
    <2>5. /\ SubSeq(s, x, y) \in Seq(A)
          /\ Len(SubSeq(s, x, y)) = IF x <= y THEN y - x + 1 ELSE 0
          /\ \A j \in 1 .. y - x + 1 : SubSeq(s, x, y)[j] = s[x + j - 1]
      BY <2>3, <2>4, SubSeqProperties
    <2>6. DOMAIN SubSeq(s, x, y) = 1 .. y - x + 1
      BY <2>3, <2>5, LenProperties
    <2> QED
      BY <1>4, <2>1, <2>2, <2>5, <2>6
  <1>6. c \in Seq(Seq(A)) /\ Len(c) = m /\ DOMAIN c = 1 .. m
    <2>1. c \in [1 .. m -> Seq(A)]
      BY <1>4, <1>5
    <2> QED
      BY <2>1
  <1>7. CutInto(s, c, first, last)
    BY <1>1, <1>3, <1>5, <1>6 DEF CutInto
  <1>8. ASSUME l >= 2, n >= 2 PROVE m < l
    <2> SUFFICES ASSUME l - 1 <= m - 1 PROVE FALSE
      OBVIOUS
    <2>1. (l - 1) * n \in Nat /\ (m - 1) * n \in Nat /\ (l - 1) * n <= (m - 1) * n
      BY <1>8, Times
    <2>2. (m - 1) * n < l
      BY <1>2, RunsCover
    <2>3. 2 * (l - 1) \in Nat /\ n * (l - 1) \in Nat /\ 2 * (l - 1) <= n * (l - 1)
      BY <1>8, Times
    <2>4. n * (l - 1) = (l - 1) * n
      OBVIOUS
    <2> QED
      BY <1>8, <2>1, <2>2, <2>3, <2>4
  <1> QED
    BY <1>1, <1>6, <1>7, <1>8 DEF c

-----------------------------------------------------------------------------
(* What a tree spans *)

\* The pages of level l that kids refers to, all in D, hold the entries from a
\* to b of e: page p those from lo[p] to hi[p]. They follow one another, and a
\* kid has the key of the first entry of its page.
Row(pages, D, kids, l, a, b, e, lo, hi) ==
  /\ 1 \in DOMAIN kids /\ DOMAIN kids \subseteq Nat
  /\ lo[kids[1].ref] = a
  /\ \A i \in DOMAIN kids :
       /\ kids[i].ref \in D /\ pages[kids[i].ref].level = l
       /\ kids[i].key = e[lo[kids[i].ref]].key
       /\ lo[kids[i].ref] <= hi[kids[i].ref]
       /\ a <= lo[kids[i].ref] /\ hi[kids[i].ref] <= b
  /\ \A i, j \in DOMAIN kids : i < j => hi[kids[i].ref] < lo[kids[j].ref]
  /\ \A x \in a .. b : \E i \in DOMAIN kids : lo[kids[i].ref] <= x /\ x <= hi[kids[i].ref]

\* A leaf with the entries from a to b.
Leaf(kids, a, b, e) ==
  /\ DOMAIN kids = 1 .. b - a + 1
  /\ \A i \in DOMAIN kids : kids[i] = e[a + i - 1]

Spanned(pages, D, p, e, lo, hi) ==
  /\ lo[p] \in Nat \ {0} /\ hi[p] \in Nat /\ pages[p].level \in Nat
  /\ IF pages[p].level = 0 THEN Leaf(pages[p].kids, lo[p], hi[p], e)
     ELSE Row(pages, D, pages[p].kids, pages[p].level - 1, lo[p], hi[p], e, lo, hi)

\* p is the child of a page of D.
HasParent(pages, D, p) ==
  \E q \in D : pages[q].level > 0 /\ \E i \in DOMAIN pages[q].kids : pages[q].kids[i].ref = p

\* The pages of D are a tree with root r that holds the n entries of e.
TreeAt(pages, D, r, e, n, lo, hi) ==
  /\ r \in D
  /\ \A p \in D : /\ Spanned(pages, D, p, e, lo, hi)
                  /\ hi[p] <= n /\ pages[p].level <= pages[r].level
                  /\ p # r => HasParent(pages, D, p)
  /\ lo[r] = 1 /\ hi[r] = n

HoldsTree(pages, D, r, e, n) == \E lo, hi : TreeAt(pages, D, r, e, n, lo, hi)

\* More pages, E, and those of D among them with the same spans.
Extended(pages, D, lo, hi, more, E, lo2, hi2) ==
  \A p \in D : p \in E /\ more[p] = pages[p] /\ lo2[p] = lo[p] /\ hi2[p] = hi[p]

\* They do not disturb a row.
LEMMA RowExtends ==
  ASSUME NEW pages, NEW D, NEW kids, NEW l, NEW a, NEW b, NEW e, NEW lo, NEW hi,
         NEW more, NEW E, NEW lo2, NEW hi2,
         Row(pages, D, kids, l, a, b, e, lo, hi),
         Extended(pages, D, lo, hi, more, E, lo2, hi2)
  PROVE  Row(more, E, kids, l, a, b, e, lo2, hi2)
  <1>1. \A i \in DOMAIN kids :
          /\ kids[i].ref \in D /\ kids[i].ref \in E
          /\ more[kids[i].ref] = pages[kids[i].ref]
          /\ lo2[kids[i].ref] = lo[kids[i].ref] /\ hi2[kids[i].ref] = hi[kids[i].ref]
    BY DEF Row, Extended
  <1>2. 1 \in DOMAIN kids /\ lo2[kids[1].ref] = a
    BY <1>1 DEF Row
  <1>3. \A i \in DOMAIN kids :
          /\ kids[i].ref \in E /\ more[kids[i].ref].level = l
          /\ kids[i].key = e[lo2[kids[i].ref]].key
          /\ lo2[kids[i].ref] <= hi2[kids[i].ref]
          /\ a <= lo2[kids[i].ref] /\ hi2[kids[i].ref] <= b
    BY <1>1 DEF Row
  <1>4. \A i, j \in DOMAIN kids : i < j => hi2[kids[i].ref] < lo2[kids[j].ref]
    BY <1>1 DEF Row
  <1>5. \A x \in a .. b : \E i \in DOMAIN kids : lo2[kids[i].ref] <= x /\ x <= hi2[kids[i].ref]
    BY <1>1 DEF Row
  <1>6. DOMAIN kids \subseteq Nat
    BY DEF Row
  <1> QED
    BY <1>2, <1>3, <1>4, <1>5, <1>6 DEF Row

LEMMA SpannedExtends ==
  ASSUME NEW pages, NEW D, NEW p \in D, NEW e, NEW lo, NEW hi,
         NEW more, NEW E, NEW lo2, NEW hi2,
         Spanned(pages, D, p, e, lo, hi), Extended(pages, D, lo, hi, more, E, lo2, hi2)
  PROVE  Spanned(more, E, p, e, lo2, hi2)
  <1>1. more[p] = pages[p] /\ lo2[p] = lo[p] /\ hi2[p] = hi[p]
    BY DEF Extended
  <1>2. CASE pages[p].level = 0
    BY <1>1, <1>2 DEF Spanned
  <1>3. CASE pages[p].level # 0
    <2>1. Row(pages, D, pages[p].kids, pages[p].level - 1, lo[p], hi[p], e, lo, hi)
      BY <1>3 DEF Spanned
    <2>2. Row(more, E, pages[p].kids, pages[p].level - 1, lo[p], hi[p], e, lo2, hi2)
      BY <2>1, RowExtends
    <2> QED
      BY <1>1, <1>3, <2>2 DEF Spanned
  <1> QED
    BY <1>2, <1>3

\* A function on the first n numbers is a list of n.
LEMMA ListOf ==
  ASSUME NEW S, NEW n \in Nat, NEW f \in [1 .. n -> S]
  PROVE  f \in Seq(S) /\ Len(f) = n
  OBVIOUS

\* A list followed by another.
LEMMA Joined ==
  ASSUME NEW S, NEW p \in Seq(S), NEW q \in Seq(S)
  PROVE  /\ \A i \in 1 .. Len(p) : (p \o q)[i] = p[i]
         /\ \A i \in 1 .. Len(q) : (p \o q)[Len(p) + i] = q[i]
  <1>1. PICK a \in Nat : a = Len(p)
    BY LenProperties
  <1>2. PICK b \in Nat : b = Len(q)
    BY LenProperties
  <1>3. \A i \in 1 .. a + b : (p \o q)[i] = IF i <= a THEN p[i] ELSE q[i - a]
    BY <1>1, <1>2, ConcatProperties
  <1>4. ASSUME NEW i \in 1 .. a PROVE (p \o q)[i] = p[i]
    <2>1. i \in 1 .. a + b /\ i <= a
      OBVIOUS
    <2> QED
      BY <1>3, <2>1
  <1>5. ASSUME NEW i \in 1 .. b PROVE (p \o q)[a + i] = q[i]
    <2>1. PICK k \in 1 .. a + b : k = a + i
      OBVIOUS
    <2>2. ~ (k <= a) /\ k - a = i
      BY <2>1
    <2>3. (p \o q)[k] = q[k - a]
      BY <1>3, <2>2
    <2> QED
      BY <2>1, <2>2, <2>3
  <1> QED
    BY <1>1, <1>2, <1>4, <1>5

\* The kids from x to y.
IsRun(run, kids, x, y) ==
  /\ x \in DOMAIN kids /\ y \in DOMAIN kids /\ x <= y /\ \A z \in x .. y : z \in DOMAIN kids
  /\ DOMAIN run = 1 .. y - x + 1 /\ \A i \in DOMAIN run : run[i] = kids[x + i - 1]

\* A run of a row is a row.
LEMMA RowCut ==
  ASSUME NEW pages, NEW D, NEW kids, NEW l, NEW a \in Nat, NEW b \in Nat, NEW e,
         NEW lo \in [D -> Nat], NEW hi \in [D -> Nat], NEW run, NEW x, NEW y,
         Row(pages, D, kids, l, a, b, e, lo, hi), IsRun(run, kids, x, y)
  PROVE  Row(pages, D, run, l, lo[kids[x].ref], hi[kids[y].ref], e, lo, hi)
  <1> USE DEF IsRun
  <1>1. x \in Nat /\ y \in Nat
    BY DEF Row
  <1>2. PICK A : A = [i \in DOMAIN kids |-> lo[kids[i].ref]]
    OBVIOUS
  <1>3. PICK B : B = [i \in DOMAIN kids |-> hi[kids[i].ref]]
    OBVIOUS
  <1>4. \A i \in DOMAIN kids : /\ A[i] \in Nat /\ B[i] \in Nat /\ A[i] <= B[i]
                               /\ A[i] = lo[kids[i].ref] /\ B[i] = hi[kids[i].ref] /\ i \in Nat
    BY <1>2, <1>3 DEF Row
  <1>5. \A i, j \in DOMAIN kids : i < j => B[i] < A[j]
    BY <1>4 DEF Row
  <1>6. \A i \in DOMAIN run : /\ x + i - 1 \in DOMAIN kids /\ run[i] = kids[x + i - 1]
                              /\ x <= x + i - 1 /\ x + i - 1 <= y /\ i \in Nat
    BY <1>1
  <1>7. \A i \in x .. y : /\ i \in DOMAIN kids
                          /\ A[x] <= A[i] /\ B[i] <= B[y] /\ A[i] <= B[i]
    <2> SUFFICES ASSUME NEW i \in x .. y
                 PROVE  i \in DOMAIN kids /\ A[x] <= A[i] /\ B[i] <= B[y] /\ A[i] <= B[i]
      OBVIOUS
    <2>1. i \in DOMAIN kids
      OBVIOUS
    <2>2. x = i \/ (x < i /\ A[x] <= B[x] /\ B[x] < A[i])
      BY <1>1, <1>4, <1>5, <2>1
    <2>3. y = i \/ (i < y /\ B[i] < A[y] /\ A[y] <= B[y])
      BY <1>1, <1>4, <1>5, <2>1
    <2>4. /\ A[x] \in Nat /\ A[i] \in Nat /\ A[y] \in Nat
          /\ B[x] \in Nat /\ B[i] \in Nat /\ B[y] \in Nat /\ A[i] <= B[i]
      BY <1>4, <2>1
    <2> QED
      BY <2>1, <2>2, <2>3, <2>4
  <1>8. 1 \in DOMAIN run /\ DOMAIN run \subseteq Nat /\ run[1] = kids[x]
    BY <1>1
  <1>9. ASSUME NEW i \in DOMAIN run
        PROVE  /\ run[i].ref \in D /\ pages[run[i].ref].level = l
               /\ run[i].key = e[lo[run[i].ref]].key
               /\ lo[run[i].ref] <= hi[run[i].ref]
               /\ lo[kids[x].ref] <= lo[run[i].ref] /\ hi[run[i].ref] <= hi[kids[y].ref]
    <2>1. PICK z \in x .. y : z = x + i - 1 /\ z \in DOMAIN kids /\ run[i] = kids[z]
      BY <1>1, <1>6
    <2>2. /\ kids[z].ref \in D /\ pages[kids[z].ref].level = l
          /\ kids[z].key = e[lo[kids[z].ref]].key
      BY <2>1 DEF Row
    <2>3. A[x] <= A[z] /\ B[z] <= B[y] /\ A[z] <= B[z]
      BY <1>7
    <2> QED
      BY <1>4, <2>1, <2>2, <2>3
  <1>10. ASSUME NEW i \in DOMAIN run, NEW j \in DOMAIN run, i < j
         PROVE  hi[run[i].ref] < lo[run[j].ref]
    <2>1. PICK u \in DOMAIN kids : u = x + i - 1 /\ run[i] = kids[u]
      BY <1>6
    <2>2. PICK w \in DOMAIN kids : w = x + j - 1 /\ run[j] = kids[w]
      BY <1>6
    <2>3. i \in Nat /\ j \in Nat
      BY <1>6
    <2>4. u < w
      BY <1>1, <1>10, <2>1, <2>2, <2>3
    <2>5. B[u] < A[w]
      BY <1>5, <2>4
    <2> QED
      BY <1>4, <2>1, <2>2, <2>5
  <1>11. ASSUME NEW z \in lo[kids[x].ref] .. hi[kids[y].ref]
         PROVE  \E i \in DOMAIN run : lo[run[i].ref] <= z /\ z <= hi[run[i].ref]
    <2>1. z \in Nat /\ A[x] <= z /\ z <= B[y]
      BY <1>4
    <2>2. z \in a .. b
      <3>1. a <= A[x] /\ B[y] <= b
        BY <1>4 DEF Row
      <3> QED
        BY <1>4, <2>1, <3>1
    <2>3. PICK i \in DOMAIN kids : A[i] <= z /\ z <= B[i]
      BY <1>4, <2>2 DEF Row
    <2>4. ~ (i < x) /\ ~ (y < i)
      <3>1. i < x => B[i] < A[x]
        BY <1>5
      <3>2. y < i => B[y] < A[i]
        BY <1>5
      <3>3. A[i] \in Nat /\ B[i] \in Nat /\ A[x] \in Nat /\ B[y] \in Nat
        BY <1>4
      <3> QED
        BY <2>1, <2>3, <3>1, <3>2, <3>3
    <2>5. i \in Nat
      BY <1>4
    <2>6. i - x + 1 \in DOMAIN run /\ x + (i - x + 1) - 1 = i
      BY <1>1, <2>4, <2>5
    <2>7. run[i - x + 1] = kids[i]
      BY <2>6
    <2> QED
      BY <1>4, <2>3, <2>6, <2>7
  <1> QED
    BY <1>8, <1>9, <1>10, <1>11 DEF Row

\* The spans from A[i] to B[i] share out 1 .. n between l of them, in order.
SharedOut(A, B, l, n) ==
  /\ A \in [1 .. l -> Nat] /\ B \in [1 .. l -> Nat]
  /\ A[1] = 1
  /\ \A i \in 1 .. l : A[i] <= B[i] /\ 1 <= A[i] /\ B[i] <= n
  /\ \A i, j \in 1 .. l : i < j => B[i] < A[j]
  /\ \A x \in 1 .. n : \E i \in 1 .. l : A[i] <= x /\ x <= B[i]

\* Joined in runs, the spans share it out again.
LEMMA SpansJoin ==
  ASSUME NEW n \in Nat, NEW l \in Nat, NEW m \in Nat, NEW first, NEW last, Cuts(first, last, m, l),
         NEW A, NEW B, SharedOut(A, B, l, n),
         NEW A2, A2 = [i \in 1 .. m |-> A[first[i]]], NEW B2, B2 = [i \in 1 .. m |-> B[last[i]]]
  PROVE  SharedOut(A2, B2, m, n)
  <1>1. \A i \in 1 .. m : first[i] \in 1 .. l /\ last[i] \in 1 .. l /\ first[i] <= last[i]
    BY DEF Cuts
  <1>2. m >= 1 /\ first[1] = 1
    BY DEF Cuts
  <1>3. \A i \in 1 .. l : A[i] \in Nat /\ B[i] \in Nat /\ A[i] <= B[i]
    BY DEF SharedOut
  <1>4. ASSUME NEW i \in 1 .. l, NEW j \in 1 .. l, i <= j PROVE A[i] <= A[j] /\ B[i] <= B[j]
    <2>1. i = j \/ B[i] < A[j]
      BY <1>4 DEF SharedOut
    <2>2. /\ A[i] \in Nat /\ B[i] \in Nat /\ A[j] \in Nat /\ B[j] \in Nat
          /\ A[i] <= B[i] /\ A[j] <= B[j]
      BY <1>3
    <2> QED
      BY <2>1, <2>2
  <1>5. \A i \in 1 .. m : A2[i] = A[first[i]] /\ B2[i] = B[last[i]] /\ A2[i] \in Nat /\ B2[i] \in Nat
    BY <1>1, <1>3
  <1>6. A2 \in [1 .. m -> Nat] /\ B2 \in [1 .. m -> Nat]
    BY <1>1, <1>3
  <1>7. A2[1] = 1
    <2>1. 1 \in 1 .. m /\ A[1] = 1
      BY <1>2 DEF SharedOut
    <2> QED
      BY <1>2, <1>5, <2>1
  <1>8. ASSUME NEW i \in 1 .. m PROVE A2[i] <= B2[i] /\ 1 <= A2[i] /\ B2[i] <= n
    <2>1. PICK x \in 1 .. l : x = first[i]
      BY <1>1
    <2>2. PICK y \in 1 .. l : y = last[i]
      BY <1>1
    <2>3. x <= y
      BY <1>1, <2>1, <2>2
    <2>4. A[x] <= B[x] /\ B[x] <= B[y]
      BY <1>3, <1>4, <2>3
    <2>5. 1 <= A[x] /\ B[y] <= n
      BY DEF SharedOut
    <2>6. A[x] \in Nat /\ B[x] \in Nat /\ B[y] \in Nat
      BY <1>3
    <2> QED
      <3>1. A2[i] = A[x] /\ B2[i] = B[y]
        BY <1>5, <2>1, <2>2
      <3>2. A[x] <= B[y]
        BY <2>4, <2>6
      <3> QED
        BY <2>5, <3>1, <3>2
  <1>9. ASSUME NEW i \in 1 .. m, NEW j \in 1 .. m, i < j PROVE B2[i] < A2[j]
    <2>1. last[i] \in 1 .. l /\ first[j] \in 1 .. l /\ last[i] < first[j]
      BY <1>1, <1>9 DEF Cuts
    <2>2. B[last[i]] < A[first[j]]
      BY <2>1 DEF SharedOut
    <2> QED
      BY <1>5, <2>2
  <1>10. ASSUME NEW x \in 1 .. n PROVE \E i \in 1 .. m : A2[i] <= x /\ x <= B2[i]
    <2>1. PICK z \in 1 .. l : A[z] <= x /\ x <= B[z]
      BY DEF SharedOut
    <2>2. PICK i \in 1 .. m : first[i] <= z /\ z <= last[i]
      BY DEF Cuts
    <2>3. PICK u \in 1 .. l : u = first[i]
      BY <1>1
    <2>4. PICK v \in 1 .. l : v = last[i]
      BY <1>1
    <2>5. A[u] <= A[z] /\ B[z] <= B[v]
      BY <1>4, <2>2, <2>3, <2>4
    <2>6. A[u] \in Nat /\ A[z] \in Nat /\ B[z] \in Nat /\ B[v] \in Nat /\ x \in Nat
      BY <1>3
    <2> QED
      <3>1. A2[i] = A[u] /\ B2[i] = B[v]
        BY <1>5, <2>3, <2>4
      <3>2. A[u] <= x /\ x <= B[v]
        BY <2>1, <2>5, <2>6
      <3> QED
        BY <3>1, <3>2
  <1> QED
    BY <1>6, <1>7, <1>8, <1>9, <1>10 DEF SharedOut

\* The m kids refer to pages of level l, with the keys of their first entries,
\* and the spans of those are A and B.
Refers(pages, D, kids, l, e, lo, hi, m, A, B) ==
  /\ m \in Nat \ {0} /\ DOMAIN kids = 1 .. m
  /\ A \in [1 .. m -> Nat] /\ B \in [1 .. m -> Nat]
  /\ \A i \in 1 .. m : /\ kids[i].ref \in D /\ pages[kids[i].ref].level = l
                       /\ kids[i].key = e[lo[kids[i].ref]].key
                       /\ A[i] = lo[kids[i].ref] /\ B[i] = hi[kids[i].ref]

LEMMA RowSpans ==
  ASSUME NEW pages, NEW D, NEW kids, NEW l, NEW n \in Nat, NEW e, NEW lo, NEW hi,
         NEW m, NEW A, NEW B, Refers(pages, D, kids, l, e, lo, hi, m, A, B)
  PROVE  Row(pages, D, kids, l, 1, n, e, lo, hi) <=> SharedOut(A, B, m, n)
  <1>1. m \in Nat \ {0} /\ DOMAIN kids = 1 .. m
    BY DEF Refers
  <1>2. \A i \in 1 .. m : /\ kids[i].ref \in D /\ pages[kids[i].ref].level = l
                          /\ kids[i].key = e[lo[kids[i].ref]].key
    BY DEF Refers
  <1>3. \A i \in 1 .. m : A[i] = lo[kids[i].ref] /\ B[i] = hi[kids[i].ref]
    BY DEF Refers
  <1>4. A \in [1 .. m -> Nat] /\ B \in [1 .. m -> Nat]
    BY DEF Refers
  <1>5. 1 \in 1 .. m /\ 1 .. m \subseteq Nat
    BY <1>1
  <1>6. ASSUME Row(pages, D, kids, l, 1, n, e, lo, hi) PROVE SharedOut(A, B, m, n)
    <2>1. A[1] = 1
      BY <1>1, <1>3, <1>5, <1>6 DEF Row
    <2>2. \A i \in 1 .. m : A[i] <= B[i] /\ 1 <= A[i] /\ B[i] <= n
      BY <1>1, <1>3, <1>6 DEF Row
    <2>3. ASSUME NEW i \in 1 .. m, NEW j \in 1 .. m, i < j PROVE B[i] < A[j]
      <3>1. hi[kids[i].ref] < lo[kids[j].ref]
        BY <1>1, <1>6, <2>3 DEF Row
      <3> QED
        BY <1>3, <3>1
    <2>4. \A x \in 1 .. n : \E i \in 1 .. m : A[i] <= x /\ x <= B[i]
      BY <1>1, <1>3, <1>6 DEF Row
    <2> QED
      BY <1>4, <2>1, <2>2, <2>3, <2>4 DEF SharedOut
  <1>7. ASSUME SharedOut(A, B, m, n) PROVE Row(pages, D, kids, l, 1, n, e, lo, hi)
    <2>1. lo[kids[1].ref] = 1
      BY <1>3, <1>5, <1>7 DEF SharedOut
    <2>2. \A i \in 1 .. m : /\ lo[kids[i].ref] <= hi[kids[i].ref]
                            /\ 1 <= lo[kids[i].ref] /\ hi[kids[i].ref] <= n
      BY <1>3, <1>7 DEF SharedOut
    <2>3. \A i, j \in 1 .. m : i < j => hi[kids[i].ref] < lo[kids[j].ref]
      BY <1>3, <1>7 DEF SharedOut
    <2>4. \A x \in 1 .. n : \E i \in 1 .. m : lo[kids[i].ref] <= x /\ x <= hi[kids[i].ref]
      BY <1>3, <1>7 DEF SharedOut
    <2> QED
      BY <1>1, <1>2, <1>5, <2>1, <2>2, <2>3, <2>4, Zenon DEF Row
  <1> QED
    BY <1>6, <1>7

-----------------------------------------------------------------------------
(* The loop over the levels *)

Entry == [key : Nat, val : Tree]
Ref == [key : Nat, ref : Nat]
Kid(level) == IF level = 0 THEN Entry ELSE Ref
Page == {p \in [level : Nat, kids : Seq(Entry) \cup Seq(Ref)] : p.kids \in Seq(Kid(p.level))}

\* The pages so far are sound: the last level is a row over all entries, at
\* the end of the pages, and the others have a parent.
Sound(s, e, n, lo, hi, N, M) ==
  /\ N \in Nat /\ M \in Nat /\ Len(s.pages) = N /\ Len(s.refs) = M
  /\ lo \in [1 .. N -> Nat] /\ hi \in [1 .. N -> Nat]
  /\ \A p \in 1 .. N : /\ Spanned(s.pages, 1 .. N, p, e, lo, hi)
                       /\ hi[p] <= n /\ s.pages[p].level <= s.level
  /\ Row(s.pages, 1 .. N, s.refs, s.level, 1, n, e, lo, hi)
  /\ M <= N /\ \A i \in 1 .. M : s.refs[i].ref = N - M + i
  /\ \A p \in 1 .. N - M : HasParent(s.pages, 1 .. N, p)

Building(e, n) ==
  {s \in [pages : Seq(Page), refs : Seq(Ref), level : Nat] :
     \E lo, hi, N, M : Sound(s, e, n, lo, hi, N, M)}

\* The entries to write: in the order of their keys, which are different.
Listing(e, n) ==
  /\ n \in Nat /\ e \in [1 .. n -> Entry]
  /\ \A i, j \in 1 .. n : i < j => e[i].key < e[j].key

\* The m chunks of c as pages of a level, behind N others, and the refs to them.
OnLevel(c, m, level, N) ==
  /\ PagesOf(c, level) \in Seq(Page) /\ Len(PagesOf(c, level)) = m
  /\ \A i \in 1 .. m : PagesOf(c, level)[i] = [level |-> level, kids |-> c[i]]
  /\ RefsOf(c, N, "first") \in Seq(Ref) /\ Len(RefsOf(c, N, "first")) = m
  /\ \A i \in 1 .. m : RefsOf(c, N, "first")[i] = [key |-> c[i][1].key, ref |-> N + i]

LEMMA PagesOfChunks ==
  ASSUME NEW c, NEW m \in Nat, NEW level \in Nat, NEW N \in Nat, DOMAIN c = 1 .. m,
         \A i \in 1 .. m : c[i] \in Seq(Kid(level)) /\ 1 \in DOMAIN c[i]
  PROVE  OnLevel(c, m, level, N)
  <1>1. DOMAIN c = 1 .. m
    OBVIOUS
  <1>2. ASSUME NEW i \in 1 .. m PROVE c[i] \in Seq(Kid(level)) /\ c[i][1].key \in Nat
    <2>2. c[i] \in Seq(Kid(level))
      OBVIOUS
    <2>3. c[i][1] \in Kid(level)
      BY <1>1, <2>2, ElementOfSeq, LenProperties
    <2> QED
      BY <2>2, <2>3 DEF Kid, Entry, Ref
  <1>3. PagesOf(c, level) \in [1 .. m -> Page]
    <2> SUFFICES ASSUME NEW i \in 1 .. m PROVE [level |-> level, kids |-> c[i]] \in Page
      BY <1>1 DEF PagesOf
    <2>1. c[i] \in Seq(Kid(level))
      BY <1>2
    <2>2. c[i] \in Seq(Entry) \cup Seq(Ref)
      BY <2>1 DEF Kid
    <2> QED
      BY <2>1, <2>2 DEF Page
  <1>4. \A i \in 1 .. m : PagesOf(c, level)[i] = [level |-> level, kids |-> c[i]]
    BY <1>1 DEF PagesOf
  <1>5. RefsOf(c, N, "first") = [i \in 1 .. m |-> [key |-> c[i][1].key, ref |-> N + i]]
    BY <1>1 DEF RefsOf, Separator
  <1>6. RefsOf(c, N, "first") \in [1 .. m -> Ref]
    <2>1. \A i \in 1 .. m : [key |-> c[i][1].key, ref |-> N + i] \in Ref
      BY <1>2 DEF Ref
    <2> QED
      BY <1>5, <2>1
  <1>7. PagesOf(c, level) \in Seq(Page) /\ Len(PagesOf(c, level)) = m
    <2>1. PICK f \in [1 .. m -> Page] : f = PagesOf(c, level)
      BY <1>3
    <2>2. f \in Seq(Page) /\ Len(f) = m
      BY ListOf
    <2> QED
      BY <2>1, <2>2
  <1>8. RefsOf(c, N, "first") \in Seq(Ref) /\ Len(RefsOf(c, N, "first")) = m
    <2>1. PICK f \in [1 .. m -> Ref] : f = RefsOf(c, N, "first")
      BY <1>6
    <2>2. f \in Seq(Ref) /\ Len(f) = m
      BY ListOf
    <2> QED
      BY <2>1, <2>2
  <1> QED
    BY <1>4, <1>5, <1>7, <1>8 DEF OnLevel

\* One level more is sound too, and it is shorter.
LEMMA LevelSound ==
  ASSUME NEW e, NEW n \in Nat, NEW s \in Building(e, n), Len(s.refs) # 1
  PROVE  /\ AddLevel(s, "first") \in Building(e, n)
         /\ Len(AddLevel(s, "first").refs) < Len(s.refs)
  <1>1. s \in [pages : Seq(Page), refs : Seq(Ref), level : Nat]
    BY DEF Building
  <1>2. PICK lo, hi, N, M : Sound(s, e, n, lo, hi, N, M)
    BY DEF Building
  <1>3. PICK P \in Seq(Page) : P = s.pages
    BY <1>1
  <1>4. PICK R \in Seq(Ref) : R = s.refs
    BY <1>1
  <1>5. PICK L \in Nat : L = s.level
    BY <1>1
  <1>6. /\ N \in Nat /\ M \in Nat /\ Len(P) = N /\ DOMAIN P = 1 .. N /\ Len(R) = M /\ DOMAIN R = 1 .. M
        /\ M <= N
    BY <1>2, <1>3, <1>4, LenProperties DEF Sound
  <1>7. lo \in [1 .. N -> Nat] /\ hi \in [1 .. N -> Nat]
    BY <1>2 DEF Sound
  <1>8. \A p \in 1 .. N : Spanned(P, 1 .. N, p, e, lo, hi) /\ hi[p] <= n /\ P[p].level <= L
    BY <1>2, <1>3, <1>5 DEF Sound
  <1>9. Row(P, 1 .. N, R, L, 1, n, e, lo, hi)
    BY <1>2, <1>3, <1>4, <1>5 DEF Sound
  <1>10. \A i \in 1 .. M : R[i].ref = N - M + i
    BY <1>2, <1>4 DEF Sound
  <1>11. \A p \in 1 .. N - M : HasParent(P, 1 .. N, p)
    BY <1>2, <1>3 DEF Sound
  <1>12. M >= 2 /\ R # <<>>
    BY <1>4, <1>6, <1>9, EmptySeq DEF Row
  <1>0. PICK c : c = Chunks(R, MaxNonleaf)
    OBVIOUS
  <1>13. MaxNonleaf \in Nat \ {0} /\ MaxNonleaf >= 2
    BY BTreeAssumption
  <1>14. c \in Seq(Seq(Ref)) /\ Len(c) < M /\ \E first, last : CutInto(R, c, first, last)
    BY <1>0, <1>6, <1>12, <1>13, ChunksCut
  <1>15. AddLevel(s, "first") = Built(P \o PagesOf(c, L + 1), RefsOf(c, N, "first"), L + 1)
    BY <1>0, <1>3, <1>4, <1>5, <1>6, <1>12 DEF AddLevel
  <1>16. PICK first, last : CutInto(R, c, first, last)
    BY <1>14
  <1>17. PICK m \in Nat : m = Len(c) /\ DOMAIN c = 1 .. m /\ m < M
    BY <1>14, LenProperties
  <1>18. Cuts(first, last, m, M)
    BY <1>6, <1>16, <1>17 DEF CutInto
  <1>19. \A i \in 1 .. m : /\ first[i] \in 1 .. M /\ last[i] \in 1 .. M /\ first[i] <= last[i]
                           /\ DOMAIN c[i] = 1 .. last[i] - first[i] + 1
                           /\ \A j \in DOMAIN c[i] : c[i][j] = R[first[i] + j - 1]
    BY <1>16, <1>17, <1>18 DEF CutInto, Cuts
  <1>M. M \in Nat
    BY <1>6
  <1>20. ASSUME NEW i \in 1 .. m PROVE 1 \in DOMAIN c[i] /\ c[i][1] = R[first[i]]
    <2>1. PICK x \in 1 .. M : x = first[i]
      BY <1>19
    <2>2. PICK y \in 1 .. M : y = last[i] /\ x <= y
      BY <1>19, <2>1
    <2>3. DOMAIN c[i] = 1 .. y - x + 1 /\ \A j \in DOMAIN c[i] : c[i][j] = R[x + j - 1]
      BY <1>19, <2>1, <2>2
    <2>4. 1 \in 1 .. y - x + 1 /\ x + 1 - 1 = x
      BY <1>M, <2>2
    <2>5. c[i][1] = R[x + 1 - 1]
      BY <2>3, <2>4
    <2> QED
      BY <2>1, <2>3, <2>4, <2>5
  <1> PICK H \in Nat : H = L + 1
    OBVIOUS
  <1>21. \A i \in 1 .. m : c[i] \in Seq(Kid(H)) /\ 1 \in DOMAIN c[i]
    <2> SUFFICES ASSUME NEW i \in 1 .. m PROVE c[i] \in Seq(Kid(H))
      BY <1>20
    <2>1. Kid(H) = Ref
      BY DEF Kid
    <2>2. c[i] \in Seq(Ref)
      BY <1>14, <1>17
    <2> QED
      BY <2>1, <2>2
  <1>22. OnLevel(c, m, H, N)
    <2>1. N \in Nat /\ DOMAIN c = 1 .. m
      BY <1>6, <1>17
    <2> QED
      BY <1>21, <2>1, PagesOfChunks
  <1>23. PICK Q \in Seq(Page) : Q = PagesOf(c, H)
    BY <1>22 DEF OnLevel
  <1>24. PICK T \in Seq(Ref) : T = RefsOf(c, N, "first")
    BY <1>22 DEF OnLevel
  <1>25. /\ Len(Q) = m /\ \A i \in 1 .. m : Q[i] = [level |-> H, kids |-> c[i]]
         /\ Len(T) = m /\ \A i \in 1 .. m : T[i] = [key |-> c[i][1].key, ref |-> N + i]
    BY <1>22, <1>23, <1>24 DEF OnLevel
  <1>26. PICK W \in Seq(Page) : W = P \o Q /\ Len(W) = Len(P) + Len(Q)
    BY ConcatProperties
  <1>27. Len(W) = N + m /\ DOMAIN W = 1 .. N + m
    <2>1. DOMAIN W = 1 .. Len(W)
      BY LenProperties
    <2> QED
      BY <1>6, <1>25, <1>26, <2>1
  <1>28. /\ \A p \in 1 .. N : W[p] = P[p]
         /\ \A i \in 1 .. m : W[N + i] = [level |-> H, kids |-> c[i]]
    <2>1. \A p \in 1 .. N + m : W[p] = IF p <= N THEN P[p] ELSE Q[p - N]
      BY <1>6, <1>17, <1>25, <1>26, ConcatProperties
    <2>2. \A i \in 1 .. m : N + i \in 1 .. N + m /\ ~ (N + i <= N) /\ (N + i) - N = i
      BY <1>6, <1>17
    <2>3. \A p \in 1 .. N : p \in 1 .. N + m /\ p <= N
      BY <1>6, <1>17
    <2>4. \A i \in 1 .. m : W[N + i] = Q[i]
      BY <2>1, <2>2
    <2> QED
      BY <1>25, <2>1, <2>3, <2>4
  <1>c. ASSUME NEW i \in 1 .. m
        PROVE  /\ W[N + i].level = H /\ W[N + i].kids = c[i]
               /\ T[i].ref = N + i /\ T[i].key = c[i][1].key
    <2>1. PICK w : w = W[N + i]
      OBVIOUS
    <2>2. w = [level |-> H, kids |-> c[i]]
      BY <1>28, <2>1
    <2>3. T[i] = [key |-> c[i][1].key, ref |-> N + i]
      BY <1>25
    <2> QED
      BY <2>1, <2>2, <2>3
  <1>29. AddLevel(s, "first") = [pages |-> W, refs |-> T, level |-> H]
    BY <1>15, <1>23, <1>24, <1>26 DEF Built
  <1>a. PICK A : A = [i \in 1 .. M |-> lo[R[i].ref]]
    OBVIOUS
  <1>b. PICK B : B = [i \in 1 .. M |-> hi[R[i].ref]]
    OBVIOUS
  <1> DEFINE lo2 == [p \in 1 .. N + m |-> IF p <= N THEN lo[p] ELSE A[first[p - N]]]
             hi2 == [p \in 1 .. N + m |-> IF p <= N THEN hi[p] ELSE B[last[p - N]]]
  <1>30. \A i \in 1 .. M : R[i].ref \in 1 .. N /\ P[R[i].ref].level = L
                           /\ R[i].key = e[lo[R[i].ref]].key
    BY <1>6, <1>9 DEF Row
  <1>31. /\ A \in [1 .. M -> Nat] /\ B \in [1 .. M -> Nat]
         /\ \A i \in 1 .. M : A[i] = lo[R[i].ref] /\ B[i] = hi[R[i].ref]
    BY <1>7, <1>30, <1>a, <1>b
  <1>32. SharedOut(A, B, M, n)
    <2>1. M >= 1 /\ M \in Nat /\ DOMAIN R = 1 .. M
      BY <1>6, <1>12
    <2> HIDE DEF lo2, hi2
    <2>2. Refers(P, 1 .. N, R, L, e, lo, hi, M, A, B)
      BY <1>30, <1>31, <2>1 DEF Refers
    <2>3. Row(P, 1 .. N, R, L, 1, n, e, lo, hi) <=> SharedOut(A, B, M, n)
      BY <2>2, RowSpans
    <2> QED
      BY <1>9, <2>3
  <1>33. /\ \A p \in 1 .. N : lo2[p] = lo[p] /\ hi2[p] = hi[p]
         /\ \A i \in 1 .. m : lo2[N + i] = A[first[i]] /\ hi2[N + i] = B[last[i]]
    <2>1. \A i \in 1 .. m : N + i \in 1 .. N + m /\ ~ (N + i <= N) /\ (N + i) - N = i
      BY <1>6, <1>17
    <2>2. \A p \in 1 .. N : p \in 1 .. N + m /\ p <= N
      BY <1>6, <1>17
    <2> QED
      BY <2>1, <2>2
  <1>34. \A p \in 1 .. N + m : p \in 1 .. N \/ \E i \in 1 .. m : p = N + i
    <2> SUFFICES ASSUME NEW p \in 1 .. N + m, p > N PROVE \E i \in 1 .. m : p = N + i
      BY <1>6, <1>17
    <2>1. p - N \in 1 .. m /\ p = N + (p - N)
      BY <1>6, <1>17
    <2> QED
      BY <2>1
  <1>35. lo2 \in [1 .. N + m -> Nat] /\ hi2 \in [1 .. N + m -> Nat]
    <2>1. \A p \in 1 .. N + m : lo2[p] \in Nat /\ hi2[p] \in Nat
      <3> SUFFICES ASSUME NEW p \in 1 .. N + m PROVE lo2[p] \in Nat /\ hi2[p] \in Nat
        OBVIOUS
      <3>1. CASE p \in 1 .. N
        BY <1>7, <1>33, <3>1
      <3>2. CASE \E i \in 1 .. m : p = N + i
        <4>1. PICK i \in 1 .. m : p = N + i
          BY <3>2
        <4>2. lo2[p] = A[first[i]] /\ hi2[p] = B[last[i]]
          BY <1>33, <4>1
        <4>3. first[i] \in 1 .. M /\ last[i] \in 1 .. M
          BY <1>19
        <4> HIDE DEF lo2, hi2
        <4> QED
          BY <1>31, <4>2, <4>3
      <3> QED
        BY <1>34, <3>1, <3>2
    <2> QED
      BY <2>1
  <1> HIDE DEF lo2, hi2
  <1> DEFINE D2 == 1 .. N + m
  <1>36. \A p \in 1 .. N : p \in D2 /\ W[p] = P[p] /\ lo2[p] = lo[p] /\ hi2[p] = hi[p]
    BY <1>6, <1>17, <1>28, <1>33
  <1>37. ASSUME NEW i \in 1 .. m PROVE N + i \in D2
    BY <1>6, <1>17
  <1> HIDE DEF D2
  <1>38. Extended(P, 1 .. N, lo, hi, W, D2, lo2, hi2)
    BY <1>36 DEF Extended
  <1>39. \A p \in 1 .. N : Spanned(W, D2, p, e, lo2, hi2)
    BY <1>8, <1>38, SpannedExtends
  <1>40. ASSUME NEW i \in 1 .. m PROVE Spanned(W, D2, N + i, e, lo2, hi2) /\ hi2[N + i] <= n
    <2>1. PICK x \in 1 .. M : x = first[i]
      BY <1>19
    <2>2. PICK y \in 1 .. M : y = last[i]
      BY <1>19
    <2>3. PICK run : run = c[i]
      OBVIOUS
    <2>4. /\ x <= y /\ DOMAIN run = 1 .. y - x + 1
          /\ \A j \in DOMAIN run : run[j] = R[x + j - 1]
      BY <1>19, <2>1, <2>2, <2>3
    <2>5. x \in DOMAIN R /\ y \in DOMAIN R /\ \A z \in x .. y : z \in DOMAIN R
      BY <1>6
    <2>a. IsRun(run, R, x, y) /\ 1 \in Nat
      BY <2>4, <2>5 DEF IsRun
    <2>6. Row(P, 1 .. N, run, L, lo[R[x].ref], hi[R[y].ref], e, lo, hi)
      BY <1>7, <1>9, <2>a, RowCut
    <2>7. Row(W, D2, run, L, lo[R[x].ref], hi[R[y].ref], e, lo2, hi2)
      BY <1>38, <2>6, RowExtends
    <2>8. lo2[N + i] = A[x] /\ hi2[N + i] = B[y] /\ A[x] = lo[R[x].ref] /\ B[y] = hi[R[y].ref]
      BY <1>31, <1>33, <2>1, <2>2
    <2>9. A[x] \in Nat \ {0} /\ B[y] \in Nat /\ B[y] <= n
      <3>1. 1 <= A[x] /\ B[y] <= n
        BY <1>32 DEF SharedOut
      <3>2. A[x] \in Nat /\ B[y] \in Nat
        BY <1>31
      <3> QED
        BY <3>1, <3>2
    <2>10. W[N + i].level = H /\ W[N + i].kids = run
      BY <1>c, <2>3
    <2>11. H # 0 /\ H - 1 = L /\ H \in Nat
      OBVIOUS
    <2> QED
      BY <2>7, <2>8, <2>9, <2>10, <2>11 DEF Spanned
  <1>41. Row(W, D2, T, H, 1, n, e, lo2, hi2)
    <2>1. PICK A2 : A2 = [i \in 1 .. m |-> A[first[i]]]
      OBVIOUS
    <2>2. PICK B2 : B2 = [i \in 1 .. m |-> B[last[i]]]
      OBVIOUS
    <2>3. M \in Nat
      BY <1>6
    <2>4. SharedOut(A2, B2, m, n)
      BY <1>18, <1>32, <2>1, <2>2, <2>3, SpansJoin
    <2>5. \A i \in 1 .. m : A2[i] = A[first[i]] /\ B2[i] = B[last[i]]
      BY <2>1, <2>2
    <2>6. m \in Nat \ {0} /\ DOMAIN T = 1 .. m
      BY <1>18, <1>25, LenProperties DEF Cuts
    <2>7. ASSUME NEW i \in 1 .. m
          PROVE  /\ T[i].ref \in D2 /\ W[T[i].ref].level = H
                 /\ T[i].key = e[lo2[T[i].ref]].key
                 /\ A2[i] = lo2[T[i].ref] /\ B2[i] = hi2[T[i].ref]
      <3>1. T[i].ref = N + i /\ T[i].key = c[i][1].key
        BY <1>c
      <3>2. PICK x \in 1 .. M : x = first[i]
        BY <1>19
      <3>3. T[i].key = R[x].key /\ R[x].key = e[A[x]].key
        <4>1. A[x] = lo[R[x].ref] /\ R[x].key = e[lo[R[x].ref]].key
          BY <1>30, <1>31
        <4>2. c[i][1] = R[x]
          BY <1>20, <3>2
        <4> QED
          BY <3>1, <4>1, <4>2
      <3>4. lo2[N + i] = A[x] /\ hi2[N + i] = B[last[i]] /\ W[N + i].level = H
        BY <1>33, <1>c, <3>2
      <3> QED
        BY <1>37, <2>5, <3>1, <3>2, <3>3, <3>4
    <2>8. Refers(W, D2, T, H, e, lo2, hi2, m, A2, B2)
      BY <2>4, <2>6, <2>7 DEF Refers, SharedOut
    <2> QED
      BY <2>4, <2>8, RowSpans
  <1>42. ASSUME NEW p \in 1 .. N PROVE HasParent(W, D2, p)
    <2>1. CASE p \in 1 .. N - M
      <3>1. PICK q \in 1 .. N : P[q].level > 0 /\ \E i \in DOMAIN P[q].kids : P[q].kids[i].ref = p
        BY <1>11, <2>1 DEF HasParent
      <3>2. q \in D2 /\ W[q] = P[q]
        BY <1>36
      <3> QED
        BY <3>1, <3>2 DEF HasParent
    <2>2. CASE p \notin 1 .. N - M
      <3>1. PICK i \in 1 .. M : p = N - M + i
        <4>1. p - (N - M) \in 1 .. M /\ p = N - M + (p - (N - M))
          BY <1>6, <2>2
        <4> QED
          BY <4>1
      <3>2. PICK j \in 1 .. m : first[j] <= i /\ i <= last[j]
        BY <1>18 DEF Cuts
      <3>3. PICK x \in 1 .. M : x = first[j]
        BY <1>19
      <3>4. PICK y \in 1 .. M : y = last[j]
        BY <1>19
      <3>a. x <= i /\ i <= y
        BY <3>2, <3>3, <3>4
      <3>5. i - x + 1 \in 1 .. y - x + 1 /\ x + (i - x + 1) - 1 = i
        BY <1>M, <3>a
      <3>6. i - x + 1 \in DOMAIN c[j] /\ c[j][i - x + 1] = R[i]
        BY <1>19, <3>3, <3>4, <3>5
      <3>7. W[N + j].level > 0 /\ W[N + j].kids = c[j] /\ N + j \in D2
        <4>1. W[N + j].level = H /\ W[N + j].kids = c[j]
          BY <1>c
        <4>2. H > 0
          OBVIOUS
        <4> QED
          BY <1>37, <4>1, <4>2
      <3>8. R[i].ref = p
        BY <1>10, <3>1
      <3> QED
        BY <3>6, <3>7, <3>8 DEF HasParent
    <2> QED
      BY <2>1, <2>2
  <1>43. \A p \in D2 : Spanned(W, D2, p, e, lo2, hi2) /\ hi2[p] <= n /\ W[p].level <= H
    <2> SUFFICES ASSUME NEW p \in D2
                 PROVE  Spanned(W, D2, p, e, lo2, hi2) /\ hi2[p] <= n /\ W[p].level <= H
      OBVIOUS
    <2>1. CASE p \in 1 .. N
      <3>1. P[p].level \in Nat /\ P[p].level <= L
        <4>1. Spanned(P, 1 .. N, p, e, lo, hi) /\ P[p].level <= L
          BY <1>8, <2>1
        <4> QED
          BY <4>1 DEF Spanned
      <3>2. P[p].level <= H /\ W[p] = P[p] /\ hi2[p] = hi[p] /\ hi[p] <= n
        BY <1>8, <1>36, <2>1, <3>1
      <3> QED
        BY <1>39, <2>1, <3>2
    <2>2. CASE \E i \in 1 .. m : p = N + i
      <3>1. PICK i \in 1 .. m : p = N + i
        BY <2>2
      <3>2. W[N + i].level = H
        BY <1>c
      <3> QED
        BY <1>40, <3>1, <3>2
    <2> QED
      BY <1>34, <2>1, <2>2 DEF D2
  <1>44. PICK s2 : s2 = [pages |-> W, refs |-> T, level |-> H]
    OBVIOUS
  <1>45. s2.pages = W /\ s2.refs = T /\ s2.level = H
    BY <1>44
  <1>46. N + m \in Nat /\ m <= N + m /\ (N + m) - m = N
    BY <1>6, <1>17
  <1>47. \A i \in 1 .. m : T[i].ref = (N + m) - m + i
    BY <1>25, <1>46
  <1>48. Sound(s2, e, n, lo2, hi2, N + m, m)
    BY <1>25, <1>27, <1>35, <1>41, <1>42, <1>43, <1>45, <1>46, <1>47 DEF Sound, D2
  <1>49. s2 \in [pages : Seq(Page), refs : Seq(Ref), level : Nat]
    BY <1>44
  <1>50. s2 \in Building(e, n)
    BY <1>48, <1>49 DEF Building
  <1>51. Len(s2.refs) < Len(s.refs)
    BY <1>4, <1>6, <1>17, <1>25, <1>45
  <1> QED
    BY <1>29, <1>44, <1>50, <1>51

\* The rounds of the loop are what their definition says.
RoundsOf(x, g, side) == [k \in Nat |-> IF k = 0 THEN x ELSE AddLevel(g[k - 1], side)]

LEMMA AddLevelsRounds ==
  ASSUME NEW side, NEW S, NEW x \in S, \A s \in S : AddLevel(s, side) \in S
  PROVE  /\ AddLevels(x, side)[0] = x
         /\ \A k \in Nat : /\ AddLevels(x, side)[k] \in S
                           /\ AddLevels(x, side)[k + 1] = AddLevel(AddLevels(x, side)[k], side)
  <1> DEFINE step == [s \in S |-> AddLevel(s, side)]
             f == CHOOSE g : g = RoundsOf(x, g, side)
  <1>1. step \in [S -> S]
    OBVIOUS
  <1>2. \A s \in S : step[s] = AddLevel(s, side)
    OBVIOUS
  <1> HIDE DEF step
  <1>a. PICK g : Iterates(g, S, step, x)
    BY <1>1, RoundsExist
  <1>3. g \in [Nat -> S] /\ g[0] = x /\ \A k \in Nat : g[k + 1] = step[g[k]]
    BY <1>a DEF Iterates
  <1>4. g = RoundsOf(x, g, side)
    <2>1. ASSUME NEW k \in Nat PROVE g[k] = IF k = 0 THEN x ELSE AddLevel(g[k - 1], side)
      <3>1. CASE k = 0
        BY <1>3, <3>1
      <3>2. CASE k # 0
        <4>1. k - 1 \in Nat /\ (k - 1) + 1 = k
          BY <3>2
        <4>2. g[k] = step[g[k - 1]] /\ g[k - 1] \in S
          BY <1>3, <4>1
        <4> QED
          BY <1>2, <3>2, <4>2
      <3> QED
        BY <3>1, <3>2
    <2>2. g = [k \in Nat |-> g[k]]
      BY <1>3
    <2> QED
      BY <2>1, <2>2 DEF RoundsOf
  <1>5. AddLevels(x, side) = f
    BY DEF AddLevels, RoundsOf
  <1>6. f = RoundsOf(x, f, side)
    BY <1>4
  <1> HIDE DEF f
  <1>7. \A k \in Nat : f[k] = IF k = 0 THEN x ELSE AddLevel(f[k - 1], side)
    BY <1>6, Zenon DEF RoundsOf
  <1>8. \A k \in Nat : k + 1 \in Nat /\ k + 1 # 0 /\ (k + 1) - 1 = k
    OBVIOUS
  <1>9. f[0] = x
    BY <1>7
  <1>10. \A k \in Nat : f[k + 1] = AddLevel(f[k], side)
    BY <1>7, <1>8
  <1>11. \A k \in Nat : f[k] \in S
    <2> DEFINE F == {k \in Nat : f[k] \notin S}
    <2>1. 0 \notin F
      BY <1>9
    <2>2. \A k \in Nat : k \notin F => k + 1 \notin F
      BY <1>8, <1>10
    <2>3. F \in SUBSET Nat
      OBVIOUS
    <2> HIDE DEF F
    <2>4. F = {}
      BY <2>1, <2>2, <2>3, FirstFailure
    <2> QED
      BY <2>4 DEF F
  <1> QED
    BY <1>5, <1>9, <1>10, <1>11

\* A loop that shortens the refs unless one is left, and never loses all of
\* them, is down to one after as many rounds as there are refs.
LEMMA LoopEnds ==
  ASSUME NEW side, NEW S, NEW x \in S, NEW n \in Nat, Len(x.refs) <= n,
         \A s \in S : Len(s.refs) \in Nat \ {0},
         \A s \in S : Len(s.refs) # 1 => /\ AddLevel(s, side) \in S
                                         /\ Len(AddLevel(s, side).refs) < Len(s.refs)
  PROVE  AddLevels(x, side)[n] \in S /\ Len(AddLevels(x, side)[n].refs) = 1
  <1>1. PICK g : g = AddLevels(x, side)
    OBVIOUS
  <1>2. ASSUME NEW s \in S PROVE AddLevel(s, side) \in S
    <2>1. CASE Len(s.refs) = 1
      BY <2>1 DEF AddLevel
    <2>2. CASE Len(s.refs) # 1
      BY <2>2
    <2> QED
      BY <2>1, <2>2
  <1>a. \A s \in S : AddLevel(s, side) \in S
    BY <1>2
  <1>b. /\ AddLevels(x, side)[0] = x
        /\ \A k \in Nat : /\ AddLevels(x, side)[k] \in S
                          /\ AddLevels(x, side)[k + 1] = AddLevel(AddLevels(x, side)[k], side)
    <2> HIDE <1>1
    <2> QED
      BY <1>a, AddLevelsRounds
  <1>3. /\ g[0] = x
        /\ \A k \in Nat : g[k] \in S /\ g[k + 1] = AddLevel(g[k], side)
    BY <1>1, <1>b
  <1> DEFINE F == {k \in Nat : ~ (Len(g[k].refs) = 1 \/ Len(g[k].refs) <= n - k)}
  <1>4. 0 \notin F
    BY <1>3
  <1>5. ASSUME NEW k \in Nat, k \notin F PROVE k + 1 \notin F
    <2>1. g[k] \in S /\ g[k + 1] = AddLevel(g[k], side) /\ g[k + 1] \in S
      <3>1. k + 1 \in Nat
        OBVIOUS
      <3> QED
        BY <1>3, <3>1
    <2>2. CASE Len(g[k].refs) = 1
      BY <2>1, <2>2 DEF AddLevel
    <2>3. CASE Len(g[k].refs) # 1
      <3>1. Len(g[k + 1].refs) < Len(g[k].refs)
        BY <2>1, <2>3
      <3>2. Len(g[k].refs) <= n - k
        BY <1>5, <2>3
      <3>3. PICK a \in Nat : a = Len(g[k].refs)
        BY <2>1
      <3>4. PICK b \in Nat : b = Len(g[k + 1].refs)
        BY <2>1
      <3>5. b <= n - (k + 1)
        <4>1. b < a /\ a <= n - k
          BY <3>1, <3>2, <3>3, <3>4
        <4> QED
          BY <4>1
      <3>6. Len(g[k + 1].refs) <= n - (k + 1)
        BY <3>4, <3>5
      <3> QED
        BY <3>6
    <2> QED
      BY <2>2, <2>3
  <1>6. F \in SUBSET Nat
    OBVIOUS
  <1>7. F = {}
    <2> HIDE DEF F
    <2> QED
      BY <1>4, <1>5, <1>6, FirstFailure
  <1>8. Len(g[n].refs) = 1 \/ Len(g[n].refs) <= n - n
    BY <1>7
  <1> HIDE DEF F
  <1>9. g[n] \in S /\ Len(g[n].refs) \in Nat \ {0}
    BY <1>3
  <1>10. Len(g[n].refs) = 1
    BY <1>8, <1>9
  <1> QED
    BY <1>1, <1>9, <1>10

\* There are no more runs than there is to cut.
LEMMA CutsFit ==
  ASSUME NEW m \in Nat, NEW n \in Nat, NEW first, NEW last, Cuts(first, last, m, n)
  PROVE  m <= n
  <1> SUFFICES ASSUME m > n PROVE FALSE
    OBVIOUS
  <1>1. \A i \in 1 .. m : /\ first[i] \in 1 .. n /\ last[i] \in 1 .. n /\ first[i] <= last[i]
    BY DEF Cuts
  <1>2. \A i \in 1 .. m : first[i] \in Nat /\ last[i] \in Nat
    BY <1>1
  <1> DEFINE F == {k \in Nat : k + 1 <= m /\ ~ (first[k + 1] >= k + 1)}
  <1>3. 0 \notin F
    BY DEF Cuts
  <1>4. ASSUME NEW k \in Nat, k \notin F PROVE k + 1 \notin F
    <2> SUFFICES ASSUME (k + 1) + 1 <= m PROVE first[(k + 1) + 1] >= (k + 1) + 1
      OBVIOUS
    <2>1. k + 1 \in 1 .. m /\ (k + 1) + 1 \in 1 .. m /\ k + 1 < (k + 1) + 1
      OBVIOUS
    <2>2. first[k + 1] >= k + 1
      BY <1>4, <2>1
    <2>3. first[k + 1] <= last[k + 1] /\ last[k + 1] < first[(k + 1) + 1]
      BY <2>1 DEF Cuts
    <2>4. first[k + 1] \in Nat /\ last[k + 1] \in Nat /\ first[(k + 1) + 1] \in Nat
      BY <1>2, <2>1
    <2> QED
      BY <2>2, <2>3, <2>4
  <1>5. F \in SUBSET Nat
    OBVIOUS
  <1>6. F = {}
    <2> HIDE DEF F
    <2> QED
      BY <1>3, <1>4, <1>5, FirstFailure
  <1>7. m - 1 \in Nat /\ (m - 1) + 1 = m /\ m \in 1 .. m
    BY DEF Cuts
  <1>8. first[m] >= m
    <2>1. m - 1 \notin F
      BY <1>6
    <2>2. ~ (m - 1 \in Nat /\ (m - 1) + 1 <= m /\ ~ (first[(m - 1) + 1] >= (m - 1) + 1))
      BY <2>1
    <2> QED
      BY <1>7, <2>2
  <1>9. first[m] \in 1 .. n
    BY <1>1, <1>7
  <1> QED
    BY <1>8, <1>9

\* The leaves are sound.
LEMMA LeavesSound ==
  ASSUME NEW e, NEW n, Listing(e, n), n # 0
  PROVE  LET c == Chunks(e, MaxLeaf)
             s == Built(PagesOf(c, 0), RefsOf(c, 0, "first"), 0)
         IN  s \in Building(e, n) /\ Len(s.refs) <= n
  <1>1. n \in Nat /\ e \in [1 .. n -> Entry]
    BY DEF Listing
  <1>2. e \in Seq(Entry) /\ Len(e) = n /\ DOMAIN e = 1 .. n
    <2>1. PICK f \in [1 .. n -> Entry] : f = e
      BY <1>1
    <2>2. f \in Seq(Entry) /\ Len(f) = n /\ DOMAIN f = 1 .. n
      BY <1>1
    <2> QED
      BY <2>1, <2>2
  <1>3. e # <<>> /\ MaxLeaf \in Nat \ {0}
    BY <1>1, <1>2, EmptySeq, BTreeAssumption
  <1>4. PICK c : c = Chunks(e, MaxLeaf)
    OBVIOUS
  <1>5. c \in Seq(Seq(Entry)) /\ \E first, last : CutInto(e, c, first, last)
    BY <1>2, <1>3, <1>4, ChunksCut
  <1>6. PICK first, last : CutInto(e, c, first, last)
    BY <1>5
  <1>7. PICK m \in Nat : m = Len(c) /\ DOMAIN c = 1 .. m
    BY <1>5, LenProperties
  <1>8. Cuts(first, last, m, n)
    BY <1>2, <1>6, <1>7 DEF CutInto
  <1>9. \A i \in 1 .. m : /\ first[i] \in 1 .. n /\ last[i] \in 1 .. n /\ first[i] <= last[i]
                          /\ DOMAIN c[i] = 1 .. last[i] - first[i] + 1
                          /\ \A j \in DOMAIN c[i] : c[i][j] = e[first[i] + j - 1]
    BY <1>6, <1>7, <1>8 DEF CutInto, Cuts
  <1>10. \A i \in 1 .. m : 1 \in DOMAIN c[i] /\ c[i][1] = e[first[i]]
    <2> SUFFICES ASSUME NEW i \in 1 .. m PROVE 1 \in DOMAIN c[i] /\ c[i][1] = e[first[i]]
      OBVIOUS
    <2>1. PICK x \in 1 .. n : x = first[i]
      BY <1>9
    <2>2. PICK y \in 1 .. n : y = last[i] /\ x <= y
      BY <1>9, <2>1
    <2>3. DOMAIN c[i] = 1 .. y - x + 1 /\ \A j \in DOMAIN c[i] : c[i][j] = e[x + j - 1]
      BY <1>9, <2>1, <2>2
    <2>4. 1 \in 1 .. y - x + 1 /\ x + 1 - 1 = x
      BY <1>1, <2>2
    <2> QED
      BY <2>1, <2>3, <2>4
  <1>11. \A i \in 1 .. m : c[i] \in Seq(Kid(0)) /\ 1 \in DOMAIN c[i]
    <2> SUFFICES ASSUME NEW i \in 1 .. m PROVE c[i] \in Seq(Kid(0))
      BY <1>10
    <2>1. Kid(0) = Entry
      BY DEF Kid
    <2>2. c[i] \in Seq(Entry)
      BY <1>5, <1>7
    <2> QED
      BY <2>1, <2>2
  <1>12. OnLevel(c, m, 0, 0)
    <2>1. 0 \in Nat /\ DOMAIN c = 1 .. m
      BY <1>7
    <2> QED
      BY <1>11, <2>1, PagesOfChunks
  <1>13. PICK W \in Seq(Page) : W = PagesOf(c, 0)
    BY <1>12 DEF OnLevel
  <1>14. PICK T \in Seq(Ref) : T = RefsOf(c, 0, "first")
    BY <1>12 DEF OnLevel
  <1>15. /\ Len(W) = m /\ \A i \in 1 .. m : W[i] = [level |-> 0, kids |-> c[i]]
         /\ Len(T) = m /\ \A i \in 1 .. m : T[i] = [key |-> c[i][1].key, ref |-> 0 + i]
    BY <1>12, <1>13, <1>14 DEF OnLevel
  <1>16. ASSUME NEW i \in 1 .. m
         PROVE  /\ W[i].level = 0 /\ W[i].kids = c[i]
                /\ T[i].ref = i /\ T[i].key = e[first[i]].key
    <2>1. W[i] = [level |-> 0, kids |-> c[i]] /\ T[i] = [key |-> c[i][1].key, ref |-> 0 + i]
      BY <1>15
    <2>2. 0 + i = i /\ c[i][1] = e[first[i]]
      BY <1>10
    <2> QED
      BY <2>1, <2>2
  <1>17. first \in [1 .. m -> Nat] /\ last \in [1 .. m -> Nat] /\ m \in Nat \ {0}
    <2>1. first \in [1 .. m -> 1 .. n] /\ last \in [1 .. m -> 1 .. n] /\ m \in Nat \ {0}
      BY <1>8 DEF Cuts
    <2>2. 1 .. n \subseteq Nat
      BY <1>1
    <2> QED
      BY <2>1, <2>2
  <1>18. ASSUME NEW p \in 1 .. m
         PROVE  Spanned(W, 1 .. m, p, e, first, last) /\ last[p] <= n /\ W[p].level <= 0
    <2>1. Leaf(W[p].kids, first[p], last[p], e)
      <3>1. PICK k : k = c[p]
        OBVIOUS
      <3>2. /\ DOMAIN k = 1 .. last[p] - first[p] + 1
            /\ \A j \in DOMAIN k : k[j] = e[first[p] + j - 1]
        BY <1>9, <3>1
      <3>3. W[p].kids = k
        BY <1>16, <3>1
      <3> QED
        BY <3>2, <3>3 DEF Leaf
    <2>2. first[p] \in Nat \ {0} /\ last[p] \in Nat /\ last[p] <= n
      BY <1>1, <1>9
    <2>3. W[p].level = 0
      BY <1>16
    <2> QED
      BY <2>1, <2>2, <2>3 DEF Spanned
  <1>19. Row(W, 1 .. m, T, 0, 1, n, e, first, last)
    <2>1. SharedOut(first, last, m, n)
      <3>1. first[1] = 1 /\ \A i, j \in 1 .. m : i < j => last[i] < first[j]
        BY <1>8 DEF Cuts
      <3>2. \A i \in 1 .. m : first[i] <= last[i] /\ 1 <= first[i] /\ last[i] <= n
        BY <1>1, <1>9
      <3>3. \A x \in 1 .. n : \E i \in 1 .. m : first[i] <= x /\ x <= last[i]
        BY <1>8 DEF Cuts
      <3> QED
        BY <1>17, <3>1, <3>2, <3>3 DEF SharedOut
    <2>2. DOMAIN T = 1 .. m
      BY <1>15, LenProperties
    <2>3. Refers(W, 1 .. m, T, 0, e, first, last, m, first, last)
      BY <1>16, <1>17, <2>2 DEF Refers
    <2> QED
      BY <1>1, <2>1, <2>3, RowSpans
  <1>20. PICK s : s = [pages |-> W, refs |-> T, level |-> 0]
    OBVIOUS
  <1>21. s.pages = W /\ s.refs = T /\ s.level = 0
    BY <1>20
  <1>22. m <= m /\ m - m = 0 /\ \A i \in 1 .. m : T[i].ref = m - m + i
    BY <1>16
  <1>23. \A p \in 1 .. m - m : HasParent(W, 1 .. m, p)
    BY <1>22
  <1>24. Sound(s, e, n, first, last, m, m)
    BY <1>15, <1>17, <1>18, <1>19, <1>21, <1>22, <1>23 DEF Sound
  <1>25. s \in [pages : Seq(Page), refs : Seq(Ref), level : Nat]
    BY <1>20
  <1>26. s \in Building(e, n)
    BY <1>24, <1>25 DEF Building
  <1>27. m <= n
    BY <1>1, <1>8, CutsFit
  <1> QED
    BY <1>4, <1>13, <1>14, <1>15, <1>20, <1>21, <1>26, <1>27 DEF Built

\* A tree of one page that nothing has to be above.
LEMMA OneRow ==
  ASSUME NEW e, NEW n \in Nat \ {0}, NEW s \in Building(e, n), Len(s.refs) = 1
  PROVE  /\ s.pages \in Seq(Page) /\ Len(s.pages) >= 1
         /\ HoldsTree(s.pages, 1 .. Len(s.pages), Len(s.pages), e, n)
  <1>1. s \in [pages : Seq(Page), refs : Seq(Ref), level : Nat]
    BY DEF Building
  <1>2. PICK lo, hi, N, M : Sound(s, e, n, lo, hi, N, M)
    BY DEF Building
  <1>3. PICK P \in Seq(Page) : P = s.pages
    BY <1>1
  <1>4. PICK R \in Seq(Ref) : R = s.refs
    BY <1>1
  <1>5. N \in Nat /\ Len(P) = N /\ M = 1 /\ M <= N
    BY <1>2, <1>3 DEF Sound
  <1>6. DOMAIN R = {1}
    <2>1. DOMAIN R = 1 .. 1
      BY <1>4, LenProperties
    <2> QED
      BY <2>1
  <1>7. R[1].ref = N
    BY <1>2, <1>4, <1>5 DEF Sound
  <1>8. Row(P, 1 .. N, R, s.level, 1, n, e, lo, hi)
    BY <1>2, <1>3, <1>4 DEF Sound
  <1>9. lo[N] = 1 /\ hi[N] <= n /\ P[N].level = s.level
    BY <1>6, <1>7, <1>8 DEF Row
  <1>10. N \in 1 .. N /\ hi[N] \in Nat
    BY <1>2, <1>5 DEF Sound
  <1>11. n <= hi[N]
    <2>1. n \in 1 .. n
      OBVIOUS
    <2>2. \E i \in DOMAIN R : lo[R[i].ref] <= n /\ n <= hi[R[i].ref]
      BY <1>8, <2>1 DEF Row
    <2> QED
      BY <1>6, <1>7, <2>2
  <1>12. hi[N] = n
    BY <1>9, <1>10, <1>11
  <1>13. \A p \in 1 .. N : Spanned(P, 1 .. N, p, e, lo, hi) /\ hi[p] <= n /\ P[p].level <= P[N].level
    BY <1>2, <1>3, <1>9 DEF Sound
  <1>14. \A p \in 1 .. N : p # N => HasParent(P, 1 .. N, p)
    <2>1. \A p \in 1 .. N - M : HasParent(P, 1 .. N, p)
      BY <1>2, <1>3 DEF Sound
    <2>2. \A p \in 1 .. N : p # N => p \in 1 .. N - M
      BY <1>5
    <2> QED
      BY <2>1, <2>2
  <1>15. TreeAt(P, 1 .. N, N, e, n, lo, hi)
    BY <1>9, <1>10, <1>12, <1>13, <1>14 DEF TreeAt
  <1> QED
    BY <1>3, <1>5, <1>15 DEF HoldsTree

\* What encodeTree writes is a tree of the entries, with the root last.
Encoded(pages, e, n) ==
  /\ pages \in Seq(Page) /\ Len(pages) >= 1
  /\ HoldsTree(pages, 1 .. Len(pages), Len(pages), e, n)

LEMMA EncodeTreeHolds ==
  ASSUME NEW e, NEW n, Listing(e, n)
  PROVE  Encoded(encodeTree(e, "first"), e, n)
  <1>1. n \in Nat /\ e \in [1 .. n -> Entry]
    BY DEF Listing
  <1>2. Len(e) = n /\ DOMAIN e = 1 .. n
    <2>1. PICK f \in [1 .. n -> Entry] : f = e
      BY <1>1
    <2>2. Len(f) = n /\ DOMAIN f = 1 .. n
      BY <1>1
    <2> QED
      BY <2>1, <2>2
  <1>3. CASE n = 0
    <2>1. e = <<>>
      BY <1>1, <1>3
    <2>2. PICK P : P = <<[level |-> 0, kids |-> <<>>]>>
      OBVIOUS
    <2>3. encodeTree(e, "first") = P
      BY <2>1, <2>2 DEF encodeTree
    <2>4. <<>> \in Seq(Entry) /\ Kid(0) = Entry /\ DOMAIN <<>> = {}
      BY DEF Kid
    <2>a. [level |-> 0, kids |-> <<>>] \in Page
      BY <2>4 DEF Page
    <2>5. P \in Seq(Page) /\ Len(P) = 1 /\ P[1] = [level |-> 0, kids |-> <<>>]
      BY <2>2, <2>a
    <2>6. P[1].level = 0 /\ P[1].kids = <<>>
      BY <2>5
    <2> DEFINE lo == [p \in {1} |-> 1]
               hi == [p \in {1} |-> 0]
    <2>7. lo[1] = 1 /\ hi[1] = 0
      OBVIOUS
    <2> HIDE DEF lo, hi
    <2>8. Leaf(P[1].kids, 1, 0, e)
      <3>1. 1 .. 0 - 1 + 1 = {}
        OBVIOUS
      <3> QED
        BY <2>4, <2>6, <3>1 DEF Leaf
    <2>9. Spanned(P, 1 .. 1, 1, e, lo, hi)
      BY <2>6, <2>7, <2>8 DEF Spanned
    <2>10. 1 .. 1 = {1}
      OBVIOUS
    <2>11. TreeAt(P, 1 .. 1, 1, e, n, lo, hi)
      BY <1>3, <2>6, <2>7, <2>9, <2>10 DEF TreeAt
    <2>12. HoldsTree(P, 1 .. 1, 1, e, n)
      BY <2>11, Zenon DEF HoldsTree
    <2>13. Len(P) >= 1
      BY <2>5
    <2> QED
      BY <2>3, <2>5, <2>12, <2>13 DEF Encoded
  <1>4. CASE n # 0
    <2>1. e # <<>>
      BY <1>1, <1>2, <1>4
    <2>2. PICK c : c = Chunks(e, MaxLeaf)
      OBVIOUS
    <2>3. PICK x : x = Built(PagesOf(c, 0), RefsOf(c, 0, "first"), 0)
      OBVIOUS
    <2>4. x \in Building(e, n) /\ Len(x.refs) <= n
      <3>1. LET d == Chunks(e, MaxLeaf)
                s == Built(PagesOf(d, 0), RefsOf(d, 0, "first"), 0)
            IN  s \in Building(e, n) /\ Len(s.refs) <= n
        BY <1>4, LeavesSound
      <3> QED
        BY <2>2, <2>3, <3>1
    <2>5. PICK y : y = AddLevels(x, "first")[n]
      OBVIOUS
    <2>6. encodeTree(e, "first") = y.pages
      BY <1>2, <2>1, <2>2, <2>3, <2>5 DEF encodeTree
    <2>7. ASSUME NEW s \in Building(e, n) PROVE Len(s.refs) \in Nat \ {0}
      <3>1. PICK lo, hi, N, M : Sound(s, e, n, lo, hi, N, M)
        BY DEF Building
      <3>2. PICK R \in Seq(Ref) : R = s.refs
        BY DEF Building
      <3>3. 1 \in DOMAIN R
        BY <3>1, <3>2 DEF Sound, Row
      <3>4. Len(R) \in Nat /\ DOMAIN R = 1 .. Len(R)
        BY LenProperties
      <3> QED
        BY <3>2, <3>3, <3>4
    <2>8. ASSUME NEW s \in Building(e, n), Len(s.refs) # 1
          PROVE  AddLevel(s, "first") \in Building(e, n) /\ Len(AddLevel(s, "first").refs) < Len(s.refs)
      BY <1>1, <2>8, LevelSound
    <2>9. y \in Building(e, n) /\ Len(y.refs) = 1
      BY <1>1, <2>4, <2>5, <2>7, <2>8, LoopEnds
    <2> QED
      BY <1>1, <1>4, <2>6, <2>9, OneRow DEF Encoded
  <1> QED
    BY <1>3, <1>4

-----------------------------------------------------------------------------
(* A tree on file *)

\* Page p of D is at at[p] on file, with its refs moved along.
Moved(pages, D, on, at) ==
  /\ \A p, q \in D : at[p] = at[q] => p = q
  /\ \A p \in D :
       /\ on[at[p]].level = pages[p].level
       /\ pages[p].level = 0 => on[at[p]].kids = pages[p].kids
       /\ pages[p].level # 0 =>
            /\ DOMAIN on[at[p]].kids = DOMAIN pages[p].kids
            /\ \A i \in DOMAIN pages[p].kids :
                 /\ on[at[p]].kids[i].key = pages[p].kids[i].key
                 /\ on[at[p]].kids[i].ref = at[pages[p].kids[i].ref]

LEMMA MovedHolds ==
  ASSUME NEW pages, NEW D, NEW r, NEW e, NEW n, HoldsTree(pages, D, r, e, n),
         NEW on, NEW at, Moved(pages, D, on, at)
  PROVE  HoldsTree(on, {at[p] : p \in D}, at[r], e, n)
  <1>1. PICK lo, hi : TreeAt(pages, D, r, e, n, lo, hi)
    BY DEF HoldsTree
  <1> DEFINE E == {at[p] : p \in D}
             back == [q \in E |-> CHOOSE p \in D : at[p] = q]
             lo2 == [q \in E |-> lo[back[q]]]
             hi2 == [q \in E |-> hi[back[q]]]
  <1>2. \A p \in D : at[p] \in E /\ back[at[p]] = p
    BY DEF Moved
  <1>3. \A q \in E : lo2[q] = lo[back[q]] /\ hi2[q] = hi[back[q]]
    OBVIOUS
  <1>4. \A q \in E : \E p \in D : q = at[p]
    OBVIOUS
  <1> HIDE DEF E, back, lo2, hi2
  <1>5. \A p \in D : lo2[at[p]] = lo[p] /\ hi2[at[p]] = hi[p]
    BY <1>2, <1>3
  <1>6. \A p \in D : on[at[p]].level = pages[p].level
    BY DEF Moved
  <1>7. ASSUME NEW p \in D, pages[p].level # 0,
               Row(pages, D, pages[p].kids, pages[p].level - 1, lo[p], hi[p], e, lo, hi)
        PROVE  Row(on, E, on[at[p]].kids, pages[p].level - 1, lo[p], hi[p], e, lo2, hi2)
    <2>1. PICK old : old = pages[p].kids
      OBVIOUS
    <2>2. PICK new : new = on[at[p]].kids
      OBVIOUS
    <2>3. PICK l : l = pages[p].level - 1
      OBVIOUS
    <2>4. PICK a : a = lo[p]
      OBVIOUS
    <2>5. PICK b : b = hi[p]
      OBVIOUS
    <2>6. Row(pages, D, old, l, a, b, e, lo, hi)
      BY <1>7, <2>1, <2>3, <2>4, <2>5
    <2>7. /\ DOMAIN new = DOMAIN old
          /\ \A i \in DOMAIN old : new[i].key = old[i].key /\ new[i].ref = at[old[i].ref]
      BY <1>7, <2>1, <2>2 DEF Moved
    <2>8. \A i \in DOMAIN old : old[i].ref \in D
      BY <2>6 DEF Row
    <2>9. \A i \in DOMAIN old : /\ new[i].ref \in E
                                /\ lo2[new[i].ref] = lo[old[i].ref] /\ hi2[new[i].ref] = hi[old[i].ref]
                                /\ on[new[i].ref].level = pages[old[i].ref].level
      BY <1>2, <1>5, <1>6, <2>7, <2>8
    <2>10. 1 \in DOMAIN new /\ DOMAIN new \subseteq Nat /\ lo2[new[1].ref] = a
      BY <2>6, <2>7, <2>9 DEF Row
    <2>11. ASSUME NEW i \in DOMAIN new
           PROVE  /\ new[i].ref \in E /\ on[new[i].ref].level = l
                  /\ new[i].key = e[lo2[new[i].ref]].key
                  /\ lo2[new[i].ref] <= hi2[new[i].ref]
                  /\ a <= lo2[new[i].ref] /\ hi2[new[i].ref] <= b
      BY <2>6, <2>7, <2>9 DEF Row
    <2>12. \A i, j \in DOMAIN new : i < j => hi2[new[i].ref] < lo2[new[j].ref]
      BY <2>6, <2>7, <2>9 DEF Row
    <2>13. \A x \in a .. b : \E i \in DOMAIN new : lo2[new[i].ref] <= x /\ x <= hi2[new[i].ref]
      BY <2>6, <2>7, <2>9 DEF Row
    <2>14. Row(on, E, new, l, a, b, e, lo2, hi2)
      BY <2>10, <2>11, <2>12, <2>13 DEF Row
    <2> QED
      BY <2>2, <2>3, <2>4, <2>5, <2>14
  <1>8. ASSUME NEW p \in D PROVE Spanned(on, E, at[p], e, lo2, hi2)
    <2>1. Spanned(pages, D, p, e, lo, hi)
      BY <1>1 DEF TreeAt
    <2>2. lo2[at[p]] = lo[p] /\ hi2[at[p]] = hi[p] /\ on[at[p]].level = pages[p].level
      BY <1>5, <1>6
    <2>3. CASE pages[p].level = 0
      <3>1. on[at[p]].kids = pages[p].kids
        BY <2>3 DEF Moved
      <3> QED
        BY <2>1, <2>2, <2>3, <3>1 DEF Spanned
    <2>4. CASE pages[p].level # 0
      <3>1. Row(pages, D, pages[p].kids, pages[p].level - 1, lo[p], hi[p], e, lo, hi)
        BY <2>1, <2>4 DEF Spanned
      <3>2. Row(on, E, on[at[p]].kids, pages[p].level - 1, lo[p], hi[p], e, lo2, hi2)
        BY <1>7, <2>4, <3>1
      <3>3. lo[p] \in Nat \ {0} /\ hi[p] \in Nat /\ pages[p].level \in Nat
        BY <2>1 DEF Spanned
      <3> QED
        BY <2>2, <2>4, <3>2, <3>3 DEF Spanned
    <2> QED
      BY <2>3, <2>4
  <1>9. ASSUME NEW p \in D, p # r PROVE HasParent(on, E, at[p])
    <2>1. PICK q \in D : pages[q].level > 0 /\ \E i \in DOMAIN pages[q].kids : pages[q].kids[i].ref = p
      BY <1>1, <1>9 DEF TreeAt, HasParent
    <2>2. PICK i \in DOMAIN pages[q].kids : pages[q].kids[i].ref = p
      BY <2>1
    <2>3. pages[q].level # 0
      BY <2>1
    <2>4. i \in DOMAIN on[at[q]].kids /\ on[at[q]].kids[i].ref = at[p]
      BY <2>2, <2>3 DEF Moved
    <2>5. at[q] \in E /\ on[at[q]].level > 0
      BY <1>2, <1>6, <2>1
    <2> QED
      BY <2>4, <2>5 DEF HasParent
  <1>10. r \in D /\ at[r] \in E /\ lo2[at[r]] = 1 /\ hi2[at[r]] = n
    BY <1>1, <1>2, <1>5 DEF TreeAt
  <1>11. ASSUME NEW q \in E
         PROVE  /\ Spanned(on, E, q, e, lo2, hi2)
                /\ hi2[q] <= n /\ on[q].level <= on[at[r]].level
                /\ q # at[r] => HasParent(on, E, q)
    <2>1. PICK p \in D : q = at[p]
      BY <1>4
    <2>2. hi[p] <= n /\ pages[p].level <= pages[r].level
      BY <1>1 DEF TreeAt
    <2>3. hi2[q] <= n /\ on[q].level <= on[at[r]].level
      BY <1>5, <1>6, <1>10, <2>1, <2>2
    <2> QED
      BY <1>8, <1>9, <2>1, <2>3
  <1>12. TreeAt(on, E, at[r], e, n, lo2, hi2)
    BY <1>10, <1>11 DEF TreeAt
  <1> QED
    BY <1>12 DEF HoldsTree, E

\* No ref leads out of the file.
Closed(on) ==
  /\ IsFiniteSet(DOMAIN on)
  /\ \A p \in DOMAIN on : Below(on)[p] \subseteq DOMAIN on

\* The pages below a page of the tree are in the tree.
LEMMA TreeClosed ==
  ASSUME NEW on, NEW D \in SUBSET DOMAIN on, NEW r, NEW e, NEW n, HoldsTree(on, D, r, e, n)
  PROVE  \A p \in D : Below(on)[p] \subseteq D
  <1> SUFFICES ASSUME NEW p \in D PROVE Below(on)[p] \subseteq D
    OBVIOUS
  <1>1. PICK lo, hi : TreeAt(on, D, r, e, n, lo, hi)
    BY DEF HoldsTree
  <1>2. Spanned(on, D, p, e, lo, hi)
    BY <1>1 DEF TreeAt
  <1>3. Below(on)[p] = IF on[p].level = 0 THEN {} ELSE {on[p].kids[i].ref : i \in DOMAIN on[p].kids}
    BY DEF Below
  <1>4. on[p].level # 0 => \A i \in DOMAIN on[p].kids : on[p].kids[i].ref \in D
    BY <1>2 DEF Spanned, Row
  <1> QED
    BY <1>3, <1>4

\* The walk from the root meets the pages of the tree and no others.
LEMMA TreePages ==
  ASSUME NEW on, Closed(on), NEW D \in SUBSET DOMAIN on, NEW r, NEW e, NEW n,
         HoldsTree(on, D, r, e, n)
  PROVE  PagesUnder(on, r) = D
  <1>1. PICK lo, hi : TreeAt(on, D, r, e, n, lo, hi)
    BY DEF HoldsTree
  <1>2. PICK links : links = Below(on)
    OBVIOUS
  <1>3. DOMAIN links = DOMAIN on
    BY <1>2 DEF Below
  <1>4. IsFiniteSet(DOMAIN links) /\ \A y \in DOMAIN links : links[y] \subseteq DOMAIN links
    BY <1>2, <1>3 DEF Closed
  <1>5. r \in D /\ r \in DOMAIN links
    BY <1>1, <1>3 DEF TreeAt
  <1>6. PICK P : P = Reach(links, r)
    OBVIOUS
  <1>7. /\ r \in P /\ \A y \in P : links[y] \subseteq P
        /\ \A S : r \in S /\ (\A y \in S \cap DOMAIN links : links[y] \subseteq S) => P \subseteq S
    BY <1>4, <1>5, <1>6, ReachLeast
  <1>8. \A p \in D : links[p] \subseteq D
    BY <1>2, TreeClosed
  <1>9. P \subseteq D
    BY <1>5, <1>7, <1>8
  <1>10. D \subseteq P
    <2> SUFFICES ASSUME ~ (D \subseteq P) PROVE FALSE
      OBVIOUS
    <2> DEFINE G == {on[r].level - on[p].level : p \in D \ P}
    <2>1. \A p \in D : /\ on[p].level \in Nat /\ on[p].level <= on[r].level
                       /\ p # r => HasParent(on, D, p)
      BY <1>1 DEF TreeAt, Spanned
    <2>2. G \in SUBSET Nat /\ G # {}
      BY <1>5, <2>1
    <2>3. PICK x \in G : \A y \in G : x <= y
      BY <2>2, HasLeast
    <2>4. PICK p \in D \ P : x = on[r].level - on[p].level
      OBVIOUS
    <2>5. PICK q \in D : on[q].level > 0 /\ \E i \in DOMAIN on[q].kids : on[q].kids[i].ref = p
      BY <1>7, <2>1, <2>4 DEF HasParent
    <2>6. PICK i \in DOMAIN on[q].kids : on[q].kids[i].ref = p
      BY <2>5
    <2>7. on[q].level # 0 /\ on[q].level \in Nat /\ Spanned(on, D, q, e, lo, hi)
      BY <1>1, <2>1, <2>5 DEF TreeAt
    <2>8. on[p].level = on[q].level - 1
      BY <2>6, <2>7 DEF Spanned, Row
    <2>9. q \in P
      <3> SUFFICES ASSUME q \notin P PROVE FALSE
        OBVIOUS
      <3>1. on[r].level - on[q].level \in G
        OBVIOUS
      <3>2. x <= on[r].level - on[q].level
        BY <2>3, <3>1
      <3>3. on[r].level \in Nat /\ on[p].level \in Nat /\ on[q].level \in Nat
        BY <1>5, <2>1
      <3> HIDE DEF G
      <3> QED
        BY <2>4, <2>8, <3>2, <3>3
    <2>10. p \in links[q]
      <3>1. q \in DOMAIN on
        OBVIOUS
      <3>2. links[q] = {on[q].kids[j].ref : j \in DOMAIN on[q].kids}
        BY <1>2, <2>7, <3>1 DEF Below
      <3> QED
        BY <2>6, <3>2
    <2> QED
      BY <1>7, <2>9, <2>10
  <1> QED
    BY <1>2, <1>6, <1>9, <1>10 DEF PagesUnder

\* The first key in a page that is not empty.
LEMMA FirstKey ==
  ASSUME NEW on, NEW D, NEW p, NEW e, NEW lo, NEW hi, Spanned(on, D, p, e, lo, hi), lo[p] <= hi[p]
  PROVE  1 \in DOMAIN on[p].kids /\ on[p].kids[1].key = e[lo[p]].key
  <1>1. lo[p] \in Nat /\ hi[p] \in Nat
    BY DEF Spanned
  <1>2. CASE on[p].level = 0
    <2>1. Leaf(on[p].kids, lo[p], hi[p], e)
      BY <1>2 DEF Spanned
    <2>2. 1 \in 1 .. hi[p] - lo[p] + 1 /\ lo[p] + 1 - 1 = lo[p]
      BY <1>1
    <2>3. 1 \in DOMAIN on[p].kids /\ on[p].kids[1] = e[lo[p] + 1 - 1]
      BY <2>1, <2>2 DEF Leaf
    <2> QED
      BY <2>2, <2>3
  <1>3. CASE on[p].level # 0
    <2>1. Row(on, D, on[p].kids, on[p].level - 1, lo[p], hi[p], e, lo, hi)
      BY <1>3 DEF Spanned
    <2> QED
      BY <2>1 DEF Row
  <1> QED
    BY <1>2, <1>3

\* CheckTrees accepts the separators.
LEMMA TreeSeparators ==
  ASSUME NEW on, Closed(on), NEW D \in SUBSET DOMAIN on, NEW r, NEW e, NEW n,
         HoldsTree(on, D, r, e, n)
  PROVE  SeparatorsAreFirstKeys(on, r)
  <1>1. PICK lo, hi : TreeAt(on, D, r, e, n, lo, hi)
    BY DEF HoldsTree
  <1>2. PagesUnder(on, r) = D
    BY TreePages
  <1>3. ASSUME NEW p \in D, on[p].level > 0, NEW i \in DOMAIN on[p].kids
        PROVE  LET child == on[on[p].kids[i].ref].kids
               IN  on[p].kids[i].key = IF child = <<>> THEN 0 ELSE child[1].key
    <2>1. Spanned(on, D, p, e, lo, hi) /\ on[p].level # 0
      BY <1>1, <1>3 DEF TreeAt
    <2>2. Row(on, D, on[p].kids, on[p].level - 1, lo[p], hi[p], e, lo, hi)
      BY <2>1 DEF Spanned
    <2>3. PICK q : q = on[p].kids[i].ref
      OBVIOUS
    <2>4. q \in D /\ on[p].kids[i].key = e[lo[q]].key /\ lo[q] <= hi[q]
      BY <2>2, <2>3 DEF Row
    <2>5. Spanned(on, D, q, e, lo, hi)
      BY <1>1, <2>4 DEF TreeAt
    <2>6. 1 \in DOMAIN on[q].kids /\ on[q].kids[1].key = e[lo[q]].key
      BY <2>4, <2>5, FirstKey
    <2>7. on[q].kids # <<>>
      <3>1. DOMAIN <<>> = {}
        OBVIOUS
      <3> QED
        BY <2>6, <3>1
    <2> QED
      BY <2>3, <2>4, <2>6, <2>7
  <1> QED
    BY <1>2, <1>3 DEF SeparatorsAreFirstKeys

-----------------------------------------------------------------------------
(* Searching a tree *)

\* The rounds of walk.
StepsOf(on, r, k, g) == [j \in Nat |-> IF j = 0 THEN {r} ELSE Descend(on, g[j - 1], k)]

Descends(g, S, on, r, k) ==
  /\ g[0] = {r} /\ walk(on, r, k) = g[on[r].level]
  /\ \A j \in Nat : g[j] \in S /\ g[j + 1] = Descend(on, g[j], k)

LEMMA WalkRounds ==
  ASSUME NEW on, NEW r, NEW k, NEW S, {r} \in S, \A X \in S : Descend(on, X, k) \in S
  PROVE  \E g : Descends(g, S, on, r, k)
  <1> DEFINE step == [X \in S |-> Descend(on, X, k)]
             f == CHOOSE g : g = StepsOf(on, r, k, g)
  <1>1. step \in [S -> S]
    OBVIOUS
  <1>2. \A X \in S : step[X] = Descend(on, X, k)
    OBVIOUS
  <1> HIDE DEF step
  <1>3. PICK x \in S : x = {r}
    OBVIOUS
  <1>4. PICK g : Iterates(g, S, step, x)
    BY <1>1, RoundsExist
  <1>5. g \in [Nat -> S] /\ g[0] = x /\ \A j \in Nat : g[j + 1] = step[g[j]]
    BY <1>4 DEF Iterates
  <1>6. g = StepsOf(on, r, k, g)
    <2>1. ASSUME NEW j \in Nat PROVE g[j] = IF j = 0 THEN {r} ELSE Descend(on, g[j - 1], k)
      <3>1. CASE j = 0
        BY <1>3, <1>5, <3>1
      <3>2. CASE j # 0
        <4>1. j - 1 \in Nat /\ (j - 1) + 1 = j
          BY <3>2
        <4>2. g[j] = step[g[j - 1]] /\ g[j - 1] \in S
          BY <1>5, <4>1
        <4> QED
          BY <1>2, <3>2, <4>2
      <3> QED
        BY <3>1, <3>2
    <2>2. g = [j \in Nat |-> g[j]]
      BY <1>5
    <2> QED
      BY <2>1, <2>2 DEF StepsOf
  <1>7. walk(on, r, k) = f[on[r].level]
    BY DEF walk, StepsOf
  <1>8. f = StepsOf(on, r, k, f)
    BY <1>6
  <1> HIDE DEF f
  <1>9. \A j \in Nat : f[j] = IF j = 0 THEN {r} ELSE Descend(on, f[j - 1], k)
    BY <1>8, Zenon DEF StepsOf
  <1>10. \A j \in Nat : j + 1 \in Nat /\ j + 1 # 0 /\ (j + 1) - 1 = j
    OBVIOUS
  <1>11. f[0] = {r}
    BY <1>9
  <1>12. \A j \in Nat : f[j + 1] = Descend(on, f[j], k)
    BY <1>9, <1>10
  <1>13. \A j \in Nat : f[j] \in S
    <2> DEFINE F == {j \in Nat : f[j] \notin S}
    <2>1. 0 \notin F
      BY <1>11
    <2>2. \A j \in Nat : j \notin F => j + 1 \notin F
      BY <1>10, <1>12
    <2>3. F \in SUBSET Nat
      OBVIOUS
    <2> HIDE DEF F
    <2>4. F = {}
      BY <2>1, <2>2, <2>3, FirstFailure
    <2> QED
      BY <2>4 DEF F
  <1> QED
    BY <1>7, <1>11, <1>12, <1>13 DEF Descends

\* In a row that spans entry x, the key of x leads to the page with x.
Numbers(D, lo, hi) == \A p \in D : lo[p] \in Nat /\ hi[p] \in Nat

LeadsTo(kids, k, x, lo, hi) ==
  \E i \in DOMAIN kids : /\ chooseChild(kids, k) = {i}
                         /\ lo[kids[i].ref] <= x /\ x <= hi[kids[i].ref]

LEMMA ChooseInRow ==
  ASSUME NEW on, NEW D, NEW kids, NEW l, NEW a \in Nat \ {0}, NEW b \in Nat, NEW e, NEW n, Listing(e, n),
         NEW lo, NEW hi, Numbers(D, lo, hi),
         Row(on, D, kids, l, a, b, e, lo, hi), b <= n, NEW x \in a .. b
  PROVE  LeadsTo(kids, e[x].key, x, lo, hi)
  <1>1. PICK i \in DOMAIN kids : lo[kids[i].ref] <= x /\ x <= hi[kids[i].ref]
    BY DEF Row
  <1>2. n \in Nat /\ x \in 1 .. n
    BY DEF Listing
  <1>3. \A y \in 1 .. n : e[y].key \in Nat
    BY DEF Listing, Entry
  <1>4. ASSUME NEW y \in 1 .. n, e[y].key <= e[x].key PROVE y <= x
    <2> SUFFICES ASSUME x < y PROVE FALSE
      BY <1>2
    <2>1. e[x].key < e[y].key
      BY <1>2 DEF Listing
    <2> QED
      BY <1>2, <1>3, <1>4, <2>1
  <1>5. ASSUME NEW y \in 1 .. n, y <= x PROVE e[y].key <= e[x].key
    <2>1. y = x \/ e[y].key < e[x].key
      BY <1>2, <1>5 DEF Listing
    <2> QED
      BY <1>2, <1>3, <2>1
  <1>6. \A j \in DOMAIN kids : /\ lo[kids[j].ref] \in 1 .. n /\ hi[kids[j].ref] \in Nat /\ j \in Nat
                               /\ kids[j].key = e[lo[kids[j].ref]].key
                               /\ lo[kids[j].ref] <= hi[kids[j].ref]
    <2> SUFFICES ASSUME NEW j \in DOMAIN kids
                 PROVE  /\ lo[kids[j].ref] \in 1 .. n /\ hi[kids[j].ref] \in Nat /\ j \in Nat
                        /\ kids[j].key = e[lo[kids[j].ref]].key
                        /\ lo[kids[j].ref] <= hi[kids[j].ref]
      OBVIOUS
    <2>1. PICK q \in D : q = kids[j].ref
      BY DEF Row
    <2>2. a <= lo[q] /\ lo[q] <= hi[q] /\ hi[q] <= b /\ kids[j].key = e[lo[q]].key /\ j \in Nat
      BY <2>1 DEF Row
    <2>3. lo[q] \in Nat /\ hi[q] \in Nat
      BY DEF Numbers
    <2>4. lo[q] \in 1 .. n
      BY <1>2, <2>2, <2>3
    <2> QED
      BY <2>1, <2>2, <2>3, <2>4
  <1>7. kids[i].key <= e[x].key
    BY <1>1, <1>5, <1>6
  <1>8. ASSUME NEW j \in DOMAIN kids, kids[j].key <= e[x].key PROVE j <= i
    <2> SUFFICES ASSUME i < j PROVE FALSE
      BY <1>6
    <2>1. hi[kids[i].ref] < lo[kids[j].ref]
      BY DEF Row
    <2>2. lo[kids[j].ref] <= x
      BY <1>4, <1>6, <1>8
    <2> QED
      BY <1>1, <1>2, <1>6, <2>1, <2>2
  <1>9. i \in chooseChild(kids, e[x].key)
    BY <1>7, <1>8 DEF chooseChild
  <1>10. ASSUME NEW j \in chooseChild(kids, e[x].key) PROVE j = i
    <2>1. j \in DOMAIN kids /\ kids[j].key <= e[x].key /\ i <= j
      BY <1>7 DEF chooseChild
    <2> QED
      BY <1>6, <1>8, <2>1
  <1>11. chooseChild(kids, e[x].key) = {i}
    BY <1>9, <1>10
  <1> QED
    BY <1>1, <1>11 DEF LeadsTo

\* One page down: to a page of the next level, the one with the entry.
Lower(on, D, p, e, n, lo, hi, k) ==
  /\ \A q \in Descend(on, {p}, k) :
       /\ q \in D
       /\ on[p].level # 0 => on[q].level = on[p].level - 1
  /\ \A x \in lo[p] .. hi[p] :
       Listing(e, n) /\ k = e[x].key /\ on[p].level # 0 =>
         \E q \in D : Descend(on, {p}, k) = {q} /\ lo[q] <= x /\ x <= hi[q]

LEMMA DescendInTree ==
  ASSUME NEW on, NEW D, NEW r, NEW e, NEW n, NEW lo, NEW hi, TreeAt(on, D, r, e, n, lo, hi),
         NEW p \in D, NEW k
  PROVE  Lower(on, D, p, e, n, lo, hi, k)
  <1>1. Spanned(on, D, p, e, lo, hi) /\ hi[p] <= n
    BY DEF TreeAt
  <1>2. lo[p] \in Nat \ {0} /\ hi[p] \in Nat
    BY <1>1 DEF Spanned
  <1>3. PICK kids : kids = on[p].kids
    OBVIOUS
  <1>4. Descend(on, {p}, k) = IF on[p].level = 0 THEN {p}
                              ELSE {kids[i].ref : i \in chooseChild(kids, k)}
    BY <1>3 DEF Descend
  <1>5. \A i \in chooseChild(kids, k) : i \in DOMAIN kids
    BY DEF chooseChild
  <1>6. on[p].level # 0 => Row(on, D, kids, on[p].level - 1, lo[p], hi[p], e, lo, hi)
    BY <1>1, <1>3 DEF Spanned
  <1>7. on[p].level # 0 => \A i \in DOMAIN kids : kids[i].ref \in D /\ on[kids[i].ref].level = on[p].level - 1
    BY <1>6 DEF Row
  <1>8. ASSUME NEW q \in Descend(on, {p}, k)
        PROVE  q \in D /\ (on[p].level # 0 => on[q].level = on[p].level - 1)
    <2>1. CASE on[p].level = 0
      BY <1>4, <2>1
    <2>2. CASE on[p].level # 0
      <3>1. PICK i \in chooseChild(kids, k) : q = kids[i].ref
        BY <1>4, <2>2
      <3> QED
        BY <1>5, <1>7, <2>2, <3>1
    <2> QED
      BY <2>1, <2>2
  <1>9. ASSUME NEW x \in lo[p] .. hi[p], Listing(e, n), k = e[x].key, on[p].level # 0
        PROVE  \E q \in D : Descend(on, {p}, k) = {q} /\ lo[q] <= x /\ x <= hi[q]
    <2>1. Numbers(D, lo, hi)
      BY DEF TreeAt, Spanned, Numbers
    <2>2. Row(on, D, kids, on[p].level - 1, lo[p], hi[p], e, lo, hi)
      BY <1>6, <1>9
    <2>3. LeadsTo(kids, e[x].key, x, lo, hi)
      <3>1. PICK a \in Nat \ {0} : a = lo[p]
        BY <1>2
      <3>2. PICK b \in Nat : b = hi[p]
        BY <1>2
      <3>3. PICK l : l = on[p].level - 1
        OBVIOUS
      <3>4. Row(on, D, kids, l, a, b, e, lo, hi) /\ b <= n /\ x \in a .. b /\ Listing(e, n)
        BY <1>1, <1>9, <2>2, <3>1, <3>2, <3>3
      <3> QED
        BY <2>1, <3>4, ChooseInRow
    <2>4. PICK i \in DOMAIN kids : /\ chooseChild(kids, k) = {i}
                                   /\ lo[kids[i].ref] <= x /\ x <= hi[kids[i].ref]
      BY <1>9, <2>3 DEF LeadsTo
    <2>5. kids[i].ref \in D
      BY <1>7, <1>9
    <2>6. Descend(on, {p}, k) = {kids[i].ref}
      BY <1>4, <1>9, <2>4
    <2> QED
      BY <2>4, <2>5, <2>6
  <1> QED
    BY <1>8, <1>9 DEF Lower

\* The search ends at leaves, and for the key of an entry at the leaf with it.
LEMMA WalkInTree ==
  ASSUME NEW on, NEW D, NEW r, NEW e, NEW n, NEW lo, NEW hi, TreeAt(on, D, r, e, n, lo, hi),
         Listing(e, n), NEW k
  PROVE  /\ \A p \in walk(on, r, k) : p \in D /\ on[p].level = 0
         /\ \A x \in 1 .. n : k = e[x].key =>
              \E p \in D : walk(on, r, k) = {p} /\ lo[p] <= x /\ x <= hi[p]
  <1>1. r \in D /\ lo[r] = 1 /\ hi[r] = n /\ n \in Nat
    BY DEF TreeAt, Listing
  <1>2. PICK L \in Nat : L = on[r].level
    BY <1>1 DEF TreeAt, Spanned
  <1>3. \A X \in SUBSET D : Descend(on, X, k) \in SUBSET D
    <2> SUFFICES ASSUME NEW X \in SUBSET D, NEW q \in Descend(on, X, k) PROVE q \in D
      OBVIOUS
    <2>1. PICK p \in X : q \in Descend(on, {p}, k)
      BY DEF Descend
    <2>2. p \in D
      OBVIOUS
    <2>3. Lower(on, D, p, e, n, lo, hi, k)
      BY <2>2, DescendInTree
    <2> QED
      BY <2>1, <2>3 DEF Lower
  <1>4. PICK g : Descends(g, SUBSET D, on, r, k)
    BY <1>1, <1>3, WalkRounds
  <1>5. /\ g[0] = {r} /\ walk(on, r, k) = g[L]
        /\ \A j \in Nat : g[j] \in SUBSET D /\ g[j + 1] = Descend(on, g[j], k)
    BY <1>2, <1>4 DEF Descends
  <1>6. \A j \in Nat : j <= L => \A p \in g[j] : on[p].level = L - j
    <2> DEFINE F == {j \in Nat : ~ (j <= L => \A p \in g[j] : on[p].level = L - j)}
    <2>1. 0 \notin F
      BY <1>2, <1>5
    <2>2. ASSUME NEW j \in Nat, j \notin F PROVE j + 1 \notin F
      <3> SUFFICES ASSUME j + 1 <= L, NEW q \in g[j + 1] PROVE on[q].level = L - (j + 1)
        OBVIOUS
      <3>1. PICK p \in g[j] : q \in Descend(on, {p}, k)
        BY <1>5 DEF Descend
      <3>2. p \in D /\ on[p].level = L - j
        BY <1>5, <2>2
      <3>3. on[p].level # 0
        BY <3>2
      <3>4. on[q].level = on[p].level - 1
        <4>1. Lower(on, D, p, e, n, lo, hi, k)
          BY <3>2, DescendInTree
        <4> QED
          BY <3>1, <3>3, <4>1 DEF Lower
      <3> QED
        BY <3>2, <3>4
    <2>3. F \in SUBSET Nat
      OBVIOUS
    <2>4. F = {}
      <3> HIDE DEF F
      <3> QED
        BY <2>1, <2>2, <2>3, FirstFailure
    <2> QED
      BY <2>4
  <1>7. ASSUME NEW p \in g[L] PROVE p \in D /\ on[p].level = 0
    BY <1>5, <1>6
  <1>8. ASSUME NEW x \in 1 .. n, k = e[x].key
        PROVE  \E p \in D : g[L] = {p} /\ lo[p] <= x /\ x <= hi[p]
    <2> DEFINE F == {j \in Nat : ~ (j <= L => \E p \in D : g[j] = {p} /\ lo[p] <= x /\ x <= hi[p])}
    <2>1. 0 \notin F
      BY <1>1, <1>5
    <2>2. ASSUME NEW j \in Nat, j \notin F PROVE j + 1 \notin F
      <3> SUFFICES ASSUME j + 1 <= L
                   PROVE  \E q \in D : g[j + 1] = {q} /\ lo[q] <= x /\ x <= hi[q]
        OBVIOUS
      <3>1. PICK p \in D : g[j] = {p} /\ lo[p] <= x /\ x <= hi[p]
        BY <2>2
      <3>2. on[p].level # 0
        BY <1>6, <3>1
      <3>3. lo[p] \in Nat /\ hi[p] \in Nat
        BY DEF TreeAt, Spanned
      <3>4. x \in lo[p] .. hi[p]
        BY <1>1, <3>1, <3>3
      <3>5. g[j + 1] = Descend(on, {p}, k)
        BY <1>5, <3>1
      <3>6. \E q \in D : Descend(on, {p}, k) = {q} /\ lo[q] <= x /\ x <= hi[q]
        <4>1. Lower(on, D, p, e, n, lo, hi, k)
          BY DescendInTree
        <4> QED
          BY <1>8, <3>2, <3>4, <4>1 DEF Lower
      <3> QED
        BY <3>5, <3>6
    <2>3. F \in SUBSET Nat
      OBVIOUS
    <2>4. F = {}
      <3> HIDE DEF F
      <3> QED
        BY <2>1, <2>2, <2>3, FirstFailure
    <2> QED
      BY <2>4
  <1> QED
    BY <1>5, <1>7, <1>8

\* A search finds the entry with the key, and nothing when there is none.
LEMMA TreeSearch ==
  ASSUME NEW on, NEW D, NEW r, NEW e, NEW n, HoldsTree(on, D, r, e, n), Listing(e, n), NEW k
  PROVE  Search(on, r, k) = {e[x] : x \in {y \in 1 .. n : e[y].key = k}}
  <1>1. PICK lo, hi : TreeAt(on, D, r, e, n, lo, hi)
    BY DEF HoldsTree
  <1>2. n \in Nat /\ \A y \in 1 .. n : e[y].key \in Nat
    BY DEF Listing, Entry
  <1>3. PICK W : W = walk(on, r, k)
    OBVIOUS
  <1>4. \A p \in W : p \in D /\ on[p].level = 0
    BY <1>1, <1>3, WalkInTree
  <1>5. \A x \in 1 .. n : k = e[x].key => \E p \in D : W = {p} /\ lo[p] <= x /\ x <= hi[p]
    BY <1>1, <1>3, WalkInTree
  <1>6. ASSUME NEW p \in W
        PROVE  /\ lo[p] \in Nat \ {0} /\ hi[p] \in Nat /\ hi[p] <= n
               /\ Leaf(on[p].kids, lo[p], hi[p], e)
    BY <1>1, <1>4 DEF TreeAt, Spanned
  <1>7. ASSUME NEW z \in Search(on, r, k)
        PROVE  z \in {e[x] : x \in {y \in 1 .. n : e[y].key = k}}
    <2>1. PICK p \in W : \E i \in DOMAIN on[p].kids : on[p].kids[i].key = k /\ z = on[p].kids[i]
      BY <1>3 DEF Search
    <2>2. PICK i \in DOMAIN on[p].kids : on[p].kids[i].key = k /\ z = on[p].kids[i]
      BY <2>1
    <2>3. i \in 1 .. hi[p] - lo[p] + 1 /\ on[p].kids[i] = e[lo[p] + i - 1]
      BY <1>6 DEF Leaf
    <2>4. lo[p] + i - 1 \in 1 .. n
      BY <1>2, <1>6, <2>3
    <2> QED
      BY <2>2, <2>3, <2>4
  <1>8. ASSUME NEW x \in 1 .. n, e[x].key = k PROVE e[x] \in Search(on, r, k)
    <2>1. PICK p \in W : lo[p] <= x /\ x <= hi[p]
      BY <1>5, <1>8
    <2>2. PICK i \in Nat : i = x - lo[p] + 1
      BY <1>6, <2>1
    <2>3. i \in 1 .. hi[p] - lo[p] + 1 /\ lo[p] + i - 1 = x
      BY <1>6, <2>1, <2>2
    <2>4. i \in DOMAIN on[p].kids /\ on[p].kids[i] = e[x]
      BY <1>6, <2>3 DEF Leaf
    <2>5. ASSUME NEW j \in 1 .. i - 1 PROVE on[p].kids[j].key # k
      <3>1. j \in DOMAIN on[p].kids /\ on[p].kids[j] = e[lo[p] + j - 1]
        BY <1>6, <2>3 DEF Leaf
      <3>2. lo[p] + j - 1 \in 1 .. n /\ lo[p] + j - 1 < x
        BY <1>2, <1>6, <2>3
      <3>3. e[lo[p] + j - 1].key < e[x].key
        BY <3>2 DEF Listing
      <3> QED
        BY <1>2, <1>8, <3>1, <3>2, <3>3
    <2>6. on[p].kids[i].key = k
      BY <1>8, <2>4
    <2> QED
      BY <1>3, <2>4, <2>5, <2>6 DEF Search
  <1> QED
    BY <1>7, <1>8

\* The leaves hold the entries and nothing else.
KeysInLeaves(on, D) ==
  UNION {{on[p].kids[i].key : i \in DOMAIN on[p].kids} : p \in {p \in D : on[p].level = 0}}

LEMMA TreeLeaves ==
  ASSUME NEW on, NEW D, NEW r, NEW e, NEW n, HoldsTree(on, D, r, e, n), Listing(e, n)
  PROVE  KeysInLeaves(on, D) = {e[x].key : x \in 1 .. n}
  <1>1. PICK lo, hi : TreeAt(on, D, r, e, n, lo, hi)
    BY DEF HoldsTree
  <1>2. n \in Nat
    BY DEF Listing
  <1>3. ASSUME NEW p \in D, on[p].level = 0
        PROVE  /\ lo[p] \in Nat \ {0} /\ hi[p] \in Nat /\ hi[p] <= n
               /\ Leaf(on[p].kids, lo[p], hi[p], e)
    BY <1>1, <1>3 DEF TreeAt, Spanned
  <1>4. ASSUME NEW p \in D, on[p].level = 0, NEW i \in DOMAIN on[p].kids
        PROVE  on[p].kids[i].key \in {e[x].key : x \in 1 .. n}
    <2>1. i \in 1 .. hi[p] - lo[p] + 1 /\ on[p].kids[i] = e[lo[p] + i - 1]
      BY <1>3, <1>4 DEF Leaf
    <2>2. lo[p] + i - 1 \in 1 .. n
      BY <1>2, <1>3, <1>4, <2>1
    <2> QED
      BY <2>1, <2>2
  <1>5. ASSUME NEW x \in 1 .. n
        PROVE  \E p \in D : on[p].level = 0 /\ \E i \in DOMAIN on[p].kids : on[p].kids[i].key = e[x].key
    <2>1. PICK k : k = e[x].key
      OBVIOUS
    <2>2. PICK p \in D : walk(on, r, k) = {p} /\ lo[p] <= x /\ x <= hi[p]
      BY <1>1, <2>1, WalkInTree
    <2>3. on[p].level = 0
      BY <1>1, <2>2, WalkInTree
    <2>4. x - lo[p] + 1 \in 1 .. hi[p] - lo[p] + 1 /\ lo[p] + (x - lo[p] + 1) - 1 = x
      BY <1>2, <1>3, <2>2, <2>3
    <2>5. x - lo[p] + 1 \in DOMAIN on[p].kids /\ on[p].kids[x - lo[p] + 1] = e[x]
      BY <1>3, <2>3, <2>4 DEF Leaf
    <2> QED
      BY <2>3, <2>5
  <1> QED
    BY <1>4, <1>5 DEF KeysInLeaves

-----------------------------------------------------------------------------
(* The entries of a tree *)

Listed(S, t) ==
  LET keys == Ascending(S)
  IN  [i \in DOMAIN keys |-> [key |-> keys[i], val |-> t]]

\* They are listed by key, and each is there once.
EachOnce(S, t, e, n) ==
  /\ Listing(e, n)
  /\ {e[x].key : x \in 1 .. n} = S
  /\ \A k : {e[x] : x \in {y \in 1 .. n : e[y].key = k}} = IF k \in S THEN {[key |-> k, val |-> t]} ELSE {}

LEMMA ListedOnce ==
  ASSUME NEW S \in SUBSET Nat, IsFiniteSet(S), NEW t \in Tree
  PROVE  EachOnce(S, t, Listed(S, t), Cardinality(S))
  <1>1. PICK n \in Nat : n = Cardinality(S)
    BY FS_CardinalityType
  <1>2. PICK a : a = Ascending(S)
    OBVIOUS
  <1>3. Lists(a, S)
    BY <1>2, AscendingLists
  <1>4. /\ DOMAIN a = 1 .. n /\ \A i \in 1 .. n : a[i] \in S
        /\ \A i, j \in 1 .. n : i < j => a[i] < a[j]
        /\ \A x \in S : \E i \in 1 .. n : a[i] = x
    BY <1>1, <1>3 DEF Lists
  <1>5. PICK e : e = Listed(S, t)
    OBVIOUS
  <1>6. e = [i \in 1 .. n |-> [key |-> a[i], val |-> t]]
    BY <1>2, <1>4, <1>5 DEF Listed
  <1>7. \A i \in 1 .. n : e[i] = [key |-> a[i], val |-> t] /\ e[i].key = a[i] /\ e[i] \in Entry
    BY <1>4, <1>6 DEF Entry
  <1>8. e \in [1 .. n -> Entry]
    BY <1>6, <1>7
  <1>9. Listing(e, n)
    BY <1>4, <1>7, <1>8 DEF Listing
  <1>10. {e[x].key : x \in 1 .. n} = S
    <2>1. \A x \in 1 .. n : e[x].key \in S
      BY <1>4, <1>7
    <2>2. \A k \in S : \E x \in 1 .. n : e[x].key = k
      BY <1>4, <1>7
    <2> QED
      BY <2>1, <2>2
  <1>11. ASSUME NEW k, k \in S
         PROVE  {e[x] : x \in {y \in 1 .. n : e[y].key = k}} = {[key |-> k, val |-> t]}
    <2>1. PICK i \in 1 .. n : a[i] = k
      BY <1>4, <1>11
    <2>2. e[i] = [key |-> k, val |-> t] /\ e[i].key = k
      BY <1>7, <2>1
    <2>3. \A y \in 1 .. n : e[y].key = k => e[y] = [key |-> k, val |-> t]
      BY <1>7
    <2> QED
      BY <2>2, <2>3
  <1>12. ASSUME NEW k, k \notin S
         PROVE  {e[x] : x \in {y \in 1 .. n : e[y].key = k}} = {}
    <2>1. \A x \in 1 .. n : e[x].key # k
      BY <1>4, <1>7, <1>12
    <2> QED
      BY <2>1
  <1>13. EachOnce(S, t, e, n)
    BY <1>9, <1>10, <1>11, <1>12 DEF EachOnce
  <1> QED
    BY <1>1, <1>5, <1>13

-----------------------------------------------------------------------------
(* Both trees on file *)

\* The pages D hold the tree of the entries S, from root r.
TreeOf(on, D, r, S, t) == HoldsTree(on, D, r, Listed(S, t), Cardinality(S))

\* The file is the pages of two trees, which share none.
TwoTrees(on, rN, rB, sets) ==
  /\ Closed(on)
  /\ \E N, B : /\ DOMAIN on = N \cup B /\ N \cap B = {}
               /\ TreeOf(on, N, rN, sets["NBT"], "NBT")
               /\ TreeOf(on, B, rB, sets["BBT"], "BBT")

\* A page with the refs of its kids moved.
KidsAt(at, kids, base) == [i \in DOMAIN kids |-> [kids[i] EXCEPT !.ref = at[base + kids[i].ref]]]
PageAt(at, p, base) == IF p.level = 0 THEN p ELSE [p EXCEPT !.kids = KidsAt(at, p.kids, base)]

\* The refs stay within the n pages.
RefsWithin(pages, n) ==
  \A q \in 1 .. n : pages[q].level # 0 =>
    \A i \in DOMAIN pages[q].kids : pages[q].kids[i].ref \in 1 .. n

SameButRefs(at, p, base) ==
  /\ PageAt(at, p, base).level = p.level
  /\ DOMAIN PageAt(at, p, base).kids = DOMAIN p.kids
  /\ \A i \in DOMAIN p.kids : /\ PageAt(at, p, base).kids[i].key = p.kids[i].key
                              /\ PageAt(at, p, base).kids[i].ref = at[base + p.kids[i].ref]

LEMMA PageAtKids ==
  ASSUME NEW at, NEW p \in Page, NEW base \in Nat, p.level # 0
  PROVE  SameButRefs(at, p, base)
  <1>1. /\ p \in [level : Nat, kids : Seq(Entry) \cup Seq(Ref)]
        /\ p.kids \in Seq(Ref)
    BY DEF Page, Kid
  <1>2. PICK w : w = PageAt(at, p, base)
    OBVIOUS
  <1>3. w = [p EXCEPT !.kids = KidsAt(at, p.kids, base)]
    BY <1>2 DEF PageAt
  <1>4. w.level = p.level /\ w.kids = KidsAt(at, p.kids, base)
    BY <1>1, <1>3
  <1>5. DOMAIN KidsAt(at, p.kids, base) = DOMAIN p.kids
    BY DEF KidsAt
  <1>6. ASSUME NEW i \in DOMAIN p.kids
        PROVE  /\ KidsAt(at, p.kids, base)[i].key = p.kids[i].key
               /\ KidsAt(at, p.kids, base)[i].ref = at[base + p.kids[i].ref]
    <2>1. PICK k : k = p.kids[i]
      OBVIOUS
    <2>2. KidsAt(at, p.kids, base)[i] = [k EXCEPT !.ref = at[base + k.ref]]
      BY <2>1 DEF KidsAt
    <2>3. k \in Ref
      BY <1>1, <2>1, ElementOfSeq, LenProperties
    <2>4. /\ [k EXCEPT !.ref = at[base + k.ref]].key = k.key
          /\ [k EXCEPT !.ref = at[base + k.ref]].ref = at[base + k.ref]
      BY <2>3 DEF Ref
    <2> QED
      BY <2>1, <2>2, <2>4
  <1> QED
    BY <1>2, <1>4, <1>5, <1>6 DEF SameButRefs

\* The pages of one tree, behind base others.
PlacedFrom(pages, n, on, at, base) ==
  /\ \A i \in 1 .. n : on[at[base + i]] = PageAt(at, pages[i], base)
  /\ \A i, j \in 1 .. n : at[base + i] = at[base + j] => i = j

MovedFrom(pages, n, on, at, base) ==
  Moved(pages, 1 .. n, on, [i \in 1 .. n |-> at[base + i]])

LEMMA PagesMoved ==
  ASSUME NEW n \in Nat, NEW pages \in Seq(Page), Len(pages) = n, RefsWithin(pages, n),
         NEW base \in Nat, NEW at, NEW on, PlacedFrom(pages, n, on, at, base)
  PROVE  MovedFrom(pages, n, on, at, base)
  <1>1. PICK to : to = [i \in 1 .. n |-> at[base + i]]
    OBVIOUS
  <1>2. \A i \in 1 .. n : to[i] = at[base + i]
    BY <1>1
  <1>3. \A i, j \in 1 .. n : to[i] = to[j] => i = j
    BY <1>2 DEF PlacedFrom
  <1>4. ASSUME NEW q \in 1 .. n
        PROVE  /\ on[to[q]].level = pages[q].level
               /\ pages[q].level = 0 => on[to[q]].kids = pages[q].kids
               /\ pages[q].level # 0 =>
                    /\ DOMAIN on[to[q]].kids = DOMAIN pages[q].kids
                    /\ \A i \in DOMAIN pages[q].kids :
                         /\ on[to[q]].kids[i].key = pages[q].kids[i].key
                         /\ on[to[q]].kids[i].ref = to[pages[q].kids[i].ref]
    <2>1. PICK p \in Page : p = pages[q]
      BY ElementOfSeq
    <2>2. on[to[q]] = PageAt(at, p, base)
      BY <1>2, <2>1 DEF PlacedFrom
    <2>3. CASE p.level = 0
      BY <2>1, <2>2, <2>3 DEF PageAt
    <2>4. CASE p.level # 0
      <3>1. /\ PageAt(at, p, base).level = p.level
            /\ DOMAIN PageAt(at, p, base).kids = DOMAIN p.kids
            /\ \A i \in DOMAIN p.kids : /\ PageAt(at, p, base).kids[i].key = p.kids[i].key
                                        /\ PageAt(at, p, base).kids[i].ref = at[base + p.kids[i].ref]
        <4>1. SameButRefs(at, p, base)
          BY <2>4, PageAtKids
        <4> QED
          BY <4>1 DEF SameButRefs
      <3>2. \A i \in DOMAIN p.kids : p.kids[i].ref \in 1 .. n
        <4>1. pages[q].level # 0 => \A i \in DOMAIN pages[q].kids : pages[q].kids[i].ref \in 1 .. n
          BY DEF RefsWithin
        <4> QED
          BY <2>1, <2>4, <4>1
      <3>3. \A i \in DOMAIN p.kids : at[base + p.kids[i].ref] = to[p.kids[i].ref]
        BY <1>2, <3>2
      <3> QED
        BY <2>1, <2>2, <2>4, <3>1, <3>3
    <2> QED
      BY <2>3, <2>4
  <1>5. Moved(pages, 1 .. n, on, to)
    BY <1>3, <1>4 DEF Moved
  <1> QED
    BY <1>1, <1>5 DEF MovedFrom

LEMMA EncodedRefs ==
  ASSUME NEW pages, NEW e, NEW n, Encoded(pages, e, n)
  PROVE  RefsWithin(pages, Len(pages))
  <1>1. PICK N : N = Len(pages)
    OBVIOUS
  <1>2. PICK lo, hi : TreeAt(pages, 1 .. N, N, e, n, lo, hi)
    BY <1>1 DEF Encoded, HoldsTree
  <1>3. ASSUME NEW q \in 1 .. N, pages[q].level # 0, NEW i \in DOMAIN pages[q].kids
        PROVE  pages[q].kids[i].ref \in 1 .. N
    <2>1. Spanned(pages, 1 .. N, q, e, lo, hi)
      BY <1>2 DEF TreeAt
    <2> QED
      BY <1>3, <2>1 DEF Spanned, Row
  <1> QED
    BY <1>1, <1>3 DEF RefsWithin

\* The two trees in place.
InPlace(on, nodeTree, blockTree, at, n, b) ==
  /\ DOMAIN on = {at[i] : i \in 1 .. n + b}
  /\ MovedFrom(nodeTree, n, on, at, 0) /\ MovedFrom(blockTree, b, on, at, n)

LEMMA PlacedPages ==
  ASSUME NEW n \in Nat, NEW b \in Nat, NEW nodeTree \in Seq(Page), NEW blockTree \in Seq(Page),
         Len(nodeTree) = n, Len(blockTree) = b, RefsWithin(nodeTree, n), RefsWithin(blockTree, b),
         NEW taken, NEW at, Granted(at, taken, n + b)
  PROVE  InPlace(Placed(nodeTree, blockTree, at), nodeTree, blockTree, at, n, b)
  <1>1. DOMAIN at = 1 .. n + b /\ \A i, j \in 1 .. n + b : at[i] = at[j] => i = j
    BY DEF Granted
  <1>2. PICK on : on = Placed(nodeTree, blockTree, at)
    OBVIOUS
  <1> DEFINE all == [i \in DOMAIN at |-> IF i <= n THEN PageAt(at, nodeTree[i], 0)
                                         ELSE PageAt(at, blockTree[i - n], n)]
  <1>3. on = [ib \in {at[i] : i \in DOMAIN at} |-> all[CHOOSE i \in DOMAIN at : at[i] = ib]]
    BY <1>2 DEF Placed, PageAt, KidsAt
  <1>4. DOMAIN on = {at[i] : i \in 1 .. n + b}
    BY <1>1, <1>3
  <1>5. \A i \in 1 .. n : i \in 1 .. n + b /\ i <= n /\ 0 + i = i
    OBVIOUS
  <1>6. \A i \in 1 .. b : n + i \in 1 .. n + b /\ ~ (n + i <= n) /\ (n + i) - n = i
    OBVIOUS
  <1>7. \A i \in 1 .. n : all[i] = PageAt(at, nodeTree[i], 0)
    BY <1>1, <1>5
  <1>8. \A i \in 1 .. b : all[n + i] = PageAt(at, blockTree[i], n)
    BY <1>1, <1>6
  <1> HIDE DEF all
  <1>9. \A i \in 1 .. n + b : on[at[i]] = all[i]
    <2> SUFFICES ASSUME NEW i \in 1 .. n + b PROVE on[at[i]] = all[i]
      OBVIOUS
    <2>1. on[at[i]] = all[CHOOSE j \in DOMAIN at : at[j] = at[i]]
      BY <1>1, <1>3
    <2>2. (CHOOSE j \in DOMAIN at : at[j] = at[i]) = i
      BY <1>1
    <2> QED
      BY <2>1, <2>2
  <1>10. /\ \A i \in 1 .. n : on[at[0 + i]] = PageAt(at, nodeTree[i], 0)
         /\ \A i, j \in 1 .. n : at[0 + i] = at[0 + j] => i = j
    BY <1>1, <1>5, <1>7, <1>9
  <1>11. \A i \in 1 .. b : on[at[n + i]] = PageAt(at, blockTree[i], n)
    BY <1>6, <1>8, <1>9
  <1>12. \A i, j \in 1 .. b : at[n + i] = at[n + j] => i = j
    <2> SUFFICES ASSUME NEW i \in 1 .. b, NEW j \in 1 .. b, at[n + i] = at[n + j] PROVE i = j
      OBVIOUS
    <2>1. n + i = n + j
      BY <1>1, <1>6
    <2> QED
      BY <2>1
  <1>13. MovedFrom(nodeTree, n, on, at, 0)
    <2>1. 0 \in Nat /\ PlacedFrom(nodeTree, n, on, at, 0)
      BY <1>10 DEF PlacedFrom
    <2> QED
      BY <2>1, PagesMoved
  <1>14. MovedFrom(blockTree, b, on, at, n)
    <2>1. PlacedFrom(blockTree, b, on, at, n)
      BY <1>11, <1>12 DEF PlacedFrom
    <2> QED
      BY <2>1, PagesMoved
  <1> QED
    BY <1>2, <1>4, <1>13, <1>14 DEF InPlace

\* What a commit puts on file: two trees, in pages that were not taken.
LEMMA PlacedTrees ==
  ASSUME NEW sets, NEW nodeTree, NEW blockTree, NEW taken, NEW at,
         Encoded(nodeTree, Listed(sets["NBT"], "NBT"), Cardinality(sets["NBT"])),
         Encoded(blockTree, Listed(sets["BBT"], "BBT"), Cardinality(sets["BBT"])),
         Granted(at, taken, Len(nodeTree) + Len(blockTree))
  PROVE  /\ DOMAIN Placed(nodeTree, blockTree, at) \cap taken = {} /\ DOMAIN Placed(nodeTree, blockTree, at) \subseteq Nat
         /\ at[Len(nodeTree)] \in Nat
         /\ TwoTrees(Placed(nodeTree, blockTree, at), at[Len(nodeTree)], at[Len(nodeTree) + Len(blockTree)], sets)
  <1>1. nodeTree \in Seq(Page) /\ blockTree \in Seq(Page) /\ Len(nodeTree) >= 1 /\ Len(blockTree) >= 1
    BY DEF Encoded
  <1>2. PICK n \in Nat : n = Len(nodeTree) /\ n >= 1
    BY <1>1, LenProperties
  <1>3. PICK b \in Nat : b = Len(blockTree) /\ b >= 1
    BY <1>1, LenProperties
  <1>4. RefsWithin(nodeTree, n) /\ RefsWithin(blockTree, b)
    BY <1>2, <1>3, EncodedRefs
  <1>5. PICK on : on = Placed(nodeTree, blockTree, at)
    OBVIOUS
  <1>6. Granted(at, taken, n + b)
    BY <1>2, <1>3
  <1>7. InPlace(on, nodeTree, blockTree, at, n, b)
    <2>1. Len(nodeTree) = n /\ Len(blockTree) = b
      BY <1>2, <1>3
    <2> QED
      BY <1>1, <1>4, <1>5, <1>6, <2>1, PlacedPages
  <1>8. DOMAIN on = {at[i] : i \in 1 .. n + b}
    BY <1>7 DEF InPlace
  <1>9. /\ \A i \in 1 .. n + b : at[i] \in Nat \ taken
        /\ \A i, j \in 1 .. n + b : at[i] = at[j] => i = j
    BY <1>6 DEF Granted
  <1>10. DOMAIN on \cap taken = {} /\ DOMAIN on \subseteq Nat
    BY <1>8, <1>9
  <1>11. \A i \in 1 .. n : i \in 1 .. n + b /\ 0 + i = i
    OBVIOUS
  <1>12. \A i \in 1 .. b : n + i \in 1 .. n + b /\ ~ (n + i <= n)
    OBVIOUS
  <1>13. n \in 1 .. n /\ b \in 1 .. b
    BY <1>2, <1>3
  <1>14. PICK N : N = {at[i] : i \in 1 .. n}
    OBVIOUS
  <1>15. PICK B : B = {at[n + i] : i \in 1 .. b}
    OBVIOUS
  <1>16. TreeOf(on, N, at[n], sets["NBT"], "NBT")
    <2>1. PICK to : to = [i \in 1 .. n |-> at[0 + i]]
      OBVIOUS
    <2>2. Moved(nodeTree, 1 .. n, on, to)
      BY <1>7, <2>1 DEF InPlace, MovedFrom
    <2>3. PICK e : e = Listed(sets["NBT"], "NBT")
      OBVIOUS
    <2>4. PICK m : m = Cardinality(sets["NBT"])
      OBVIOUS
    <2>5. HoldsTree(nodeTree, 1 .. n, n, e, m)
      BY <1>2, <2>3, <2>4 DEF Encoded
    <2>6. HoldsTree(on, {to[p] : p \in 1 .. n}, to[n], e, m)
      BY <2>2, <2>5, MovedHolds
    <2>7. \A i \in 1 .. n : to[i] = at[i]
      BY <1>11, <2>1
    <2>8. {to[p] : p \in 1 .. n} = N /\ to[n] = at[n]
      BY <1>13, <1>14, <2>7
    <2> QED
      BY <2>3, <2>4, <2>6, <2>8 DEF TreeOf
  <1>17. TreeOf(on, B, at[n + b], sets["BBT"], "BBT")
    <2>1. PICK to : to = [i \in 1 .. b |-> at[n + i]]
      OBVIOUS
    <2>2. Moved(blockTree, 1 .. b, on, to)
      BY <1>7, <2>1 DEF InPlace, MovedFrom
    <2>3. PICK e : e = Listed(sets["BBT"], "BBT")
      OBVIOUS
    <2>4. PICK m : m = Cardinality(sets["BBT"])
      OBVIOUS
    <2>5. HoldsTree(blockTree, 1 .. b, b, e, m)
      BY <1>3, <2>3, <2>4 DEF Encoded
    <2>6. HoldsTree(on, {to[p] : p \in 1 .. b}, to[b], e, m)
      BY <2>2, <2>5, MovedHolds
    <2>7. \A i \in 1 .. b : to[i] = at[n + i]
      BY <2>1
    <2>8. {to[p] : p \in 1 .. b} = B /\ to[b] = at[n + b]
      BY <1>13, <1>15, <2>7
    <2> QED
      BY <2>3, <2>4, <2>6, <2>8 DEF TreeOf
  <1>18. DOMAIN on = N \cup B
    <2>1. \A i \in 1 .. n + b : i \in 1 .. n \/ \E j \in 1 .. b : i = n + j
      <3> SUFFICES ASSUME NEW i \in 1 .. n + b, i > n PROVE \E j \in 1 .. b : i = n + j
        OBVIOUS
      <3>1. i - n \in 1 .. b /\ i = n + (i - n)
        OBVIOUS
      <3> QED
        BY <3>1
    <2>2. DOMAIN on \subseteq N \cup B
      BY <1>8, <1>14, <1>15, <2>1
    <2>3. N \subseteq DOMAIN on
      BY <1>8, <1>11, <1>14
    <2>4. B \subseteq DOMAIN on
      BY <1>8, <1>12, <1>15
    <2> QED
      BY <2>2, <2>3, <2>4
  <1>19. N \cap B = {}
    <2> SUFFICES ASSUME NEW i \in 1 .. n, NEW j \in 1 .. b, at[i] = at[n + j] PROVE FALSE
      BY <1>14, <1>15
    <2>1. i = n + j
      BY <1>9, <1>11, <1>12
    <2> QED
      BY <1>12, <2>1
  <1>20. Closed(on)
    <2>1. IsFiniteSet(DOMAIN on)
      <3>1. IsFiniteSet(1 .. n + b)
        <4>1. 1 \in Int /\ n + b \in Int
          OBVIOUS
        <4> QED
          BY <4>1, FS_Interval
      <3>2. PICK f : f = [i \in 1 .. n + b |-> at[i]]
        OBVIOUS
      <3>3. f \in Surjection(1 .. n + b, DOMAIN on)
        BY <1>8, <3>2 DEF Surjection
      <3> QED
        BY <3>1, <3>3, FS_Surjection
    <2>2. N \in SUBSET DOMAIN on /\ B \in SUBSET DOMAIN on
      BY <1>18
    <2>3. \A p \in N : Below(on)[p] \subseteq N
      BY <1>16, <2>2, TreeClosed DEF TreeOf
    <2>4. \A p \in B : Below(on)[p] \subseteq B
      BY <1>17, <2>2, TreeClosed DEF TreeOf
    <2>5. \A p \in DOMAIN on : Below(on)[p] \subseteq DOMAIN on
      BY <1>18, <2>2, <2>3, <2>4
    <2> QED
      BY <2>1, <2>5 DEF Closed
  <1>21. TwoTrees(on, at[n], at[n + b], sets)
    BY <1>16, <1>17, <1>18, <1>19, <1>20 DEF TwoTrees
  <1>22. at[n] \in Nat
    BY <1>9, <1>11, <1>13
  <1> QED
    BY <1>2, <1>3, <1>5, <1>10, <1>21, <1>22

-----------------------------------------------------------------------------
(* What a file with two trees promises *)

\* The sets of entries are finite sets of keys.
EntrySets(sets) ==
  \A t \in Tree : sets[t] \in SUBSET Nat /\ IsFiniteSet(sets[t]) /\ sets[t] \subseteq Keys(t)

LEMMA TreeOfPages ==
  ASSUME NEW on, Closed(on), NEW D \in SUBSET DOMAIN on, NEW r, NEW t \in Tree,
         NEW S \in SUBSET Nat, IsFiniteSet(S), TreeOf(on, D, r, S, t)
  PROVE  /\ PagesUnder(on, r) = D
         /\ SeparatorsAreFirstKeys(on, r)
         /\ \A k : Search(on, r, k) = IF k \in S THEN {[key |-> k, val |-> t]} ELSE {}
         /\ KeysInLeaves(on, PagesUnder(on, r)) = S
  <1>1. PICK e : e = Listed(S, t)
    OBVIOUS
  <1>2. PICK n : n = Cardinality(S)
    OBVIOUS
  <1>3. HoldsTree(on, D, r, e, n)
    BY <1>1, <1>2 DEF TreeOf
  <1>4. EachOnce(S, t, e, n)
    BY <1>1, <1>2, ListedOnce
  <1>5. Listing(e, n)
    BY <1>4 DEF EachOnce
  <1>6. PagesUnder(on, r) = D
    BY <1>3, TreePages
  <1>7. SeparatorsAreFirstKeys(on, r)
    BY <1>3, TreeSeparators
  <1>8. ASSUME NEW k PROVE Search(on, r, k) = IF k \in S THEN {[key |-> k, val |-> t]} ELSE {}
    <2>1. Search(on, r, k) = {e[x] : x \in {y \in 1 .. n : e[y].key = k}}
      BY <1>3, <1>5, TreeSearch
    <2>2. {e[x] : x \in {y \in 1 .. n : e[y].key = k}} = IF k \in S THEN {[key |-> k, val |-> t]} ELSE {}
      BY <1>4 DEF EachOnce
    <2> QED
      BY <2>1, <2>2
  <1>9. KeysInLeaves(on, D) = S
    <2>1. KeysInLeaves(on, D) = {e[x].key : x \in 1 .. n}
      BY <1>3, <1>5, TreeLeaves
    <2>2. {e[x].key : x \in 1 .. n} = S
      BY <1>4 DEF EachOnce
    <2> QED
      BY <2>1, <2>2
  <1> QED
    BY <1>6, <1>7, <1>8, <1>9

\* Lookups, checks and reopening in a file with two trees.
Promises(on, r, sets) ==
  /\ PagesUnder(on, r["NBT"]) \cup PagesUnder(on, r["BBT"]) = DOMAIN on
  /\ PagesUnder(on, r["NBT"]) \cap PagesUnder(on, r["BBT"]) = {}
  /\ \A t \in Tree :
       /\ SeparatorsAreFirstKeys(on, r[t])
       /\ KeysInLeaves(on, PagesUnder(on, r[t])) = sets[t]
       /\ \A k : Search(on, r[t], k) = IF k \in sets[t] THEN {[key |-> k, val |-> t]} ELSE {}

LEMMA TwoTreesPromise ==
  ASSUME NEW on, NEW r, NEW sets, EntrySets(sets), TwoTrees(on, r["NBT"], r["BBT"], sets)
  PROVE  Promises(on, r, sets)
  <1>1. "NBT" \in Tree /\ "BBT" \in Tree /\ \A t \in Tree : t = "NBT" \/ t = "BBT"
    BY DEF Tree
  <1>2. Closed(on)
    BY DEF TwoTrees
  <1>3. PICK N, B : /\ DOMAIN on = N \cup B /\ N \cap B = {}
                    /\ TreeOf(on, N, r["NBT"], sets["NBT"], "NBT")
                    /\ TreeOf(on, B, r["BBT"], sets["BBT"], "BBT")
    BY DEF TwoTrees
  <1>4. N \in SUBSET DOMAIN on /\ B \in SUBSET DOMAIN on
    BY <1>3
  <1>5. \A t \in Tree : sets[t] \in SUBSET Nat /\ IsFiniteSet(sets[t])
    BY DEF EntrySets
  <1>6. PICK S \in SUBSET Nat : S = sets["NBT"] /\ IsFiniteSet(S)
    BY <1>1, <1>5
  <1>7. PICK T \in SUBSET Nat : T = sets["BBT"] /\ IsFiniteSet(T)
    BY <1>1, <1>5
  <1>8. PICK x : x = r["NBT"]
    OBVIOUS
  <1>9. PICK y : y = r["BBT"]
    OBVIOUS
  <1>10. /\ PagesUnder(on, x) = N
         /\ SeparatorsAreFirstKeys(on, x)
         /\ \A k : Search(on, x, k) = IF k \in S THEN {[key |-> k, val |-> "NBT"]} ELSE {}
         /\ KeysInLeaves(on, PagesUnder(on, x)) = S
    <2>1. TreeOf(on, N, x, S, "NBT")
      BY <1>3, <1>6, <1>8
    <2> QED
      BY <1>1, <1>2, <1>4, <1>6, <2>1, TreeOfPages
  <1>11. /\ PagesUnder(on, y) = B
         /\ SeparatorsAreFirstKeys(on, y)
         /\ \A k : Search(on, y, k) = IF k \in T THEN {[key |-> k, val |-> "BBT"]} ELSE {}
         /\ KeysInLeaves(on, PagesUnder(on, y)) = T
    <2>1. TreeOf(on, B, y, T, "BBT")
      BY <1>3, <1>7, <1>9
    <2> QED
      BY <1>1, <1>2, <1>4, <1>7, <2>1, TreeOfPages
  <1>12. /\ SeparatorsAreFirstKeys(on, r["NBT"])
         /\ KeysInLeaves(on, PagesUnder(on, r["NBT"])) = sets["NBT"]
         /\ \A k : Search(on, r["NBT"], k) = IF k \in sets["NBT"] THEN {[key |-> k, val |-> "NBT"]} ELSE {}
    BY <1>6, <1>8, <1>10
  <1>13. /\ SeparatorsAreFirstKeys(on, r["BBT"])
         /\ KeysInLeaves(on, PagesUnder(on, r["BBT"])) = sets["BBT"]
         /\ \A k : Search(on, r["BBT"], k) = IF k \in sets["BBT"] THEN {[key |-> k, val |-> "BBT"]} ELSE {}
    BY <1>7, <1>9, <1>11
  <1>14. ASSUME NEW t \in Tree
         PROVE  /\ SeparatorsAreFirstKeys(on, r[t])
                /\ KeysInLeaves(on, PagesUnder(on, r[t])) = sets[t]
                /\ \A k : Search(on, r[t], k) = IF k \in sets[t] THEN {[key |-> k, val |-> t]} ELSE {}
    <2>1. CASE t = "NBT"
      BY <1>12, <2>1
    <2>2. CASE t = "BBT"
      BY <1>13, <2>2
    <2> QED
      BY <1>1, <2>1, <2>2
  <1>15. /\ PagesUnder(on, r["NBT"]) \cup PagesUnder(on, r["BBT"]) = DOMAIN on
         /\ PagesUnder(on, r["NBT"]) \cap PagesUnder(on, r["BBT"]) = {}
    BY <1>3, <1>8, <1>9, <1>10, <1>11
  <1> QED
    BY <1>14, <1>15 DEF Promises

-----------------------------------------------------------------------------
(* The inductive invariant *)

\* Space: what blocks hold and what the trees live in.
SpaceDisjoint ==
  /\ held \in SUBSET Nat /\ IsFiniteSet(held)
  /\ livePages \in SUBSET Nat /\ IsFiniteSet(livePages)
  /\ held \cap livePages = {}

\* The catalog.
CatalogTyped == entries \in [Tree -> SUBSET Nat] /\ EntrySets(entries)

\* The file: after a commit it is the two trees of the entries committed, in
\* pages that are all live and that the AMap gives to no block.
FileSound ==
  Committed =>
    /\ livePages = DOMAIN file
    /\ committed.held \in SUBSET Nat /\ IsFiniteSet(committed.held)
    /\ committed.held \cap DOMAIN file = {}
    /\ committed.entries \in [Tree -> SUBSET Nat] /\ EntrySets(committed.entries)
    /\ TwoTrees(file, root["NBT"], root["BBT"], committed.entries)

ImageInv == SpaceDisjoint /\ CatalogTyped /\ FileSound

LEMMA ImageInvInit == Init => ImageInv
  <1> SUFFICES ASSUME Init PROVE ImageInv
    OBVIOUS
  <1>1. SpaceDisjoint
    BY FS_EmptySet DEF Init, SpaceDisjoint
  <1>2. \A t \in Tree : entries[t] = {}
    BY DEF Init, Empty
  <1>3. EntrySets(entries)
    BY <1>2, FS_EmptySet DEF EntrySets
  <1>4. entries \in [Tree -> SUBSET Nat]
    BY DEF Init, Empty
  <1>5. ~ Committed
    BY DEF Init, Committed, Tree
  <1> QED
    BY <1>1, <1>3, <1>4, <1>5 DEF ImageInv, CatalogTyped, FileSound

LEMMA PutInv ==
  ASSUME ImageInv, NEW t \in Tree, NEW k \in Keys(t), Put(t, k) \/ Drop(t, k)
  PROVE  ImageInv'
  <1>1. UNCHANGED <<held, livePages, file, root, committed>>
    BY DEF Put, Drop
  <1>2. k \in Nat
    BY ImageAssumption DEF Keys
  <1>3. entries \in [Tree -> SUBSET Nat]
    BY DEF ImageInv, CatalogTyped
  <1>4. \A u \in Tree : IsFiniteSet(entries[u]) /\ entries[u] \subseteq Keys(u)
    BY DEF ImageInv, CatalogTyped, EntrySets
  <1>5. PICK S \in SUBSET Nat : /\ entries' = [entries EXCEPT ![t] = S]
                                /\ IsFiniteSet(S) /\ S \subseteq Keys(t)
    <2>1. IsFiniteSet(entries[t] \cup {k}) /\ IsFiniteSet(entries[t] \ {k})
      BY <1>4, FS_AddElement, FS_RemoveElement
    <2>2. entries[t] \cup {k} \in SUBSET Nat /\ entries[t] \ {k} \in SUBSET Nat
      BY <1>2, <1>3
    <2>3. \/ entries' = [entries EXCEPT ![t] = entries[t] \cup {k}]
          \/ entries' = [entries EXCEPT ![t] = entries[t] \ {k}]
      BY DEF Put, Drop
    <2> QED
      BY <1>4, <2>1, <2>2, <2>3
  <1>6. entries' \in [Tree -> SUBSET Nat]
    BY <1>3, <1>5
  <1>7. EntrySets(entries')
    <2> SUFFICES ASSUME NEW u \in Tree
                 PROVE  /\ entries'[u] \in SUBSET Nat /\ IsFiniteSet(entries'[u])
                        /\ entries'[u] \subseteq Keys(u)
      BY DEF EntrySets
    <2>1. CASE u = t
      <3>1. entries'[u] = S
        BY <1>3, <1>5, <2>1
      <3> QED
        BY <1>5, <2>1, <3>1
    <2>2. CASE u # t
      <3>1. entries'[u] = entries[u]
        BY <1>3, <1>5, <2>2
      <3> QED
        BY <1>3, <1>4, <3>1
    <2> QED
      BY <2>1, <2>2
  <1>8. SpaceDisjoint' /\ FileSound'
    BY <1>1 DEF ImageInv, SpaceDisjoint, FileSound, Committed
  <1> QED
    BY <1>6, <1>7, <1>8 DEF ImageInv, CatalogTyped

\* The page a block is given is not live.
LEMMA HoldPageInv ==
  ASSUME ImageInv, HoldPage PROVE ImageInv'
  <1>1. UNCHANGED <<entries, livePages, file, root, committed>>
    BY DEF HoldPage
  <1>2. PICK taken \in SUBSET Nat : taken = held \cup livePages /\ IsFiniteSet(taken)
    BY FS_Union DEF ImageInv, SpaceDisjoint
  <1>3. PICK at : at = AllocatePages(taken, 1)
    OBVIOUS
  <1>4. Granted(at, taken, 1)
    <2>1. 1 \in Nat
      OBVIOUS
    <2> QED
      BY <1>2, <1>3, <2>1, AllocatePagesGrants
  <1>5. at[1] \in Nat \ taken
    <2>1. 1 \in 1 .. 1
      OBVIOUS
    <2> QED
      BY <1>4, <2>1 DEF Granted
  <1>6. held' = held \cup {at[1]}
    BY <1>2, <1>3 DEF HoldPage
  <1>7. IsFiniteSet(held')
    BY <1>6, FS_AddElement DEF ImageInv, SpaceDisjoint
  <1>8. held' \in SUBSET Nat /\ held' \cap livePages = {}
    BY <1>2, <1>5, <1>6 DEF ImageInv, SpaceDisjoint
  <1>9. SpaceDisjoint'
    BY <1>1, <1>7, <1>8 DEF ImageInv, SpaceDisjoint
  <1>10. CatalogTyped' /\ FileSound'
    BY <1>1 DEF ImageInv, CatalogTyped, FileSound, Committed
  <1> QED
    BY <1>9, <1>10 DEF ImageInv

LEMMA FreePageInv ==
  ASSUME ImageInv, NEW p \in held, FreePage(p) PROVE ImageInv'
  <1>1. UNCHANGED <<entries, livePages, file, root, committed>> /\ held' = held \ {p}
    BY DEF FreePage
  <1>2. IsFiniteSet(held')
    BY <1>1, FS_RemoveElement DEF ImageInv, SpaceDisjoint
  <1>3. held' \in SUBSET Nat /\ held' \cap livePages = {}
    BY <1>1 DEF ImageInv, SpaceDisjoint
  <1>4. SpaceDisjoint'
    BY <1>1, <1>2, <1>3 DEF ImageInv, SpaceDisjoint
  <1>5. CatalogTyped' /\ FileSound'
    BY <1>1 DEF ImageInv, CatalogTyped, FileSound, Committed
  <1> QED
    BY <1>4, <1>5 DEF ImageInv

\* The commit: the two trees of the catalog, in pages that were free.
LEMMA EncodeInv ==
  ASSUME ImageInv, Encode
  PROVE  ImageInv' /\ DOMAIN file' \cap (held \cup livePages) = {}
  <1>1. PICK nodeTree : nodeTree = encodeTree(Sorted("NBT"), "first")
    OBVIOUS
  <1>2. PICK blockTree : blockTree = encodeTree(Sorted("BBT"), "first")
    OBVIOUS
  <1>3. PICK taken \in SUBSET Nat : taken = held \cup livePages /\ IsFiniteSet(taken)
    BY FS_Union DEF ImageInv, SpaceDisjoint
  <1>4. PICK at : at = AllocatePages(taken, Len(nodeTree) + Len(blockTree))
    OBVIOUS
  <1>5. PICK on : on = Placed(nodeTree, blockTree, at)
    OBVIOUS
  <1>6. /\ livePages' = DOMAIN on
        /\ file' = on
        /\ root' = [NBT |-> at[Len(nodeTree)], BBT |-> at[Len(nodeTree) + Len(blockTree)]]
        /\ committed' = [entries |-> entries, held |-> held]
        /\ UNCHANGED <<entries, held>>
    BY <1>1, <1>2, <1>3, <1>4, <1>5 DEF Encode
  <1>7. /\ root'["NBT"] = at[Len(nodeTree)] /\ root'["BBT"] = at[Len(nodeTree) + Len(blockTree)]
        /\ committed'.entries = entries /\ committed'.held = held
        /\ entries' = entries /\ held' = held
    BY <1>6
  <1>8. "NBT" \in Tree /\ "BBT" \in Tree
    BY DEF Tree
  <1>9. entries \in [Tree -> SUBSET Nat] /\ EntrySets(entries)
    BY DEF ImageInv, CatalogTyped
  <1>10. Encoded(nodeTree, Listed(entries["NBT"], "NBT"), Cardinality(entries["NBT"]))
    <2>1. PICK e : e = Listed(entries["NBT"], "NBT")
      OBVIOUS
    <2>2. e = Sorted("NBT")
      BY <2>1 DEF Sorted, Listed
    <2>3. EachOnce(entries["NBT"], "NBT", e, Cardinality(entries["NBT"]))
      BY <1>8, <1>9, <2>1, ListedOnce DEF EntrySets
    <2>4. Listing(e, Cardinality(entries["NBT"]))
      BY <2>3 DEF EachOnce
    <2> QED
      BY <1>1, <2>1, <2>2, <2>4, EncodeTreeHolds
  <1>11. Encoded(blockTree, Listed(entries["BBT"], "BBT"), Cardinality(entries["BBT"]))
    <2>1. PICK e : e = Listed(entries["BBT"], "BBT")
      OBVIOUS
    <2>2. e = Sorted("BBT")
      BY <2>1 DEF Sorted, Listed
    <2>3. EachOnce(entries["BBT"], "BBT", e, Cardinality(entries["BBT"]))
      BY <1>8, <1>9, <2>1, ListedOnce DEF EntrySets
    <2>4. Listing(e, Cardinality(entries["BBT"]))
      BY <2>3 DEF EachOnce
    <2> QED
      BY <1>2, <2>1, <2>2, <2>4, EncodeTreeHolds
  <1>12. PICK n \in Nat : n = Len(nodeTree) + Len(blockTree)
    <2>1. Len(nodeTree) \in Nat
      BY <1>10 DEF Encoded
    <2>2. Len(blockTree) \in Nat
      BY <1>11 DEF Encoded
    <2> QED
      BY <2>1, <2>2
  <1>13. Granted(at, taken, Len(nodeTree) + Len(blockTree))
    BY <1>3, <1>4, <1>12, AllocatePagesGrants
  <1>14. /\ DOMAIN on \cap taken = {} /\ DOMAIN on \subseteq Nat
         /\ at[Len(nodeTree)] \in Nat
         /\ TwoTrees(on, at[Len(nodeTree)], at[Len(nodeTree) + Len(blockTree)], entries)
    BY <1>5, <1>10, <1>11, <1>13, PlacedTrees
  <1>15. IsFiniteSet(DOMAIN on)
    BY <1>14 DEF TwoTrees, Closed
  <1>16. SpaceDisjoint'
    <2>1. held \in SUBSET Nat /\ IsFiniteSet(held)
      BY DEF ImageInv, SpaceDisjoint
    <2> QED
      BY <1>3, <1>6, <1>7, <1>14, <1>15, <2>1 DEF SpaceDisjoint
  <1>17. CatalogTyped'
    BY <1>7, <1>9 DEF CatalogTyped
  <1>18. FileSound'
    <2>1. held \in SUBSET Nat /\ IsFiniteSet(held)
      BY DEF ImageInv, SpaceDisjoint
    <2>2. TwoTrees(file', root'["NBT"], root'["BBT"], committed'.entries)
      BY <1>6, <1>7, <1>14
    <2>3. livePages' = DOMAIN file' /\ committed'.held \cap DOMAIN file' = {}
      BY <1>3, <1>6, <1>7, <1>14
    <2> QED
      BY <1>7, <1>9, <2>1, <2>2, <2>3 DEF FileSound
  <1> QED
    BY <1>3, <1>6, <1>14, <1>16, <1>17, <1>18 DEF ImageInv

\* Reopening finds what was committed, in the pages that hold it.
LEMMA OpenNDBInv ==
  ASSUME ImageInv, OpenNDB
  PROVE  ImageInv' /\ entries' = committed.entries
  <1>1. /\ livePages = DOMAIN file
        /\ committed.held \in SUBSET Nat /\ IsFiniteSet(committed.held)
        /\ committed.held \cap DOMAIN file = {}
        /\ committed.entries \in [Tree -> SUBSET Nat] /\ EntrySets(committed.entries)
        /\ TwoTrees(file, root["NBT"], root["BBT"], committed.entries)
    BY DEF ImageInv, FileSound, OpenNDB
  <1>2. Promises(file, root, committed.entries)
    BY <1>1, TwoTreesPromise
  <1>3. livePages' = DOMAIN file /\ held' = committed.held /\ UNCHANGED <<file, root, committed>>
    BY <1>2 DEF Promises, OpenNDB
  <1>4. ASSUME NEW t \in Tree PROVE LeafKeys(t) = committed.entries[t]
    <2>1. LeafKeys(t) = KeysInLeaves(file, PagesUnder(file, root[t]))
      BY DEF LeafKeys, KeysInLeaves
    <2> QED
      BY <1>2, <2>1 DEF Promises
  <1>5. entries' = [t \in Tree |-> LeafKeys(t)]
    BY DEF OpenNDB
  <1>6. entries' = committed.entries
    BY <1>1, <1>4, <1>5
  <1>7. SpaceDisjoint'
    <2>1. DOMAIN file \in SUBSET Nat /\ IsFiniteSet(DOMAIN file)
      BY <1>1 DEF ImageInv, SpaceDisjoint
    <2> QED
      BY <1>1, <1>3, <2>1 DEF SpaceDisjoint
  <1>8. CatalogTyped'
    BY <1>1, <1>6 DEF CatalogTyped
  <1>9. FileSound'
    BY <1>1, <1>3 DEF FileSound, Committed
  <1> QED
    BY <1>6, <1>7, <1>8, <1>9 DEF ImageInv

LEMMA ImageInvNext == ImageInv /\ [Next]_vars => ImageInv'
  <1> SUFFICES ASSUME ImageInv, [Next]_vars PROVE ImageInv'
    OBVIOUS
  <1>1. ASSUME NEW t \in Tree, NEW k \in Keys(t), Put(t, k) \/ Drop(t, k) PROVE ImageInv'
    BY <1>1, PutInv
  <1>2. CASE HoldPage
    BY <1>2, HoldPageInv
  <1>3. ASSUME NEW p \in held, FreePage(p) PROVE ImageInv'
    BY <1>3, FreePageInv
  <1>4. CASE Encode
    BY <1>4, EncodeInv
  <1>5. CASE OpenNDB
    BY <1>5, OpenNDBInv
  <1>6. CASE UNCHANGED vars
    BY <1>6 DEF vars, ImageInv, SpaceDisjoint, CatalogTyped, FileSound, Committed
  <1> QED
    BY <1>1, <1>2, <1>3, <1>4, <1>5, <1>6 DEF Next

LEMMA ImageInvHolds == Spec => []ImageInv
  BY ImageInvInit, ImageInvNext, PTL DEF Spec

-----------------------------------------------------------------------------
(* The theorems *)

LEMMA CommittedPromises ==
  ASSUME ImageInv, Committed
  PROVE  Promises(file, root, committed.entries) /\ livePages = DOMAIN file
  BY TwoTreesPromise DEF ImageInv, FileSound

\* Between commits and reopenings the pages of the image are allocated and no
\* others: no page belongs to a tree and to a block, and a rewrite leaks none,
\* whatever the keys, the entries and the order of the operations.
THEOREM TreePagesStayOwned == Spec => []TreePagesOwned
  <1>1. ImageInv => TreePagesOwned
    <2> SUFFICES ASSUME ImageInv PROVE TreePagesOwned
      OBVIOUS
    <2>1. held \cap livePages = {}
      BY DEF ImageInv, SpaceDisjoint
    <2>2. Committed => livePages = PagesUnder(file, root["NBT"]) \cup PagesUnder(file, root["BBT"])
      BY CommittedPromises DEF Promises
    <2> QED
      BY <2>1, <2>2 DEF TreePagesOwned
  <1> QED
    BY <1>1, ImageInvHolds, PTL

\* Every committed image passes the structural checks of CheckTrees, so it can
\* be reopened, for trees of every height and every page capacity.
THEOREM ImageAlwaysPassesCheckTrees == Spec => []ImagePassesCheckTrees
  <1>1. ImageInv => ImagePassesCheckTrees
    BY CommittedPromises DEF Promises, ImagePassesCheckTrees, JustCommitted
  <1> QED
    BY <1>1, ImageInvHolds, PTL

\* LookupNode and LookupBlock find exactly what was committed, through as many
\* levels as the tree needs, and no other key.
THEOREM LookupsAlwaysExact == Spec => []LookupsExact
  <1>1. ImageInv => LookupsExact
    <2> SUFFICES ASSUME ImageInv, Committed, NEW t \in Tree, NEW k \in Keys(t)
                 PROVE  Search(file, root[t], k)
                          = IF k \in committed.entries[t] THEN {[key |-> k, val |-> t]} ELSE {}
      BY DEF LookupsExact, JustCommitted
    <2> QED
      BY CommittedPromises DEF Promises
  <1> QED
    BY <1>1, ImageInvHolds, PTL

\* The rewrite of the trees lands on no page of the image it replaces, nor on
\* one a block holds.
THEOREM OldTreesStayUntouched == Spec => OldTreesUntouched
  <1>1. ImageInv /\ [Next]_vars => [file' # file => DOMAIN file' \cap livePages = {}]_vars
    <2> SUFFICES ASSUME ImageInv, Next, file' # file PROVE DOMAIN file' \cap livePages = {}
      OBVIOUS
    <2>1. Encode
      BY DEF Next, Put, Drop, HoldPage, FreePage, OpenNDB
    <2> QED
      BY <2>1, EncodeInv
  <1> QED
    BY <1>1, ImageInvHolds, PTL DEF Spec, OldTreesUntouched

\* OpenNDBFrom recovers the catalog of the last commit from the leaves.
THEOREM ReopenFindsCommit == Spec => [][OpenNDB => entries' = committed.entries]_vars
  <1>1. ImageInv => (OpenNDB => entries' = committed.entries)
    BY OpenNDBInv
  <1> QED
    BY <1>1, ImageInvHolds, PTL DEF Spec
-----------------------------------------------------------------------------
(* Lists out of runs *)

\* Each run begins where the one before it ends, and the last one ends the list.
LEMMA CutsAdjoin ==
  ASSUME NEW l \in Nat, NEW m \in Nat, NEW first, NEW last, Cuts(first, last, m, l)
  PROVE  /\ last[m] = l
         /\ \A i \in 1 .. m - 1 : first[i + 1] = last[i] + 1
  <1>1. m \in Nat \ {0} /\ m \in 1 .. m
    BY DEF Cuts
  <1>2. ASSUME NEW i \in 1 .. m
        PROVE  /\ first[i] \in 1 .. l /\ last[i] \in 1 .. l
               /\ first[i] <= last[i]
    BY DEF Cuts
  <1>3. \A i, j \in 1 .. m : i < j => last[i] < first[j]
    BY DEF Cuts
  <1>4. \A x \in 1 .. l : \E i \in 1 .. m : first[i] <= x /\ x <= last[i]
    BY DEF Cuts
  <1>5. last[m] = l
    <2>1. l \in 1 .. l
      BY <1>1, <1>2
    <2>2. PICK i \in 1 .. m : first[i] <= l /\ l <= last[i]
      BY <1>4, <2>1
    <2>3. i = m \/ last[i] < first[m]
      BY <1>1, <1>3
    <2>4. last[i] \in 1 .. l /\ first[m] \in 1 .. l
      BY <1>1, <1>2
    <2> QED
      BY <2>2, <2>3, <2>4
  <1>6. ASSUME NEW i \in 1 .. m - 1 PROVE first[i + 1] = last[i] + 1
    <2>1. i \in 1 .. m /\ i + 1 \in 1 .. m /\ i < i + 1
      OBVIOUS
    <2>2. PICK a \in 1 .. l : a = first[i]
      BY <1>2, <2>1
    <2>3. PICK b \in 1 .. l : b = last[i] /\ a <= b
      BY <1>2, <2>1, <2>2
    <2>4. PICK c \in 1 .. l : c = first[i + 1]
      BY <1>2, <2>1
    <2>5. PICK d \in 1 .. l : d = last[i + 1] /\ c <= d
      BY <1>2, <2>1, <2>4
    <2>6. b < c
      BY <1>3, <2>1, <2>3, <2>4
    <2>7. b + 1 \in 1 .. l
      BY <2>6
    <2>8. PICK j \in 1 .. m : first[j] <= b + 1 /\ b + 1 <= last[j]
      BY <1>4, <2>7
    <2>9. PICK u \in 1 .. l : u = first[j]
      BY <1>2
    <2>10. PICK v \in 1 .. l : v = last[j]
      BY <1>2
    <2>11. j # i
      BY <2>3, <2>8
    <2>12. ~ (j < i)
      <3> SUFFICES ASSUME j < i PROVE FALSE
        OBVIOUS
      <3>1. v < a
        BY <1>3, <2>1, <2>2, <2>10
      <3> QED
        BY <2>3, <2>8, <2>10, <3>1
    <2>13. ~ (i + 1 < j)
      <3> SUFFICES ASSUME i + 1 < j PROVE FALSE
        OBVIOUS
      <3>1. d < u
        BY <1>3, <2>1, <2>5, <2>9
      <3> QED
        BY <2>5, <2>6, <2>8, <2>9, <3>1
    <2>14. j = i + 1
      BY <2>1, <2>11, <2>12, <2>13
    <2>15. c <= b + 1
      BY <2>4, <2>8, <2>14
    <2> QED
      BY <2>3, <2>4, <2>6, <2>15
  <1> QED
    BY <1>5, <1>6

\* FlattenSeq is what its recursive definition says.
Flat(c, g) == [i \in 1 .. Len(c) |-> IF i = 1 THEN c[i] ELSE g[i - 1] \o c[i]]

LEMMA FlattenIs ==
  ASSUME NEW c, Len(c) \in Nat \ {0}, NEW g, g = Flat(c, g)
  PROVE  FlattenSeq(c) = g[Len(c)]
  <1> DEFINE f == CHOOSE h : h = Flat(c, h)
  <1>1. f = Flat(c, f)
    OBVIOUS
  <1>2. FlattenSeq(c) = f[Len(c)]
    BY DEF FlattenSeq, Flat
  <1> HIDE DEF f
  <1>3. PICK m \in Nat \ {0} : m = Len(c)
    OBVIOUS
  <1>4. \A i \in 1 .. m : f[i] = IF i = 1 THEN c[i] ELSE f[i - 1] \o c[i]
    BY <1>1, <1>3, Zenon DEF Flat
  <1>5. \A i \in 1 .. m : g[i] = IF i = 1 THEN c[i] ELSE g[i - 1] \o c[i]
    BY <1>3, Zenon DEF Flat
  <1> DEFINE F == {k \in Nat : k + 1 <= m /\ f[k + 1] # g[k + 1]}
  <1>6. 0 \notin F
    BY <1>4, <1>5
  <1>7. ASSUME NEW k \in Nat, k \notin F PROVE k + 1 \notin F
    <2> SUFFICES ASSUME (k + 1) + 1 <= m PROVE f[(k + 1) + 1] = g[(k + 1) + 1]
      OBVIOUS
    <2>1. f[k + 1] = g[k + 1]
      BY <1>7
    <2>2. PICK i \in 1 .. m : i = (k + 1) + 1 /\ i # 1 /\ i - 1 = k + 1
      OBVIOUS
    <2>3. f[i] = f[k + 1] \o c[i] /\ g[i] = g[k + 1] \o c[i]
      BY <1>4, <1>5, <2>2
    <2> QED
      BY <2>1, <2>2, <2>3
  <1>8. F \in SUBSET Nat
    OBVIOUS
  <1>9. F = {}
    <2> HIDE DEF F
    <2> QED
      BY <1>6, <1>7, <1>8, FirstFailure
  <1>10. m - 1 \in Nat /\ (m - 1) + 1 = m
    OBVIOUS
  <1>11. f[m] = g[m]
    <2>1. m - 1 \notin F
      BY <1>9
    <2>2. ~ (m - 1 \in Nat /\ (m - 1) + 1 <= m /\ f[(m - 1) + 1] # g[(m - 1) + 1])
      BY <2>1
    <2> QED
      BY <1>10, <2>2
  <1> QED
    BY <1>2, <1>3, <1>11

\* The runs of a list, put together, are the list.
LEMMA FlattenRuns ==
  ASSUME NEW A, NEW s \in Seq(A), NEW c \in Seq(Seq(A)), NEW first, NEW last, CutInto(s, c, first, last)
  PROVE  FlattenSeq(c) = s
  <1>1. PICK l \in Nat : l = Len(s) /\ DOMAIN s = 1 .. l
    BY LenProperties
  <1>2. PICK m \in Nat \ {0} : m = Len(c)
    BY DEF CutInto, Cuts
  <1>3. Cuts(first, last, m, l)
    BY <1>1, <1>2 DEF CutInto
  <1>4. last[m] = l /\ \A i \in 1 .. m - 1 : first[i + 1] = last[i] + 1
    BY <1>3, CutsAdjoin
  <1>5. ASSUME NEW i \in 1 .. m
        PROVE  first[i] \in 1 .. l /\ last[i] \in 1 .. l /\ first[i] <= last[i] /\ first[1] = 1
    BY <1>3 DEF Cuts
  <1>6. ASSUME NEW i \in 1 .. m
        PROVE  c[i] = SubSeq(s, first[i], last[i])
    <2>1. PICK x \in 1 .. l : x = first[i]
      BY <1>5
    <2>2. PICK y \in 1 .. l : y = last[i] /\ x <= y
      BY <1>5, <2>1
    <2>3. PICK r : r = c[i]
      OBVIOUS
    <2>4. DOMAIN r = 1 .. y - x + 1 /\ \A j \in DOMAIN r : r[j] = s[x + j - 1]
      <3>1. i \in DOMAIN c
        BY <1>2 DEF CutInto
      <3> QED
        BY <2>1, <2>2, <2>3, <3>1 DEF CutInto
    <2>5. x \in Int /\ y \in Int /\ \A z \in x .. y : s[z] \in A
      BY <1>1
    <2>6. /\ SubSeq(s, x, y) \in Seq(A)
          /\ Len(SubSeq(s, x, y)) = y - x + 1
          /\ \A j \in 1 .. y - x + 1 : SubSeq(s, x, y)[j] = s[x + j - 1]
      BY <2>2, <2>5, SubSeqProperties
    <2>7. y - x + 1 \in Nat
      BY <2>2
    <2>8. \A j \in 1 .. y - x + 1 : x + j - 1 \in 1 .. l
      BY <2>2
    <2>9. r \in Seq(A)
      BY <1>2, <2>3, ElementOfSeq
    <2>10. Len(r) = y - x + 1
      <3>1. DOMAIN r = 1 .. Len(r) /\ Len(r) \in Nat
        BY <2>9, LenProperties
      <3> QED
        BY <2>4, <2>7, <3>1
    <2>11. \A j \in 1 .. Len(r) : r[j] = SubSeq(s, x, y)[j]
      BY <2>4, <2>6, <2>10
    <2>12. r = SubSeq(s, x, y)
      BY <2>6, <2>9, <2>10, <2>11, SeqEqual
    <2> QED
      BY <2>1, <2>2, <2>3, <2>12
  <1> DEFINE g == [i \in 1 .. m |-> SubSeq(s, 1, last[i])]
  <1>7. ASSUME NEW i \in 1 .. m PROVE g[i] = IF i = 1 THEN c[i] ELSE g[i - 1] \o c[i]
    <2>1. CASE i = 1
      BY <1>5, <1>6, <2>1
    <2>2. CASE i # 1
      <3>1. PICK j \in 1 .. m - 1 : j = i - 1 /\ i = j + 1 /\ j \in 1 .. m
        BY <2>2
      <3>2. PICK b \in 1 .. l : b = last[j]
        BY <1>5, <3>1
      <3>3. PICK d \in 1 .. l : d = last[i]
        BY <1>5
      <3>4. first[i] = b + 1
        BY <1>4, <3>1, <3>2
      <3>5. b + 1 <= d
        BY <1>5, <3>3, <3>4
      <3>6. SubSeq(s, 1, b) \o SubSeq(s, b + 1, d) = SubSeq(s, 1, d)
        <4>1. 1 \in 1 .. Len(s) + 1 /\ b \in 1 - 1 .. Len(s) /\ d \in b .. Len(s)
          BY <1>1, <3>5
        <4> QED
          BY <4>1, ConcatAdjacentSubSeq
      <3>7. g[i] = SubSeq(s, 1, d) /\ g[j] = SubSeq(s, 1, b) /\ c[i] = SubSeq(s, b + 1, d)
        BY <1>6, <3>1, <3>2, <3>3, <3>4
      <3> HIDE DEF g
      <3> QED
        BY <2>2, <3>1, <3>6, <3>7
    <2> QED
      BY <2>1, <2>2
  <1>8. g = [i \in 1 .. m |-> g[i]]
    OBVIOUS
  <1>9. m \in 1 .. m
    OBVIOUS
  <1>10. g[m] = s
    BY <1>1, <1>4, <1>9, SubSeqFull
  <1> HIDE DEF g
  <1>11. g = Flat(c, g)
    BY <1>2, <1>7, <1>8, Zenon DEF Flat
  <1>12. FlattenSeq(c) = g[Len(c)]
    BY <1>2, <1>11, FlattenIs
  <1> QED
    BY <1>2, <1>10, <1>12

-----------------------------------------------------------------------------
(* The levels of a tree, row by row *)

PageWith(A) == [level : Nat, kids : Seq(A) \cup Seq(Ref)]

LeafKids(pages, row) == [i \in DOMAIN row |-> pages[row[i]].kids]

\* From the row L down, each row is what the one above it leads to, and the
\* leaves hold e.
Rows(pages, N, rows, L, e) ==
  /\ rows \in [0 .. L -> Seq(1 .. N)]
  /\ \A l \in 1 .. L : Under(pages, rows[l]) = rows[l - 1]
  /\ FlattenSeq(LeafKids(pages, rows[0])) = e

\* More pages do not change what is under a row.
LEMMA UnderSame ==
  ASSUME NEW P, NEW W, NEW N \in Nat, \A p \in 1 .. N : W[p] = P[p], NEW row \in Seq(1 .. N)
  PROVE  Under(W, row) = Under(P, row) /\ LeafKids(W, row) = LeafKids(P, row)
  <1>1. \A i \in DOMAIN row : W[row[i]] = P[row[i]]
    <2>1. DOMAIN row = 1 .. Len(row)
      BY LenProperties
    <2>2. \A i \in 1 .. Len(row) : row[i] \in 1 .. N
      BY ElementOfSeq
    <2> QED
      BY <2>1, <2>2
  <1>2. PICK D : D = DOMAIN row
    OBVIOUS
  <1>3. [i \in D |-> KidRefs(W[row[i]])] = [i \in D |-> KidRefs(P[row[i]])]
    BY <1>1, <1>2
  <1>4. [i \in D |-> W[row[i]].kids] = [i \in D |-> P[row[i]].kids]
    BY <1>1, <1>2
  <1> QED
    BY <1>2, <1>3, <1>4 DEF Under, LeafKids

\* A row more above the others.
Topped(rows, L, top) == [l \in 0 .. L + 1 |-> IF l = L + 1 THEN top ELSE rows[l]]

LEMMA RowsExtend ==
  ASSUME NEW P, NEW W, NEW N \in Nat, NEW N2 \in Nat, N <= N2, \A p \in 1 .. N : W[p] = P[p],
         NEW L \in Nat, NEW rows, NEW e, Rows(P, N, rows, L, e),
         NEW top \in Seq(1 .. N2), Under(W, top) = rows[L]
  PROVE  Rows(W, N2, Topped(rows, L, top), L + 1, e)
  <1> DEFINE rows2 == Topped(rows, L, top)
  <1>1. /\ \A l \in 0 .. L : rows[l] \in Seq(1 .. N)
        /\ \A l \in 1 .. L : Under(P, rows[l]) = rows[l - 1]
        /\ FlattenSeq(LeafKids(P, rows[0])) = e
    BY DEF Rows
  <1>2. rows2[L + 1] = top /\ \A l \in 0 .. L : rows2[l] = rows[l]
    BY DEF Topped
  <1>3. rows2 = [l \in 0 .. L + 1 |-> rows2[l]]
    BY DEF Topped
  <1> HIDE DEF rows2
  <1>4. ASSUME NEW l \in 0 .. L + 1 PROVE rows2[l] \in Seq(1 .. N2)
    <2>1. CASE l = L + 1
      BY <1>2, <2>1
    <2>2. CASE l # L + 1
      <3>1. l \in 0 .. L
        BY <2>2
      <3>2. rows2[l] \in Seq(1 .. N) /\ 1 .. N \subseteq 1 .. N2
        BY <1>1, <1>2, <3>1
      <3> QED
        BY <3>2, SeqMonotonic
    <2> QED
      BY <2>1, <2>2
  <1>5. ASSUME NEW l \in 1 .. L + 1 PROVE Under(W, rows2[l]) = rows2[l - 1]
    <2>1. CASE l = L + 1
      <3>1. l - 1 = L /\ L \in 0 .. L
        BY <2>1
      <3> QED
        BY <1>2, <2>1, <3>1
    <2>2. CASE l # L + 1
      <3>1. l \in 1 .. L /\ l \in 0 .. L /\ l - 1 \in 0 .. L
        BY <2>2
      <3>2. Under(W, rows[l]) = Under(P, rows[l])
        BY <1>1, <3>1, UnderSame
      <3> QED
        BY <1>1, <1>2, <3>1, <3>2
    <2> QED
      BY <2>1, <2>2
  <1>6. FlattenSeq(LeafKids(W, rows2[0])) = e
    <2>1. 0 \in 0 .. L
      OBVIOUS
    <2>2. LeafKids(W, rows[0]) = LeafKids(P, rows[0])
      BY <1>1, <2>1, UnderSame
    <2> QED
      BY <1>1, <1>2, <2>1, <2>2
  <1> QED
    BY <1>3, <1>4, <1>5, <1>6 DEF Rows, rows2

\* A loop over the levels of a tree of e: the refs are to the pages written
\* last, which are the top row.
Stack(s, e, rows, N, M, L) ==
  /\ N \in Nat /\ M \in Nat \ {0} /\ M <= N /\ L = s.level
  /\ Len(s.pages) = N /\ Len(s.refs) = M
  /\ \A i \in 1 .. M : s.refs[i].ref = N - M + i
  /\ s.pages[N].level = L
  /\ \A p \in 1 .. N : s.pages[p].level # 0 =>
       \A i \in DOMAIN s.pages[p].kids : s.pages[p].kids[i].ref \in 1 .. N
  /\ Rows(s.pages, N, rows, L, e)
  /\ rows[L] = [i \in 1 .. M |-> N - M + i]

Stacked(A, e) ==
  {s \in [pages : Seq(PageWith(A)), refs : Seq(Ref), level : Nat] :
     \E rows, N, M, L : Stack(s, e, rows, N, M, L)}

\* The m chunks of c as pages of a level, behind N others, and the refs to them.
OnTop(A, c, m, level, N, side) ==
  /\ PagesOf(c, level) \in Seq(PageWith(A)) /\ Len(PagesOf(c, level)) = m
  /\ \A i \in 1 .. m : /\ PagesOf(c, level)[i].level = level
                       /\ PagesOf(c, level)[i].kids = c[i]
  /\ RefsOf(c, N, side) \in Seq(Ref) /\ Len(RefsOf(c, N, side)) = m
  /\ \A i \in 1 .. m : RefsOf(c, N, side)[i].ref = N + i

LEMMA ChunksOnTop ==
  ASSUME NEW A, NEW K, Seq(K) \subseteq Seq(A) \cup Seq(Ref), \A x \in K : x.key \in Nat,
         NEW c, NEW m \in Nat, NEW level \in Nat, NEW N \in Nat, NEW side, DOMAIN c = 1 .. m,
         \A i \in 1 .. m : c[i] \in Seq(K) /\ 1 \in DOMAIN c[i]
  PROVE  OnTop(A, c, m, level, N, side)
  <1>1. ASSUME NEW i \in 1 .. m PROVE Separator(c[i], side) \in Nat
    <2>1. PICK r \in Seq(K) : r = c[i] /\ 1 \in DOMAIN r
      OBVIOUS
    <2>2. Len(r) \in Nat /\ DOMAIN r = 1 .. Len(r)
      BY LenProperties
    <2>3. 1 \in 1 .. Len(r) /\ Len(r) \in 1 .. Len(r)
      BY <2>1, <2>2
    <2>4. r[1] \in K /\ r[Len(r)] \in K
      BY <2>3, ElementOfSeq
    <2>5. r[1].key \in Nat /\ r[Len(r)].key \in Nat
      BY <2>4
    <2> QED
      BY <2>1, <2>5 DEF Separator
  <1>2. PagesOf(c, level) \in [1 .. m -> PageWith(A)]
    <2> SUFFICES ASSUME NEW i \in 1 .. m PROVE [level |-> level, kids |-> c[i]] \in PageWith(A)
      BY DEF PagesOf
    <2>1. c[i] \in Seq(A) \cup Seq(Ref)
      OBVIOUS
    <2> QED
      BY <2>1 DEF PageWith
  <1>3. ASSUME NEW i \in 1 .. m
        PROVE  PagesOf(c, level)[i].level = level /\ PagesOf(c, level)[i].kids = c[i]
    <2>1. PagesOf(c, level)[i] = [level |-> level, kids |-> c[i]]
      BY DEF PagesOf
    <2> QED
      BY <2>1
  <1>4. RefsOf(c, N, side) = [i \in 1 .. m |-> [key |-> Separator(c[i], side), ref |-> N + i]]
    BY DEF RefsOf
  <1>5. RefsOf(c, N, side) \in [1 .. m -> Ref]
    <2>1. \A i \in 1 .. m : [key |-> Separator(c[i], side), ref |-> N + i] \in Ref
      BY <1>1 DEF Ref
    <2> QED
      BY <1>4, <2>1
  <1>6. ASSUME NEW i \in 1 .. m PROVE RefsOf(c, N, side)[i].ref = N + i
    <2>1. RefsOf(c, N, side)[i] = [key |-> Separator(c[i], side), ref |-> N + i]
      BY <1>4
    <2> QED
      BY <2>1
  <1>7. PagesOf(c, level) \in Seq(PageWith(A)) /\ Len(PagesOf(c, level)) = m
    <2>1. PICK f \in [1 .. m -> PageWith(A)] : f = PagesOf(c, level)
      BY <1>2
    <2>2. f \in Seq(PageWith(A)) /\ Len(f) = m
      BY ListOf
    <2> QED
      BY <2>1, <2>2
  <1>8. RefsOf(c, N, side) \in Seq(Ref) /\ Len(RefsOf(c, N, side)) = m
    <2>1. PICK f \in [1 .. m -> Ref] : f = RefsOf(c, N, side)
      BY <1>5
    <2>2. f \in Seq(Ref) /\ Len(f) = m
      BY ListOf
    <2> QED
      BY <2>1, <2>2
  <1> QED
    BY <1>3, <1>6, <1>7, <1>8 DEF OnTop

\* One level more is a row more, and a shorter one.
LEMMA LevelStacks ==
  ASSUME NEW A, \A x \in A : x.key \in Nat, NEW e, NEW side, NEW s \in Stacked(A, e), Len(s.refs) # 1
  PROVE  /\ AddLevel(s, side) \in Stacked(A, e)
         /\ Len(AddLevel(s, side).refs) < Len(s.refs)
  <1>1. s \in [pages : Seq(PageWith(A)), refs : Seq(Ref), level : Nat]
    BY DEF Stacked
  <1>2. PICK rows, N, M, L : Stack(s, e, rows, N, M, L)
    BY DEF Stacked
  <1>3. PICK P \in Seq(PageWith(A)) : P = s.pages
    BY <1>1
  <1>4. PICK R \in Seq(Ref) : R = s.refs
    BY <1>1
  <1>5. /\ N \in Nat /\ M \in Nat \ {0} /\ M <= N /\ L = s.level /\ L \in Nat
        /\ Len(P) = N /\ DOMAIN P = 1 .. N /\ Len(R) = M /\ DOMAIN R = 1 .. M /\ M # 1
    BY <1>1, <1>2, <1>3, <1>4, LenProperties DEF Stack
  <1>6. \A i \in 1 .. M : R[i].ref = N - M + i
    BY <1>2, <1>4 DEF Stack
  <1>7. \A p \in 1 .. N : P[p].level # 0 => \A i \in DOMAIN P[p].kids : P[p].kids[i].ref \in 1 .. N
    BY <1>2, <1>3 DEF Stack
  <1>8. Rows(P, N, rows, L, e)
    BY <1>2, <1>3 DEF Stack
  <1>9. rows[L] = [i \in 1 .. M |-> N - M + i]
    BY <1>2 DEF Stack
  <1>10. M >= 2 /\ R # <<>> /\ MaxNonleaf \in Nat \ {0} /\ MaxNonleaf >= 2
    BY <1>5, EmptySeq, BTreeAssumption
  <1>11. PICK c : c = Chunks(R, MaxNonleaf)
    OBVIOUS
  <1>12. c \in Seq(Seq(Ref)) /\ Len(c) < M /\ \E first, last : CutInto(R, c, first, last)
    BY <1>5, <1>10, <1>11, ChunksCut
  <1>13. PICK first, last : CutInto(R, c, first, last)
    BY <1>12
  <1>14. PICK m \in Nat \ {0} : m = Len(c) /\ DOMAIN c = 1 .. m /\ m < M
    <2>1. Len(c) \in Nat /\ DOMAIN c = 1 .. Len(c)
      BY <1>12, LenProperties
    <2>2. Len(c) # 0
      BY <1>13 DEF CutInto, Cuts
    <2> QED
      BY <1>12, <2>1, <2>2
  <1>15. Cuts(first, last, m, M)
    BY <1>5, <1>13, <1>14 DEF CutInto
  <1>16. \A i \in 1 .. m : /\ first[i] \in 1 .. M /\ last[i] \in 1 .. M /\ first[i] <= last[i]
                           /\ DOMAIN c[i] = 1 .. last[i] - first[i] + 1
                           /\ \A j \in DOMAIN c[i] : c[i][j] = R[first[i] + j - 1]
    BY <1>13, <1>14, <1>15 DEF CutInto, Cuts
  <1>17. \A i \in 1 .. m : c[i] \in Seq(Ref) /\ 1 \in DOMAIN c[i]
    <2> SUFFICES ASSUME NEW i \in 1 .. m PROVE c[i] \in Seq(Ref) /\ 1 \in DOMAIN c[i]
      OBVIOUS
    <2>1. PICK x \in 1 .. M : x = first[i]
      BY <1>16
    <2>2. PICK y \in 1 .. M : y = last[i] /\ x <= y
      BY <1>16, <2>1
    <2>3. 1 \in 1 .. y - x + 1
      BY <1>5, <2>2
    <2>4. DOMAIN c[i] = 1 .. y - x + 1
      BY <1>16, <2>1, <2>2
    <2>5. c[i] \in Seq(Ref)
      BY <1>12, <1>14
    <2> QED
      BY <2>3, <2>4, <2>5
  <1> PICK H \in Nat : H = L + 1 /\ H # 0
    BY <1>5
  <1>18. OnTop(A, c, m, H, N, side)
    <2>1. \A x \in Ref : x.key \in Nat
      BY DEF Ref
    <2>2. Seq(Ref) \subseteq Seq(A) \cup Seq(Ref)
      OBVIOUS
    <2> QED
      BY <1>5, <1>14, <1>17, <2>1, <2>2, ChunksOnTop
  <1>19. PICK Q \in Seq(PageWith(A)) : Q = PagesOf(c, H)
    BY <1>18 DEF OnTop
  <1>20. PICK T \in Seq(Ref) : T = RefsOf(c, N, side)
    BY <1>18 DEF OnTop
  <1>21. /\ Len(Q) = m /\ Len(T) = m
         /\ \A i \in 1 .. m : Q[i].level = H /\ Q[i].kids = c[i] /\ T[i].ref = N + i
    BY <1>18, <1>19, <1>20 DEF OnTop
  <1>22. PICK W \in Seq(PageWith(A)) : W = P \o Q /\ Len(W) = Len(P) + Len(Q)
    BY ConcatProperties
  <1>23. PICK N2 \in Nat : N2 = N + m /\ Len(W) = N2 /\ N <= N2 /\ N2 - m = N
    BY <1>5, <1>21, <1>22
  <1>24. \A i \in 1 .. m : N + i \in 1 .. N2
    BY <1>5, <1>23
  <1>25. /\ \A p \in 1 .. N : W[p] = P[p]
         /\ \A i \in 1 .. m : W[N + i].level = H /\ W[N + i].kids = c[i]
    <2>1. Len(P) = N /\ Len(Q) = m /\ W = P \o Q
      BY <1>5, <1>21, <1>22
    <2>2. \A p \in 1 .. N : W[p] = P[p]
      BY <2>1, Joined
    <2>3. \A i \in 1 .. m : W[N + i] = Q[i]
      BY <2>1, Joined
    <2> QED
      BY <1>21, <2>2, <2>3
  <1>26. \A p \in 1 .. N2 : p \in 1 .. N \/ \E i \in 1 .. m : p = N + i
    <2> SUFFICES ASSUME NEW p \in 1 .. N2, p > N PROVE \E i \in 1 .. m : p = N + i
      BY <1>5, <1>23
    <2>1. p - N \in 1 .. m /\ p = N + (p - N)
      BY <1>5, <1>23
    <2> QED
      BY <2>1
  <1>27. PICK top : top = [i \in 1 .. m |-> N + i]
    OBVIOUS
  <1>28. top \in Seq(1 .. N2) /\ DOMAIN top = 1 .. m /\ \A i \in 1 .. m : top[i] = N + i
    <2>1. PICK f \in [1 .. m -> 1 .. N2] : f = top
      BY <1>24, <1>27
    <2>2. f \in Seq(1 .. N2)
      BY ListOf
    <2> QED
      BY <1>27, <2>1, <2>2
  <1>29. Under(W, top) = rows[L]
    <2>1. PICK q : q = rows[L]
      OBVIOUS
    <2>2. \A i \in 1 .. M : N - M + i \in Nat
      BY <1>5
    <2>3. q \in Seq(Nat) /\ Len(q) = M /\ \A i \in 1 .. M : q[i] = R[i].ref
      <3>m. M \in Nat
        BY <1>5
      <3>1. PICK f \in [1 .. M -> Nat] : f = q
        BY <1>9, <2>1, <2>2
      <3>2. f \in Seq(Nat) /\ Len(f) = M
        BY <3>m, ListOf
      <3>3. \A i \in 1 .. M : q[i] = N - M + i
        BY <1>9, <2>1
      <3>4. \A i \in 1 .. M : q[i] = R[i].ref
        BY <1>6, <3>3
      <3> QED
        BY <3>1, <3>2, <3>4
    <2>4. PICK d : d = [i \in 1 .. m |-> KidRefs(W[N + i])]
      OBVIOUS
    <2>5. ASSUME NEW i \in 1 .. m
          PROVE  /\ d[i] \in Seq(Nat) /\ DOMAIN d[i] = DOMAIN c[i]
                 /\ \A j \in DOMAIN c[i] : d[i][j] = c[i][j].ref
      <3>1. PICK r \in Seq(Ref) : r = c[i]
        BY <1>17
      <3>2. Len(r) \in Nat /\ DOMAIN r = 1 .. Len(r) /\ \A j \in 1 .. Len(r) : r[j] \in Ref
        BY LenProperties, ElementOfSeq
      <3>3. d[i] = [j \in 1 .. Len(r) |-> r[j].ref]
        BY <1>25, <2>4, <3>1, <3>2 DEF KidRefs
      <3>4. \A j \in 1 .. Len(r) : r[j].ref \in Nat
        BY <3>2 DEF Ref
      <3>a. PICK k \in Nat : k = Len(r)
        BY <3>2
      <3>5. PICK f \in [1 .. k -> Nat] : f = d[i]
        BY <3>3, <3>4, <3>a
      <3>6. f \in Seq(Nat)
        BY ListOf
      <3> QED
        BY <3>1, <3>2, <3>3, <3>5, <3>6
    <2>6. d \in Seq(Seq(Nat)) /\ Len(d) = m /\ DOMAIN d = 1 .. m
      <3>1. PICK f \in [1 .. m -> Seq(Nat)] : f = d
        BY <2>4, <2>5
      <3>2. f \in Seq(Seq(Nat)) /\ Len(f) = m
        BY ListOf
      <3> QED
        BY <3>1, <3>2
    <2>7. CutInto(q, d, first, last)
      <3>1. ASSUME NEW i \in 1 .. m
            PROVE  /\ DOMAIN d[i] = 1 .. last[i] - first[i] + 1
                   /\ \A j \in DOMAIN d[i] : d[i][j] = q[first[i] + j - 1]
        <4>1. PICK x \in 1 .. M : x = first[i]
          BY <1>16
        <4>2. PICK y \in 1 .. M : y = last[i] /\ x <= y
          BY <1>16, <4>1
        <4>3. DOMAIN c[i] = 1 .. y - x + 1 /\ \A j \in DOMAIN c[i] : c[i][j] = R[x + j - 1]
          BY <1>16, <4>1, <4>2
        <4>4. \A j \in 1 .. y - x + 1 : x + j - 1 \in 1 .. M
          BY <1>5, <4>2
        <4>5. ASSUME NEW j \in 1 .. y - x + 1 PROVE d[i][j] = q[x + j - 1]
          <5>1. PICK k \in 1 .. M : k = x + j - 1
            BY <4>4
          <5>2. q[k] = R[k].ref
            BY <2>3
          <5>3. d[i][j] = c[i][j].ref
            BY <2>5, <4>3
          <5>4. c[i][j] = R[k]
            BY <4>3, <5>1
          <5> QED
            BY <5>1, <5>2, <5>3, <5>4
        <4>6. DOMAIN d[i] = 1 .. y - x + 1
          BY <2>5, <4>3
        <4> QED
          BY <4>1, <4>2, <4>5, <4>6
      <3> QED
        BY <1>15, <2>3, <2>6, <3>1 DEF CutInto
    <2>8. FlattenSeq(d) = q
      BY <2>3, <2>6, <2>7, FlattenRuns
    <2>9. Under(W, top) = FlattenSeq(d)
      <3>1. [i \in DOMAIN top |-> KidRefs(W[top[i]])] = d
        BY <1>28, <2>4
      <3> QED
        BY <3>1 DEF Under
    <2> QED
      BY <2>1, <2>8, <2>9
  <1>30. PICK rows2 : rows2 = Topped(rows, L, top)
    OBVIOUS
  <1>31. Rows(W, N2, rows2, H, e)
    <2>a. N \in Nat /\ L \in Nat /\ N <= N2 /\ top \in Seq(1 .. N2) /\ \A p \in 1 .. N : W[p] = P[p]
      BY <1>5, <1>23, <1>25, <1>28
    <2>1. Rows(W, N2, rows2, L + 1, e)
      BY <2>a, <1>8, <1>29, <1>30, RowsExtend
    <2> QED
      BY <2>1
  <1>32. rows2[H] = [i \in 1 .. m |-> N2 - m + i]
    <2>1. rows2[H] = top
      BY <1>5, <1>30 DEF Topped
    <2> QED
      BY <1>23, <1>27, <2>1
  <1>33. \A p \in 1 .. N2 : W[p].level # 0 => \A i \in DOMAIN W[p].kids : W[p].kids[i].ref \in 1 .. N2
    <2> SUFFICES ASSUME NEW p \in 1 .. N2, W[p].level # 0, NEW i \in DOMAIN W[p].kids
                 PROVE  W[p].kids[i].ref \in 1 .. N2
      OBVIOUS
    <2>1. CASE p \in 1 .. N
      <3>1. P[p].kids[i].ref \in 1 .. N /\ W[p] = P[p]
        BY <1>7, <1>25, <2>1
      <3>2. 1 .. N \subseteq 1 .. N2
        BY <1>5, <1>23
      <3> QED
        BY <3>1, <3>2
    <2>2. CASE \E k \in 1 .. m : p = N + k
      <3>1. PICK k \in 1 .. m : p = N + k
        BY <2>2
      <3>2. W[p].kids = c[k]
        BY <1>25, <3>1
      <3>3. PICK x \in 1 .. M : x = first[k]
        BY <1>16
      <3>4. PICK y \in 1 .. M : y = last[k] /\ x <= y
        BY <1>16, <3>3
      <3>5. DOMAIN c[k] = 1 .. y - x + 1 /\ \A j \in DOMAIN c[k] : c[k][j] = R[x + j - 1]
        BY <1>16, <3>3, <3>4
      <3>a. i \in 1 .. y - x + 1
        BY <3>2, <3>5
      <3>6. i \in 1 .. y - x + 1 /\ x + i - 1 \in 1 .. M
        BY <1>5, <3>4, <3>a
      <3>7. W[p].kids[i].ref = N - M + (x + i - 1)
        BY <1>6, <3>2, <3>5, <3>6
      <3>8. N - M + (x + i - 1) \in 1 .. N2
        BY <1>5, <1>23, <3>6
      <3> QED
        BY <3>7, <3>8
    <2> QED
      BY <1>26, <2>1, <2>2
  <1>34. PICK s2 : s2 = [pages |-> W, refs |-> T, level |-> H]
    OBVIOUS
  <1>35. s2.pages = W /\ s2.refs = T /\ s2.level = H
    BY <1>34
  <1>36. AddLevel(s, side) = s2
    BY <1>3, <1>4, <1>5, <1>11, <1>19, <1>20, <1>22, <1>34 DEF AddLevel, Built
  <1>37. W[N2].level = H
    <2>1. m \in 1 .. m /\ N2 = N + m
      BY <1>23
    <2> QED
      BY <1>25, <2>1
  <1>38. \A i \in 1 .. m : T[i].ref = N2 - m + i
    BY <1>21, <1>23
  <1>39. m <= N2
    BY <1>5, <1>23
  <1>40. Stack(s2, e, rows2, N2, m, H)
    BY <1>21, <1>23, <1>31, <1>32, <1>33, <1>35, <1>37, <1>38, <1>39 DEF Stack
  <1>41. s2 \in [pages : Seq(PageWith(A)), refs : Seq(Ref), level : Nat]
    BY <1>34
  <1>42. s2 \in Stacked(A, e)
    BY <1>40, <1>41 DEF Stacked
  <1>43. Len(s2.refs) < Len(s.refs)
    BY <1>4, <1>5, <1>14, <1>21, <1>35
  <1> QED
    BY <1>36, <1>42, <1>43

LEMMA LeavesStack ==
  ASSUME NEW A, \A x \in A : x.key \in Nat, NEW e \in Seq(A), e # <<>>, NEW side
  PROVE  LET c == Chunks(e, MaxLeaf)
             s == Built(PagesOf(c, 0), RefsOf(c, 0, side), 0)
         IN  s \in Stacked(A, e) /\ Len(s.refs) <= Len(e)
  <1>1. PICK n \in Nat \ {0} : n = Len(e) /\ DOMAIN e = 1 .. n
    BY EmptySeq, LenProperties
  <1>2. PICK c : c = Chunks(e, MaxLeaf)
    OBVIOUS
  <1>3. c \in Seq(Seq(A)) /\ \E first, last : CutInto(e, c, first, last)
    BY <1>2, BTreeAssumption, ChunksCut
  <1>4. PICK first, last : CutInto(e, c, first, last)
    BY <1>3
  <1>5. PICK m \in Nat \ {0} : m = Len(c) /\ DOMAIN c = 1 .. m
    <2>1. Len(c) \in Nat /\ DOMAIN c = 1 .. Len(c)
      BY <1>3, LenProperties
    <2>2. Len(c) # 0
      BY <1>4 DEF CutInto, Cuts
    <2> QED
      BY <2>1, <2>2
  <1>6. Cuts(first, last, m, n)
    BY <1>1, <1>4, <1>5 DEF CutInto
  <1>7. m <= n
    BY <1>6, CutsFit
  <1>8. \A i \in 1 .. m : c[i] \in Seq(A) /\ 1 \in DOMAIN c[i]
    <2> SUFFICES ASSUME NEW i \in 1 .. m PROVE c[i] \in Seq(A) /\ 1 \in DOMAIN c[i]
      OBVIOUS
    <2>1. PICK x \in 1 .. n : x = first[i]
      BY <1>6 DEF Cuts
    <2>2. PICK y \in 1 .. n : y = last[i] /\ x <= y
      BY <1>6, <2>1 DEF Cuts
    <2>3. 1 \in 1 .. y - x + 1
      BY <2>2
    <2>4. DOMAIN c[i] = 1 .. y - x + 1
      BY <1>4, <1>5, <2>1, <2>2 DEF CutInto
    <2>5. c[i] \in Seq(A)
      BY <1>3, <1>5
    <2> QED
      BY <2>3, <2>4, <2>5
  <1>9. OnTop(A, c, m, 0, 0, side)
    <2>1. Seq(A) \subseteq Seq(A) \cup Seq(Ref) /\ 0 \in Nat
      OBVIOUS
    <2> QED
      BY <1>5, <1>8, <2>1, ChunksOnTop
  <1>10. PICK W \in Seq(PageWith(A)) : W = PagesOf(c, 0)
    BY <1>9 DEF OnTop
  <1>11. PICK T \in Seq(Ref) : T = RefsOf(c, 0, side)
    BY <1>9 DEF OnTop
  <1>12. /\ Len(W) = m /\ Len(T) = m
         /\ \A i \in 1 .. m : W[i].level = 0 /\ W[i].kids = c[i] /\ T[i].ref = 0 + i
    BY <1>9, <1>10, <1>11 DEF OnTop
  <1>13. \A i \in 1 .. m : i = m - m + i /\ i = 0 + i
    OBVIOUS
  <1>14. PICK row : row = [i \in 1 .. m |-> m - m + i]
    OBVIOUS
  <1>15. row \in Seq(1 .. m) /\ DOMAIN row = 1 .. m /\ \A i \in 1 .. m : row[i] = i
    <2>1. PICK f \in [1 .. m -> 1 .. m] : f = row
      BY <1>13, <1>14
    <2>2. f \in Seq(1 .. m)
      BY ListOf
    <2> QED
      BY <1>13, <1>14, <2>1, <2>2
  <1>16. PICK rows : rows = [l \in 0 .. 0 |-> row]
    OBVIOUS
  <1>17. rows[0] = row /\ rows \in [0 .. 0 -> Seq(1 .. m)]
    BY <1>15, <1>16
  <1>18. LeafKids(W, row) = c
    <2>1. LeafKids(W, row) = [i \in 1 .. m |-> c[i]]
      BY <1>12, <1>15 DEF LeafKids
    <2>2. c = [i \in 1 .. m |-> c[i]]
      BY <1>3, <1>5
    <2> QED
      BY <2>1, <2>2
  <1>19. Rows(W, m, rows, 0, e)
    <2>1. FlattenSeq(c) = e
      BY <1>3, <1>4, FlattenRuns
    <2>2. \A l \in 1 .. 0 : Under(W, rows[l]) = rows[l - 1]
      OBVIOUS
    <2> QED
      BY <1>17, <1>18, <2>1, <2>2 DEF Rows
  <1>20. PICK s : s = [pages |-> W, refs |-> T, level |-> 0]
    OBVIOUS
  <1>21. s.pages = W /\ s.refs = T /\ s.level = 0
    BY <1>20
  <1>22. \A i \in 1 .. m : T[i].ref = m - m + i
    BY <1>12, <1>13
  <1>23. m \in 1 .. m /\ m <= m
    OBVIOUS
  <1>24. Stack(s, e, rows, m, m, 0)
    BY <1>12, <1>14, <1>17, <1>19, <1>21, <1>22, <1>23 DEF Stack
  <1>25. s \in [pages : Seq(PageWith(A)), refs : Seq(Ref), level : Nat]
    BY <1>20
  <1>26. s \in Stacked(A, e)
    BY <1>24, <1>25 DEF Stacked
  <1> QED
    BY <1>1, <1>2, <1>7, <1>10, <1>11, <1>12, <1>20, <1>21, <1>26 DEF Built

\* What collectEntries finds is in the leaves of the rows.
DownFrom(pages, r, L, g) ==
  [n \in 0 .. L |-> IF n = 0 THEN <<r>> ELSE Under(pages, g[n - 1])]

LEMMA CollectRows ==
  ASSUME NEW pages, NEW N, NEW rows, NEW L \in Nat, NEW e, Rows(pages, N, rows, L, e),
         NEW r, rows[L] = <<r>>, pages[r].level = L
  PROVE  collectEntries(pages, r) = e
  <1> DEFINE f == CHOOSE g : g = DownFrom(pages, r, L, g)
             h == [n \in 0 .. L |-> rows[L - n]]
  <1>1. h = DownFrom(pages, r, L, h)
    <2>1. ASSUME NEW n \in 0 .. L PROVE h[n] = IF n = 0 THEN <<r>> ELSE Under(pages, h[n - 1])
      <3>1. CASE n = 0
        BY <3>1
      <3>2. CASE n # 0
        <4>1. L - n + 1 \in 1 .. L /\ (L - n + 1) - 1 = L - n /\ n - 1 \in 0 .. L /\ L - (n - 1) = L - n + 1
          BY <3>2
        <4>2. Under(pages, rows[L - n + 1]) = rows[L - n]
          BY <4>1 DEF Rows
        <4>3. h[n] = rows[L - n] /\ h[n - 1] = rows[L - n + 1]
          BY <4>1
        <4> HIDE DEF h
        <4> QED
          BY <3>2, <4>2, <4>3
      <3> QED
        BY <3>1, <3>2
    <2>2. h = [n \in 0 .. L |-> h[n]]
      OBVIOUS
    <2> HIDE DEF h
    <2> QED
      BY <2>1, <2>2, Zenon DEF DownFrom
  <1>2. f = DownFrom(pages, r, L, f)
    BY <1>1
  <1>3. collectEntries(pages, r) = FlattenSeq(LeafKids(pages, f[L]))
    BY DEF collectEntries, DownFrom, LeafKids
  <1> HIDE DEF f, h
  <1>4. \A n \in 0 .. L : f[n] = IF n = 0 THEN <<r>> ELSE Under(pages, f[n - 1])
    BY <1>2, Zenon DEF DownFrom
  <1>5. \A n \in 0 .. L : h[n] = IF n = 0 THEN <<r>> ELSE Under(pages, h[n - 1])
    BY <1>1, Zenon DEF DownFrom
  <1> DEFINE F == {k \in Nat : k <= L /\ f[k] # h[k]}
  <1>6. 0 \notin F
    BY <1>4, <1>5
  <1>7. ASSUME NEW k \in Nat, k \notin F PROVE k + 1 \notin F
    <2> SUFFICES ASSUME k + 1 <= L PROVE f[k + 1] = h[k + 1]
      OBVIOUS
    <2>1. k + 1 \in 0 .. L /\ k + 1 # 0 /\ (k + 1) - 1 = k /\ f[k] = h[k]
      BY <1>7
    <2> QED
      BY <1>4, <1>5, <2>1
  <1>8. F \in SUBSET Nat
    OBVIOUS
  <1>9. F = {}
    <2> HIDE DEF F
    <2> QED
      BY <1>6, <1>7, <1>8, FirstFailure
  <1>10. f[L] = h[L]
    BY <1>9
  <1>11. h[L] = rows[0]
    <2>1. L \in 0 .. L /\ L - L = 0
      OBVIOUS
    <2> QED
      BY <2>1 DEF h
  <1> QED
    BY <1>3, <1>10, <1>11 DEF Rows

\* Pages of entries of A, each of which refers to others of them.
Proper(A, pages) ==
  /\ pages \in Seq(PageWith(A)) /\ Len(pages) \in Nat \ {0}
  /\ \A p \in 1 .. Len(pages) : pages[p].level # 0 =>
       \A i \in DOMAIN pages[p].kids : pages[p].kids[i].ref \in 1 .. Len(pages)

\* What encodeTree writes collectEntries reads back, with any separator.
LEMMA EncodeCollects ==
  ASSUME NEW A, \A x \in A : x.key \in Nat, NEW e \in Seq(A), NEW side
  PROVE  /\ Proper(A, encodeTree(e, side))
         /\ collectEntries(encodeTree(e, side), Len(encodeTree(e, side))) = e
  <1>1. CASE e = <<>>
    <2>1. PICK w : w = [level |-> 0, kids |-> <<>>]
      OBVIOUS
    <2>2. w.level = 0 /\ w.kids = <<>> /\ w \in PageWith(A)
      <3>1. <<>> \in Seq(A)
        OBVIOUS
      <3> QED
        BY <2>1, <3>1 DEF PageWith
    <2>3. PICK P : P = <<w>>
      OBVIOUS
    <2>4. P \in Seq(PageWith(A)) /\ Len(P) = 1 /\ P[1] = w
      BY <2>2, <2>3
    <2>5. encodeTree(e, side) = P
      BY <1>1, <2>1, <2>3 DEF encodeTree
    <2>6. Proper(A, P)
      <3>1. 1 .. 1 = {1}
        OBVIOUS
      <3> QED
        BY <2>2, <2>4, <3>1 DEF Proper
    <2>7. collectEntries(P, 1) = <<>>
      <3>1. PICK rows : rows = [l \in 0 .. 0 |-> <<1>>]
        OBVIOUS
      <3>2. rows[0] = <<1>> /\ rows \in [0 .. 0 -> Seq(1 .. 1)]
        <4>1. <<1>> \in Seq(1 .. 1)
          OBVIOUS
        <4> QED
          BY <3>1, <4>1
      <3>3. LeafKids(P, <<1>>) = << <<>> >>
        BY <2>2, <2>4 DEF LeafKids
      <3>4. FlattenSeq(<< <<>> >>) = <<>>
        <4>1. PICK c : c = << <<>> >>
          OBVIOUS
        <4>2. Len(c) = 1 /\ c[1] = <<>>
          BY <4>1
        <4>3. PICK g : g = [i \in 1 .. 1 |-> <<>>]
          OBVIOUS
        <4>4. g[1] = <<>> /\ \A i \in 1 .. 1 : i = 1
          BY <4>3
        <4>5. g = Flat(c, g)
          <5>1. \A i \in 1 .. 1 : (IF i = 1 THEN c[i] ELSE g[i - 1] \o c[i]) = <<>>
            BY <4>2, <4>4
          <5>2. [i \in 1 .. 1 |-> IF i = 1 THEN c[i] ELSE g[i - 1] \o c[i]] = g
            BY <4>3, <5>1
          <5>3. Len(c) = 1
            BY <4>2
          <5>4. Flat(c, g) = [i \in 1 .. 1 |-> IF i = 1 THEN c[i] ELSE g[i - 1] \o c[i]]
            BY <5>3, Zenon DEF Flat
          <5> QED
            BY <5>2, <5>4
        <4>a. Len(c) \in Nat \ {0}
          BY <4>2
        <4>6. FlattenSeq(c) = g[Len(c)]
          BY <4>5, <4>a, FlattenIs
        <4> QED
          BY <4>1, <4>2, <4>4, <4>6
      <3>5. \A l \in 1 .. 0 : Under(P, rows[l]) = rows[l - 1]
        OBVIOUS
      <3>6. Rows(P, 1, rows, 0, <<>>)
        BY <3>2, <3>3, <3>4, <3>5 DEF Rows
      <3> QED
        BY <2>2, <2>4, <3>2, <3>6, CollectRows
    <2> QED
      BY <1>1, <2>4, <2>5, <2>6, <2>7
  <1>2. CASE e # <<>>
    <2>1. PICK c : c = Chunks(e, MaxLeaf)
      OBVIOUS
    <2>2. PICK x : x = Built(PagesOf(c, 0), RefsOf(c, 0, side), 0)
      OBVIOUS
    <2>3. PICK n \in Nat : n = Len(e)
      BY LenProperties
    <2>4. x \in Stacked(A, e) /\ Len(x.refs) <= n
      <3>1. LET d == Chunks(e, MaxLeaf)
                s == Built(PagesOf(d, 0), RefsOf(d, 0, side), 0)
            IN  s \in Stacked(A, e) /\ Len(s.refs) <= Len(e)
        BY <1>2, LeavesStack
      <3> QED
        BY <2>1, <2>2, <2>3, <3>1
    <2>5. PICK y : y = AddLevels(x, side)[n]
      OBVIOUS
    <2>6. encodeTree(e, side) = y.pages
      BY <1>2, <2>1, <2>2, <2>3, <2>5 DEF encodeTree
    <2>7. ASSUME NEW s \in Stacked(A, e) PROVE Len(s.refs) \in Nat \ {0}
      BY DEF Stacked, Stack
    <2>8. ASSUME NEW s \in Stacked(A, e), Len(s.refs) # 1
          PROVE  AddLevel(s, side) \in Stacked(A, e) /\ Len(AddLevel(s, side).refs) < Len(s.refs)
      BY <2>8, LevelStacks
    <2>9. y \in Stacked(A, e) /\ Len(y.refs) = 1
      BY <2>4, <2>5, <2>7, <2>8, LoopEnds
    <2>10. PICK rows, N, M, L : Stack(y, e, rows, N, M, L)
      BY <2>9 DEF Stacked
    <2>11. PICK P \in Seq(PageWith(A)) : P = y.pages
      BY <2>9 DEF Stacked
    <2>12. /\ N \in Nat \ {0} /\ Len(P) = N /\ M = 1 /\ P[N].level = L
           /\ Rows(P, N, rows, L, e)
      BY <2>9, <2>10, <2>11 DEF Stack
    <2>13. L \in Nat
      BY <2>9, <2>10 DEF Stacked, Stack
    <2>14. rows[L] = <<N>>
      <3>1. rows[L] = [i \in 1 .. M |-> N - M + i]
        BY <2>10 DEF Stack
      <3>2. \A i \in 1 .. 1 : N - 1 + i = N
        BY <2>12
      <3>3. rows[L] = [i \in 1 .. 1 |-> N]
        BY <2>12, <3>1, <3>2
      <3> QED
        BY <3>3
    <2>15. collectEntries(P, N) = e
      BY <2>12, <2>13, <2>14, CollectRows
    <2>16. Proper(A, P)
      BY <2>10, <2>11, <2>12 DEF Stack, Proper
    <2> QED
      BY <2>6, <2>11, <2>12, <2>15, <2>16
  <1> QED
    BY <1>1, <1>2

-----------------------------------------------------------------------------
(* A search finds one entry *)

AtMostOne(X) == \A x, y \in X : x = y

LEMMA DescendOne ==
  ASSUME NEW A, NEW pages, Proper(A, pages), NEW k,
         NEW X \in SUBSET (1 .. Len(pages)), AtMostOne(X)
  PROVE  Descend(pages, X, k) \in SUBSET (1 .. Len(pages)) /\ AtMostOne(Descend(pages, X, k))
  <1>1. PICK D : D = 1 .. Len(pages)
    OBVIOUS
  <1>2. CASE X = {}
    <2>1. Descend(pages, X, k) = {}
      BY <1>2 DEF Descend
    <2> QED
      BY <2>1 DEF AtMostOne
  <1>3. CASE X # {}
    <2>1. PICK p : p \in X
      BY <1>3
    <2>2. X = {p} /\ p \in D
      BY <1>1, <2>1 DEF AtMostOne
    <2>3. CASE pages[p].level = 0
      <3>1. Descend(pages, X, k) = {p}
        BY <2>2, <2>3 DEF Descend
      <3> QED
        BY <1>1, <2>2, <3>1 DEF AtMostOne
    <2>4. CASE pages[p].level # 0
      <3>1. Descend(pages, X, k) = {pages[p].kids[i].ref : i \in chooseChild(pages[p].kids, k)}
        BY <2>2, <2>4 DEF Descend
      <3>2. \A i \in DOMAIN pages[p].kids : pages[p].kids[i].ref \in D
        BY <1>1, <2>2, <2>4 DEF Proper
      <3>3. DOMAIN pages[p].kids \subseteq Nat
        <4>1. pages[p] \in PageWith(A)
          BY <1>1, <2>2, ElementOfSeq DEF Proper
        <4>2. PICK q : q = pages[p].kids /\ q \in Seq(A) \cup Seq(Ref)
          BY <4>1 DEF PageWith
        <4>3. DOMAIN q = 1 .. Len(q) /\ Len(q) \in Nat
          BY <4>2, LenProperties
        <4> QED
          BY <4>2, <4>3
      <3>4. ASSUME NEW i \in chooseChild(pages[p].kids, k), NEW j \in chooseChild(pages[p].kids, k)
            PROVE  i = j
        <4>1. /\ i \in DOMAIN pages[p].kids /\ j \in DOMAIN pages[p].kids /\ i <= j /\ j <= i
          BY DEF chooseChild
        <4>2. i \in Nat /\ j \in Nat
          BY <3>3, <4>1
        <4> QED
          BY <4>1, <4>2
      <3>5. chooseChild(pages[p].kids, k) \subseteq DOMAIN pages[p].kids
        BY DEF chooseChild
      <3> QED
        BY <1>1, <3>1, <3>2, <3>4, <3>5 DEF AtMostOne
    <2> QED
      BY <2>3, <2>4
  <1> QED
    BY <1>2, <1>3

LEMMA SearchOne ==
  ASSUME NEW A, NEW pages, Proper(A, pages), NEW k
  PROVE  AtMostOne(Search(pages, Len(pages), k))
  <1>1. PICK N \in Nat \ {0} : N = Len(pages)
    BY DEF Proper
  <1> DEFINE S == {X \in SUBSET (1 .. N) : AtMostOne(X)}
  <1>2. {N} \in S
    BY <1>1 DEF AtMostOne
  <1>3. ASSUME NEW X \in S PROVE Descend(pages, X, k) \in S
    BY <1>1, DescendOne
  <1> HIDE DEF S
  <1>4. PICK g : Descends(g, S, pages, N, k)
    BY <1>2, <1>3, WalkRounds
  <1>5. pages[N].level \in Nat
    <2>1. pages[N] \in PageWith(A)
      BY <1>1, ElementOfSeq DEF Proper
    <2> QED
      BY <2>1 DEF PageWith
  <1>6. walk(pages, N, k) \in S
    BY <1>4, <1>5 DEF Descends
  <1>7. walk(pages, N, k) \in SUBSET (1 .. N) /\ AtMostOne(walk(pages, N, k))
    BY <1>6 DEF S
  <1>8. ASSUME NEW x \in Search(pages, N, k), NEW y \in Search(pages, N, k) PROVE x = y
    <2> DEFINE Hits(kids) == {i \in DOMAIN kids : kids[i].key = k /\ \A j \in 1 .. i - 1 : kids[j].key # k}
    <2>1. Search(pages, N, k)
            = UNION {{pages[leaf].kids[i] : i \in Hits(pages[leaf].kids)} : leaf \in walk(pages, N, k)}
      BY DEF Search
    <2>2. PICK p \in walk(pages, N, k) : \E i \in Hits(pages[p].kids) : x = pages[p].kids[i]
      BY <2>1
    <2>3. PICK q \in walk(pages, N, k) : \E i \in Hits(pages[q].kids) : y = pages[q].kids[i]
      BY <2>1
    <2>4. p = q /\ p \in 1 .. N
      BY <1>7 DEF AtMostOne
    <2>5. PICK kids : kids = pages[p].kids
      OBVIOUS
    <2>6. DOMAIN kids \subseteq Nat \ {0}
      <3>1. pages[p] \in PageWith(A)
        BY <1>1, <2>4, ElementOfSeq DEF Proper
      <3>2. kids \in Seq(A) \cup Seq(Ref)
        BY <2>5, <3>1 DEF PageWith
      <3>3. DOMAIN kids = 1 .. Len(kids) /\ Len(kids) \in Nat
        BY <3>2, LenProperties
      <3> QED
        BY <3>3
    <2>7. PICK i \in Hits(kids) : x = kids[i]
      BY <2>2, <2>5
    <2>8. PICK j \in Hits(kids) : y = kids[j]
      BY <2>3, <2>4, <2>5
    <2>9. /\ i \in Nat \ {0} /\ j \in Nat \ {0} /\ kids[i].key = k /\ kids[j].key = k
      BY <2>6
    <2>10. ~ (i < j) /\ ~ (j < i)
      <3>1. i < j => i \in 1 .. j - 1
        BY <2>9
      <3>2. j < i => j \in 1 .. i - 1
        BY <2>9
      <3> QED
        BY <2>9, <3>1, <3>2
    <2> QED
      BY <2>7, <2>8, <2>9, <2>10
  <1> QED
    BY <1>1, <1>8 DEF AtMostOne

-----------------------------------------------------------------------------
(* What a rebuilt tree has *)

\* A list of entries with numbers as keys, and the keys in it.
Keyed(e) == \E A : e \in Seq(A) /\ \A x \in A : x.key \in Nat

KeysOf(e) == {e[i].key : i \in DOMAIN e}

KeysDiffer(e) == \A i, j \in DOMAIN e : e[i].key = e[j].key => i = j

LEMMA ImageFinite ==
  ASSUME NEW I, IsFiniteSet(I), NEW f, DOMAIN f = I
  PROVE  IsFiniteSet({f[i] : i \in I})
  <1> DEFINE T == {f[i] : i \in I}
             g == [i \in I |-> f[i]]
  <1>1. g \in Surjection(I, T)
    BY DEF Surjection
  <1> HIDE DEF T, g
  <1>2. IsFiniteSet(T)
    BY <1>1, FS_Surjection
  <1> QED
    BY <1>2 DEF T

\* What the elements of a pool have in common.
PoolOf(pool, old, inserts, deletes, front) ==
  /\ \A x \in pool :
       \/ \E i \in DOMAIN old :
            /\ old[i].key \notin deletes
            /\ x = [key |-> old[i].key, at |-> i, val |-> old[i].val]
       \/ \E k \in DOMAIN inserts :
            x = [key |-> k, at |-> IF k \in front THEN 0 ELSE Len(old) + 1, val |-> inserts[k]]
  /\ \A i \in DOMAIN old : old[i].key \notin deletes =>
       [key |-> old[i].key, at |-> i, val |-> old[i].val] \in pool
  /\ \A k \in DOMAIN inserts :
       [key |-> k, at |-> IF k \in front THEN 0 ELSE Len(old) + 1, val |-> inserts[k]] \in pool

LEMMA PoolHas ==
  ASSUME NEW old, NEW inserts, NEW deletes, NEW front
  PROVE  PoolOf(Pool(old, inserts, deletes, front), old, inserts, deletes, front)
  <1> QED
    BY DEF Pool, PoolOf

\* The queued inserts: finitely many, under numbers.
Queued(inserts) == DOMAIN inserts \in SUBSET Nat /\ IsFiniteSet(DOMAIN inserts)

LEMMA PoolFinite ==
  ASSUME NEW old, Keyed(old), NEW inserts, Queued(inserts), NEW deletes, NEW front
  PROVE  IsFiniteSet(Pool(old, inserts, deletes, front))
  <1>1. PICK n \in Nat : DOMAIN old = 1 .. n
    BY LenProperties DEF Keyed
  <1> DEFINE I == {i \in DOMAIN old : old[i].key \notin deletes}
             f == [i \in I |-> [key |-> old[i].key, at |-> i, val |-> old[i].val]]
             K == DOMAIN inserts
             g == [k \in K |-> [key |-> k, at |-> IF k \in front THEN 0 ELSE Len(old) + 1,
                                val |-> inserts[k]]]
  <1>2. IsFiniteSet(I)
    <2>1. IsFiniteSet(1 .. n)
      BY FS_Interval
    <2>2. I \in SUBSET (1 .. n)
      BY <1>1
    <2> HIDE DEF I
    <2> QED
      BY <2>1, <2>2, FS_Subset
  <1>3. IsFiniteSet(K)
    BY DEF Queued
  <1>4. Pool(old, inserts, deletes, front) = {f[i] : i \in I} \cup {g[k] : k \in K}
    BY DEF Pool
  <1>5. DOMAIN f = I /\ DOMAIN g = K
    OBVIOUS
  <1> HIDE DEF f, g, I, K
  <1>6. IsFiniteSet({f[i] : i \in I})
    BY <1>2, <1>5, ImageFinite
  <1>7. IsFiniteSet({g[k] : k \in K})
    BY <1>3, <1>5, ImageFinite
  <1> QED
    BY <1>4, <1>6, <1>7, FS_Union

\* No two elements of a pool have the same place.
Placings(S) ==
  /\ \A x \in S : x.key \in Nat /\ x.at \in Nat
  /\ \A x, y \in S : x.key = y.key /\ x.at = y.at => x = y

Before(S) == {p \in S \X S : Precedes(p[1], p[2])}

LEMMA PoolPlacings ==
  ASSUME NEW old, Keyed(old), NEW inserts, Queued(inserts), NEW deletes, NEW front
  PROVE  Placings(Pool(old, inserts, deletes, front))
  <1>1. PICK n \in Nat : n = Len(old) /\ DOMAIN old = 1 .. n
    BY LenProperties DEF Keyed
  <1>2. \A i \in 1 .. n : old[i].key \in Nat
    <2>1. PICK A : old \in Seq(A) /\ \A x \in A : x.key \in Nat
      BY DEF Keyed
    <2>2. \A i \in 1 .. n : old[i] \in A
      BY <1>1, <2>1, ElementOfSeq
    <2> QED
      BY <2>1, <2>2
  <1>3. PICK pool : pool = Pool(old, inserts, deletes, front)
    OBVIOUS
  <1> DEFINE Kept(x) == x.at \in 1 .. n /\ x = [key |-> old[x.at].key, at |-> x.at, val |-> old[x.at].val]
             New(x) == /\ x.key \in DOMAIN inserts
                       /\ x = [key |-> x.key, at |-> IF x.key \in front THEN 0 ELSE n + 1,
                               val |-> inserts[x.key]]
  <1>4. ASSUME NEW x \in pool PROVE Kept(x) \/ New(x)
    <2>1. PoolOf(pool, old, inserts, deletes, front)
      BY <1>3, PoolHas
    <2>2. CASE \E i \in DOMAIN old :
                 x = [key |-> old[i].key, at |-> i, val |-> old[i].val]
      <3>1. PICK i \in 1 .. n : x = [key |-> old[i].key, at |-> i, val |-> old[i].val]
        BY <1>1, <2>2
      <3>2. x.at = i
        BY <3>1
      <3> QED
        BY <3>1, <3>2
    <2>3. CASE \E k \in DOMAIN inserts :
                 x = [key |-> k, at |-> IF k \in front THEN 0 ELSE n + 1, val |-> inserts[k]]
      <3>1. PICK k \in DOMAIN inserts :
              x = [key |-> k, at |-> IF k \in front THEN 0 ELSE n + 1, val |-> inserts[k]]
        BY <2>3
      <3>2. x.key = k
        BY <3>1
      <3> QED
        BY <3>1, <3>2
    <2> QED
      BY <1>1, <2>1, <2>2, <2>3 DEF PoolOf
  <1>5. ASSUME NEW x, Kept(x) PROVE x.key = old[x.at].key /\ x.key \in Nat /\ x.at \in 1 .. n
    <2>1. PICK i \in 1 .. n : i = x.at
      BY <1>5
    <2>2. x = [key |-> old[i].key, at |-> i, val |-> old[i].val]
      BY <1>5, <2>1
    <2>3. x.key = old[i].key
      BY <2>2
    <2> QED
      BY <1>2, <2>1, <2>3
  <1>6. ASSUME NEW x, New(x) PROVE x.key \in Nat /\ x.at = IF x.key \in front THEN 0 ELSE n + 1
    <2>1. PICK k \in DOMAIN inserts : k = x.key
      BY <1>6
    <2>2. x = [key |-> k, at |-> IF k \in front THEN 0 ELSE n + 1, val |-> inserts[k]]
      BY <1>6, <2>1
    <2>3. x.at = IF k \in front THEN 0 ELSE n + 1
      BY <2>2
    <2> QED
      BY <2>1, <2>3 DEF Queued
  <1>7. ASSUME NEW x, NEW y, Kept(x), Kept(y), x.at = y.at PROVE x = y
    <2>1. PICK i : i = x.at
      OBVIOUS
    <2>2. x = [key |-> old[i].key, at |-> i, val |-> old[i].val]
      BY <1>7, <2>1
    <2>3. y = [key |-> old[i].key, at |-> i, val |-> old[i].val]
      BY <1>7, <2>1
    <2> QED
      BY <2>2, <2>3
  <1>8. ASSUME NEW x, NEW y, New(x), New(y), x.key = y.key PROVE x = y
    <2>1. PICK k : k = x.key
      OBVIOUS
    <2>2. x = [key |-> k, at |-> IF k \in front THEN 0 ELSE n + 1, val |-> inserts[k]]
      BY <1>8, <2>1
    <2>3. y = [key |-> k, at |-> IF k \in front THEN 0 ELSE n + 1, val |-> inserts[k]]
      BY <1>8, <2>1
    <2> QED
      BY <2>2, <2>3
  <1> HIDE DEF Kept, New
  <1>9. ASSUME NEW x \in pool PROVE x.key \in Nat /\ x.at \in Nat
    BY <1>4, <1>5, <1>6
  <1>10. ASSUME NEW x \in pool, NEW y \in pool, x.key = y.key, x.at = y.at PROVE x = y
    <2>1. CASE Kept(x) /\ Kept(y)
      BY <1>7, <1>10, <2>1
    <2>2. CASE New(x) /\ New(y)
      BY <1>8, <1>10, <2>2
    <2>3. ~ (Kept(x) /\ New(y)) /\ ~ (New(x) /\ Kept(y))
      BY <1>5, <1>6, <1>10
    <2> QED
      BY <1>4, <2>1, <2>2, <2>3
  <1> QED
    BY <1>3, <1>9, <1>10 DEF Placings

LEMMA PlacingsOrder ==
  ASSUME NEW S, Placings(S)
  PROVE  /\ Orders(Before(S), S)
         /\ \A x, y \in S : <<x, y>> \in Before(S) <=> Precedes(x, y)
  <1>1. \A x, y \in S : <<x, y>> \in Before(S) <=> Precedes(x, y)
    BY DEF Before
  <1>2. \A x \in S : x.key \in Nat /\ x.at \in Nat
    BY DEF Placings
  <1>3. ASSUME NEW x \in S PROVE ~ Precedes(x, x)
    BY <1>2 DEF Precedes
  <1>4. ASSUME NEW x \in S, NEW y \in S, x # y PROVE Precedes(x, y) \/ Precedes(y, x)
    <2>1. x.key # y.key \/ x.at # y.at
      BY <1>4 DEF Placings
    <2>2. x.key \in Nat /\ x.at \in Nat /\ y.key \in Nat /\ y.at \in Nat
      BY <1>2
    <2> QED
      BY <2>1, <2>2 DEF Precedes
  <1>5. ASSUME NEW x \in S, NEW y \in S, NEW z \in S, Precedes(x, y), Precedes(y, z)
        PROVE  Precedes(x, z)
    <2>1. /\ x.key \in Nat /\ x.at \in Nat /\ y.key \in Nat /\ y.at \in Nat
          /\ z.key \in Nat /\ z.at \in Nat
      BY <1>2
    <2> QED
      BY <1>5, <2>1 DEF Precedes
  <1> QED
    BY <1>1, <1>3, <1>4, <1>5 DEF Orders

\* The pool in its order, with nth as the elements behind the entries of m.
Ranked(pool, m, nth) ==
  /\ Cardinality(pool) \in Nat /\ DOMAIN m = 1 .. Cardinality(pool)
  /\ m = [n \in 1 .. Cardinality(pool) |-> m[n]]
  /\ \A n \in DOMAIN m : nth[n] \in pool /\ m[n].key = nth[n].key
  /\ \A x \in pool : \E n \in DOMAIN m : nth[n] = x
  /\ \A i, j \in DOMAIN m : nth[i] = nth[j] => i = j

LEMMA MergedRanked ==
  ASSUME NEW old, Keyed(old), NEW inserts, Queued(inserts), NEW deletes, NEW front
  PROVE  \E nth : Ranked(Pool(old, inserts, deletes, front), Merged(old, inserts, deletes, front), nth)
  <1>1. PICK pool : pool = Pool(old, inserts, deletes, front)
    OBVIOUS
  <1>2. IsFiniteSet(pool) /\ Cardinality(pool) \in Nat
    BY <1>1, PoolFinite, FS_CardinalityType
  <1>3. PICK C \in Nat : C = Cardinality(pool)
    BY <1>2
  <1>4. PICK R : R = Before(pool)
    OBVIOUS
  <1>5. Orders(R, pool) /\ \A x, y \in pool : <<x, y>> \in R <=> Precedes(x, y)
    <2>1. Placings(pool)
      BY <1>1, PoolPlacings
    <2> QED
      BY <1>4, <2>1, PlacingsOrder
  <1> DEFINE Nth(n) == CHOOSE x \in pool : Cardinality({y \in pool : Precedes(y, x)}) = n - 1
  <1>6. PICK nth : nth = [n \in 1 .. C |-> Nth(n)]
    OBVIOUS
  <1>7. ASSUME NEW x \in pool PROVE Cardinality({y \in pool : Precedes(y, x)}) = Rank(pool, R, x)
    <2>1. {y \in pool : Precedes(y, x)} = {y \in pool : <<y, x>> \in R}
      BY <1>5
    <2> QED
      BY <2>1 DEF Rank
  <1>8. ASSUME NEW n \in 1 .. C PROVE nth[n] \in pool /\ Rank(pool, R, nth[n]) = n - 1
    <2>1. \E x \in pool : Rank(pool, R, x) = n - 1
      BY <1>2, <1>3, <1>5, RankOnto
    <2>2. \E x \in pool : Cardinality({y \in pool : Precedes(y, x)}) = n - 1
      BY <1>7, <2>1
    <2>3. Nth(n) \in pool /\ Cardinality({y \in pool : Precedes(y, Nth(n))}) = n - 1
      BY <2>2
    <2>4. nth[n] = Nth(n)
      BY <1>6
    <2> HIDE DEF Nth
    <2> QED
      BY <1>7, <2>3, <2>4
  <1>9. PICK m : m = [n \in 1 .. C |-> [key |-> Nth(n).key, val |-> Nth(n).val]]
    OBVIOUS
  <1>10. Merged(old, inserts, deletes, front) = m
    BY <1>1, <1>3, <1>9 DEF Merged
  <1>11. ASSUME NEW n \in 1 .. C PROVE m[n].key = nth[n].key
    <2> HIDE DEF Nth
    <2>1. m[n] = [key |-> Nth(n).key, val |-> Nth(n).val] /\ nth[n] = Nth(n)
      BY <1>6, <1>9
    <2> QED
      BY <2>1
  <1>12. DOMAIN m = 1 .. C /\ m = [n \in 1 .. C |-> m[n]]
    BY <1>9
  <1> HIDE DEF Nth
  <1>13. ASSUME NEW x \in pool PROVE \E n \in 1 .. C : nth[n] = x
    <2>1. Rank(pool, R, x) \in 0 .. C - 1
      BY <1>2, <1>3, <1>5, RankBound
    <2>2. PICK n \in 1 .. C : n - 1 = Rank(pool, R, x)
      BY <2>1
    <2>3. nth[n] \in pool /\ Rank(pool, R, nth[n]) = Rank(pool, R, x) /\ Rank(pool, R, x) \in Nat
      BY <1>8, <2>1, <2>2
    <2>4. ASSUME nth[n] # x PROVE FALSE
      <3>1. <<nth[n], x>> \in R \/ <<x, nth[n]>> \in R
        BY <1>5, <2>3, <2>4 DEF Orders
      <3>2. <<nth[n], x>> \in R => Rank(pool, R, nth[n]) < Rank(pool, R, x)
        BY <1>2, <1>5, <2>3, RankMonotone
      <3>3. <<x, nth[n]>> \in R => Rank(pool, R, x) < Rank(pool, R, nth[n])
        BY <1>2, <1>5, <2>3, RankMonotone
      <3> QED
        BY <2>3, <3>1, <3>2, <3>3
    <2> QED
      BY <2>4
  <1>14. ASSUME NEW i \in 1 .. C, NEW j \in 1 .. C, nth[i] = nth[j] PROVE i = j
    <2>1. i - 1 = j - 1
      BY <1>8, <1>14
    <2> QED
      BY <2>1
  <1>15. Ranked(pool, m, nth)
    BY <1>3, <1>8, <1>11, <1>12, <1>13, <1>14 DEF Ranked
  <1> QED
    BY <1>1, <1>10, <1>15

\* A rebuilt tree has the keys that were not deleted and the inserted ones,
\* and no key twice unless one is inserted that is there already.
LEMMA MergedHas ==
  ASSUME NEW old, Keyed(old), NEW inserts, Queued(inserts), NEW deletes, NEW front
  PROVE  LET m == Merged(old, inserts, deletes, front)
         IN  /\ Keyed(m)
             /\ KeysOf(m) = (KeysOf(old) \ deletes) \cup DOMAIN inserts
             /\ KeysDiffer(old) /\ (KeysOf(old) \ deletes) \cap DOMAIN inserts = {} => KeysDiffer(m)
  <1>1. PICK pool : pool = Pool(old, inserts, deletes, front)
    OBVIOUS
  <1>2. PICK m : m = Merged(old, inserts, deletes, front)
    OBVIOUS
  <1>3. PICK nth : Ranked(pool, m, nth)
    BY <1>1, <1>2, MergedRanked
  <1>4. PoolOf(pool, old, inserts, deletes, front) /\ Placings(pool)
    BY <1>1, PoolHas, PoolPlacings
  <1>5. Keyed(m)
    <2>1. PICK C \in Nat : C = Cardinality(pool) /\ DOMAIN m = 1 .. C /\ m = [n \in 1 .. C |-> m[n]]
      BY <1>3 DEF Ranked
    <2>2. PICK B : B = {m[n] : n \in 1 .. C}
      OBVIOUS
    <2>3. m \in Seq(B)
      <3>1. m \in [1 .. C -> B]
        BY <2>1, <2>2
      <3> QED
        BY <3>1
    <2>4. ASSUME NEW x \in B PROVE x.key \in Nat
      <3>1. PICK n \in 1 .. C : x = m[n]
        BY <2>2
      <3>2. m[n].key = nth[n].key /\ nth[n] \in pool
        BY <1>3, <2>1 DEF Ranked
      <3> QED
        BY <1>4, <3>1, <3>2 DEF Placings
    <2> QED
      BY <2>3, <2>4 DEF Keyed
  <1>6. \A n \in DOMAIN m : nth[n] \in pool /\ m[n].key = nth[n].key
    BY <1>3 DEF Ranked
  <1>7. \A x \in pool : \E n \in DOMAIN m : nth[n] = x
    BY <1>3 DEF Ranked
  <1>8. ASSUME NEW x \in pool
        PROVE  \/ \E i \in DOMAIN old : old[i].key \notin deletes /\ x.key = old[i].key /\ x.at = i
                     /\ x = [key |-> old[i].key, at |-> i, val |-> old[i].val]
               \/ \E k \in DOMAIN inserts : x.key = k
                     /\ x = [key |-> k, at |-> IF k \in front THEN 0 ELSE Len(old) + 1, val |-> inserts[k]]
    <2>1. CASE \E i \in DOMAIN old : /\ old[i].key \notin deletes
                                     /\ x = [key |-> old[i].key, at |-> i, val |-> old[i].val]
      <3>1. PICK i \in DOMAIN old : /\ old[i].key \notin deletes
                                    /\ x = [key |-> old[i].key, at |-> i, val |-> old[i].val]
        BY <2>1
      <3>2. x.key = old[i].key /\ x.at = i
        BY <3>1
      <3> QED
        BY <3>1, <3>2
    <2>2. CASE \E k \in DOMAIN inserts :
                 x = [key |-> k, at |-> IF k \in front THEN 0 ELSE Len(old) + 1, val |-> inserts[k]]
      <3>1. PICK k \in DOMAIN inserts :
              x = [key |-> k, at |-> IF k \in front THEN 0 ELSE Len(old) + 1, val |-> inserts[k]]
        BY <2>2
      <3>2. x.key = k
        BY <3>1
      <3> QED
        BY <3>1, <3>2
    <2> QED
      BY <1>4, <2>1, <2>2, Zenon DEF PoolOf
  <1>9. KeysOf(m) = {x.key : x \in pool}
    BY <1>6, <1>7 DEF KeysOf
  <1>10. {x.key : x \in pool} \subseteq (KeysOf(old) \ deletes) \cup DOMAIN inserts
    <2> SUFFICES ASSUME NEW x \in pool PROVE x.key \in (KeysOf(old) \ deletes) \cup DOMAIN inserts
      OBVIOUS
    <2> QED
      BY <1>8 DEF KeysOf
  <1>11. (KeysOf(old) \ deletes) \subseteq {x.key : x \in pool}
    <2> SUFFICES ASSUME NEW i \in DOMAIN old, old[i].key \notin deletes PROVE old[i].key \in {x.key : x \in pool}
      BY DEF KeysOf
    <2>1. PICK x : x = [key |-> old[i].key, at |-> i, val |-> old[i].val]
      OBVIOUS
    <2>2. x \in pool
      BY <1>4, <2>1 DEF PoolOf
    <2>3. x.key = old[i].key
      BY <2>1
    <2> QED
      BY <2>2, <2>3
  <1>12. DOMAIN inserts \subseteq {x.key : x \in pool}
    <2> SUFFICES ASSUME NEW k \in DOMAIN inserts PROVE k \in {x.key : x \in pool}
      OBVIOUS
    <2>1. PICK x : x = [key |-> k, at |-> IF k \in front THEN 0 ELSE Len(old) + 1, val |-> inserts[k]]
      OBVIOUS
    <2>2. x \in pool
      BY <1>4, <2>1 DEF PoolOf
    <2>3. x.key = k
      BY <2>1
    <2> QED
      BY <2>2, <2>3
  <1>13. KeysOf(m) = (KeysOf(old) \ deletes) \cup DOMAIN inserts
    BY <1>9, <1>10, <1>11, <1>12
  <1>14. ASSUME KeysDiffer(old), (KeysOf(old) \ deletes) \cap DOMAIN inserts = {} PROVE KeysDiffer(m)
    <2>1. ASSUME NEW x \in pool, NEW y \in pool, x.key = y.key PROVE x = y
      <3>1. CASE x.key \in DOMAIN inserts
        <4>1. x.key \notin KeysOf(old) \ deletes /\ y.key \notin KeysOf(old) \ deletes
          BY <1>14, <2>1, <3>1
        <4>2. PICK k \in DOMAIN inserts : x.key = k
                /\ x = [key |-> k, at |-> IF k \in front THEN 0 ELSE Len(old) + 1, val |-> inserts[k]]
          BY <1>8, <4>1 DEF KeysOf
        <4>3. PICK l \in DOMAIN inserts : y.key = l
                /\ y = [key |-> l, at |-> IF l \in front THEN 0 ELSE Len(old) + 1, val |-> inserts[l]]
          BY <1>8, <4>1 DEF KeysOf
        <4>4. k = l
          BY <2>1, <4>2, <4>3
        <4> QED
          BY <4>2, <4>3, <4>4
      <3>2. CASE x.key \notin DOMAIN inserts
        <4>1. y.key \notin DOMAIN inserts
          BY <2>1, <3>2
        <4>2. PICK i \in DOMAIN old : x.key = old[i].key
                /\ x = [key |-> old[i].key, at |-> i, val |-> old[i].val]
          BY <1>8, <3>2
        <4>3. PICK j \in DOMAIN old : y.key = old[j].key
                /\ y = [key |-> old[j].key, at |-> j, val |-> old[j].val]
          BY <1>8, <4>1
        <4>4. i = j
          BY <1>14, <2>1, <4>2, <4>3 DEF KeysDiffer
        <4> QED
          BY <4>2, <4>3, <4>4
      <3> QED
        BY <3>1, <3>2
    <2>2. ASSUME NEW i \in DOMAIN m, NEW j \in DOMAIN m, m[i].key = m[j].key PROVE i = j
      <3>1. nth[i] \in pool /\ nth[j] \in pool /\ nth[i].key = nth[j].key
        BY <1>6, <2>2
      <3>2. nth[i] = nth[j]
        BY <2>1, <3>1
      <3> QED
        BY <1>3, <3>2 DEF Ranked
    <2> QED
      BY <2>2 DEF KeysDiffer
  <1> QED
    BY <1>2, <1>5, <1>13, <1>14

-----------------------------------------------------------------------------
(* What the legacy writer keeps *)

GoodTree(t) == (\E A : Proper(A, t)) /\ Keyed(collectEntries(t, Len(t)))

LEMMA TreeWritten ==
  ASSUME NEW e, Keyed(e), NEW side
  PROVE  /\ GoodTree(encodeTree(e, side))
         /\ collectEntries(encodeTree(e, side), Len(encodeTree(e, side))) = e
  <1>1. PICK A : e \in Seq(A) /\ \A x \in A : x.key \in Nat
    BY DEF Keyed
  <1>2. PICK t : t = encodeTree(e, side)
    OBVIOUS
  <1>3. Proper(A, t) /\ collectEntries(t, Len(t)) = e
    BY <1>1, <1>2, EncodeCollects
  <1> QED
    BY <1>2, <1>3 DEF GoodTree

\* The trees on file: block ids are used up to bidNextB, none twice, and no
\* committed node is missing.
TreesKept ==
  /\ GoodTree(nbt) /\ GoodTree(bbt)
  /\ bidNextB \in Nat
  /\ \A k \in KeysOf(BlockEntries) : k < bidNextB
  /\ KeysDiffer(BlockEntries)
  /\ DOMAIN live \subseteq KeysOf(NodeEntries)

\* What is queued: blocks with ids that are not on file, and every node that a
\* commit now should leave, unless it is on file and not queued for deletion.
BlocksKept ==
  /\ nextBID \in Nat /\ bidNextB <= nextBID
  /\ bbtInserts \subseteq bidNextB .. nextBID - 1

NodesKept ==
  /\ Queued(nbtInserts)
  /\ DOMAIN asked \subseteq DOMAIN nbtInserts \cup (KeysOf(NodeEntries) \ nbtDeletes)

QueueKept == nextNID \in Nat /\ BlocksKept /\ NodesKept

LegacyInv == TreesKept /\ QueueKept /\ CacheCoherent

\* The trees on file are the same.
SameTrees ==
  /\ UNCHANGED trees
  /\ NodeEntries' = NodeEntries /\ BlockEntries' = BlockEntries
  /\ \A n : searchNBT(n)' = searchNBT(n)

LEMMA TreesUntouched ==
  ASSUME LegacyInv, UNCHANGED trees
  PROVE  SameTrees /\ TreesKept'
  <1>1. nbt' = nbt /\ bbt' = bbt /\ bidNextB' = bidNextB /\ live' = live
    BY DEF trees
  <1>2. NodeEntries' = NodeEntries /\ BlockEntries' = BlockEntries
    BY <1>1 DEF NodeEntries, BlockEntries
  <1>3. \A n : searchNBT(n)' = searchNBT(n)
    BY <1>1 DEF searchNBT
  <1> QED
    BY <1>1, <1>2, <1>3 DEF SameTrees, TreesKept, LegacyInv

\* Looking up a node or a block keeps the caches coherent.
CachedNode(n) == nodeCache' = nodeCache \/ \E info \in LookupResult(n) : CacheNode(n, info)
CachedBlock == blockCache' = blockCache \/ \E b : CacheBlock(b)

LEMMA CachesKept ==
  ASSUME LegacyInv, UNCHANGED trees, NEW n, CachedNode(n), CachedBlock
  PROVE  CacheCoherent'
  <1>1. nbt' = nbt /\ bbt' = bbt
    BY DEF trees
  <1>2. SameTrees
    BY TreesUntouched
  <1>3. \A x \in DOMAIN nodeCache : searchNBT(x) = {nodeCache[x]}
    BY DEF LegacyInv, CacheCoherent
  <1>4. \A b \in blockCache : Search(bbt, Len(bbt), b) # {}
    BY DEF LegacyInv, CacheCoherent
  <1>5. ASSUME NEW x, NEW info \in searchNBT(x) PROVE searchNBT(x) = {info}
    <2>1. PICK A : Proper(A, nbt)
      BY DEF LegacyInv, TreesKept, GoodTree
    <2>2. AtMostOne(Search(nbt, Len(nbt), x))
      BY <2>1, SearchOne
    <2>3. \A y, z \in searchNBT(x) : y = z
      BY <2>2 DEF AtMostOne, searchNBT
    <2> QED
      BY <2>3
  <1>6. \A x \in DOMAIN nodeCache' : searchNBT(x) = {nodeCache'[x]}
    <2>1. CASE nodeCache' = nodeCache
      BY <1>3, <2>1
    <2>2. CASE \E info \in LookupResult(n) : CacheNode(n, info)
      <3>1. PICK info \in LookupResult(n) : nodeCache' = With(nodeCache, n, info)
        BY <2>2 DEF CacheNode
      <3>2. searchNBT(n) = {info}
        <4>1. CASE n \in DOMAIN nodeCache
          <5>1. info = nodeCache[n]
            BY <3>1, <4>1 DEF LookupResult
          <5> QED
            BY <1>3, <4>1, <5>1
        <4>2. CASE n \notin DOMAIN nodeCache
          <5>1. info \in searchNBT(n)
            BY <3>1, <4>2 DEF LookupResult
          <5> QED
            BY <1>5, <5>1
        <4> QED
          BY <4>1, <4>2
      <3>3. /\ DOMAIN With(nodeCache, n, info) = DOMAIN nodeCache \cup {n}
            /\ \A x \in DOMAIN nodeCache \cup {n} :
                 With(nodeCache, n, info)[x] = IF x = n THEN info ELSE nodeCache[x]
        BY DEF With
      <3>4. ASSUME NEW x \in DOMAIN nodeCache \cup {n}
            PROVE  searchNBT(x) = {With(nodeCache, n, info)[x]}
        <4>1. CASE x = n
          BY <3>2, <3>3, <4>1
        <4>2. CASE x # n
          <5>1. x \in DOMAIN nodeCache /\ With(nodeCache, n, info)[x] = nodeCache[x]
            BY <3>3, <4>2
          <5> QED
            BY <1>3, <5>1
        <4> QED
          BY <4>1, <4>2
      <3> QED
        BY <3>1, <3>3, <3>4
    <2> QED
      BY <2>1, <2>2 DEF CachedNode
  <1>7. \A b \in blockCache' : Search(bbt, Len(bbt), b) # {}
    <2>1. CASE blockCache' = blockCache
      BY <1>4, <2>1
    <2>2. CASE \E b : CacheBlock(b)
      BY <1>4, <2>2 DEF CacheBlock, BlockFound
    <2> QED
      BY <2>1, <2>2 DEF CachedBlock
  <1>8. \A x \in DOMAIN nodeCache' : searchNBT(x)' = {nodeCache'[x]}
    BY <1>2, <1>6 DEF SameTrees
  <1>9. \A b \in blockCache' : Search(bbt', Len(bbt'), b) # {}
    BY <1>1, <1>7
  <1> QED
    BY <1>8, <1>9 DEF CacheCoherent

\* An action that leaves the trees alone has to keep the queue only.
LEMMA QueuedKeeps ==
  ASSUME LegacyInv, UNCHANGED trees, NEW n, CachedNode(n), CachedBlock, QueueKept'
  PROVE  LegacyInv'
  BY TreesUntouched, CachesKept DEF LegacyInv

-----------------------------------------------------------------------------
(* Each operation of the legacy writer *)

LEMMA LegacyNumbers ==
  ASSUME LegacyInv
  PROVE  nextNID \in Nat /\ nextBID \in Nat /\ bidNextB \in Nat /\ bidNextB <= nextBID
  BY DEF LegacyInv, QueueKept, BlocksKept, TreesKept

\* No block is queued, or the one that just got its id.
LEMMA BlocksSame ==
  ASSUME LegacyInv, bidNextB' = bidNextB, nextBID' = nextBID, bbtInserts' \subseteq bbtInserts
  PROVE  BlocksKept'
  BY DEF LegacyInv, QueueKept, BlocksKept

LEMMA BlocksMore ==
  ASSUME LegacyInv, bidNextB' = bidNextB, nextBID' = nextBID + 1,
         bbtInserts' \subseteq bbtInserts \cup {nextBID}
  PROVE  BlocksKept'
  <1>1. nextBID \in Nat /\ bidNextB \in Nat /\ bidNextB <= nextBID
    BY LegacyNumbers
  <1>2. bbtInserts \subseteq bidNextB .. nextBID - 1
    BY DEF LegacyInv, QueueKept, BlocksKept
  <1>3. bbtInserts' \subseteq bidNextB .. nextBID' - 1
    BY <1>1, <1>2
  <1> QED
    BY <1>1, <1>3 DEF BlocksKept

\* Insertions, deletions and what is asked for go together.
LEMMA NodesMore ==
  ASSUME LegacyInv, UNCHANGED trees, NEW n \in Nat, NEW x, NEW y,
         nbtInserts' = With(nbtInserts, n, x), asked' = With(asked, n, y),
         nbtDeletes' \subseteq nbtDeletes
  PROVE  NodesKept'
  <1>1. NodeEntries' = NodeEntries
    BY TreesUntouched DEF SameTrees
  <1>2. DOMAIN nbtInserts' = DOMAIN nbtInserts \cup {n} /\ DOMAIN asked' = DOMAIN asked \cup {n}
    BY DEF With
  <1>3. Queued(nbtInserts)'
    <2>1. DOMAIN nbtInserts \in SUBSET Nat /\ IsFiniteSet(DOMAIN nbtInserts)
      BY DEF LegacyInv, QueueKept, NodesKept, Queued
    <2>2. IsFiniteSet(DOMAIN nbtInserts \cup {n})
      BY <2>1, FS_AddElement
    <2> QED
      BY <1>2, <2>1, <2>2 DEF Queued
  <1>4. DOMAIN asked \subseteq DOMAIN nbtInserts \cup (KeysOf(NodeEntries) \ nbtDeletes)
    BY DEF LegacyInv, QueueKept, NodesKept
  <1>5. DOMAIN asked' \subseteq DOMAIN nbtInserts' \cup (KeysOf(NodeEntries') \ nbtDeletes')
    BY <1>1, <1>2, <1>4
  <1> QED
    BY <1>3, <1>5 DEF NodesKept

LEMMA NodesSame ==
  ASSUME LegacyInv, UNCHANGED trees, UNCHANGED <<nbtInserts, nbtDeletes, asked>>
  PROVE  NodesKept'
  <1>1. NodeEntries' = NodeEntries
    BY TreesUntouched DEF SameTrees
  <1> QED
    BY <1>1 DEF LegacyInv, QueueKept, NodesKept

LEMMA NodesFewer ==
  ASSUME LegacyInv, UNCHANGED trees, NEW n, Unqueue(n), asked' = Without(asked, n)
  PROVE  NodesKept'
  <1>1. NodeEntries' = NodeEntries
    BY TreesUntouched DEF SameTrees
  <1>2. DOMAIN asked' = DOMAIN asked \ {n}
    BY DEF Without
  <1>3. DOMAIN asked \subseteq DOMAIN nbtInserts \cup (KeysOf(NodeEntries) \ nbtDeletes)
    BY DEF LegacyInv, QueueKept, NodesKept
  <1>4. Queued(nbtInserts)
    BY DEF LegacyInv, QueueKept, NodesKept
  <1>5. CASE n \in DOMAIN nbtInserts
    <2>1. nbtInserts' = Without(nbtInserts, n) /\ nbtDeletes' = nbtDeletes
      BY <1>5 DEF Unqueue
    <2>2. DOMAIN nbtInserts' = DOMAIN nbtInserts \ {n}
      BY <2>1 DEF Without
    <2>3. Queued(nbtInserts)'
      <3>1. DOMAIN nbtInserts \ {n} \in SUBSET Nat /\ IsFiniteSet(DOMAIN nbtInserts \ {n})
        BY <1>4, FS_RemoveElement DEF Queued
      <3> QED
        BY <2>2, <3>1 DEF Queued
    <2> QED
      BY <1>1, <1>2, <1>3, <2>1, <2>2, <2>3 DEF NodesKept
  <1>6. CASE n \notin DOMAIN nbtInserts
    <2>1. nbtInserts' = nbtInserts /\ nbtDeletes' = nbtDeletes \cup {n}
      BY <1>6 DEF Unqueue
    <2> QED
      BY <1>1, <1>2, <1>3, <1>4, <2>1 DEF NodesKept
  <1> QED
    BY <1>5, <1>6

\* An emptied queue asks for what is on file.
LEMMA NodesNone ==
  ASSUME TreesKept', Reset, asked' = live'
  PROVE  NodesKept' /\ bbtInserts' = {}
  <1>1. nbtInserts' = NoNodes /\ nbtDeletes' = {} /\ bbtInserts' = {}
    BY DEF Reset
  <1>2. DOMAIN NoNodes = {}
    BY DEF NoNodes
  <1>3. Queued(nbtInserts)'
    BY <1>1, <1>2, FS_EmptySet DEF Queued
  <1>4. DOMAIN live' \subseteq KeysOf(NodeEntries)'
    BY DEF TreesKept
  <1> QED
    BY <1>1, <1>3, <1>4 DEF NodesKept

LEMMA NIDsAreNumbers == NIDs \in SUBSET Nat
  BY LegacyAssumption DEF NIDs

\* BeginWrite, CommitFails and Rollback: the queue is dropped, the file as it was.
LEMMA QueueDropped ==
  ASSUME LegacyInv, UNCHANGED <<trees, caches, nextNID, nextBID>>, Reset, asked' = live
  PROVE  LegacyInv'
  <1>1. UNCHANGED trees /\ nextNID' = nextNID /\ nextBID' = nextBID
    OBVIOUS
  <1>2. bidNextB' = bidNextB /\ live' = live /\ nodeCache' = nodeCache /\ blockCache' = blockCache
    BY DEF trees, caches
  <1>3. TreesKept'
    BY <1>1, TreesUntouched
  <1>4. NodesKept' /\ bbtInserts' = {}
    BY <1>2, <1>3, NodesNone
  <1>5. BlocksKept'
    BY <1>1, <1>2, <1>4, BlocksSame
  <1>6. QueueKept'
    BY <1>1, <1>4, <1>5, LegacyNumbers DEF QueueKept
  <1> QED
    BY <1>1, <1>2, <1>6, QueuedKeeps DEF CachedNode, CachedBlock

\* Reopening brings nextBID back to bidNextB: no id on file is handed out again.
LEMMA ReopenInv == LegacyInv /\ Reopen => LegacyInv'
  <1> SUFFICES ASSUME LegacyInv, Reopen PROVE LegacyInv'
    OBVIOUS
  <1>1. /\ UNCHANGED trees /\ Reset /\ asked' = live
        /\ nodeCache' = NoNodes /\ blockCache' = {}
        /\ nextNID' = 0 /\ nextBID' = bidNextB
    BY DEF Reopen
  <1>2. bidNextB' = bidNextB /\ live' = live
    BY <1>1 DEF trees
  <1>3. TreesKept'
    BY <1>1, TreesUntouched
  <1>4. NodesKept' /\ bbtInserts' = {}
    BY <1>1, <1>2, <1>3, NodesNone
  <1>5. BlocksKept'
    BY <1>1, <1>2, <1>4, LegacyNumbers DEF BlocksKept
  <1>6. QueueKept'
    BY <1>1, <1>4, <1>5 DEF QueueKept
  <1>7. CacheCoherent'
    BY <1>1 DEF CacheCoherent, NoNodes
  <1> QED
    BY <1>3, <1>6, <1>7 DEF LegacyInv

LEMMA LookupNodeInv ==
  ASSUME LegacyInv, NEW n, LookupNode(n)
  PROVE  LegacyInv'
  <1>1. /\ CachedNode(n) /\ CachedBlock /\ UNCHANGED trees
        /\ nextNID' = nextNID /\ nextBID' = nextBID /\ bbtInserts' = bbtInserts
        /\ UNCHANGED <<nbtInserts, nbtDeletes, asked>> /\ bidNextB' = bidNextB
    BY DEF LookupNode, CachedNode, CachedBlock, writer, trees
  <1>2. QueueKept'
    BY <1>1, LegacyNumbers, NodesSame, BlocksSame DEF QueueKept
  <1> QED
    BY <1>1, <1>2, QueuedKeeps

LEMMA LookupBlockInv ==
  ASSUME LegacyInv, NEW b, LookupBlock(b)
  PROVE  LegacyInv'
  <1>1. /\ CachedNode(0) /\ CachedBlock /\ UNCHANGED trees
        /\ nextNID' = nextNID /\ nextBID' = nextBID /\ bbtInserts' = bbtInserts
        /\ UNCHANGED <<nbtInserts, nbtDeletes, asked>> /\ bidNextB' = bidNextB
    BY DEF LookupBlock, CachedNode, CachedBlock, writer, trees
  <1>2. QueueKept'
    BY <1>1, LegacyNumbers, NodesSame, BlocksSame DEF QueueKept
  <1> QED
    BY <1>1, <1>2, QueuedKeeps

LEMMA CreateNodeInv ==
  ASSUME LegacyInv, NEW parent, CreateNode(parent)
  PROVE  LegacyInv'
  <1>1. PICK nid : nid = nextNID + 1
    OBVIOUS
  <1>2. nid \in Nat
    BY <1>1, LegacyNumbers
  <1>3. /\ UNCHANGED trees /\ UNCHANGED caches
        /\ nextNID' = nid /\ nextBID' = nextBID + 1
        /\ bbtInserts' = bbtInserts \cup {nextBID}
    BY <1>1 DEF CreateNode, WriteBlockData
  <1>4. NodesKept'
    <2>1. CASE nid \in DOMAIN nbtInserts
      <3>1. UNCHANGED <<nbtInserts, nbtDeletes, asked>>
        BY <1>1, <2>1 DEF CreateNode
      <3> QED
        BY <1>3, <3>1, NodesSame
    <2>2. CASE nid \notin DOMAIN nbtInserts
      <3>1. /\ nbtInserts' = With(nbtInserts, nid, Info(nextBID, parent))
            /\ nbtDeletes' \subseteq nbtDeletes
            /\ asked' = With(asked, nid, Info(nextBID, parent))
        BY <1>1, <2>2 DEF CreateNode
      <3> QED
        BY <1>2, <1>3, <3>1, NodesMore
    <2> QED
      BY <2>1, <2>2
  <1>5. bidNextB' = bidNextB /\ nodeCache' = nodeCache /\ blockCache' = blockCache
    BY <1>3 DEF trees, caches
  <1>6. BlocksKept'
    BY <1>3, <1>5, BlocksMore
  <1>7. QueueKept'
    BY <1>2, <1>3, <1>4, <1>6 DEF QueueKept
  <1> QED
    BY <1>3, <1>5, <1>7, QueuedKeeps DEF CachedNode, CachedBlock

LEMMA CopyNodeInv ==
  ASSUME LegacyInv, NEW n, NEW parent, CopyNode(n, parent)
  PROVE  LegacyInv'
  <1>1. PICK nid : nid = nextNID + 1
    OBVIOUS
  <1>2. nid \in Nat
    BY <1>1, LegacyNumbers
  <1>3. PICK info \in LookupResult(n) :
          /\ CacheNode(n, info)
          /\ nextNID' = nid
          /\ IF nid \in DOMAIN nbtInserts
             THEN UNCHANGED <<nbtInserts, nbtDeletes, asked>>
             ELSE /\ nbtInserts' = With(nbtInserts, nid, Info(info.data, parent))
                  /\ nbtDeletes' = nbtDeletes \ {nid}
                  /\ asked' = With(asked, nid, Info(info.data, parent))
    BY <1>1 DEF CopyNode
  <1>4. /\ UNCHANGED trees /\ blockCache' = blockCache
        /\ nextBID' = nextBID /\ bbtInserts' = bbtInserts /\ bidNextB' = bidNextB
    BY DEF CopyNode, trees
  <1>5. NodesKept'
    <2>1. CASE nid \in DOMAIN nbtInserts
      BY <1>3, <1>4, <2>1, NodesSame
    <2>2. CASE nid \notin DOMAIN nbtInserts
      <3>1. /\ nbtInserts' = With(nbtInserts, nid, Info(info.data, parent))
            /\ nbtDeletes' \subseteq nbtDeletes
            /\ asked' = With(asked, nid, Info(info.data, parent))
        BY <1>3, <2>2
      <3> QED
        BY <1>2, <1>4, <3>1, NodesMore
    <2> QED
      BY <2>1, <2>2
  <1>6. BlocksKept'
    BY <1>4, BlocksSame
  <1>7. QueueKept'
    BY <1>2, <1>3, <1>5, <1>6 DEF QueueKept
  <1> QED
    BY <1>3, <1>4, <1>7, QueuedKeeps DEF CachedNode, CachedBlock

LEMMA RequeueKeeps ==
  ASSUME LegacyInv, UNCHANGED trees, NEW n \in Nat, NEW info, Requeue(n, info)
  PROVE  NodesKept'
  <1>1. CASE n \in nbtDeletes
    BY <1>1, NodesSame DEF Requeue
  <1>2. CASE n \notin nbtDeletes
    <2>1. /\ nbtInserts' = With(nbtInserts, n, info) /\ asked' = With(asked, n, info)
          /\ nbtDeletes' \subseteq nbtDeletes
      BY <1>2 DEF Requeue
    <2> QED
      BY <2>1, NodesMore
  <1> QED
    BY <1>1, <1>2

LEMMA UpdateNodeDataInv ==
  ASSUME LegacyInv, NEW n \in NIDs, UpdateNodeData(n)
  PROVE  LegacyInv'
  <1>1. n \in Nat
    BY NIDsAreNumbers
  <1>2. PICK info \in LookupResult(n) :
          /\ CacheNode(n, info)
          /\ DeleteBlock(info.data)
          /\ bbtInserts' = (bbtInserts \ {info.data}) \cup {nextBID}
          /\ Requeue(n, Info(nextBID, info.parent))
    BY DEF UpdateNodeData
  <1>3. UNCHANGED trees /\ nextNID' = nextNID /\ nextBID' = nextBID + 1 /\ bidNextB' = bidNextB
    BY DEF UpdateNodeData, WriteBlockData, trees
  <1>4. NodesKept'
    BY <1>1, <1>2, <1>3, RequeueKeeps
  <1>5. bbtInserts' \subseteq bbtInserts \cup {nextBID}
    BY <1>2
  <1>6. BlocksKept'
    BY <1>3, <1>5, BlocksMore
  <1>7. QueueKept'
    BY <1>3, <1>4, <1>6, LegacyNumbers DEF QueueKept
  <1>8. CachedNode(n) /\ CachedBlock
    BY <1>2 DEF CachedNode, CachedBlock, DeleteBlock
  <1> QED
    BY <1>3, <1>7, <1>8, QueuedKeeps

LEMMA MoveNodeInv ==
  ASSUME LegacyInv, NEW n \in NIDs, NEW parent, MoveNode(n, parent)
  PROVE  LegacyInv'
  <1>1. n \in Nat
    BY NIDsAreNumbers
  <1>2. PICK info \in LookupResult(n) : CacheNode(n, info) /\ Requeue(n, Info(info.data, parent))
    BY DEF MoveNode
  <1>3. /\ UNCHANGED trees /\ nextNID' = nextNID /\ nextBID' = nextBID /\ bidNextB' = bidNextB
        /\ blockCache' = blockCache /\ bbtInserts' = bbtInserts
    BY DEF MoveNode, trees
  <1>4. NodesKept'
    BY <1>1, <1>2, <1>3, RequeueKeeps
  <1>5. QueueKept'
    BY <1>3, <1>4, LegacyNumbers, BlocksSame DEF QueueKept
  <1> QED
    BY <1>2, <1>3, <1>5, QueuedKeeps DEF CachedNode, CachedBlock

LEMMA DeleteNodeInv ==
  ASSUME LegacyInv, NEW n, DeleteNode(n)
  PROVE  LegacyInv'
  <1>1. /\ UNCHANGED trees /\ nextNID' = nextNID /\ nextBID' = nextBID /\ bidNextB' = bidNextB
        /\ nodeCache' = nodeCache /\ blockCache' = blockCache /\ bbtInserts' = bbtInserts
        /\ Unqueue(n) /\ asked' = Without(asked, n)
    BY DEF DeleteNode, trees, caches
  <1>2. QueueKept'
    BY <1>1, LegacyNumbers, BlocksSame, NodesFewer DEF QueueKept
  <1> QED
    BY <1>1, <1>2, QueuedKeeps DEF CachedNode, CachedBlock

LEMMA DeleteNodeRecursiveInv ==
  ASSUME LegacyInv, NEW n, DeleteNodeRecursive(n)
  PROVE  LegacyInv'
  <1>1. PICK info \in LookupResult(n) :
          CacheNode(n, info) /\ DeleteBlock(info.data) /\ bbtInserts' = bbtInserts \ {info.data}
    BY DEF DeleteNodeRecursive
  <1>2. /\ UNCHANGED trees /\ nextNID' = nextNID /\ nextBID' = nextBID /\ bidNextB' = bidNextB
        /\ Unqueue(n) /\ asked' = Without(asked, n)
    BY DEF DeleteNodeRecursive, trees
  <1>3. bbtInserts' \subseteq bbtInserts
    BY <1>1
  <1>4. QueueKept'
    BY <1>2, <1>3, LegacyNumbers, BlocksSame, NodesFewer DEF QueueKept
  <1>5. CachedNode(n) /\ CachedBlock
    BY <1>1 DEF CachedNode, CachedBlock, DeleteBlock
  <1> QED
    BY <1>2, <1>4, <1>5, QueuedKeeps

\* A commit writes the nodes asked for, and blocks whose ids are below nextBID.
LEMMA CommitInv == LegacyInv /\ Commit => LegacyInv'
  <1> SUFFICES ASSUME LegacyInv, Commit PROVE LegacyInv'
    OBVIOUS
  <1>1. /\ Apply /\ bidNextB' = nextBID /\ live' = asked /\ asked' = asked
        /\ nodeCache' = NoNodes /\ blockCache' = {} /\ Reset
        /\ nextNID' = nextNID /\ nextBID' = nextBID
    BY DEF Commit
  <1>2. /\ GoodTree(nbt) /\ GoodTree(bbt) /\ Keyed(NodeEntries) /\ Keyed(BlockEntries)
    BY DEF LegacyInv, TreesKept, GoodTree, NodeEntries, BlockEntries
  <1>3. Queued(nbtInserts)
        /\ DOMAIN asked \subseteq DOMAIN nbtInserts \cup (KeysOf(NodeEntries) \ nbtDeletes)
    BY DEF LegacyInv, QueueKept, NodesKept
  <1>4. GoodTree(nbt') /\ DOMAIN asked \subseteq KeysOf(NodeEntries')
    <2>1. CASE nbtInserts = NoNodes /\ nbtDeletes = {}
      <3>1. nbt' = nbt
        BY <1>1, <2>1 DEF Apply
      <3>2. NodeEntries' = NodeEntries
        BY <3>1 DEF NodeEntries
      <3>3. DOMAIN nbtInserts = {}
        BY <2>1 DEF NoNodes
      <3> QED
        BY <1>2, <1>3, <2>1, <3>1, <3>2, <3>3
    <2>2. CASE ~ (nbtInserts = NoNodes /\ nbtDeletes = {})
      <3>1. PICK front : nbt' = encodeTree(Merged(NodeEntries, nbtInserts, nbtDeletes, front), "last")
        BY <1>1, <2>2 DEF Apply
      <3>2. PICK m : m = Merged(NodeEntries, nbtInserts, nbtDeletes, front)
        OBVIOUS
      <3>3. Keyed(m) /\ KeysOf(m) = (KeysOf(NodeEntries) \ nbtDeletes) \cup DOMAIN nbtInserts
        BY <1>2, <1>3, <3>2, MergedHas
      <3>4. nbt' = encodeTree(m, "last")
        BY <3>1, <3>2
      <3>5. GoodTree(nbt') /\ collectEntries(nbt', Len(nbt')) = m
        BY <3>3, <3>4, TreeWritten
      <3>6. NodeEntries' = m
        BY <3>5 DEF NodeEntries
      <3> QED
        BY <1>3, <3>3, <3>5, <3>6
    <2> QED
      BY <2>1, <2>2
  <1>5. /\ bidNextB \in Nat /\ nextBID \in Nat /\ bidNextB <= nextBID
        /\ bbtInserts \subseteq bidNextB .. nextBID - 1
        /\ \A k \in KeysOf(BlockEntries) : k < bidNextB
        /\ KeysDiffer(BlockEntries)
    BY DEF LegacyInv, QueueKept, BlocksKept, TreesKept
  <1>6. KeysOf(BlockEntries) \subseteq Nat
    <2>1. PICK A : BlockEntries \in Seq(A) /\ \A x \in A : x.key \in Nat
      BY <1>2 DEF Keyed
    <2>2. \A i \in DOMAIN BlockEntries : BlockEntries[i] \in A
      BY <2>1, LenProperties, ElementOfSeq
    <2> QED
      BY <2>1, <2>2 DEF KeysOf
  <1>7. /\ GoodTree(bbt') /\ KeysDiffer(BlockEntries')
        /\ KeysOf(BlockEntries') \subseteq KeysOf(BlockEntries) \cup bbtInserts
    <2>1. CASE bbtInserts = {} /\ bbtDeletes = {}
      <3>1. bbt' = bbt
        BY <1>1, <2>1 DEF Apply
      <3>2. BlockEntries' = BlockEntries
        BY <3>1 DEF BlockEntries
      <3> QED
        BY <1>2, <1>5, <3>1, <3>2
    <2>2. CASE ~ (bbtInserts = {} /\ bbtDeletes = {})
      <3>1. bbt' = encodeTree(NewBlocks, "last")
        BY <1>1, <2>2 DEF Apply
      <3>2. PICK f : f = [b \in bbtInserts |-> b]
        OBVIOUS
      <3>3. DOMAIN f = bbtInserts
        BY <3>2
      <3>4. Queued(f)
        <4>1. IsFiniteSet(bidNextB .. nextBID - 1)
          BY <1>5, FS_Interval
        <4>2. IsFiniteSet(bbtInserts)
          BY <1>5, <4>1, FS_Subset
        <4>3. bbtInserts \subseteq Nat
          BY <1>5
        <4> QED
          BY <3>3, <4>2, <4>3 DEF Queued
      <3>5. PICK m : m = Merged(BlockEntries, f, bbtDeletes, {})
        OBVIOUS
      <3>6. NewBlocks = m
        BY <3>2, <3>5 DEF NewBlocks
      <3>7. (KeysOf(BlockEntries) \ bbtDeletes) \cap bbtInserts = {}
        <4> SUFFICES ASSUME NEW k \in KeysOf(BlockEntries), k \in bbtInserts PROVE FALSE
          OBVIOUS
        <4>1. k \in Nat /\ k < bidNextB /\ k \in bidNextB .. nextBID - 1
          BY <1>5, <1>6
        <4> QED
          BY <1>5, <4>1
      <3>8. /\ Keyed(m) /\ KeysDiffer(m)
            /\ KeysOf(m) = (KeysOf(BlockEntries) \ bbtDeletes) \cup bbtInserts
        BY <1>2, <1>5, <3>3, <3>4, <3>5, <3>7, MergedHas
      <3>9. GoodTree(bbt') /\ collectEntries(bbt', Len(bbt')) = m
        BY <3>1, <3>6, <3>8, TreeWritten
      <3>10. BlockEntries' = m
        BY <3>9 DEF BlockEntries
      <3> QED
        BY <3>8, <3>9, <3>10
    <2> QED
      BY <2>1, <2>2
  <1>8. \A k \in KeysOf(BlockEntries') : k < bidNextB'
    <2> SUFFICES ASSUME NEW k \in KeysOf(BlockEntries') PROVE k < nextBID
      BY <1>1
    <2>1. CASE k \in KeysOf(BlockEntries)
      <3>1. k \in Nat /\ k < bidNextB
        BY <1>5, <1>6, <2>1
      <3> QED
        BY <1>5, <3>1
    <2>2. CASE k \in bbtInserts
      BY <1>5, <2>2
    <2> QED
      BY <1>7, <2>1, <2>2
  <1>9. TreesKept'
    BY <1>1, <1>4, <1>5, <1>7, <1>8 DEF TreesKept
  <1>10. NodesKept' /\ bbtInserts' = {}
    BY <1>1, <1>9, NodesNone
  <1>11. QueueKept'
    BY <1>1, <1>5, <1>10, LegacyNumbers DEF QueueKept, BlocksKept
  <1>12. CacheCoherent'
    BY <1>1 DEF CacheCoherent, NoNodes
  <1> QED
    BY <1>9, <1>11, <1>12 DEF LegacyInv

LEMMA LegacyInvInit == LegacyInit => LegacyInv
  <1> SUFFICES ASSUME LegacyInit PROVE LegacyInv
    OBVIOUS
  <1>1. PICK x : x = [key |-> RootNID, val |-> Info(1, 0)]
    OBVIOUS
  <1>2. PICK y : y = [key |-> 1, val |-> 1]
    OBVIOUS
  <1>3. x.key = RootNID /\ y.key = 1 /\ RootNID \in Nat
    BY <1>1, <1>2, LegacyAssumption
  <1>4. nbt = encodeTree(<<x>>, "last") /\ bbt = encodeTree(<<y>>, "last")
    BY <1>1, <1>2 DEF LegacyInit
  <1>5. ASSUME NEW z, z.key \in Nat
        PROVE  Keyed(<<z>>) /\ KeysOf(<<z>>) = {z.key} /\ KeysDiffer(<<z>>)
    <2>1. PICK s : s = <<z>>
      OBVIOUS
    <2>2. DOMAIN s = {1} /\ s[1] = z /\ s \in Seq({z})
      BY <2>1
    <2>3. \A i \in DOMAIN s : s[i] = z
      BY <2>2
    <2>4. Keyed(s)
      BY <1>5, <2>2, <2>3 DEF Keyed
    <2>5. KeysOf(s) = {z.key}
      BY <2>2 DEF KeysOf
    <2>6. KeysDiffer(s)
      BY <2>2 DEF KeysDiffer
    <2> QED
      BY <2>1, <2>4, <2>5, <2>6
  <1>6. GoodTree(nbt) /\ NodeEntries = <<x>>
    BY <1>3, <1>4, <1>5, TreeWritten DEF NodeEntries
  <1>7. GoodTree(bbt) /\ BlockEntries = <<y>>
    BY <1>3, <1>4, <1>5, TreeWritten DEF BlockEntries
  <1>8. /\ live = [n \in {RootNID} |-> Info(1, 0)] /\ asked = live
        /\ nodeCache = NoNodes /\ blockCache = {}
        /\ nextNID = 0 /\ nextBID = 2 /\ bidNextB = 2
        /\ nbtInserts = NoNodes /\ nbtDeletes = {} /\ bbtInserts = {}
    BY DEF LegacyInit
  <1>9. DOMAIN live = {RootNID} /\ DOMAIN NoNodes = {}
    BY <1>8 DEF NoNodes
  <1>10. KeysOf(NodeEntries) = {RootNID} /\ KeysOf(BlockEntries) = {1} /\ KeysDiffer(BlockEntries)
    BY <1>3, <1>5, <1>6, <1>7
  <1>11. TreesKept
    BY <1>6, <1>7, <1>8, <1>9, <1>10 DEF TreesKept
  <1>12. QueueKept
    BY <1>8, <1>9, <1>10, FS_EmptySet DEF QueueKept, BlocksKept, NodesKept, Queued
  <1>13. CacheCoherent
    BY <1>8, <1>9 DEF CacheCoherent
  <1> QED
    BY <1>11, <1>12, <1>13 DEF LegacyInv

LEMMA LegacyStutters == LegacyInv /\ UNCHANGED legacyVars => LegacyInv'
  <1> SUFFICES ASSUME LegacyInv, UNCHANGED legacyVars PROVE LegacyInv'
    OBVIOUS
  <1>1. /\ UNCHANGED trees /\ nextNID' = nextNID /\ nextBID' = nextBID /\ bidNextB' = bidNextB
        /\ nodeCache' = nodeCache /\ blockCache' = blockCache /\ bbtInserts' = bbtInserts
        /\ UNCHANGED <<nbtInserts, nbtDeletes, asked>>
    BY DEF legacyVars, trees
  <1>2. QueueKept'
    BY <1>1, LegacyNumbers, NodesSame, BlocksSame DEF QueueKept
  <1> QED
    BY <1>1, <1>2, QueuedKeeps DEF CachedNode, CachedBlock

LEMMA LegacyInvNext == LegacyInv /\ [LegacyNext]_legacyVars => LegacyInv'
  <1> SUFFICES ASSUME LegacyInv, [LegacyNext]_legacyVars PROVE LegacyInv'
    OBVIOUS
  <1>1. CASE BeginWrite
    BY <1>1, QueueDropped DEF BeginWrite
  <1>2. CASE Commit
    BY <1>2, CommitInv
  <1>3. CASE CommitFails
    BY <1>3, QueueDropped DEF CommitFails
  <1>4. CASE Rollback
    BY <1>4, QueueDropped DEF Rollback
  <1>5. CASE Reopen
    BY <1>5, ReopenInv
  <1>6. CASE CreateNode(RootNID)
    BY <1>6, CreateNodeInv
  <1>7. ASSUME NEW n \in NIDs, LookupNode(n) PROVE LegacyInv'
    BY <1>7, LookupNodeInv
  <1>8. ASSUME NEW n \in NIDs, UpdateNodeData(n) PROVE LegacyInv'
    BY <1>8, UpdateNodeDataInv
  <1>9. ASSUME NEW n \in NIDs, DeleteNode(n) PROVE LegacyInv'
    BY <1>9, DeleteNodeInv
  <1>10. ASSUME NEW n \in NIDs, DeleteNodeRecursive(n) PROVE LegacyInv'
    BY <1>10, DeleteNodeRecursiveInv
  <1>11. ASSUME NEW n \in NIDs, CopyNode(n, RootNID) PROVE LegacyInv'
    BY <1>11, CopyNodeInv
  <1>12. ASSUME NEW n \in NIDs, MoveNode(n, RootNID) PROVE LegacyInv'
    BY <1>12, MoveNodeInv
  <1>13. ASSUME NEW b \in BIDs, LookupBlock(b) PROVE LegacyInv'
    BY <1>13, LookupBlockInv
  <1>14. CASE UNCHANGED legacyVars
    BY <1>14, LegacyStutters
  <1> QED
    BY <1>1, <1>2, <1>3, <1>4, <1>5, <1>6, <1>7, <1>8, <1>9, <1>10, <1>11, <1>12, <1>13, <1>14
    DEF LegacyNext

LEMMA LegacyInvHolds == LegacySpec => []LegacyInv
  <1> QED
    BY LegacyInvInit, LegacyInvNext, PTL DEF LegacySpec

\* However nodes are created, copied, moved, updated and deleted, and whatever
\* transactions fail, are rolled back or interrupted by a reopening, every node
\* the last commit should have left is in the leaves of the NBT: BTWriter.Apply
\* of the legacy writer loses none, for every page capacity and tree height.
THEOREM NoNodeIsLost == LegacySpec => []NoNodeLost
  <1>1. LegacyInv => NoNodeLost
    BY DEF LegacyInv, TreesKept, NoNodeLost, KeysOf
  <1> QED
    BY <1>1, LegacyInvHolds, PTL

\* The legacy writer gives no block id twice, also after a rollback or a
\* reopening: ids on file are below the bidNextB that finishWrite stored, queued
\* ones are not, and Commit raises it over both.
THEOREM BlockIdsStayUnique == LegacySpec => []BlockIdsUnique
  <1>1. ASSUME LegacyInv PROVE BlockIdsUnique
    <2>1. PICK e : e = BlockEntries
      OBVIOUS
    <2>2. KeysDiffer(e) /\ \A k \in KeysOf(e) : k < bidNextB
      BY <1>1, <2>1 DEF LegacyInv, TreesKept
    <2>3. \A k \in KeysOf(e) : k \in Nat
      <3>1. PICK A : e \in Seq(A) /\ \A x \in A : x.key \in Nat
        BY <1>1, <2>1 DEF LegacyInv, TreesKept, GoodTree, Keyed, BlockEntries
      <3>2. \A i \in DOMAIN e : e[i] \in A
        BY <3>1, LenProperties, ElementOfSeq
      <3> QED
        BY <3>1, <3>2 DEF KeysOf
    <2>4. bidNextB \in Nat /\ nextBID \in Nat /\ bbtInserts \subseteq bidNextB .. nextBID - 1
      BY <1>1, LegacyNumbers DEF LegacyInv, QueueKept, BlocksKept
    <2>5. ASSUME NEW b \in bbtInserts, NEW i \in DOMAIN e PROVE e[i].key # b
      <3>1. e[i].key \in KeysOf(e)
        BY DEF KeysOf
      <3>2. e[i].key \in Nat /\ e[i].key < bidNextB /\ b \in bidNextB .. nextBID - 1
        BY <2>2, <2>3, <2>4, <3>1
      <3> QED
        BY <2>4, <3>2
    <2>6. \A i, j \in DOMAIN e : e[i].key = e[j].key => i = j
      BY <2>2 DEF KeysDiffer
    <2> QED
      BY <2>1, <2>5, <2>6 DEF BlockIdsUnique
  <1> QED
    BY <1>1, LegacyInvHolds, PTL

\* What LookupNode and LookupBlock answer from the caches of the Database is what
\* a search of the trees on file gives at that moment, across commits, failed
\* ones too, and reopenings.
THEOREM CachesStayCoherent == LegacySpec => []CacheCoherent
  <1>1. LegacyInv => CacheCoherent
    BY DEF LegacyInv
  <1> QED
    BY <1>1, LegacyInvHolds, PTL
=============================================================================
