------------------------------ MODULE WalkProofs ----------------------------
(***************************************************************************)
(* What the loops of Walk visit: the least set that holds the start and    *)
(* that no link leaves. Induction is by the first failure, since a set of  *)
(* numbers has a least member.                                             *)
(***************************************************************************)
EXTENDS Walk, FiniteSetTheorems, WellFoundedInduction, TLAPS

\* A set of numbers has a least one.
LEMMA HasLeast ==
  ASSUME NEW S \in SUBSET Nat, S # {}
  PROVE  \E x \in S : \A y \in S : x <= y
  <1> DEFINE R == {ss \in Nat \X Nat : ss[1] < ss[2]}
  <1>1. IsWellFoundedOn(R, Nat)
    BY NatLessThanWellFounded DEF OpToRel
  <1> HIDE DEF R
  <1>2. PICK x \in S : \A y \in S : <<y, x>> \notin R
    BY <1>1, WFMin
  <1>3. ASSUME NEW y \in S PROVE x <= y
    <2>1. x \in Nat /\ y \in Nat /\ (y < x => <<y, x>> \in R)
      BY DEF R
    <2> QED
      BY <1>2, <2>1
  <1> QED
    BY <1>3

\* The least failure of what holds at 0 and passes from every number to the
\* next: there is none.
LEMMA FirstFailure ==
  ASSUME NEW F \in SUBSET Nat, 0 \notin F,
         \A k \in Nat : k \notin F => k + 1 \notin F
  PROVE  F = {}
  <1> SUFFICES ASSUME F # {} PROVE FALSE
    OBVIOUS
  <1>1. PICK k \in F : \A j \in F : k <= j
    BY HasLeast
  <1>2. k \in Nat /\ k - 1 \in Nat /\ (k - 1) + 1 = k /\ ~ (k <= k - 1)
    BY <1>1
  <1>3. k - 1 \notin F
    BY <1>1, <1>2
  <1> QED
    BY <1>2, <1>3

-----------------------------------------------------------------------------

\* What defines the layers.
LayersOf(links, x, g) == [k \in Nat |-> IF k = 0 THEN {x} ELSE Onward(links, g[k - 1])]

\* The recursive definition of the layers has a solution: the least relation
\* between round numbers and nodes that the links close.
LEMMA LayersExist ==
  ASSUME NEW links, NEW x
  PROVE  \E g : g = LayersOf(links, x, g)
  <1> DEFINE U == {x} \cup UNION {links[y] : y \in DOMAIN links}
             Good(C) == /\ <<0, x>> \in C
                        /\ \A k \in Nat, y, z \in U :
                             <<k, y>> \in C /\ (z = y \/ (y \in DOMAIN links /\ z \in links[y]))
                               => <<k + 1, z>> \in C
             M == {c \in Nat \X U : \A C \in SUBSET (Nat \X U) : Good(C) => c \in C}
             g == [k \in Nat |-> {z \in U : <<k, z>> \in M}]
  <1>1. Good(M)
    <2>1. <<0, x>> \in M
      OBVIOUS
    <2>2. ASSUME NEW k \in Nat, NEW y \in U, NEW z \in U, <<k, y>> \in M,
                 z = y \/ (y \in DOMAIN links /\ z \in links[y])
          PROVE  <<k + 1, z>> \in M
      <3>1. <<k + 1, z>> \in Nat \X U
        OBVIOUS
      <3>2. ASSUME NEW C \in SUBSET (Nat \X U), Good(C) PROVE <<k + 1, z>> \in C
        <4>1. <<k, y>> \in C
          BY <2>2, <3>2
        <4> HIDE DEF U
        <4> QED
          BY <2>2, <3>2, <4>1
      <3> HIDE DEF U, Good
      <3> QED
        BY <3>1, <3>2
    <2> HIDE DEF M, U
    <2> QED
      BY <2>1, <2>2
  <1>2. \A C \in SUBSET (Nat \X U) : Good(C) => M \subseteq C
    OBVIOUS
  <1>3. M \in SUBSET (Nat \X U)
    OBVIOUS
  <1> HIDE DEF M
  <1>4. g[0] = {x}
    <2> DEFINE C == {c \in M : c[1] = 0 => c[2] = x}
    <2>1. C \in SUBSET (Nat \X U)
      BY <1>3
    <2>2. Good(C)
      BY <1>1
    <2>3. M \subseteq C
      BY <1>2, <2>1, <2>2
    <2> QED
      BY <1>1, <2>3
  <1>5. ASSUME NEW k \in Nat, k # 0 PROVE g[k] = Onward(links, g[k - 1])
    <2>0. k - 1 \in Nat /\ (k - 1) + 1 = k
      BY <1>5
    <2>1. Onward(links, g[k - 1]) \subseteq g[k]
      <3> SUFFICES ASSUME NEW z \in Onward(links, g[k - 1]) PROVE z \in g[k]
        OBVIOUS
      <3>1. PICK y \in g[k - 1] : z = y \/ (y \in DOMAIN links /\ z \in links[y])
        BY DEF Onward
      <3>2. y \in U /\ z \in U /\ <<k - 1, y>> \in M
        BY <2>0, <3>1
      <3> HIDE DEF U
      <3>3. <<(k - 1) + 1, z>> \in M
        BY <1>1, <2>0, <3>1, <3>2
      <3> QED
        BY <2>0, <3>2, <3>3
    <2>2. ASSUME NEW z \in g[k], z \notin Onward(links, g[k - 1]) PROVE FALSE
      <3> DEFINE C == M \ {<<k, z>>}
      <3>1. C \in SUBSET (Nat \X U)
        BY <1>3
      <3>2. Good(C)
        <4>1. <<0, x>> \in C
          BY <1>1, <1>5
        <4>2. ASSUME NEW j \in Nat, NEW y \in U, NEW w \in U,
                     <<j, y>> \in C, w = y \/ (y \in DOMAIN links /\ w \in links[y]),
                     <<j + 1, w>> = <<k, z>>
              PROVE  FALSE
          <5>1. j = k - 1 /\ w = z /\ y \in g[k - 1]
            BY <2>0, <4>2
          <5> QED
            BY <2>2, <4>2, <5>1 DEF Onward
        <4>3. ASSUME NEW j \in Nat, NEW y \in U, NEW w \in U,
                     <<j, y>> \in C, w = y \/ (y \in DOMAIN links /\ w \in links[y])
              PROVE  <<j + 1, w>> \in C
          <5>1. <<j + 1, w>> \in M
            BY <1>1, <4>3
          <5> QED
            BY <4>2, <4>3, <5>1
        <4> QED
          BY <4>1, <4>3
      <3>3. M \subseteq C
        BY <1>2, <3>1, <3>2
      <3> QED
        BY <2>2, <3>3
    <2> QED
      BY <2>1, <2>2
  <1>6. g = LayersOf(links, x, g)
    BY <1>4, <1>5 DEF LayersOf
  <1> HIDE DEF g
  <1> QED
    BY <1>6

\* So the layers are what their definition says, round by round.
LEMMA LayersStep ==
  ASSUME NEW links, NEW x
  PROVE  /\ Layers(links, x)[0] = {x}
         /\ \A k \in Nat : Layers(links, x)[k + 1] = Onward(links, Layers(links, x)[k])
  <1> DEFINE f == CHOOSE g : g = LayersOf(links, x, g)
  <1>1. Layers(links, x) = f
    BY DEF Layers, LayersOf
  <1>2. \E g : g = LayersOf(links, x, g)
    BY LayersExist
  <1>3. f = LayersOf(links, x, f)
    BY <1>2
  <1> HIDE DEF f
  <1>4. \A k \in Nat : f[k] = IF k = 0 THEN {x} ELSE Onward(links, f[k - 1])
    BY <1>3, Zenon DEF LayersOf
  <1>5. \A k \in Nat : k + 1 \in Nat /\ k + 1 # 0 /\ (k + 1) - 1 = k
    OBVIOUS
  <1>6. f[0] = {x}
    BY <1>4
  <1>7. \A k \in Nat : f[k + 1] = Onward(links, f[k])
    BY <1>4, <1>5
  <1> QED
    BY <1>1, <1>6, <1>7

\* A set the steps do not leave holds every layer.
LEMMA LayersWithin ==
  ASSUME NEW links, NEW x, NEW S, x \in S, \A y \in S \cap DOMAIN links : links[y] \subseteq S
  PROVE  \A k \in Nat : Layers(links, x)[k] \subseteq S
  <1> DEFINE L == Layers(links, x)
             F == {k \in Nat : ~ (L[k] \subseteq S)}
  <1>1. L[0] = {x} /\ \A k \in Nat : L[k + 1] = Onward(links, L[k])
    BY LayersStep
  <1> HIDE DEF L
  <1>2. 0 \notin F
    BY <1>1
  <1>3. ASSUME NEW k \in Nat, k \notin F PROVE k + 1 \notin F
    <2>1. L[k] \subseteq S /\ L[k + 1] = Onward(links, L[k])
      BY <1>1, <1>3
    <2> QED
      BY <2>1 DEF Onward
  <1>4. F \in SUBSET Nat
    OBVIOUS
  <1> HIDE DEF F
  <1>5. F = {}
    BY <1>2, <1>3, <1>4, FirstFailure
  <1> QED
    BY <1>5 DEF F, L

\* Reach is the least set that holds x and that no edge leaves.
LEMMA ReachLeast ==
  ASSUME NEW links, NEW x \in DOMAIN links, IsFiniteSet(DOMAIN links),
         \A y \in DOMAIN links : links[y] \subseteq DOMAIN links
  PROVE  /\ x \in Reach(links, x) /\ Reach(links, x) \subseteq DOMAIN links
         /\ \A y \in Reach(links, x) : links[y] \subseteq Reach(links, x)
         /\ \A S : x \in S /\ (\A y \in S \cap DOMAIN links : links[y] \subseteq S)
                     => Reach(links, x) \subseteq S
  <1> DEFINE L == Layers(links, x)
             D == DOMAIN links
             n == Cardinality(D)
  <1>1. L[0] = {x} /\ \A k \in Nat : L[k + 1] = Onward(links, L[k])
    BY LayersStep
  <1>2. n \in Nat
    BY FS_CardinalityType
  <1>3. \A k \in Nat : L[k] \subseteq D
    BY LayersWithin
  <1>4. ASSUME NEW S, x \in S, \A y \in S \cap DOMAIN links : links[y] \subseteq S
        PROVE  L[n] \subseteq S
    BY <1>2, <1>4, LayersWithin
  <1>5. Reach(links, x) = L[n]
    BY DEF Reach
  <1> HIDE DEF L, n
  <1>6. \A k \in Nat : L[k] \subseteq L[k + 1]
    BY <1>1 DEF Onward
  <1>7. x \in L[n]
    <2> DEFINE F == {k \in Nat : x \notin L[k]}
    <2>1. 0 \notin F
      BY <1>1
    <2>2. \A k \in Nat : k \notin F => k + 1 \notin F
      BY <1>6
    <2>3. F \in SUBSET Nat
      OBVIOUS
    <2> HIDE DEF F
    <2>4. F = {}
      BY <2>1, <2>2, <2>3, FirstFailure
    <2> QED
      BY <1>2, <2>4 DEF F
  <1>8. \E k \in 0 .. n : L[k] = L[k + 1]
    <2> SUFFICES ASSUME \A k \in 0 .. n : L[k] # L[k + 1] PROVE FALSE
      OBVIOUS
    <2> DEFINE F == {k \in Nat : k <= n /\ ~ (Cardinality(L[k]) > k)}
    <2>0. \A k \in Nat : IsFiniteSet(L[k]) /\ Cardinality(L[k]) \in Nat
                         /\ Cardinality(L[k]) <= n
      BY <1>3, FS_Subset, FS_CardinalityType DEF n
    <2>1. 0 \notin F
      <3>1. Cardinality(L[0]) = 1
        BY <1>1, FS_Singleton
      <3> QED
        BY <3>1
    <2>2. ASSUME NEW k \in Nat, k \notin F PROVE k + 1 \notin F
      <3> SUFFICES ASSUME k + 1 <= n PROVE Cardinality(L[k + 1]) > k + 1
        OBVIOUS
      <3>1. k \in 0 .. n /\ k <= n
        BY <1>2
      <3>2. Cardinality(L[k]) > k
        BY <2>2, <3>1
      <3>3. L[k] \subseteq L[k + 1] /\ L[k] # L[k + 1] /\ IsFiniteSet(L[k + 1])
        BY <1>6, <2>0, <3>1
      <3>4. Cardinality(L[k]) < Cardinality(L[k + 1])
        <4>1. k + 1 \in Nat /\ L[k] \in SUBSET L[k + 1]
          BY <3>3
        <4>2. /\ Cardinality(L[k]) <= Cardinality(L[k + 1])
              /\ Cardinality(L[k + 1]) # Cardinality(L[k])
          BY <3>3, <4>1, FS_Subset
        <4> QED
          BY <2>0, <4>1, <4>2
      <3> QED
        BY <2>0, <3>2, <3>4
    <2>3. F \in SUBSET Nat
      OBVIOUS
    <2>4. F = {}
      <3> HIDE DEF F
      <3> QED
        BY <2>1, <2>2, <2>3, FirstFailure
    <2>5. Cardinality(L[n]) > n
      BY <1>2, <2>4
    <2> QED
      BY <1>2, <2>0, <2>5
  <1>9. L[n] = L[n + 1]
    <2>1. PICK k \in 0 .. n : L[k] = L[k + 1]
      BY <1>8
    <2> DEFINE F == {j \in Nat : L[k + j] # L[k + j + 1]}
    <2>2. 0 \notin F
      BY <2>1
    <2>3. ASSUME NEW j \in Nat, j \notin F PROVE j + 1 \notin F
      <3>1. L[k + j] = L[k + j + 1] /\ k + j \in Nat /\ k + j + 1 \in Nat
        BY <2>3
      <3>2. L[k + j + 1 + 1] = Onward(links, L[k + j + 1]) /\ L[k + j + 1] = Onward(links, L[k + j])
        BY <1>1, <3>1
      <3>3. k + (j + 1) = k + j + 1
        OBVIOUS
      <3> QED
        BY <3>1, <3>2, <3>3
    <2>4. F \in SUBSET Nat
      OBVIOUS
    <2> HIDE DEF F
    <2>5. F = {}
      BY <2>2, <2>3, <2>4, FirstFailure
    <2>6. n - k \in Nat /\ k + (n - k) = n
      BY <1>2
    <2> QED
      BY <2>5, <2>6 DEF F
  <1>10. ASSUME NEW y \in L[n] PROVE links[y] \subseteq L[n]
    <2>1. L[n] = Onward(links, L[n]) /\ y \in D
      BY <1>1, <1>2, <1>3, <1>9
    <2> QED
      BY <2>1 DEF Onward
  <1> QED
    BY <1>2, <1>3, <1>4, <1>5, <1>7, <1>10
=============================================================================
