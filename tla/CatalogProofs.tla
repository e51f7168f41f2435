--------------------------- MODULE CatalogProofs ----------------------------
(***************************************************************************)
(* Proofs about Catalog: for any number of blocks and nodes, through every *)
(* state of a cascade, on storage that works and on storage that fails.    *)
(*                                                                         *)
(* The predicates of the invariant take the parts of a catalog as          *)
(* arguments, because three catalogs meet them: the live one, the snapshot *)
(* of a transaction, and the image of a commit.                            *)
(***************************************************************************)
EXTENDS Catalog, FiniteSetTheorems, SequenceTheorems, TLAPS

-----------------------------------------------------------------------------
(* What a catalog is made of *)

TypedKind == {"data", "sub"}

Ref == [bid : BID, kind : TypedKind]

CallName == {"resyncRef", "resyncAfterDrop", "dropBlock", "releaseExtra", "encode"}

CallRecord == [op : CallName, bid : 0 .. MaxBID, kind : TypedKind \cup {"none"}]

IsCall(c) ==
  /\ c \in CallRecord
  /\ c.op = "releaseExtra" => c.bid \in BID /\ c.kind \in TypedKind
  /\ c.op = "dropBlock" => c.bid \in BID

Shaped(n, bl, ex, pl, nx) ==
  /\ IsFiniteSet(DOMAIN n) /\ n \in [DOMAIN n -> Entry]
  /\ nx \in 1 .. MaxBID + 1
  /\ DOMAIN bl \subseteq 1 .. nx - 1 /\ bl \in [DOMAIN bl -> Nat]
  /\ ex \in [Kind -> [BID -> Nat]]
  /\ pl \in [BID -> Seq(Ref)]
  /\ \A b \in BID : Len(pl[b]) <= MaxBID

\* The nodes that name a block, and the references its counters hold.
NodeRefs(n, b) ==
  Cardinality({m \in DOMAIN n : n[m].data = b})
    + Cardinality({m \in DOMAIN n : n[m].sub = b})

TreeRefs(ex, b) == ex["data"][b] + ex["sub"][b] + ex["opaque"][b]

Ownerless(n, ex, b) == NodeRefs(n, b) = 0 /\ TreeRefs(ex, b) = 0

\* The calls that will take a reference of kind k off block b.
Owed(t, k, b) ==
  {i \in DOMAIN t : t[i].op = "releaseExtra" /\ t[i].bid = b /\ t[i].kind = k}

\* The calls that will bring the count of b up to date, or drop it.
Listed(t, b, ops) == \E i \in DOMAIN t : t[i].bid = b /\ t[i].op \in ops

Dropping == {"resyncAfterDrop", "dropBlock"}

Settling == Dropping \cup {"resyncRef"}

-----------------------------------------------------------------------------
(* The invariant *)

\* What the nodes name is in the catalog.
Targets(n, live) == \A m \in DOMAIN n : {n[m].data, n[m].sub} \ {0} \subseteq live

\* Blocks that are gone have no counters.
Bare(live, ex) == \A k \in Kind, b \in BID \ live : ex[k][b] = 0

\* A counter is at least what the payloads name and the cascade still owes,
\* and just that when every payload can be read.
Within(need, have, f) == need <= have /\ (f = {} => need = have)

Covered(live, ex, pl, t, f) ==
  \A k \in TypedKind, b \in BID :
    Within(Cardinality(Links(live, pl, k, b)) + Cardinality(Owed(t, k, b)), ex[k][b], f)

\* The space of the catalog: all of it, and no more when nothing fails.
Housed(live, xt, f) == live \subseteq xt /\ (f = {} => xt = live)

Sound(n, bl, ex, pl, xt, nx, t, f) ==
  /\ Shaped(n, bl, ex, pl, nx)
  /\ Targets(n, DOMAIN bl)
  /\ Bare(DOMAIN bl, ex)
  /\ Covered(DOMAIN bl, ex, pl, t, f)
  /\ Housed(DOMAIN bl, xt, f)

SoundNow == Sound(nodes, blocks, extra, payload, extents, nextBID, todo, faults)

SoundSnap ==
  snap # <<>> =>
    Sound(snap[1].nodes, snap[1].blocks, snap[1].extra, snap[1].payload,
          snap[1].extents, snap[1].nextBID, <<>>, faults)

\* Nothing in the image names a block it does not have.
SoundImage ==
  image # <<>> =>
    /\ Shaped(image[1].nodes, image[1].blocks, [k \in Kind |-> NoRefs],
              image[1].payload, image[1].nextBID)
    /\ Targets(image[1].nodes, DOMAIN image[1].blocks)
    /\ \A p \in DOMAIN image[1].blocks : \A i \in DOMAIN image[1].payload[p] :
         image[1].payload[p][i].bid \in DOMAIN image[1].blocks
    /\ Housed(DOMAIN image[1].blocks, image[1].extents, faults)

\* What the calls still to run rest on. A block is dropped only while nothing
\* refers to it; serialising comes last, inside a transaction, and every block
\* without an owner is dropped before it.
Queued(n, bl, ex, t, s) ==
  /\ t \in Seq(CallRecord) /\ \A i \in DOMAIN t : IsCall(t[i])
  /\ \A i \in DOMAIN t : t[i].op = "dropBlock" => Ownerless(n, ex, t[i].bid)
  /\ \A i \in DOMAIN t : t[i].op = "encode" =>
       /\ i = Len(t) /\ s # <<>>
       /\ \A b \in DOMAIN bl : Ownerless(n, ex, b) => Listed(t, b, Dropping)

QueuedNow == Queued(nodes, blocks, extra, todo, snap)

IInv == SoundNow /\ SoundSnap /\ SoundImage /\ QueuedNow

-----------------------------------------------------------------------------
(* Lemmas: counting references *)

\* Two sets with nothing in common.
LEMMA DisjointCount ==
  ASSUME NEW S, NEW T, IsFiniteSet(S), IsFiniteSet(T), S \cap T = {}
  PROVE  /\ IsFiniteSet(S \cup T)
         /\ Cardinality(S \cup T) = Cardinality(S) + Cardinality(T)
         /\ Cardinality(S) \in Nat /\ Cardinality(T) \in Nat
  <1>1. Cardinality(S) \in Nat /\ Cardinality(T) \in Nat
    BY FS_CardinalityType
  <1>2. /\ IsFiniteSet(S \cup T)
        /\ Cardinality(S \cup T) = Cardinality(S) + Cardinality(T) - Cardinality({})
    BY FS_Union
  <1> QED BY <1>1, <1>2, FS_EmptySet

\* Moving a set of places by a constant keeps their number.
LEMMA ShiftCount ==
  ASSUME NEW S \in SUBSET Nat, IsFiniteSet(S), NEW d \in Nat
  PROVE  /\ IsFiniteSet({i + d : i \in S})
         /\ Cardinality({i + d : i \in S}) = Cardinality(S)
  <1> DEFINE T == {i + d : i \in S}
             f == [i \in S |-> i + d]
  <1>1. f \in Bijection(S, T)
    BY DEF Bijection, Injection, Surjection, IsInjective
  <1> QED
    BY <1>1, FS_Bijection DEF ExistsBijection

LEMMA OwedFinite ==
  ASSUME NEW t \in Seq(CallRecord), NEW k, NEW b
  PROVE  /\ IsFiniteSet(Owed(t, k, b)) /\ Cardinality(Owed(t, k, b)) \in Nat
         /\ Owed(t, k, b) \in SUBSET Nat
  <1>1. Owed(t, k, b) \in SUBSET (1 .. Len(t))
    BY DEF Owed
  <1>2. IsFiniteSet(1 .. Len(t))
    BY FS_Interval, LenProperties
  <1> QED
    BY <1>1, <1>2, FS_Subset, FS_CardinalityType, LenProperties

\* What two lists of calls owe together.
LEMMA OwedConcat ==
  ASSUME NEW s \in Seq(CallRecord), NEW t \in Seq(CallRecord), NEW k, NEW b
  PROVE  Cardinality(Owed(s \o t, k, b))
           = Cardinality(Owed(s, k, b)) + Cardinality(Owed(t, k, b))
  <1> DEFINE moved == {i + Len(s) : i \in Owed(t, k, b)}
  <1>1. Owed(s \o t, k, b) = Owed(s, k, b) \cup moved
    <2>1. ASSUME NEW i \in Owed(s \o t, k, b)
          PROVE  i \in Owed(s, k, b) \cup moved
      <3>1. CASE i \in 1 .. Len(s)
        BY <2>1, <3>1, ConcatProperties DEF Owed
      <3>2. CASE i \notin 1 .. Len(s)
        <4>1. i - Len(s) \in DOMAIN t /\ (s \o t)[i] = t[i - Len(s)] /\ i = (i - Len(s)) + Len(s)
          BY <2>1, <3>2, ConcatProperties DEF Owed
        <4>2. i - Len(s) \in Owed(t, k, b)
          BY <2>1, <4>1 DEF Owed
        <4> QED BY <4>1, <4>2
      <3> QED BY <3>1, <3>2
    <2>2. ASSUME NEW i \in Owed(s, k, b)
          PROVE  i \in Owed(s \o t, k, b)
      BY <2>2, ConcatProperties DEF Owed
    <2>3. ASSUME NEW j \in Owed(t, k, b)
          PROVE  j + Len(s) \in Owed(s \o t, k, b)
      BY <2>3, ConcatProperties DEF Owed
    <2> QED BY <2>1, <2>2, <2>3
  <1>2. Owed(s, k, b) \cap moved = {}
    BY LenProperties DEF Owed
  <1>3. IsFiniteSet(moved) /\ Cardinality(moved) = Cardinality(Owed(t, k, b))
    BY OwedFinite, ShiftCount, LenProperties
  <1> HIDE DEF moved
  <1>4. IsFiniteSet(Owed(s, k, b))
    BY OwedFinite
  <1> QED
    BY <1>1, <1>2, <1>3, <1>4, DisjointCount

LEMMA OwedNothing ==
  ASSUME NEW k, NEW b
  PROVE  Cardinality(Owed(<<>>, k, b)) = 0
  BY FS_EmptySet DEF Owed

\* Taking the first call off a list, and putting others in its place.
LEMMA OwedContinue ==
  ASSUME NEW s \in Seq(CallRecord), NEW t \in Seq(CallRecord), t # <<>>, NEW k, NEW b
  PROVE  Cardinality(Owed(s \o Tail(t), k, b))
           = Cardinality(Owed(s, k, b)) + Cardinality(Owed(t, k, b))
               - (IF Head(t).op = "releaseExtra" /\ Head(t).bid = b /\ Head(t).kind = k
                  THEN 1 ELSE 0)
  <1>1. PICK h, u : h = <<Head(t)>> /\ u = Tail(t)
    OBVIOUS
  <1>2. u \in Seq(CallRecord) /\ h \in Seq(CallRecord) /\ t = h \o u
    <2>1. Tail(t) \in Seq(CallRecord) /\ Head(t) \in CallRecord
      BY HeadTailProperties
    <2>2. <<Head(t)>> \in Seq(CallRecord)
      BY <2>1
    <2>3. t = <<Head(t)>> \o Tail(t)
      BY <2>1, <2>2
    <2> QED BY <1>1, <2>1, <2>2, <2>3
  <1>3. /\ Cardinality(Owed(t, k, b)) = Cardinality(Owed(h, k, b)) + Cardinality(Owed(u, k, b))
        /\ Cardinality(Owed(s \o u, k, b))
             = Cardinality(Owed(s, k, b)) + Cardinality(Owed(u, k, b))
    <2>1. Cardinality(Owed(h \o u, k, b)) = Cardinality(Owed(h, k, b)) + Cardinality(Owed(u, k, b))
      BY <1>2, OwedConcat
    <2>2. Cardinality(Owed(s \o u, k, b)) = Cardinality(Owed(s, k, b)) + Cardinality(Owed(u, k, b))
      BY <1>2, OwedConcat
    <2> QED BY <1>2, <2>1, <2>2
  <1>4. Cardinality(Owed(h, k, b))
          = IF Head(t).op = "releaseExtra" /\ Head(t).bid = b /\ Head(t).kind = k THEN 1 ELSE 0
    <2>1. CASE Head(t).op = "releaseExtra" /\ Head(t).bid = b /\ Head(t).kind = k
      <3>1. Owed(h, k, b) = {1}
        BY <1>1, <2>1 DEF Owed
      <3> QED BY <2>1, <3>1, FS_Singleton
    <2>2. CASE ~ (Head(t).op = "releaseExtra" /\ Head(t).bid = b /\ Head(t).kind = k)
      <3>1. Owed(h, k, b) = {}
        BY <1>1, <2>2 DEF Owed
      <3> QED BY <2>2, <3>1, FS_EmptySet
    <2> QED BY <2>1, <2>2
  <1>5. /\ Cardinality(Owed(h, k, b)) \in Nat /\ Cardinality(Owed(u, k, b)) \in Nat
        /\ Cardinality(Owed(s, k, b)) \in Nat
    BY <1>2, OwedFinite
  <1> QED
    BY <1>1, <1>3, <1>4, <1>5

\* The releases of a dropped block owe what its payload named.
LEMMA OwedReleases ==
  ASSUME NEW kids \in Seq(Ref), NEW k, NEW b
  PROVE  /\ [i \in DOMAIN kids |-> Release(kids[i])] \in Seq(CallRecord)
         /\ Cardinality(Owed([i \in DOMAIN kids |-> Release(kids[i])], k, b))
              = CountKind(kids, b, k)
  <1> DEFINE s == [i \in DOMAIN kids |-> Release(kids[i])]
  <1>1. \A i \in 1 .. Len(kids) : kids[i] \in Ref
    BY ElementOfSeq
  <1>2. \A i \in 1 .. Len(kids) : Release(kids[i]) \in CallRecord
    BY <1>1, CatalogAssumption DEF Release, CallRecord, CallName, Ref, BID, TypedKind
  <1>3. s \in [1 .. Len(kids) -> CallRecord]
    BY <1>2
  <1>4. s \in Seq(CallRecord)
    BY <1>3, LenProperties, SeqDef
  <1>5. Owed(s, k, b) = {i \in DOMAIN kids : kids[i].bid = b /\ kids[i].kind = k}
    BY DEF Owed, Release
  <1> QED BY <1>4, <1>5 DEF CountKind

LEMMA LinksFinite ==
  ASSUME NEW live, NEW pl, NEW k, NEW b
  PROVE  /\ IsFiniteSet(Links(live, pl, k, b))
         /\ Cardinality(Links(live, pl, k, b)) \in Nat
  <1>1. IsFiniteSet(BID) /\ IsFiniteSet(1 .. MaxBID)
    BY CatalogAssumption, FS_Interval DEF BID
  <1>2. IsFiniteSet(BID \X (1 .. MaxBID))
    BY <1>1, FS_Product
  <1>3. Links(live, pl, k, b) \in SUBSET (BID \X (1 .. MaxBID))
    BY DEF Links
  <1> QED BY <1>2, <1>3, FS_Subset, FS_CardinalityType

LEMMA CountKindFinite ==
  ASSUME NEW refs \in Seq(Ref), NEW k, NEW b
  PROVE  /\ IsFiniteSet({i \in DOMAIN refs : refs[i].bid = b /\ refs[i].kind = k})
         /\ CountKind(refs, b, k) \in Nat
  <1>1. {i \in DOMAIN refs : refs[i].bid = b /\ refs[i].kind = k} \in SUBSET (1 .. Len(refs))
    OBVIOUS
  <1>2. IsFiniteSet(1 .. Len(refs))
    BY FS_Interval, LenProperties
  <1> QED BY <1>1, <1>2, FS_Subset, FS_CardinalityType DEF CountKind

\* The references of a payload are of one kind or the other.
LEMMA CountSplit ==
  ASSUME NEW refs \in Seq(Ref), NEW b
  PROVE  /\ Count(refs, b) = CountKind(refs, b, "data") + CountKind(refs, b, "sub")
         /\ Count(refs, b) \in Nat
         /\ Count(refs, b) > 0 => \E i \in DOMAIN refs : refs[i].bid = b
  <1>1. PICK D, S, A :
          /\ D = {i \in DOMAIN refs : refs[i].bid = b /\ refs[i].kind = "data"}
          /\ S = {i \in DOMAIN refs : refs[i].bid = b /\ refs[i].kind = "sub"}
          /\ A = {i \in DOMAIN refs : refs[i].bid = b}
    OBVIOUS
  <1>2. \A i \in DOMAIN refs : refs[i].kind \in {"data", "sub"}
    <2>1. \A i \in 1 .. Len(refs) : refs[i] \in Ref
      BY ElementOfSeq
    <2> QED BY <2>1 DEF Ref, TypedKind
  <1>3. A = D \cup S /\ D \cap S = {}
    BY <1>1, <1>2
  <1>4. IsFiniteSet(D) /\ IsFiniteSet(S)
    BY <1>1, CountKindFinite
  <1>5. /\ Cardinality(A) = Cardinality(D) + Cardinality(S)
        /\ Cardinality(D) \in Nat /\ Cardinality(S) \in Nat
    BY <1>3, <1>4, DisjointCount
  <1>6. Cardinality(A) > 0 => A # {}
    <2>1. Cardinality({}) = 0
      BY FS_EmptySet
    <2> QED BY <2>1
  <1>7. /\ Count(refs, b) = Cardinality(A)
        /\ CountKind(refs, b, "data") = Cardinality(D)
        /\ CountKind(refs, b, "sub") = Cardinality(S)
    BY <1>1 DEF Count, CountKind
  <1> QED BY <1>1, <1>5, <1>6, <1>7

\* A block more in the catalog adds the references in its payload.
LEMMA LinksAdd ==
  ASSUME NEW live, NEW pl \in [BID -> Seq(Ref)], NEW k, NEW b,
         NEW p \in BID, p \notin live, Len(pl[p]) <= MaxBID
  PROVE  Cardinality(Links(live \cup {p}, pl, k, b))
           = Cardinality(Links(live, pl, k, b)) + CountKind(pl[p], b, k)
  <1> DEFINE S == {i \in DOMAIN pl[p] : pl[p][i].bid = b /\ pl[p][i].kind = k}
             T == {r \in {p} \X (1 .. MaxBID) : r[2] \in S}
             f == [i \in S |-> <<p, i>>]
  <1>1. pl[p] \in Seq(Ref) /\ S \subseteq 1 .. MaxBID
    BY CatalogAssumption, LenProperties
  <1>2. Links(live \cup {p}, pl, k, b) = Links(live, pl, k, b) \cup T
    BY DEF Links
  <1>3. Links(live, pl, k, b) \cap T = {}
    BY DEF Links
  <1>4. IsFiniteSet(S)
    BY <1>1, CountKindFinite
  <1>5. f \in Bijection(S, T)
    <2>1. \A i \in S : <<p, i>> \in T
      BY <1>1
    <2>2. \A r \in T : r[2] \in S /\ f[r[2]] = r
      OBVIOUS
    <2>3. \A i, j \in S : f[i] = f[j] => i = j
      OBVIOUS
    <2>4. f \in [S -> T]
      BY <2>1
    <2> HIDE DEF f, S, T
    <2> QED BY <2>2, <2>3, <2>4 DEF Bijection, Injection, Surjection, IsInjective
  <1> HIDE DEF f, T
  <1>6. IsFiniteSet(T) /\ Cardinality(T) = Cardinality(S)
    BY <1>4, <1>5, FS_Bijection DEF ExistsBijection
  <1>7. Cardinality(Links(live, pl, k, b) \cup T)
          = Cardinality(Links(live, pl, k, b)) + Cardinality(T)
    BY <1>3, <1>6, LinksFinite, DisjointCount
  <1> QED BY <1>2, <1>6, <1>7 DEF CountKind

\* A reference in a live payload is one of the links.
LEMMA LinkCounted ==
  ASSUME NEW live \in SUBSET BID, NEW pl \in [BID -> Seq(Ref)], NEW p \in live,
         Len(pl[p]) <= MaxBID, NEW i \in DOMAIN pl[p]
  PROVE  /\ pl[p][i].bid \in BID /\ pl[p][i].kind \in TypedKind
         /\ Cardinality(Links(live, pl, pl[p][i].kind, pl[p][i].bid)) > 0
  <1>1. pl[p] \in Seq(Ref) /\ i \in 1 .. MaxBID /\ pl[p][i] \in Ref
    BY CatalogAssumption, LenProperties, ElementOfSeq
  <1>2. <<p, i>> \in Links(live, pl, pl[p][i].kind, pl[p][i].bid)
    BY <1>1 DEF Links
  <1>3. PICK L : L = Links(live, pl, pl[p][i].kind, pl[p][i].bid)
    OBVIOUS
  <1>4. IsFiniteSet(L) /\ Cardinality(L) \in Nat /\ L # {}
    BY <1>2, <1>3, LinksFinite
  <1>5. Cardinality(L) # 0
    BY <1>4, FS_EmptySet
  <1> QED BY <1>1, <1>3, <1>4, <1>5 DEF Ref

\* A block no node names.
LEMMA NodeRefsZero ==
  ASSUME NEW n, IsFiniteSet(DOMAIN n), NEW b
  PROVE  /\ NodeRefs(n, b) \in Nat
         /\ NodeRefs(n, b) = 0 <=> \A m \in DOMAIN n : n[m].data # b /\ n[m].sub # b
  <1>1. PICK D, S : /\ D = {m \in DOMAIN n : n[m].data = b}
                    /\ S = {m \in DOMAIN n : n[m].sub = b}
    OBVIOUS
  <1>2. IsFiniteSet(D) /\ IsFiniteSet(S)
    BY <1>1, FS_Subset
  <1>3. Cardinality(D) \in Nat /\ Cardinality(S) \in Nat
    BY <1>2, FS_CardinalityType
  <1>4. (Cardinality(D) = 0 <=> D = {}) /\ (Cardinality(S) = 0 <=> S = {})
    BY <1>2, FS_EmptySet
  <1>5. NodeRefs(n, b) = Cardinality(D) + Cardinality(S)
    BY <1>1 DEF NodeRefs
  <1>6. NodeRefs(n, b) = 0 <=> D = {} /\ S = {}
    BY <1>3, <1>4, <1>5
  <1> QED BY <1>1, <1>3, <1>5, <1>6

-----------------------------------------------------------------------------
(* Building trees *)

LEMMA NothingQueued ==
  ASSUME NEW n, NEW bl, NEW ex, NEW s
  PROVE  Queued(n, bl, ex, <<>>, s)
  BY DEF Queued

LEMMA UnownedIs ==
  /\ \A b : nbtLiveRefs(b) = NodeRefs(nodes, b)
  /\ \A b : extraLiveRefs(b) = TreeRefs(extra, b)
  /\ \A b : Unowned(b) <=> Ownerless(nodes, extra, b)
  BY DEF nbtLiveRefs, NodeRefs, extraLiveRefs, TreeRefs, Unowned, Ownerless

LEMMA RefsNat ==
  ASSUME SoundNow, NEW b \in BID
  PROVE  /\ nbtLiveRefs(b) \in Nat /\ extraLiveRefs(b) \in Nat
         /\ computeRef(b) \in Nat
         /\ \A k \in Kind : extra[k][b] \in Nat
  <1>1. /\ IsFiniteSet(DOMAIN nodes) /\ extra \in [Kind -> [BID -> Nat]]
    BY DEF SoundNow, Sound, Shaped
  <1>2. nbtLiveRefs(b) \in Nat
    BY <1>1, UnownedIs, NodeRefsZero
  <1>3. /\ extra["data"][b] \in Nat /\ extra["sub"][b] \in Nat /\ extra["opaque"][b] \in Nat
        /\ \A k \in Kind : extra[k][b] \in Nat
    BY <1>1 DEF Kind
  <1>4. extraLiveRefs(b) \in Nat
    BY <1>3 DEF extraLiveRefs
  <1> QED BY <1>2, <1>3, <1>4, CatalogAssumption DEF computeRef

\* What Stage is given: references to blocks of the catalog or to its own.
Staged(count, refs) ==
  /\ count \in Nat \ {0} /\ refs \in Seq(Ref) /\ Len(refs) <= 2 /\ Len(refs) <= MaxBID
  /\ \A i \in DOMAIN refs :
       refs[i].bid \in DOMAIN blocks \cup (nextBID .. nextBID + count - 1)

LEMMA StageStep ==
  ASSUME IInv, NEW count, NEW refs, Staged(count, refs), Stage(count, refs),
         UNCHANGED faults
  PROVE  IInv'
  <1>1. PICK fresh, top : fresh = nextBID .. nextBID + count - 1 /\ top = nextBID + count - 1
    OBVIOUS
  <1>2. /\ todo = <<>> /\ top <= MaxBID /\ nextBID' = nextBID + count
        /\ extents' = extents \cup fresh
        /\ payload' = [b \in BID |-> IF b = top THEN refs
                                     ELSE IF b \in fresh THEN <<>> ELSE payload[b]]
        /\ extra' = [k \in Kind |-> [b \in BID |-> extra[k][b] + CountKind(refs, b, k)]]
        /\ DOMAIN blocks' = DOMAIN blocks \cup fresh
        /\ \A b \in DOMAIN blocks \cup fresh : blocks'[b] =
             IF Count(refs, b) > 0
             THEN (1 + nbtLiveRefs(b) + extraLiveRefs(b) + Count(refs, b)) % RefMod
             ELSE IF b \in fresh THEN 1 ELSE blocks[b]
        /\ blocks' = [b \in DOMAIN blocks' |-> blocks'[b]]
        /\ nodes' = nodes /\ todo' = todo /\ snap' = snap /\ image' = <<>> /\ faults' = faults
    BY <1>1 DEF Stage, Idle, Outdated
  <1>3. /\ Shaped(nodes, blocks, extra, payload, nextBID) /\ Targets(nodes, DOMAIN blocks)
        /\ Bare(DOMAIN blocks, extra) /\ Covered(DOMAIN blocks, extra, payload, todo, faults)
        /\ Housed(DOMAIN blocks, extents, faults)
    BY DEF IInv, SoundNow, Sound
  <1>4. count \in Nat \ {0} /\ refs \in Seq(Ref) /\ Len(refs) <= MaxBID
    BY DEF Staged
  <1>5. /\ nextBID \in 1 .. MaxBID + 1 /\ DOMAIN blocks \subseteq 1 .. nextBID - 1
        /\ DOMAIN blocks \subseteq BID /\ fresh \subseteq BID /\ top \in fresh
        /\ DOMAIN blocks \cap fresh = {}
    BY <1>1, <1>2, <1>3, <1>4, CatalogAssumption DEF Shaped, BID
  <1>6. Shaped(nodes', blocks', extra', payload', nextBID')
    <2>1. IsFiniteSet(DOMAIN nodes') /\ nodes' \in [DOMAIN nodes' -> Entry]
      BY <1>2, <1>3 DEF Shaped
    <2>2. nextBID' \in 1 .. MaxBID + 1 /\ DOMAIN blocks' \subseteq 1 .. nextBID' - 1
      BY <1>1, <1>2, <1>4, <1>5, CatalogAssumption
    <2>3. blocks' \in [DOMAIN blocks' -> Nat]
      <3>1. ASSUME NEW b \in DOMAIN blocks \cup fresh
            PROVE  blocks'[b] \in Nat
        <4>1. b \in BID /\ nbtLiveRefs(b) \in Nat /\ extraLiveRefs(b) \in Nat
          BY <1>5, <3>1, RefsNat DEF IInv
        <4>2. Count(refs, b) \in Nat
          BY <1>4, CountSplit
        <4>3. b \in DOMAIN blocks => blocks[b] \in Nat
          BY <1>3 DEF Shaped
        <4>4. (1 + nbtLiveRefs(b) + extraLiveRefs(b) + Count(refs, b)) % RefMod \in Nat
          BY <4>1, <4>2, CatalogAssumption
        <4> QED BY <1>2, <3>1, <4>3, <4>4
      <3> QED BY <1>2, <3>1
    <2>4. extra' \in [Kind -> [BID -> Nat]]
      <3>1. \A k \in Kind, b \in BID : extra[k][b] \in Nat
        BY <1>3 DEF Shaped
      <3>2. \A k \in Kind, b \in BID : CountKind(refs, b, k) \in Nat
        BY <1>4, CountKindFinite
      <3>3. \A k \in Kind, b \in BID : extra[k][b] + CountKind(refs, b, k) \in Nat
        BY <3>1, <3>2
      <3> QED BY <1>2, <3>3
    <2>5. payload' \in [BID -> Seq(Ref)] /\ \A b \in BID : Len(payload'[b]) <= MaxBID
      <3>1. payload \in [BID -> Seq(Ref)] /\ \A b \in BID : Len(payload[b]) <= MaxBID
        BY <1>3 DEF Shaped
      <3>2. <<>> \in Seq(Ref) /\ Len(<<>>) <= MaxBID
        BY CatalogAssumption
      <3> QED BY <1>2, <1>4, <3>1, <3>2
    <2> QED BY <2>1, <2>2, <2>3, <2>4, <2>5 DEF Shaped
  <1>7. Targets(nodes', DOMAIN blocks')
    BY <1>2, <1>3 DEF Targets
  <1>8. Bare(DOMAIN blocks', extra')
    <2>1. ASSUME NEW k \in Kind, NEW b \in BID \ DOMAIN blocks'
          PROVE  extra'[k][b] = 0
      <3>1. extra[k][b] = 0
        BY <1>2, <1>3, <2>1 DEF Bare
      <3>2. {i \in DOMAIN refs : refs[i].bid = b /\ refs[i].kind = k} = {}
        BY <1>1, <1>2, <2>1 DEF Staged
      <3>3. CountKind(refs, b, k) = 0
        BY <3>2, FS_EmptySet DEF CountKind
      <3> QED BY <1>2, <3>1, <3>3
    <2> QED BY <2>1 DEF Bare
  <1>9. Covered(DOMAIN blocks', extra', payload', todo', faults')
    <2>1. ASSUME NEW k \in TypedKind, NEW b \in BID
          PROVE  Cardinality(Links(DOMAIN blocks', payload', k, b))
                   = Cardinality(Links(DOMAIN blocks, payload, k, b)) + CountKind(refs, b, k)
      <3>1. PICK D, q, leaves, old : /\ D = DOMAIN blocks /\ q = payload'
                                     /\ leaves = fresh \ {top} /\ old = payload
        OBVIOUS
      <3>2. /\ q \in [BID -> Seq(Ref)] /\ q[top] = refs /\ Len(q[top]) <= MaxBID
            /\ top \in BID /\ DOMAIN blocks' = (D \cup leaves) \cup {top}
            /\ top \notin D \cup leaves
        BY <1>2, <1>4, <1>5, <1>6, <3>1 DEF Shaped
      <3>3. Links(D \cup leaves, q, k, b) = Links(D, old, k, b)
        <4>1. \A p \in D : q[p] = old[p]
          BY <1>2, <1>5, <3>1
        <4>2. \A p \in leaves \ D : q[p] = <<>>
          BY <1>2, <1>5, <3>1
        <4>3. \A r \in BID \X (1 .. MaxBID) :
                r[1] \in leaves \ D => r[2] \notin DOMAIN q[r[1]]
          BY <4>2
        <4> QED BY <4>1, <4>3 DEF Links
      <3>4. Cardinality(Links((D \cup leaves) \cup {top}, q, k, b))
              = Cardinality(Links(D \cup leaves, q, k, b)) + CountKind(q[top], b, k)
        BY <3>2, LinksAdd
      <3> QED BY <3>1, <3>2, <3>3, <3>4
    <2>2. ASSUME NEW k \in TypedKind, NEW b \in BID
          PROVE  Within(Cardinality(Links(DOMAIN blocks', payload', k, b))
                   + Cardinality(Owed(todo', k, b)), extra'[k][b], faults')
      <3>1. k \in Kind /\ extra'[k][b] = extra[k][b] + CountKind(refs, b, k)
        BY <1>2 DEF Kind, TypedKind
      <3>2. Cardinality(Owed(todo', k, b)) = 0 /\ Cardinality(Owed(todo, k, b)) = 0
        BY <1>2, OwedNothing
      <3>3. Within(Cardinality(Links(DOMAIN blocks, payload, k, b))
              + Cardinality(Owed(todo, k, b)), extra[k][b], faults)
        BY <1>3 DEF Covered
      <3>4. /\ CountKind(refs, b, k) \in Nat /\ extra[k][b] \in Nat
            /\ Cardinality(Links(DOMAIN blocks, payload, k, b)) \in Nat
        BY <1>3, <1>4, <3>1, CountKindFinite, LinksFinite DEF Shaped
      <3> QED BY <2>1, <3>1, <3>2, <3>3, <3>4 DEF Within
    <2> QED BY <2>2 DEF Covered
  <1>10. Housed(DOMAIN blocks', extents', faults')
    BY <1>2, <1>3 DEF Housed
  <1>11. SoundNow'
    BY <1>6, <1>7, <1>8, <1>9, <1>10 DEF SoundNow, Sound
  <1>12. SoundSnap' /\ SoundImage'
    BY <1>2 DEF IInv, SoundSnap, SoundImage
  <1>13. QueuedNow'
    BY <1>2, NothingQueued DEF QueuedNow
  <1> QED BY <1>11, <1>12, <1>13 DEF IInv

-----------------------------------------------------------------------------
(* One call replaced by those it makes *)

\* The calls u are the new ones s and the rest of the old ones t.
Replaced(s, t, u) ==
  /\ u \in Seq(CallRecord) /\ Len(u) = Len(s) + Len(t) - 1
  /\ \A i \in DOMAIN s : i \in DOMAIN u /\ u[i] = s[i]
  /\ \A j \in DOMAIN t : j # 1 => /\ Len(s) + j - 1 \in DOMAIN u
                                  /\ u[Len(s) + j - 1] = t[j]
  /\ \A i \in DOMAIN u : \/ i \in DOMAIN s /\ u[i] = s[i]
                         \/ \E j \in DOMAIN t : /\ j # 1 /\ i = Len(s) + j - 1
                                                /\ u[i] = t[j]
  /\ 1 \in DOMAIN t /\ t[1] = Head(t)

LEMMA ContinueParts ==
  ASSUME NEW s \in Seq(CallRecord), NEW t \in Seq(CallRecord), t # <<>>,
         NEW u, u = s \o Tail(t)
  PROVE  Replaced(s, t, u)
  <1>1. PICK r : r = Tail(t)
    OBVIOUS
  <1>2. /\ r \in Seq(CallRecord) /\ Len(r) = Len(t) - 1
        /\ \A i \in 1 .. Len(r) : r[i] = t[i + 1]
    BY <1>1, HeadTailProperties
  <1>3. /\ u \in Seq(CallRecord) /\ Len(u) = Len(s) + Len(r)
        /\ \A i \in 1 .. Len(s) + Len(r) : u[i] = IF i <= Len(s) THEN s[i] ELSE r[i - Len(s)]
    BY <1>1, <1>2, ConcatProperties
  <1>4. /\ Len(s) \in Nat /\ Len(t) \in Nat \ {0}
        /\ DOMAIN s = 1 .. Len(s) /\ DOMAIN t = 1 .. Len(t) /\ DOMAIN u = 1 .. Len(u)
    BY <1>3, LenProperties, EmptySeq
  <1>5. \A i \in DOMAIN s : i \in DOMAIN u /\ u[i] = s[i]
    BY <1>2, <1>3, <1>4
  <1>6. ASSUME NEW j \in DOMAIN t, j # 1
        PROVE  Len(s) + j - 1 \in DOMAIN u /\ u[Len(s) + j - 1] = t[j]
    <2>1. j - 1 \in 1 .. Len(r) /\ Len(s) + j - 1 \in 1 .. Len(s) + Len(r)
      BY <1>2, <1>4, <1>6
    <2>2. r[j - 1] = t[j]
      <3>1. r[j - 1] = t[(j - 1) + 1] /\ (j - 1) + 1 = j
        BY <1>2, <1>4, <2>1
      <3> QED BY <3>1
    <2>3. u[Len(s) + j - 1] = r[j - 1]
      <3>1. PICK x : x = Len(s) + j - 1
        OBVIOUS
      <3>2. ~ (x <= Len(s)) /\ x - Len(s) = j - 1
        BY <1>4, <2>1, <3>1
      <3> QED BY <1>3, <2>1, <3>1, <3>2
    <2> QED BY <1>3, <1>4, <2>1, <2>2, <2>3
  <1>7. ASSUME NEW i \in DOMAIN u
        PROVE  \/ i \in DOMAIN s /\ u[i] = s[i]
               \/ \E j \in DOMAIN t : j # 1 /\ i = Len(s) + j - 1 /\ u[i] = t[j]
    <2>1. CASE i <= Len(s)
      BY <1>3, <1>4, <2>1
    <2>2. CASE i > Len(s)
      <3>1. PICK j : j = i - Len(s) + 1
        OBVIOUS
      <3>2. j \in DOMAIN t /\ j # 1 /\ i = Len(s) + j - 1
        BY <1>2, <1>3, <1>4, <2>2, <3>1
      <3> QED BY <1>6, <3>2
    <2> QED BY <1>3, <1>4, <2>1, <2>2
  <1>8. 1 \in DOMAIN t /\ t[1] = Head(t)
    BY <1>4
  <1> QED BY <1>2, <1>3, <1>5, <1>6, <1>7, <1>8 DEF Replaced

\* A block listed for a call is listed still, unless that call was the first.
LEMMA ContinueListed ==
  ASSUME NEW s \in Seq(CallRecord), NEW t \in Seq(CallRecord), t # <<>>,
         NEW u, u = s \o Tail(t), NEW b, NEW ops
  PROVE  /\ Listed(s, b, ops) => Listed(u, b, ops)
         /\ Listed(t, b, ops) => \/ Listed(u, b, ops)
                                 \/ Head(t).bid = b /\ Head(t).op \in ops
  <1>1. /\ \A i \in DOMAIN s : i \in DOMAIN u /\ u[i] = s[i]
        /\ \A j \in DOMAIN t : j # 1 => /\ Len(s) + j - 1 \in DOMAIN u
                                        /\ u[Len(s) + j - 1] = t[j]
        /\ 1 \in DOMAIN t /\ t[1] = Head(t)
    BY ContinueParts DEF Replaced
  <1>2. ASSUME NEW j \in DOMAIN t, j # 1, t[j].bid = b, t[j].op \in ops
        PROVE  Listed(u, b, ops)
    BY <1>1, <1>2 DEF Listed
  <1>3. Listed(s, b, ops) => Listed(u, b, ops)
    BY <1>1 DEF Listed
  <1> QED BY <1>1, <1>2, <1>3 DEF Listed

\* Owners are lost in a cascade, never gained.
Shrinks ==
  /\ nodes' = nodes /\ DOMAIN blocks' \subseteq DOMAIN blocks
  /\ \A b \in BID : Ownerless(nodes, extra, b) => Ownerless(nodes', extra', b)

\* A block that lost its last owner is listed for dropping.
Followed(calls) ==
  \A b \in DOMAIN blocks' :
    Ownerless(nodes', extra', b) =>
      \/ Listed(calls, b, Dropping)
      \/ /\ Ownerless(nodes, extra, b)
         /\ ~ (Head(todo).bid = b /\ Head(todo).op \in Dropping)

NewCalls(calls) ==
  /\ calls \in Seq(CallRecord)
  /\ \A i \in DOMAIN calls : /\ IsCall(calls[i]) /\ calls[i].op # "encode"
                             /\ calls[i].op = "dropBlock" =>
                                  Ownerless(nodes', extra', calls[i].bid)

LEMMA ContinueQueued ==
  ASSUME QueuedNow, todo # <<>>, NEW calls, NewCalls(calls), Continue(calls),
         Shrinks, Followed(calls)
  PROVE  QueuedNow'
  <1>1. PICK t, u : t = todo /\ u = todo'
    OBVIOUS
  <1>2. /\ t \in Seq(CallRecord) /\ t # <<>> /\ u = calls \o Tail(t)
        /\ calls \in Seq(CallRecord)
    BY <1>1 DEF QueuedNow, Queued, NewCalls, Continue
  <1>3. /\ u \in Seq(CallRecord) /\ Len(u) = Len(calls) + Len(t) - 1
        /\ \A i \in DOMAIN u : \/ i \in DOMAIN calls /\ u[i] = calls[i]
                               \/ \E j \in DOMAIN t : /\ j # 1 /\ i = Len(calls) + j - 1
                                                      /\ u[i] = t[j]
    <2>1. Replaced(calls, t, u)
      BY <1>2, ContinueParts
    <2> QED BY <2>1 DEF Replaced
  <1>4. \A i \in DOMAIN t :
          /\ IsCall(t[i])
          /\ t[i].op = "dropBlock" => Ownerless(nodes, extra, t[i].bid)
          /\ t[i].op = "encode" =>
               /\ i = Len(t) /\ snap # <<>>
               /\ \A b \in DOMAIN blocks : Ownerless(nodes, extra, b) => Listed(t, b, Dropping)
    BY <1>1 DEF QueuedNow, Queued
  <1>5. \A i \in DOMAIN calls : /\ IsCall(calls[i]) /\ calls[i].op # "encode"
                                /\ calls[i].op = "dropBlock" =>
                                     Ownerless(nodes', extra', calls[i].bid)
    BY DEF NewCalls
  <1>6. \A i \in DOMAIN u : IsCall(u[i])
    BY <1>3, <1>4, <1>5
  <1>7. ASSUME NEW i \in DOMAIN u, u[i].op = "dropBlock"
        PROVE  Ownerless(nodes', extra', u[i].bid)
    <2>1. CASE i \in DOMAIN calls /\ u[i] = calls[i]
      BY <1>5, <1>7, <2>1
    <2>2. CASE \E j \in DOMAIN t : u[i] = t[j]
      <3>1. PICK j \in DOMAIN t : u[i] = t[j]
        BY <2>2
      <3>2. Ownerless(nodes, extra, u[i].bid) /\ u[i].bid \in BID
        BY <1>4, <1>7, <3>1 DEF IsCall
      <3> QED BY <3>2 DEF Shrinks
    <2> QED BY <1>3, <2>1, <2>2
  <1>8. ASSUME NEW i \in DOMAIN u, u[i].op = "encode"
        PROVE  /\ i = Len(u) /\ snap' # <<>>
               /\ \A b \in DOMAIN blocks' :
                    Ownerless(nodes', extra', b) => Listed(u, b, Dropping)
    <2>1. PICK j \in DOMAIN t : j # 1 /\ i = Len(calls) + j - 1 /\ u[i] = t[j]
      BY <1>3, <1>5, <1>8
    <2>2. /\ j = Len(t) /\ snap # <<>>
          /\ \A b \in DOMAIN blocks : Ownerless(nodes, extra, b) => Listed(t, b, Dropping)
      BY <1>4, <1>8, <2>1
    <2>3. i = Len(u)
      BY <1>3, <2>1, <2>2
    <2>4. snap' # <<>>
      <3>1. u # <<>>
        BY <1>8
      <3>2. ~ (calls = <<>> /\ Tail(todo) = <<>>)
        BY <1>1, <1>2, <3>1
      <3> QED BY <2>2, <3>2 DEF Continue
    <2>5. ASSUME NEW b \in DOMAIN blocks', Ownerless(nodes', extra', b)
          PROVE  Listed(u, b, Dropping)
      <3>1. CASE Listed(calls, b, Dropping)
        BY <1>2, <3>1, ContinueListed
      <3>2. CASE /\ Ownerless(nodes, extra, b)
                 /\ ~ (Head(todo).bid = b /\ Head(todo).op \in Dropping)
        <4>1. Listed(t, b, Dropping)
          BY <2>2, <2>5, <3>2 DEF Shrinks
        <4>2. ~ (Head(t).bid = b /\ Head(t).op \in Dropping)
          BY <1>1, <3>2
        <4> QED BY <1>2, <4>1, <4>2, ContinueListed
      <3> QED BY <2>5, <3>1, <3>2 DEF Followed
    <2> QED BY <2>3, <2>4, <2>5
  <1> QED BY <1>1, <1>3, <1>6, <1>7, <1>8 DEF QueuedNow, Queued

\* A transaction keeps its snapshot or is over.
LEMMA SnapKept ==
  ASSUME SoundSnap, snap' = snap \/ snap' = <<>>, UNCHANGED faults
  PROVE  SoundSnap'
  BY DEF SoundSnap

-----------------------------------------------------------------------------
(* The calls of a cascade *)

LEMMA FirstCall ==
  ASSUME QueuedNow, NEW op, Runs(op)
  PROVE  /\ todo \in Seq(CallRecord) /\ todo # <<>> /\ IsCall(Head(todo))
         /\ Head(todo).op = op /\ Head(todo).bid \in 0 .. MaxBID
         /\ op = "dropBlock" => Ownerless(nodes, extra, Head(todo).bid)
  <1>1. todo \in Seq(CallRecord) /\ todo # <<>> /\ Head(todo).op = op
    BY DEF QueuedNow, Queued, Runs
  <1>2. 1 \in DOMAIN todo /\ todo[1] = Head(todo)
    BY <1>1, EmptySeq, LenProperties
  <1>3. IsCall(Head(todo))
    BY <1>2 DEF QueuedNow, Queued
  <1>4. Head(todo).bid \in 0 .. MaxBID
    BY <1>3 DEF IsCall, CallRecord
  <1>5. op = "dropBlock" => Ownerless(nodes, extra, Head(todo).bid)
    BY <1>1, <1>2 DEF QueuedNow, Queued
  <1> QED BY <1>1, <1>3, <1>4, <1>5

LEMMA DropCall ==
  ASSUME NEW b \in BID
  PROVE  /\ <<Call("dropBlock", b)>> \in Seq(CallRecord)
         /\ IsCall(Call("dropBlock", b))
         /\ <<Call("resyncAfterDrop", b)>> \in Seq(CallRecord)
         /\ IsCall(Call("resyncAfterDrop", b))
  <1>1. /\ Call("dropBlock", b) \in CallRecord /\ Call("resyncAfterDrop", b) \in CallRecord
    BY CatalogAssumption DEF Call, CallRecord, CallName, TypedKind, BID
  <1>2. IsCall(Call("dropBlock", b)) /\ IsCall(Call("resyncAfterDrop", b))
    BY <1>1 DEF IsCall, Call
  <1> QED BY <1>1, <1>2

\* Calls other than releaseExtra leave what is owed as it was.
LEMMA OwedSame ==
  ASSUME QueuedNow, NEW op, Runs(op), op # "releaseExtra",
         NEW calls \in Seq(CallRecord), Continue(calls), NEW k, NEW b
  PROVE  /\ Cardinality(Owed(todo', k, b))
              = Cardinality(Owed(calls, k, b)) + Cardinality(Owed(todo, k, b))
         /\ Cardinality(Owed(calls, k, b)) \in Nat /\ Cardinality(Owed(todo, k, b)) \in Nat
  <1>1. todo \in Seq(CallRecord) /\ todo # <<>> /\ Head(todo).op # "releaseExtra"
    BY FirstCall
  <1>2. PICK t : t = todo
    OBVIOUS
  <1>3. Cardinality(Owed(calls \o Tail(t), k, b))
          = Cardinality(Owed(calls, k, b)) + Cardinality(Owed(t, k, b)) - 0
    BY <1>1, <1>2, OwedContinue
  <1>4. Cardinality(Owed(calls, k, b)) \in Nat /\ Cardinality(Owed(t, k, b)) \in Nat
    BY <1>1, <1>2, OwedFinite
  <1> QED BY <1>2, <1>3, <1>4 DEF Continue

\* A call that only changes a count.
LEMMA ResyncSound ==
  ASSUME IInv, NEW op \in {"resyncRef", "resyncAfterDrop"}, Runs(op),
         NEW calls, NewCalls(calls), Continue(calls),
         \A k, b : Owed(calls, k, b) = {},
         blocks' = Resynced(Head(todo).bid),
         UNCHANGED <<nodes, extra, payload, extents, nextBID, image, faults>>,
         Followed(calls)
  PROVE  IInv'
  <1>1. Shaped(nodes, blocks, extra, payload, nextBID)
    BY DEF IInv, SoundNow, Sound
  <1>2. DOMAIN blocks' = DOMAIN blocks /\ blocks' \in [DOMAIN blocks -> Nat]
    <2>1. blocks \in [DOMAIN blocks -> Nat] /\ DOMAIN blocks \subseteq BID
      BY <1>1, CatalogAssumption DEF Shaped, BID
    <2>2. Head(todo).bid \in DOMAIN blocks => computeRef(Head(todo).bid) \in Nat
      BY <2>1, RefsNat DEF IInv
    <2> QED BY <2>1, <2>2 DEF Resynced
  <1>3. Shaped(nodes', blocks', extra', payload', nextBID')
    BY <1>1, <1>2 DEF Shaped
  <1>4. Covered(DOMAIN blocks', extra', payload', todo', faults')
    <2>1. ASSUME NEW k \in TypedKind, NEW b \in BID
          PROVE  Within(Cardinality(Links(DOMAIN blocks', payload', k, b))
                   + Cardinality(Owed(todo', k, b)), extra'[k][b], faults')
      <3>1. /\ Cardinality(Owed(todo', k, b))
                 = Cardinality(Owed(calls, k, b)) + Cardinality(Owed(todo, k, b))
            /\ Cardinality(Owed(todo, k, b)) \in Nat
        BY OwedSame DEF IInv, NewCalls
      <3>2. Cardinality(Owed(calls, k, b)) = 0
        BY FS_EmptySet
      <3>3. Within(Cardinality(Links(DOMAIN blocks, payload, k, b))
              + Cardinality(Owed(todo, k, b)), extra[k][b], faults)
        BY DEF IInv, SoundNow, Sound, Covered
      <3> QED BY <1>2, <3>1, <3>2, <3>3
    <2> QED BY <2>1 DEF Covered
  <1>5. /\ Targets(nodes', DOMAIN blocks') /\ Bare(DOMAIN blocks', extra')
        /\ Housed(DOMAIN blocks', extents', faults')
    BY <1>2 DEF IInv, SoundNow, Sound
  <1>6. SoundNow'
    BY <1>3, <1>4, <1>5 DEF SoundNow, Sound
  <1>7. QueuedNow'
    <2>1. Shrinks
      BY <1>2 DEF Shrinks
    <2> QED BY <2>1, ContinueQueued DEF IInv, Runs
  <1>8. SoundSnap' /\ SoundImage'
    <2>1. SoundSnap'
      BY SnapKept DEF IInv, Continue
    <2>2. SoundImage'
      BY DEF IInv, SoundImage
    <2> QED BY <2>1, <2>2
  <1> QED BY <1>6, <1>7, <1>8 DEF IInv

LEMMA NoNewCalls ==
  NewCalls(<<>>) /\ \A k, b : Owed(<<>>, k, b) = {}
  BY DEF NewCalls, Owed

LEMMA ResyncRefStep ==
  ASSUME IInv, resyncRef, UNCHANGED faults
  PROVE  IInv'
  <1>1. Runs("resyncRef") /\ Head(todo).op = "resyncRef"
    BY DEF resyncRef, Runs
  <1>2. /\ blocks' = Resynced(Head(todo).bid) /\ Continue(<<>>)
        /\ UNCHANGED <<nodes, extra, payload, extents, nextBID, image, faults>>
    BY DEF resyncRef
  <1>3. Followed(<<>>)
    BY <1>1, <1>2 DEF Followed, Dropping
  <1> QED BY <1>1, <1>2, <1>3, NoNewCalls, ResyncSound

LEMMA ResyncAfterDropStep ==
  ASSUME IInv, resyncAfterDrop, UNCHANGED faults
  PROVE  IInv'
  <1>1. PICK b : b = Head(todo).bid
    OBVIOUS
  <1>2. Runs("resyncAfterDrop") /\ Head(todo).op = "resyncAfterDrop"
    BY DEF resyncAfterDrop, Runs
  <1>3. /\ blocks' = Resynced(Head(todo).bid)
        /\ UNCHANGED <<nodes, extra, payload, extents, nextBID, image, faults>>
    BY DEF resyncAfterDrop
  <1>4. CASE b \in DOMAIN blocks /\ Unowned(b)
    <2>1. PICK calls : calls = <<Call("dropBlock", b)>>
      OBVIOUS
    <2>2. Continue(calls)
      BY <1>1, <1>4, <2>1 DEF resyncAfterDrop
    <2>3. b \in BID /\ Ownerless(nodes, extra, b)
      BY <1>4, CatalogAssumption, UnownedIs DEF IInv, SoundNow, Sound, Shaped, BID
    <2>4. /\ calls \in Seq(CallRecord) /\ IsCall(calls[1]) /\ DOMAIN calls = {1}
          /\ calls[1].op = "dropBlock" /\ calls[1].bid = b
      <3>1. calls[1] = Call("dropBlock", b) /\ DOMAIN calls = {1}
        BY <2>1
      <3>2. IsCall(calls[1]) /\ calls \in Seq(CallRecord)
        BY <2>1, <2>3, <3>1, DropCall
      <3>3. Call("dropBlock", b).op = "dropBlock" /\ Call("dropBlock", b).bid = b
        BY DEF Call
      <3> QED BY <3>1, <3>2, <3>3
    <2>5. NewCalls(calls)
      BY <1>3, <2>3, <2>4 DEF NewCalls
    <2>6. \A k, c : Owed(calls, k, c) = {}
      BY <2>4 DEF Owed
    <2>7. Followed(calls)
      BY <1>1, <1>3, <2>4 DEF Followed, Listed, Dropping
    <2> QED BY <1>2, <1>3, <2>2, <2>5, <2>6, <2>7, ResyncSound
  <1>5. CASE ~ (b \in DOMAIN blocks /\ Unowned(b))
    <2>1. Continue(<<>>)
      BY <1>1, <1>5 DEF resyncAfterDrop
    <2>2. Followed(<<>>)
      <3>1. DOMAIN blocks' = DOMAIN blocks
        BY <1>3 DEF Resynced
      <3> QED BY <1>1, <1>3, <1>5, <3>1, UnownedIs DEF Followed
    <2> QED BY <1>2, <1>3, <2>1, <2>2, NoNewCalls, ResyncSound
  <1> QED BY <1>4, <1>5

\* The catalog without a block nothing refers to.
LEMMA ForgetSound ==
  ASSUME SoundNow, NEW b \in DOMAIN blocks, Ownerless(nodes, extra, b), Forget(b),
         nodes' = nodes
  PROVE  /\ b \in BID /\ extra' = extra
         /\ DOMAIN blocks' = DOMAIN blocks \ {b} /\ blocks' \in [DOMAIN blocks' -> Nat]
         /\ Targets(nodes', DOMAIN blocks') /\ Bare(DOMAIN blocks', extra')
         /\ DOMAIN blocks \subseteq BID
  <1>1. /\ DOMAIN blocks \subseteq BID /\ blocks \in [DOMAIN blocks -> Nat]
        /\ extra \in [Kind -> [BID -> Nat]] /\ IsFiniteSet(DOMAIN nodes)
        /\ Targets(nodes, DOMAIN blocks) /\ Bare(DOMAIN blocks, extra)
    BY CatalogAssumption DEF SoundNow, Sound, Shaped, BID
  <1>2. b \in BID
    BY <1>1
  <1>3. /\ DOMAIN blocks' = DOMAIN blocks \ {b} /\ blocks' \in [DOMAIN blocks' -> Nat]
        /\ extra' = [k \in Kind |-> [extra[k] EXCEPT ![b] = 0]]
    BY <1>1 DEF Forget
  <1>4. /\ extra["data"][b] = 0 /\ extra["sub"][b] = 0 /\ extra["opaque"][b] = 0
    <2>1. extra["data"][b] \in Nat /\ extra["sub"][b] \in Nat /\ extra["opaque"][b] \in Nat
      BY <1>1, <1>2 DEF Kind
    <2>2. extra["data"][b] + extra["sub"][b] + extra["opaque"][b] = 0
      BY DEF Ownerless, TreeRefs
    <2>3. PICK x, y, z : x = extra["data"][b] /\ y = extra["sub"][b] /\ z = extra["opaque"][b]
      OBVIOUS
    <2>4. x \in Nat /\ y \in Nat /\ z \in Nat /\ x + y + z = 0
      BY <2>1, <2>2, <2>3
    <2>5. x = 0 /\ y = 0 /\ z = 0
      BY <2>4
    <2> QED BY <2>3, <2>5
  <1>5. \A k \in Kind : extra[k][b] = 0
    BY <1>4 DEF Kind
  <1>6. extra' = extra
    <2>1. \A k \in Kind : [extra[k] EXCEPT ![b] = 0] = extra[k]
      BY <1>1, <1>2, <1>5
    <2> QED BY <1>1, <1>3, <2>1
  <1>7. \A m \in DOMAIN nodes : nodes[m].data # b /\ nodes[m].sub # b
    BY <1>1, NodeRefsZero DEF Ownerless
  <1>8. Targets(nodes', DOMAIN blocks')
    BY <1>1, <1>3, <1>7 DEF Targets
  <1>9. Bare(DOMAIN blocks', extra')
    BY <1>1, <1>3, <1>5, <1>6 DEF Bare
  <1> QED BY <1>1, <1>2, <1>3, <1>6, <1>8, <1>9

\* Its payload's references are gone with it.
LEMMA ForgetLinks ==
  ASSUME SoundNow, NEW b \in DOMAIN blocks, NEW q,
         \A p \in DOMAIN blocks \ {b} : q[p] = payload[p],
         NEW k, NEW c
  PROVE  /\ Cardinality(Links(DOMAIN blocks, payload, k, c))
              = Cardinality(Links(DOMAIN blocks \ {b}, q, k, c)) + CountKind(payload[b], c, k)
         /\ Cardinality(Links(DOMAIN blocks \ {b}, q, k, c)) \in Nat
         /\ CountKind(payload[b], c, k) \in Nat /\ payload[b] \in Seq(Ref)
  <1>1. PICK D, pl : D = DOMAIN blocks \ {b} /\ pl = payload
    OBVIOUS
  <1>2. /\ pl \in [BID -> Seq(Ref)] /\ b \in BID /\ b \notin D /\ Len(pl[b]) <= MaxBID
        /\ DOMAIN blocks = D \cup {b}
    <2>1. /\ payload \in [BID -> Seq(Ref)] /\ DOMAIN blocks \subseteq BID
          /\ \A p \in BID : Len(payload[p]) <= MaxBID
      BY CatalogAssumption DEF SoundNow, Sound, Shaped, BID
    <2> QED BY <1>1, <2>1
  <1>3. Cardinality(Links(D \cup {b}, pl, k, c))
          = Cardinality(Links(D, pl, k, c)) + CountKind(pl[b], c, k)
    BY <1>2, LinksAdd
  <1>4. Links(D, q, k, c) = Links(D, pl, k, c)
    BY <1>1 DEF Links
  <1>5. CountKind(pl[b], c, k) \in Nat /\ Cardinality(Links(D, q, k, c)) \in Nat /\ pl[b] \in Seq(Ref)
    BY <1>2, CountKindFinite, LinksFinite
  <1> QED BY <1>1, <1>2, <1>3, <1>4, <1>5

LEMMA DropBlockStep ==
  ASSUME IInv, dropBlock, UNCHANGED faults
  PROVE  IInv'
  <1>1. PICK b : b = Head(todo).bid
    OBVIOUS
  <1>2. /\ Runs("dropBlock") /\ Head(todo).op = "dropBlock" /\ todo # <<>>
        /\ Ownerless(nodes, extra, b) /\ todo \in Seq(CallRecord)
        /\ nodes' = nodes /\ nextBID' = nextBID /\ image' = image /\ faults' = faults
    BY <1>1, FirstCall DEF IInv, dropBlock
  <1>3. CASE b \in DOMAIN blocks
    <2>1. PICK kids \in treeChildRefs(b) :
            /\ Forget(b) /\ extents' = extents \ {b}
            /\ payload' = [payload EXCEPT ![b] = <<>>]
            /\ Continue([i \in DOMAIN kids |-> Release(kids[i])])
      BY <1>1, <1>3 DEF dropBlock
    <2>2. PICK calls : calls = [i \in DOMAIN kids |-> Release(kids[i])]
      OBVIOUS
    <2>3. /\ b \in BID /\ extra' = extra /\ DOMAIN blocks' = DOMAIN blocks \ {b}
          /\ blocks' \in [DOMAIN blocks' -> Nat]
          /\ Targets(nodes', DOMAIN blocks') /\ Bare(DOMAIN blocks', extra')
          /\ DOMAIN blocks \subseteq BID
      BY <1>2, <1>3, <2>1, ForgetSound DEF IInv
    <2>4. payload[b] \in Seq(Ref) /\ kids \in {payload[b], <<>>} /\ kids \in Seq(Ref)
      <3>1. payload[b] \in Seq(Ref)
        BY <2>3 DEF IInv, SoundNow, Sound, Shaped
      <3>2. kids \in {payload[b], <<>>}
        BY DEF treeChildRefs
      <3>3. <<>> \in Seq(Ref)
        OBVIOUS
      <3> QED BY <3>1, <3>2, <3>3
    <2>5. /\ calls \in Seq(CallRecord) /\ Continue(calls)
          /\ \A k, c : Cardinality(Owed(calls, k, c)) = CountKind(kids, c, k)
      BY <2>1, <2>2, <2>4, OwedReleases
    <2>6. NewCalls(calls)
      <3>1. ASSUME NEW i \in DOMAIN calls
            PROVE  IsCall(calls[i]) /\ calls[i].op = "releaseExtra"
        <4>1. i \in DOMAIN kids /\ kids[i] \in Ref /\ calls[i] = Release(kids[i])
          BY <2>2, <2>4, <3>1, LenProperties, ElementOfSeq
        <4>2. calls[i] \in CallRecord
          BY <2>5, <3>1, LenProperties, ElementOfSeq
        <4> QED BY <4>1, <4>2 DEF IsCall, Release, Ref
      <3> QED BY <2>5, <3>1 DEF NewCalls
    <2>7. Shaped(nodes', blocks', extra', payload', nextBID')
      <3>1. payload' \in [BID -> Seq(Ref)] /\ \A c \in BID : Len(payload'[c]) <= MaxBID
        BY <2>1, <2>3, CatalogAssumption DEF IInv, SoundNow, Sound, Shaped
      <3> QED BY <1>2, <2>3, <3>1 DEF IInv, SoundNow, Sound, Shaped
    <2>8. Covered(DOMAIN blocks', extra', payload', todo', faults')
      <3>1. ASSUME NEW k \in TypedKind, NEW c \in BID
            PROVE  Within(Cardinality(Links(DOMAIN blocks', payload', k, c))
                     + Cardinality(Owed(todo', k, c)), extra'[k][c], faults')
        <4>1. \A p \in DOMAIN blocks \ {b} : payload'[p] = payload[p]
          BY <2>1, <2>3 DEF IInv, SoundNow, Sound, Shaped
        <4>2. PICK q : q = payload'
          OBVIOUS
        <4>3. /\ Cardinality(Links(DOMAIN blocks, payload, k, c))
                   = Cardinality(Links(DOMAIN blocks \ {b}, q, k, c))
                       + CountKind(payload[b], c, k)
              /\ Cardinality(Links(DOMAIN blocks \ {b}, q, k, c)) \in Nat
              /\ CountKind(payload[b], c, k) \in Nat
          BY <1>3, <4>1, <4>2, ForgetLinks DEF IInv
        <4>4. /\ Cardinality(Owed(todo', k, c)) = CountKind(kids, c, k) + Cardinality(Owed(todo, k, c))
              /\ Cardinality(Owed(todo, k, c)) \in Nat /\ CountKind(kids, c, k) \in Nat
          BY <1>2, <2>5, OwedSame DEF IInv
        <4>5. Within(CountKind(kids, c, k), CountKind(payload[b], c, k), faults)
          <5>1. CountKind(<<>>, c, k) = 0
            BY FS_EmptySet DEF CountKind
          <5>2. faults = {} => kids = payload[b]
            BY DEF treeChildRefs
          <5> QED BY <2>4, <4>3, <5>1, <5>2 DEF Within
        <4>6. Within(Cardinality(Links(DOMAIN blocks, payload, k, c))
                + Cardinality(Owed(todo, k, c)), extra[k][c], faults)
          BY DEF IInv, SoundNow, Sound, Covered
        <4>7. extra[k][c] \in Nat
          BY DEF IInv, SoundNow, Sound, Shaped, TypedKind, Kind
        <4> QED BY <1>2, <2>3, <4>2, <4>3, <4>4, <4>5, <4>6, <4>7 DEF Within
      <3> QED BY <3>1 DEF Covered
    <2>9. Housed(DOMAIN blocks', extents', faults')
      BY <1>2, <2>1, <2>3 DEF IInv, SoundNow, Sound, Housed
    <2>10. SoundNow'
      BY <2>3, <2>7, <2>8, <2>9 DEF SoundNow, Sound
    <2>11. QueuedNow'
      <3>1. Shrinks
        BY <1>2, <2>3 DEF Shrinks
      <3>2. Followed(calls)
        BY <1>1, <1>2, <2>3 DEF Followed
      <3> QED BY <1>2, <2>5, <2>6, <3>1, <3>2, ContinueQueued DEF IInv
    <2>12. SoundSnap' /\ SoundImage'
      <3>1. SoundSnap'
        BY <1>2, <2>1, SnapKept DEF IInv, Continue
      <3>2. SoundImage'
        BY <1>2 DEF IInv, SoundImage
      <3> QED BY <3>1, <3>2
    <2> QED BY <2>10, <2>11, <2>12 DEF IInv
  <1>4. CASE b \notin DOMAIN blocks
    <2>1. /\ Continue(<<>>) /\ blocks' = blocks /\ extra' = extra /\ payload' = payload
          /\ extents' = extents
      BY <1>1, <1>4 DEF dropBlock
    <2>2. Covered(DOMAIN blocks', extra', payload', todo', faults')
      <3>1. ASSUME NEW k \in TypedKind, NEW c \in BID
            PROVE  Cardinality(Owed(todo', k, c)) = Cardinality(Owed(todo, k, c))
        <4>1. PICK e : e = <<>>
          OBVIOUS
        <4>2. e \in Seq(CallRecord) /\ Continue(e) /\ Cardinality(Owed(e, k, c)) = 0
          BY <2>1, <4>1, OwedNothing
        <4>3. /\ Cardinality(Owed(todo', k, c))
                   = Cardinality(Owed(e, k, c)) + Cardinality(Owed(todo, k, c))
              /\ Cardinality(Owed(todo, k, c)) \in Nat
          BY <1>2, <4>2, OwedSame DEF IInv
        <4> QED BY <4>2, <4>3
      <3> QED BY <2>1, <3>1 DEF IInv, SoundNow, Sound, Covered
    <2>3. SoundNow'
      BY <1>2, <2>1, <2>2 DEF IInv, SoundNow, Sound
    <2>4. QueuedNow'
      <3>1. Shrinks /\ Followed(<<>>)
        BY <1>1, <1>2, <1>4, <2>1 DEF Shrinks, Followed
      <3> QED BY <1>2, <2>1, <3>1, NoNewCalls, ContinueQueued DEF IInv
    <2>5. SoundSnap' /\ SoundImage'
      <3>1. SoundSnap'
        BY <1>2, <2>1, SnapKept DEF IInv, Continue
      <3>2. SoundImage'
        BY <1>2 DEF IInv, SoundImage
      <3> QED BY <3>1, <3>2
    <2> QED BY <2>3, <2>4, <2>5 DEF IInv
  <1> QED BY <1>3, <1>4

\* The snapshot is a sound catalog with no call left to run.
LEMMA RestoreStep ==
  ASSUME IInv, snap # <<>>, Restore, Abandon, UNCHANGED <<image, faults>>
  PROVE  IInv'
  <1>1. SoundNow'
    BY DEF IInv, SoundSnap, SoundNow, Restore, Abandon
  <1>2. QueuedNow'
    BY NothingQueued DEF QueuedNow, Abandon
  <1>3. SoundSnap' /\ SoundImage'
    BY DEF IInv, SoundSnap, SoundImage, Abandon
  <1> QED BY <1>1, <1>2, <1>3 DEF IInv

LEMMA DropBlockFailsStep ==
  ASSUME IInv, dropBlockFails, UNCHANGED faults
  PROVE  IInv'
  <1>1. PICK b : b = Head(todo).bid
    OBVIOUS
  <1>2. /\ Runs("dropBlock") /\ b \in DOMAIN blocks /\ Abandon /\ image' = image
        /\ faults' = faults /\ Ownerless(nodes, extra, b)
    BY <1>1, FirstCall DEF IInv, dropBlockFails
  <1>3. CASE snap # <<>> /\ Restore
    BY <1>2, <1>3, RestoreStep
  <1>4. CASE /\ snap = <<>> /\ "direct" \in faults /\ Forget(b)
             /\ UNCHANGED <<nodes, payload, extents, nextBID>>
    <2>1. /\ b \in BID /\ extra' = extra /\ DOMAIN blocks' = DOMAIN blocks \ {b}
          /\ blocks' \in [DOMAIN blocks' -> Nat]
          /\ Targets(nodes', DOMAIN blocks') /\ Bare(DOMAIN blocks', extra')
      BY <1>2, <1>4, ForgetSound DEF IInv
    <2>2. Shaped(nodes', blocks', extra', payload', nextBID')
      BY <1>4, <2>1 DEF IInv, SoundNow, Sound, Shaped
    <2>3. Covered(DOMAIN blocks', extra', payload', todo', faults')
      <3>1. ASSUME NEW k \in TypedKind, NEW c \in BID
            PROVE  Within(Cardinality(Links(DOMAIN blocks', payload', k, c))
                     + Cardinality(Owed(todo', k, c)), extra'[k][c], faults')
        <4>1. PICK q : q = payload'
          OBVIOUS
        <4>2. /\ Cardinality(Links(DOMAIN blocks, payload, k, c))
                   = Cardinality(Links(DOMAIN blocks \ {b}, q, k, c))
                       + CountKind(payload[b], c, k)
              /\ Cardinality(Links(DOMAIN blocks \ {b}, q, k, c)) \in Nat
              /\ CountKind(payload[b], c, k) \in Nat
          BY <1>2, <1>4, <4>1, ForgetLinks DEF IInv
        <4>3. Cardinality(Owed(todo', k, c)) = 0
          BY <1>2, OwedNothing DEF Abandon
        <4>4. Cardinality(Owed(todo, k, c)) \in Nat
          BY OwedFinite DEF IInv, QueuedNow, Queued
        <4>5. Within(Cardinality(Links(DOMAIN blocks, payload, k, c))
                + Cardinality(Owed(todo, k, c)), extra[k][c], faults)
          BY DEF IInv, SoundNow, Sound, Covered
        <4>6. extra[k][c] \in Nat
          BY DEF IInv, SoundNow, Sound, Shaped, TypedKind, Kind
        <4> QED BY <1>2, <1>4, <2>1, <4>1, <4>2, <4>3, <4>4, <4>5, <4>6 DEF Within
      <3> QED BY <3>1 DEF Covered
    <2>4. Housed(DOMAIN blocks', extents', faults')
      BY <1>2, <1>4, <2>1 DEF IInv, SoundNow, Sound, Housed
    <2>5. SoundNow'
      BY <2>1, <2>2, <2>3, <2>4 DEF SoundNow, Sound
    <2>6. QueuedNow' /\ SoundSnap' /\ SoundImage'
      BY <1>2, NothingQueued DEF IInv, QueuedNow, SoundSnap, SoundImage, Abandon
    <2> QED BY <2>5, <2>6 DEF IInv
  <1> QED BY <1>1, <1>3, <1>4 DEF dropBlockFails

\* A reference the cascade owes is always there to be taken off.
LEMMA OwedIsCounted ==
  ASSUME IInv, Runs("releaseExtra")
  PROVE  /\ Head(todo).bid \in BID /\ Head(todo).kind \in TypedKind
         /\ extra[Head(todo).kind][Head(todo).bid] \in Nat \ {0}
  <1>1. PICK k, b, t : k = Head(todo).kind /\ b = Head(todo).bid /\ t = todo
    OBVIOUS
  <1>2. /\ t \in Seq(CallRecord) /\ t # <<>> /\ Head(t).op = "releaseExtra"
        /\ b \in BID /\ k \in TypedKind
    BY <1>1, FirstCall DEF IInv, IsCall
  <1>3. 1 \in Owed(t, k, b)
    BY <1>1, <1>2, EmptySeq, LenProperties DEF Owed
  <1>4. Cardinality(Owed(t, k, b)) \in Nat /\ Cardinality(Owed(t, k, b)) # 0
    <2>1. PICK S : S = Owed(t, k, b)
      OBVIOUS
    <2>2. IsFiniteSet(S) /\ S # {} /\ Cardinality(S) \in Nat
      BY <1>2, <1>3, <2>1, OwedFinite
    <2> QED BY <2>1, <2>2, FS_EmptySet
  <1>5. Within(Cardinality(Links(DOMAIN blocks, payload, k, b)) + Cardinality(Owed(t, k, b)), extra[k][b], faults)
    BY <1>1, <1>2 DEF IInv, SoundNow, Sound, Covered
  <1>6. Cardinality(Links(DOMAIN blocks, payload, k, b)) \in Nat /\ extra[k][b] \in Nat
    BY <1>2, LinksFinite DEF IInv, SoundNow, Sound, Shaped, TypedKind, Kind
  <1>7. extra[k][b] # 0
    BY <1>4, <1>5, <1>6 DEF Within
  <1> QED BY <1>1, <1>2, <1>6, <1>7

LEMMA ReleaseExtraStep ==
  ASSUME IInv, releaseExtra, UNCHANGED faults
  PROVE  IInv'
  <1>1. PICK k, b : k = Head(todo).kind /\ b = Head(todo).bid
    OBVIOUS
  <1>2. /\ Runs("releaseExtra") /\ b \in BID /\ k \in TypedKind /\ k \in Kind
        /\ extra[k][b] \in Nat \ {0}
        /\ Head(todo).op = "releaseExtra" /\ todo # <<>> /\ todo \in Seq(CallRecord)
    <2>1. Runs("releaseExtra")
      BY DEF releaseExtra
    <2> QED BY <1>1, <2>1, OwedIsCounted, FirstCall DEF IInv, TypedKind, Kind
  <1>3. PICK calls : calls = <<Call("resyncAfterDrop", b)>>
    OBVIOUS
  <1>4. /\ extra' = [extra EXCEPT ![k][b] = @ - 1] /\ Continue(calls)
        /\ UNCHANGED <<nodes, blocks, payload, extents, nextBID, image, faults>>
    <2>1. extra[k][b] > 0
      BY <1>2
    <2> QED BY <1>1, <1>3, <2>1 DEF releaseExtra
  <1>5. /\ calls \in Seq(CallRecord) /\ IsCall(calls[1]) /\ DOMAIN calls = {1}
        /\ calls[1].op = "resyncAfterDrop" /\ calls[1].bid = b
    <2>1. calls[1] = Call("resyncAfterDrop", b) /\ DOMAIN calls = {1}
      BY <1>3
    <2>2. IsCall(calls[1]) /\ calls \in Seq(CallRecord)
      BY <1>2, <1>3, <2>1, DropCall
    <2>3. /\ Call("resyncAfterDrop", b).op = "resyncAfterDrop"
          /\ Call("resyncAfterDrop", b).bid = b
      BY DEF Call
    <2> QED BY <2>1, <2>2, <2>3
  <1>6. extra \in [Kind -> [BID -> Nat]]
    BY DEF IInv, SoundNow, Sound, Shaped
  <1>7. /\ extra' \in [Kind -> [BID -> Nat]]
        /\ extra'[k][b] = extra[k][b] - 1
        /\ \A j \in Kind, c \in BID : j # k \/ c # b => extra'[j][c] = extra[j][c]
    BY <1>2, <1>4, <1>6
  <1>8. Shaped(nodes', blocks', extra', payload', nextBID')
    BY <1>4, <1>7 DEF IInv, SoundNow, Sound, Shaped
  <1>9. b \in DOMAIN blocks
    BY <1>2 DEF IInv, SoundNow, Sound, Bare
  <1>10. Bare(DOMAIN blocks', extra')
    BY <1>4, <1>7, <1>9 DEF IInv, SoundNow, Sound, Bare
  <1>11. Covered(DOMAIN blocks', extra', payload', todo', faults')
    <2>1. ASSUME NEW j \in TypedKind, NEW c \in BID
          PROVE  Within(Cardinality(Links(DOMAIN blocks', payload', j, c))
                   + Cardinality(Owed(todo', j, c)), extra'[j][c], faults')
      <3>1. PICK t : t = todo
        OBVIOUS
      <3>2. Cardinality(Owed(calls \o Tail(t), j, c))
              = Cardinality(Owed(calls, j, c)) + Cardinality(Owed(t, j, c))
                  - (IF Head(t).op = "releaseExtra" /\ Head(t).bid = c /\ Head(t).kind = j
                     THEN 1 ELSE 0)
        BY <1>2, <1>5, <3>1, OwedContinue
      <3>3. Owed(calls, j, c) = {}
        BY <1>5 DEF Owed
      <3>4. Cardinality(Owed(calls, j, c)) = 0
        BY <3>3, FS_EmptySet
      <3>5. Within(Cardinality(Links(DOMAIN blocks, payload, j, c))
              + Cardinality(Owed(t, j, c)), extra[j][c], faults)
        BY <3>1 DEF IInv, SoundNow, Sound, Covered
      <3>6. /\ Cardinality(Owed(t, j, c)) \in Nat /\ extra[j][c] \in Nat
            /\ Cardinality(Links(DOMAIN blocks, payload, j, c)) \in Nat
        BY <1>2, <1>6, <3>1, OwedFinite, LinksFinite DEF TypedKind, Kind
      <3>7. todo' = calls \o Tail(t) /\ DOMAIN blocks' = DOMAIN blocks /\ payload' = payload
        BY <1>4, <3>1 DEF Continue
      <3>8. CASE j = k /\ c = b
        <4>1. Head(t).op = "releaseExtra" /\ Head(t).bid = c /\ Head(t).kind = j
          BY <1>1, <1>2, <3>1, <3>8
        <4>2. extra'[j][c] = extra[j][c] - 1
          BY <1>7, <3>8
        <4> QED BY <3>2, <3>4, <3>5, <3>6, <3>7, <4>1, <4>2 DEF Within
      <3>9. CASE ~ (j = k /\ c = b)
        <4>1. ~ (Head(t).op = "releaseExtra" /\ Head(t).bid = c /\ Head(t).kind = j)
          BY <1>1, <3>1, <3>9
        <4>2. extra'[j][c] = extra[j][c]
          BY <1>7, <3>9 DEF TypedKind, Kind
        <4> QED BY <3>2, <3>4, <3>5, <3>6, <3>7, <4>1, <4>2
      <3> QED BY <3>8, <3>9
    <2> QED BY <2>1 DEF Covered
  <1>12. Targets(nodes', DOMAIN blocks') /\ Housed(DOMAIN blocks', extents', faults')
    BY <1>4 DEF IInv, SoundNow, Sound
  <1>13. SoundNow'
    BY <1>8, <1>10, <1>11, <1>12 DEF SoundNow, Sound
  <1>14. \A c \in BID : c # b => (Ownerless(nodes', extra', c) <=> Ownerless(nodes, extra, c))
    <2>1. \A c \in BID : c # b => TreeRefs(extra', c) = TreeRefs(extra, c)
      BY <1>7 DEF TreeRefs, Kind
    <2> QED BY <1>4, <2>1 DEF Ownerless
  <1>15. ~ Ownerless(nodes, extra, b)
    <2>1. \A j \in Kind : extra[j][b] \in Nat
      BY <1>2, <1>6
    <2>2. PICK x, y, z : x = extra["data"][b] /\ y = extra["sub"][b] /\ z = extra["opaque"][b]
      OBVIOUS
    <2>3. x \in Nat /\ y \in Nat /\ z \in Nat /\ (x # 0 \/ y # 0)
      BY <1>2, <2>1, <2>2 DEF Kind, TypedKind
    <2>4. x + y + z # 0
      BY <2>3
    <2> QED BY <2>2, <2>4 DEF Ownerless, TreeRefs
  <1>16. QueuedNow'
    <2>1. NewCalls(calls)
      BY <1>5 DEF NewCalls
    <2>2. Shrinks
      BY <1>4, <1>14, <1>15 DEF Shrinks
    <2>3. Followed(calls)
      <3>1. ASSUME NEW c \in DOMAIN blocks', Ownerless(nodes', extra', c)
            PROVE  \/ Listed(calls, c, Dropping)
                   \/ /\ Ownerless(nodes, extra, c)
                      /\ ~ (Head(todo).bid = c /\ Head(todo).op \in Dropping)
        <4>1. c \in BID
          BY <1>4, CatalogAssumption DEF IInv, SoundNow, Sound, Shaped, BID
        <4>2. CASE c = b
          BY <1>5, <4>2 DEF Listed, Dropping
        <4>3. CASE c # b
          BY <1>2, <1>14, <3>1, <4>1, <4>3 DEF Dropping
        <4> QED BY <4>2, <4>3
      <3> QED BY <3>1 DEF Followed
    <2> QED BY <1>2, <1>4, <2>1, <2>2, <2>3, ContinueQueued DEF IInv
  <1>17. SoundSnap' /\ SoundImage'
    <2>1. SoundSnap'
      BY <1>4, SnapKept DEF IInv, Continue
    <2>2. SoundImage'
      BY <1>4 DEF IInv, SoundImage
    <2> QED BY <2>1, <2>2
  <1> QED BY <1>13, <1>16, <1>17 DEF IInv

-----------------------------------------------------------------------------
(* Nodes *)

\* A transaction begins in a sound catalog with no call left to run.
LEMMA StartSnap ==
  ASSUME IInv, Idle, NEW calls, NEW transactional, Start(calls, transactional),
         UNCHANGED faults
  PROVE  SoundSnap'
  <1>1. CASE snap' = <<>>
    BY <1>1 DEF SoundSnap
  <1>2. CASE snap' = <<State>>
    <2>1. PICK s : s = State
      OBVIOUS
    <2>2. snap'[1] = s
      BY <1>2, <2>1
    <2>3. /\ s.nodes = nodes /\ s.blocks = blocks /\ s.extra = extra
          /\ s.payload = payload /\ s.extents = extents /\ s.nextBID = nextBID
      BY <2>1 DEF State
    <2> QED BY <2>2, <2>3 DEF IInv, SoundNow, SoundSnap, Idle
  <1> QED BY <1>1, <1>2 DEF Start

\* The calls of an operation on nodes: resyncs, of blocks or of the null BID.
ResyncCalls(calls) ==
  /\ calls \in Seq(CallRecord)
  /\ \A i \in DOMAIN calls : /\ IsCall(calls[i])
                             /\ calls[i].op \in {"resyncRef", "resyncAfterDrop"}

LEMMA ResyncCall ==
  ASSUME NEW b \in 0 .. MaxBID, NEW op \in {"resyncRef", "resyncAfterDrop"}
  PROVE  Call(op, b) \in CallRecord /\ IsCall(Call(op, b)) /\ Call(op, b).op = op
         /\ Call(op, b).bid = b
  <1>1. Call(op, b) \in CallRecord
    BY DEF Call, CallRecord, CallName, TypedKind
  <1>2. Call(op, b).op = op /\ Call(op, b).bid = b
    BY DEF Call
  <1> QED BY <1>1, <1>2 DEF IsCall

LEMMA NodesStep ==
  ASSUME IInv, Idle, NEW calls, ResyncCalls(calls), NEW t, Start(calls, t), Outdated,
         IsFiniteSet(DOMAIN nodes'), nodes' \in [DOMAIN nodes' -> Entry],
         Targets(nodes', DOMAIN blocks),
         UNCHANGED <<blocks, extra, payload, extents, nextBID, faults>>
  PROVE  IInv'
  <1>1. todo' = calls /\ todo = <<>>
    BY DEF Start, Idle
  <1>2. Covered(DOMAIN blocks', extra', payload', todo', faults')
    <2>1. ASSUME NEW k \in TypedKind, NEW b \in BID
          PROVE  Cardinality(Owed(todo', k, b)) = Cardinality(Owed(todo, k, b))
      <3>1. Owed(calls, k, b) = {} /\ Owed(<<>>, k, b) = {}
        BY DEF ResyncCalls, Owed
      <3> QED BY <1>1, <3>1
    <2> QED BY <2>1 DEF IInv, SoundNow, Sound, Covered
  <1>3. Shaped(nodes', blocks', extra', payload', nextBID')
    BY DEF IInv, SoundNow, Sound, Shaped
  <1>4. Bare(DOMAIN blocks', extra') /\ Housed(DOMAIN blocks', extents', faults')
    BY DEF IInv, SoundNow, Sound
  <1>5. SoundNow'
    BY <1>2, <1>3, <1>4 DEF SoundNow, Sound
  <1>6. QueuedNow'
    BY <1>1 DEF QueuedNow, Queued, ResyncCalls
  <1>7. SoundSnap' /\ SoundImage'
    BY StartSnap DEF SoundImage, Outdated
  <1> QED BY <1>5, <1>6, <1>7 DEF IInv

LEMMA PutNodeStep ==
  ASSUME IInv, NEW n, NEW data \in DOMAIN blocks \cup {0}, NEW sub \in DOMAIN blocks \cup {0},
         NEW t, PutNode(n, data, sub, t), UNCHANGED faults
  PROVE  IInv'
  <1>1. PICK old : old = IF n \in DOMAIN nodes THEN nodes[n] ELSE [data |-> 0, sub |-> 0]
    OBVIOUS
  <1>2. PICK calls : calls = <<Call("resyncAfterDrop", old.data),
                               Call("resyncAfterDrop", old.sub),
                               Call("resyncRef", data), Call("resyncRef", sub)>>
    OBVIOUS
  <1>3. /\ Idle /\ Start(calls, t) /\ Outdated
        /\ nodes' = [m \in DOMAIN nodes \cup {n} |->
                       IF m = n THEN [data |-> data, sub |-> sub] ELSE nodes[m]]
        /\ UNCHANGED <<blocks, extra, payload, extents, nextBID, faults>>
    BY <1>1, <1>2 DEF PutNode
  <1>4. /\ IsFiniteSet(DOMAIN nodes) /\ nodes \in [DOMAIN nodes -> Entry]
        /\ DOMAIN blocks \subseteq BID /\ Targets(nodes, DOMAIN blocks)
    BY CatalogAssumption DEF IInv, SoundNow, Sound, Shaped, BID
  <1>5. data \in 0 .. MaxBID /\ sub \in 0 .. MaxBID /\ [data |-> data, sub |-> sub] \in Entry
    BY <1>4, CatalogAssumption DEF BID, Entry
  <1>6. old.data \in 0 .. MaxBID /\ old.sub \in 0 .. MaxBID
    BY <1>1, <1>4, CatalogAssumption DEF Entry
  <1>7. ResyncCalls(calls)
    <2>1. /\ Call("resyncAfterDrop", old.data) \in CallRecord
          /\ Call("resyncAfterDrop", old.sub) \in CallRecord
          /\ Call("resyncRef", data) \in CallRecord /\ Call("resyncRef", sub) \in CallRecord
      BY <1>5, <1>6, ResyncCall
    <2>2. calls \in Seq(CallRecord) /\ DOMAIN calls = 1 .. 4
      BY <1>2, <2>1
    <2>3. \A i \in 1 .. 4 : \E b \in 0 .. MaxBID, op \in {"resyncRef", "resyncAfterDrop"} :
            calls[i] = Call(op, b)
      BY <1>2, <1>5, <1>6
    <2>4. \A i \in 1 .. 4 : IsCall(calls[i]) /\ calls[i].op \in {"resyncRef", "resyncAfterDrop"}
      BY <2>3, ResyncCall
    <2> QED BY <2>2, <2>4 DEF ResyncCalls
  <1>8. /\ DOMAIN nodes' = DOMAIN nodes \cup {n} /\ IsFiniteSet(DOMAIN nodes')
        /\ nodes' \in [DOMAIN nodes' -> Entry]
    <2>1. DOMAIN nodes' = DOMAIN nodes \cup {n}
      BY <1>3
    <2>2. IsFiniteSet(DOMAIN nodes \cup {n})
      BY <1>4, FS_AddElement
    <2> QED BY <1>3, <1>4, <1>5, <2>1, <2>2
  <1>9. Targets(nodes', DOMAIN blocks)
    BY <1>3, <1>4, <1>8 DEF Targets
  <1> QED BY <1>3, <1>7, <1>8, <1>9, NodesStep

LEMMA DeleteNodeStep ==
  ASSUME IInv, NEW n \in DOMAIN nodes, NEW t, DeleteNode(n, t), UNCHANGED faults
  PROVE  IInv'
  <1>1. PICK calls : calls = <<Call("resyncAfterDrop", nodes[n].data),
                               Call("resyncAfterDrop", nodes[n].sub)>>
    OBVIOUS
  <1>2. /\ Idle /\ Start(calls, t) /\ Outdated
        /\ nodes' = [m \in DOMAIN nodes \ {n} |-> nodes[m]]
        /\ UNCHANGED <<blocks, extra, payload, extents, nextBID, faults>>
    BY <1>1 DEF DeleteNode
  <1>3. /\ IsFiniteSet(DOMAIN nodes) /\ nodes \in [DOMAIN nodes -> Entry]
        /\ Targets(nodes, DOMAIN blocks)
    BY DEF IInv, SoundNow, Sound, Shaped
  <1>4. nodes[n].data \in 0 .. MaxBID /\ nodes[n].sub \in 0 .. MaxBID
    BY <1>3 DEF Entry
  <1>5. ResyncCalls(calls)
    <2>1. /\ Call("resyncAfterDrop", nodes[n].data) \in CallRecord
          /\ Call("resyncAfterDrop", nodes[n].sub) \in CallRecord
      BY <1>4, ResyncCall
    <2>2. calls \in Seq(CallRecord) /\ DOMAIN calls = 1 .. 2
      BY <1>1, <2>1
    <2>3. \A i \in 1 .. 2 : \E b \in 0 .. MaxBID : calls[i] = Call("resyncAfterDrop", b)
      BY <1>1, <1>4
    <2>4. \A i \in 1 .. 2 : IsCall(calls[i]) /\ calls[i].op \in {"resyncRef", "resyncAfterDrop"}
      BY <2>3, ResyncCall
    <2> QED BY <2>2, <2>4 DEF ResyncCalls
  <1>6. /\ DOMAIN nodes' = DOMAIN nodes \ {n} /\ IsFiniteSet(DOMAIN nodes')
        /\ nodes' \in [DOMAIN nodes' -> Entry]
    <2>1. DOMAIN nodes' = DOMAIN nodes \ {n}
      BY <1>2
    <2>2. IsFiniteSet(DOMAIN nodes \ {n})
      BY <1>3, FS_RemoveElement
    <2> QED BY <1>2, <1>3, <2>1, <2>2
  <1>7. Targets(nodes', DOMAIN blocks)
    BY <1>2, <1>3, <1>6 DEF Targets
  <1> QED BY <1>2, <1>5, <1>6, <1>7, NodesStep

-----------------------------------------------------------------------------
(* Commit and reopen *)

\* An order of a finite set has all of it.
LEMMA OrderCovers ==
  ASSUME NEW S, IsFiniteSet(S), NEW order \in SetToSeqs(S)
  PROVE  /\ order \in Seq(S) /\ DOMAIN order = 1 .. Len(order)
         /\ \A b \in S : \E i \in DOMAIN order : order[i] = b
  <1>1. PICK N : N = Cardinality(S)
    OBVIOUS
  <1>2. N \in Nat
    BY <1>1, FS_CardinalityType
  <1>3. order \in [1 .. N -> S] /\ \A i, j \in 1 .. N : i # j => order[i] # order[j]
    BY <1>1 DEF SetToSeqs
  <1>4. order \in Seq(S) /\ Len(order) = N
    BY <1>2, <1>3, SeqDef
  <1>5. order \in Injection(1 .. N, S)
    BY <1>3 DEF Injection, IsInjective
  <1>6. Cardinality(1 .. N) = N
    BY <1>2, FS_Interval
  <1>7. order \in Surjection(1 .. N, S)
    BY <1>1, <1>5, <1>6, FS_Injection
  <1> QED BY <1>3, <1>4, <1>7 DEF Surjection

\* The calls of a commit: drops of every block without an owner, then encode.
LEMMA CommitCalls ==
  ASSUME IInv, NEW order \in SetToSeqs(Orphans),
         NEW t, t = [i \in DOMAIN order |-> Call("dropBlock", order[i])] \o <<Call("encode", 0)>>
  PROVE  /\ t \in Seq(CallRecord)
         /\ \A i \in DOMAIN t : IsCall(t[i]) /\ t[i].op \in {"dropBlock", "encode"}
         /\ \A i \in DOMAIN t : t[i].op = "dropBlock" => t[i].bid \in Orphans
         /\ \A i \in DOMAIN t : t[i].op = "encode" => i = Len(t)
         /\ \A b \in Orphans : Listed(t, b, Dropping)
  <1>1. DOMAIN blocks \subseteq BID /\ IsFiniteSet(Orphans) /\ Orphans \subseteq BID
    <2>1. DOMAIN blocks \subseteq BID
      BY CatalogAssumption DEF IInv, SoundNow, Sound, Shaped, BID
    <2>2. IsFiniteSet(BID)
      BY CatalogAssumption, FS_Interval DEF BID
    <2>3. Orphans \in SUBSET BID
      BY <2>1 DEF Orphans
    <2> QED BY <2>1, <2>2, <2>3, FS_Subset
  <1>2. PICK O : O = Orphans
    OBVIOUS
  <1>3. /\ order \in Seq(O) /\ DOMAIN order = 1 .. Len(order)
        /\ \A b \in O : \E i \in DOMAIN order : order[i] = b
    BY <1>1, <1>2, OrderCovers
  <1>4. PICK s, e : /\ s = [i \in DOMAIN order |-> Call("dropBlock", order[i])]
                    /\ e = <<Call("encode", 0)>>
    OBVIOUS
  <1>5. Len(order) \in Nat /\ \A i \in 1 .. Len(order) : order[i] \in O
    BY <1>3, ElementOfSeq, LenProperties
  <1>6. \A b \in O : Call("dropBlock", b) \in CallRecord /\ IsCall(Call("dropBlock", b))
    BY <1>1, <1>2, CatalogAssumption DEF IsCall, Call, CallRecord, CallName, TypedKind, BID
  <1>7. /\ Call("encode", 0) \in CallRecord /\ IsCall(Call("encode", 0))
    BY CatalogAssumption DEF IsCall, Call, CallRecord, CallName, TypedKind
  <1>8. /\ s \in Seq(CallRecord) /\ Len(s) = Len(order) /\ DOMAIN s = 1 .. Len(order)
        /\ \A i \in 1 .. Len(order) : s[i] = Call("dropBlock", order[i])
    <2>1. s \in [1 .. Len(order) -> CallRecord]
      BY <1>3, <1>4, <1>5, <1>6
    <2> QED BY <1>3, <1>4, <1>5, <2>1, SeqDef
  <1>9. e \in Seq(CallRecord) /\ Len(e) = 1 /\ e[1] = Call("encode", 0)
    BY <1>4, <1>7
  <1>10. /\ t \in Seq(CallRecord) /\ Len(t) = Len(order) + 1 /\ DOMAIN t = 1 .. Len(order) + 1
         /\ \A i \in 1 .. Len(order) + 1 :
              t[i] = IF i <= Len(order) THEN s[i] ELSE e[i - Len(order)]
    <2>1. t = s \o e
      BY <1>4
    <2>2. /\ s \o e \in Seq(CallRecord) /\ Len(s \o e) = Len(s) + Len(e)
          /\ \A i \in 1 .. Len(s) + Len(e) :
               (s \o e)[i] = IF i <= Len(s) THEN s[i] ELSE e[i - Len(s)]
      <3>1. s \in Seq(CallRecord) /\ e \in Seq(CallRecord)
        BY <1>8, <1>9
      <3> QED BY <3>1, ConcatProperties
    <2>3. /\ t \in Seq(CallRecord) /\ Len(t) = Len(order) + 1
          /\ \A i \in 1 .. Len(order) + 1 :
               t[i] = IF i <= Len(order) THEN s[i] ELSE e[i - Len(order)]
      <3>1. Len(s) = Len(order) /\ Len(e) = 1
        BY <1>8, <1>9
      <3> QED BY <2>1, <2>2, <3>1
    <2>4. DOMAIN t = 1 .. Len(t)
      BY <2>3, LenProperties
    <2> QED BY <2>3, <2>4
  <1>11. ASSUME NEW i \in DOMAIN t
         PROVE  \/ i \in 1 .. Len(order) /\ t[i] = Call("dropBlock", order[i]) /\ order[i] \in O
                \/ i = Len(t) /\ t[i] = Call("encode", 0)
    <2>1. CASE i <= Len(order)
      <3>1. i \in 1 .. Len(order)
        BY <1>5, <1>10, <1>11, <2>1
      <3>2. t[i] = IF i <= Len(order) THEN s[i] ELSE e[i - Len(order)]
        BY <1>10, <1>11
      <3>3. t[i] = s[i]
        BY <2>1, <3>2
      <3> QED BY <1>5, <1>8, <3>1, <3>3
    <2>2. CASE i > Len(order)
      <3>1. i = Len(order) + 1 /\ i - Len(order) = 1 /\ i = Len(t)
        BY <1>5, <1>10, <1>11, <2>2
      <3>2. t[i] = IF i <= Len(order) THEN s[i] ELSE e[i - Len(order)]
        BY <1>10, <1>11
      <3>3. t[i] = e[1]
        <4>1. ~ (i <= Len(order))
          BY <1>5, <2>2, <3>1
        <4> QED BY <3>1, <3>2, <4>1
      <3> QED BY <1>9, <3>1, <3>3
    <2> QED BY <1>5, <1>10, <1>11, <2>1, <2>2
  <1>12. \A i \in DOMAIN t : IsCall(t[i]) /\ t[i].op \in {"dropBlock", "encode"}
    BY <1>6, <1>7, <1>11 DEF Call
  <1>13. \A i \in DOMAIN t : t[i].op = "dropBlock" => t[i].bid \in O
    BY <1>11 DEF Call
  <1>14. \A i \in DOMAIN t : t[i].op = "encode" => i = Len(t)
    BY <1>11 DEF Call
  <1>15. ASSUME NEW b \in O
         PROVE  Listed(t, b, Dropping)
    <2>1. PICK i \in 1 .. Len(order) : order[i] = b
      BY <1>3
    <2>2. i \in DOMAIN t /\ t[i] = Call("dropBlock", b)
      BY <1>5, <1>8, <1>10, <2>1
    <2>3. t[i].bid = b /\ t[i].op = "dropBlock"
      BY <2>2 DEF Call
    <2> QED BY <2>2, <2>3 DEF Listed, Dropping
  <1> QED BY <1>2, <1>10, <1>12, <1>13, <1>14, <1>15

LEMMA CommitStep ==
  ASSUME IInv, Commit, UNCHANGED faults
  PROVE  IInv'
  <1>1. PICK order \in SetToSeqs(Orphans) :
          Start([i \in DOMAIN order |-> Call("dropBlock", order[i])] \o <<Call("encode", 0)>>, TRUE)
    BY DEF Commit
  <1>2. PICK t : t = [i \in DOMAIN order |-> Call("dropBlock", order[i])] \o <<Call("encode", 0)>>
    OBVIOUS
  <1>3. /\ t \in Seq(CallRecord)
        /\ \A i \in DOMAIN t : IsCall(t[i]) /\ t[i].op \in {"dropBlock", "encode"}
        /\ \A i \in DOMAIN t : t[i].op = "dropBlock" => t[i].bid \in Orphans
        /\ \A i \in DOMAIN t : t[i].op = "encode" => i = Len(t)
        /\ \A b \in Orphans : Listed(t, b, Dropping)
    BY <1>2, CommitCalls
  <1>4. /\ Idle /\ todo = <<>> /\ todo' = t /\ Start(t, TRUE) /\ snap' = <<State>> /\ image' = <<>>
        /\ UNCHANGED <<nodes, blocks, extra, payload, extents, nextBID, faults>>
    BY <1>1, <1>2 DEF Commit, Start, Idle, Outdated
  <1>5. Covered(DOMAIN blocks', extra', payload', todo', faults')
    <2>1. ASSUME NEW k \in TypedKind, NEW b \in BID
          PROVE  Cardinality(Owed(todo', k, b)) = Cardinality(Owed(todo, k, b))
      <3>1. Owed(t, k, b) = {} /\ Owed(<<>>, k, b) = {}
        BY <1>3 DEF Owed
      <3> QED BY <1>4, <3>1
    <2> QED BY <1>4, <2>1 DEF IInv, SoundNow, Sound, Covered
  <1>6. SoundNow'
    BY <1>4, <1>5 DEF IInv, SoundNow, Sound
  <1>7. QueuedNow'
    <2>1. \A b \in DOMAIN blocks : Ownerless(nodes, extra, b) <=> b \in Orphans
      BY UnownedIs DEF Orphans
    <2>2. \A b \in Orphans : Ownerless(nodes, extra, b)
      BY UnownedIs DEF Orphans
    <2>3. snap' # <<>>
      BY <1>4
    <2>4. \A i \in DOMAIN t : t[i].op = "dropBlock" => Ownerless(nodes, extra, t[i].bid)
      BY <1>3, <2>2
    <2>5. \A b \in DOMAIN blocks : Ownerless(nodes, extra, b) => Listed(t, b, Dropping)
      BY <1>3, <2>1
    <2>6. Queued(nodes, blocks, extra, t, snap')
      BY <1>3, <2>3, <2>4, <2>5 DEF Queued
    <2> QED BY <1>4, <2>6 DEF QueuedNow
  <1>8. SoundSnap' /\ SoundImage'
    BY <1>4, StartSnap DEF SoundImage
  <1> QED BY <1>6, <1>7, <1>8 DEF IInv

\* When serialising begins every block has an owner, and it is the last call.
LEMMA EncodeReady ==
  ASSUME IInv, Runs("encode")
  PROVE  /\ todo = <<Head(todo)>> /\ Tail(todo) = <<>> /\ snap # <<>>
         /\ \A b \in DOMAIN blocks : ~ Ownerless(nodes, extra, b)
         /\ ownedBlocks = DOMAIN blocks
  <1>1. /\ todo \in Seq(CallRecord) /\ todo # <<>> /\ Head(todo).op = "encode"
    BY FirstCall DEF IInv
  <1>2. 1 \in DOMAIN todo /\ todo[1] = Head(todo)
    BY <1>1, EmptySeq, LenProperties
  <1>3. /\ 1 = Len(todo) /\ snap # <<>>
        /\ \A b \in DOMAIN blocks : Ownerless(nodes, extra, b) => Listed(todo, b, Dropping)
    BY <1>1, <1>2 DEF IInv, QueuedNow, Queued
  <1>4. DOMAIN todo = {1}
    BY <1>1, <1>3, LenProperties
  <1>5. \A b : ~ Listed(todo, b, Dropping)
    BY <1>1, <1>2, <1>4 DEF Listed, Dropping
  <1>6. todo = <<Head(todo)>> /\ Tail(todo) = <<>>
    <2>1. Tail(todo) \in Seq(CallRecord) /\ Len(Tail(todo)) = 0
      BY <1>1, <1>3, HeadTailProperties
    <2>2. Tail(todo) = <<>>
      BY <2>1, EmptySeq
    <2> QED BY <1>1, <1>2, <1>3, <2>2
  <1> QED BY <1>3, <1>5, <1>6, UnownedIs DEF ownedBlocks

LEMMA EncodeFailsStep ==
  ASSUME IInv, encodeFails, UNCHANGED faults
  PROVE  IInv'
  BY EncodeReady, RestoreStep DEF encodeFails

\* A block named by a payload or a node of a sound catalog is in it.
LEMMA ClosedCatalog ==
  ASSUME IInv
  PROVE  NoDanglingReference
  <1>1. /\ DOMAIN blocks \subseteq BID /\ payload \in [BID -> Seq(Ref)]
        /\ \A b \in BID : Len(payload[b]) <= MaxBID
        /\ extra \in [Kind -> [BID -> Nat]] /\ todo \in Seq(CallRecord)
    BY CatalogAssumption DEF IInv, SoundNow, Sound, Shaped, BID, QueuedNow, Queued
  <1>2. ASSUME NEW p \in DOMAIN blocks, NEW i \in DOMAIN payload[p]
        PROVE  payload[p][i].bid \in DOMAIN blocks
    <2>1. PICK k, b, D, pl : /\ k = payload[p][i].kind /\ b = payload[p][i].bid
                             /\ D = DOMAIN blocks /\ pl = payload
      OBVIOUS
    <2>2. /\ b \in BID /\ k \in TypedKind
          /\ Cardinality(Links(D, pl, pl[p][i].kind, pl[p][i].bid)) > 0
      BY <1>1, <1>2, <2>1, LinkCounted
    <2>3. /\ Cardinality(Links(D, pl, k, b)) \in Nat /\ Cardinality(Owed(todo, k, b)) \in Nat
          /\ extra[k][b] \in Nat
      BY <1>1, <2>2, LinksFinite, OwedFinite DEF TypedKind, Kind
    <2>4. Within(Cardinality(Links(D, pl, k, b)) + Cardinality(Owed(todo, k, b)), extra[k][b], faults)
      BY <2>1, <2>2 DEF IInv, SoundNow, Sound, Covered
    <2>5. extra[k][b] # 0
      BY <2>1, <2>2, <2>3, <2>4 DEF Within
    <2> QED BY <2>1, <2>2, <2>5 DEF IInv, SoundNow, Sound, Bare, TypedKind, Kind
  <1>3. Targets(nodes, DOMAIN blocks)
    BY DEF IInv, SoundNow, Sound
  <1> QED BY <1>2, <1>3 DEF NoDanglingReference, Targets

\* What a commit writes.
Encoded(img) ==
  /\ img.nodes = nodes /\ img.payload = payload /\ img.extents = extents
  /\ img.nextBID = nextBID /\ img.blocks = [b \in ownedBlocks |-> blocks[b]]

LEMMA EncodeIs ==
  ASSUME encode
  PROVE  image' # <<>> /\ Encoded(image'[1])
  <1>1. PICK img : img = [nodes |-> nodes, blocks |-> [b \in ownedBlocks |-> blocks[b]],
                          payload |-> payload, extents |-> extents, nextBID |-> nextBID]
    OBVIOUS
  <1>2. image' = <<img>>
    BY <1>1 DEF encode
  <1>3. Encoded(img)
    BY <1>1 DEF Encoded
  <1> QED BY <1>2, <1>3

LEMMA EncodeStep ==
  ASSUME IInv, encode, UNCHANGED faults
  PROVE  IInv'
  <1>1. /\ Runs("encode") /\ Continue(<<>>)
        /\ UNCHANGED <<nodes, blocks, extra, payload, extents, nextBID, faults>>
    BY DEF encode
  <1>2. todo' = <<>> /\ snap' = <<>>
    <2>1. Tail(todo) = <<>>
      BY <1>1, EncodeReady
    <2> QED BY <1>1, <2>1 DEF Continue
  <1>3. SoundNow'
    <2>1. Covered(DOMAIN blocks, extra, payload, <<>>, faults)
      <3>1. ASSUME NEW k \in TypedKind, NEW b \in BID
            PROVE  Within(Cardinality(Links(DOMAIN blocks, payload, k, b))
                     + Cardinality(Owed(<<>>, k, b)), extra[k][b], faults)
        <4>1. Within(Cardinality(Links(DOMAIN blocks, payload, k, b))
                + Cardinality(Owed(todo, k, b)), extra[k][b], faults)
          BY DEF IInv, SoundNow, Sound, Covered
        <4>2. /\ Cardinality(Links(DOMAIN blocks, payload, k, b)) \in Nat
              /\ Cardinality(Owed(todo, k, b)) \in Nat /\ extra[k][b] \in Nat
          BY LinksFinite, OwedFinite
             DEF IInv, SoundNow, Sound, Shaped, QueuedNow, Queued, TypedKind, Kind
        <4>3. Owed(todo, k, b) = {}
          <5>1. todo = <<Head(todo)>> /\ Head(todo).op = "encode"
            BY <1>1, EncodeReady DEF Runs
          <5> QED BY <5>1 DEF Owed
        <4>4. Cardinality(Owed(todo, k, b)) = 0
          BY <4>3, FS_EmptySet
        <4> QED BY <4>1, <4>2, <4>4, OwedNothing DEF Within
      <3> QED BY <3>1 DEF Covered
    <2> QED BY <1>1, <1>2, <2>1 DEF IInv, SoundNow, Sound
  <1>4. SoundImage'
    <2>1. PICK img : img = image'[1]
      OBVIOUS
    <2>2. Encoded(img) /\ image' # <<>> /\ ownedBlocks = DOMAIN blocks
      BY <1>1, <2>1, EncodeIs, EncodeReady
    <2>3. /\ img.nodes = nodes /\ img.payload = payload /\ img.extents = extents
          /\ img.nextBID = nextBID /\ img.blocks = [b \in DOMAIN blocks |-> blocks[b]]
      BY <2>2 DEF Encoded
    <2>4. Shaped(nodes, blocks, extra, payload, nextBID)
      BY DEF IInv, SoundNow, Sound
    <2>5. DOMAIN img.blocks = DOMAIN blocks /\ img.blocks = blocks
      BY <2>3, <2>4 DEF Shaped
    <2>6. Shaped(img.nodes, img.blocks, [k \in Kind |-> NoRefs], img.payload, img.nextBID)
      <3>1. [k \in Kind |-> NoRefs] \in [Kind -> [BID -> Nat]]
        BY DEF NoRefs
      <3> QED BY <2>3, <2>4, <2>5, <3>1 DEF Shaped
    <2>7. Targets(img.nodes, DOMAIN img.blocks)
      BY <2>3, <2>5 DEF IInv, SoundNow, Sound
    <2>8. \A p \in DOMAIN img.blocks : \A i \in DOMAIN img.payload[p] :
            img.payload[p][i].bid \in DOMAIN img.blocks
      BY <2>3, <2>5, ClosedCatalog DEF NoDanglingReference
    <2>9. Housed(DOMAIN img.blocks, img.extents, faults')
      BY <1>1, <2>3, <2>5 DEF IInv, SoundNow, Sound
    <2> QED BY <2>1, <2>6, <2>7, <2>8, <2>9 DEF SoundImage
  <1>5. QueuedNow' /\ SoundSnap'
    BY <1>2, NothingQueued DEF QueuedNow, SoundSnap
  <1> QED BY <1>3, <1>4, <1>5 DEF IInv

LEMMA OpenNDBStep ==
  ASSUME IInv, OpenNDB, UNCHANGED faults
  PROVE  IInv'
  <1>1. PICK img : img = image[1]
    OBVIOUS
  <1>2. /\ todo = <<>> /\ image # <<>> /\ OpenNDBAccepts(img)
        /\ nodes' = img.nodes /\ blocks' = img.blocks
        /\ extra' = [k \in Kind |-> [b \in BID |->
                       IF b \notin DOMAIN img.blocks THEN 0
                       ELSE IF k = "opaque" THEN OpaqueRefs(img, b) ELSE TypedRefs(img, k, b)]]
        /\ payload' = img.payload /\ extents' = img.extents /\ nextBID' = img.nextBID
        /\ UNCHANGED <<todo, snap, image, faults>>
    BY <1>1 DEF OpenNDB, Idle
  <1>3. /\ Shaped(img.nodes, img.blocks, [k \in Kind |-> NoRefs], img.payload, img.nextBID)
        /\ Targets(img.nodes, DOMAIN img.blocks)
        /\ \A p \in DOMAIN img.blocks : \A i \in DOMAIN img.payload[p] :
             img.payload[p][i].bid \in DOMAIN img.blocks
        /\ Housed(DOMAIN img.blocks, img.extents, faults)
    BY <1>1, <1>2 DEF IInv, SoundImage
  <1>4. extra' \in [Kind -> [BID -> Nat]]
    <2>1. \A k, b : TypedRefs(img, k, b) \in Nat
      BY LinksFinite DEF TypedRefs
    <2>2. ASSUME NEW b \in DOMAIN img.blocks
          PROVE  OpaqueRefs(img, b) \in Nat
      <3>1. OpaqueRefs(img, b) >= 0
        BY <1>2, <2>2 DEF OpenNDBAccepts, CountsAccepted
      <3>2. img.blocks[b] \in Nat
        BY <1>3, <2>2 DEF Shaped
      <3>3. NbtRefs(img, b) \in Nat
        <4>1. IsFiniteSet(DOMAIN img.nodes)
          BY <1>3 DEF Shaped
        <4>2. NbtRefs(img, b) = NodeRefs(img.nodes, b)
          BY DEF NbtRefs, NodeRefs
        <4> QED BY <4>1, <4>2, NodeRefsZero
      <3> QED BY <2>1, <3>1, <3>2, <3>3 DEF OpaqueRefs
    <2>3. \A k \in Kind, b \in BID :
            (IF b \notin DOMAIN img.blocks THEN 0
             ELSE IF k = "opaque" THEN OpaqueRefs(img, b) ELSE TypedRefs(img, k, b)) \in Nat
      BY <2>1, <2>2
    <2> QED BY <1>2, <2>3
  <1>5. Shaped(nodes', blocks', extra', payload', nextBID')
    BY <1>2, <1>3, <1>4 DEF Shaped
  <1>6. Bare(DOMAIN blocks', extra')
    BY <1>2 DEF Bare
  <1>7. Covered(DOMAIN blocks', extra', payload', todo', faults')
    <2>1. ASSUME NEW k \in TypedKind, NEW b \in BID
          PROVE  Within(Cardinality(Links(DOMAIN img.blocks, img.payload, k, b))
                   + Cardinality(Owed(<<>>, k, b)), extra'[k][b], faults')
      <3>1. /\ Cardinality(Owed(<<>>, k, b)) = 0
            /\ Cardinality(Links(DOMAIN img.blocks, img.payload, k, b)) \in Nat
        BY OwedNothing, LinksFinite
      <3>2. CASE b \in DOMAIN img.blocks
        <4>1. extra'[k][b] = Cardinality(Links(DOMAIN img.blocks, img.payload, k, b))
          BY <1>2, <3>2 DEF TypedRefs, TypedKind, Kind
        <4> QED BY <3>1, <4>1 DEF Within
      <3>3. CASE b \notin DOMAIN img.blocks
        <4>1. Links(DOMAIN img.blocks, img.payload, k, b) = {}
          BY <1>3, <3>3 DEF Links
        <4>2. Cardinality(Links(DOMAIN img.blocks, img.payload, k, b)) = 0
          BY <4>1, FS_EmptySet
        <4>3. extra'[k][b] = 0
          BY <1>2, <3>3 DEF TypedKind, Kind
        <4> QED BY <3>1, <4>2, <4>3 DEF Within
      <3> QED BY <3>2, <3>3
    <2> QED BY <1>2, <2>1 DEF Covered
  <1>8. SoundNow'
    BY <1>2, <1>3, <1>5, <1>6, <1>7 DEF SoundNow, Sound
  <1>9. QueuedNow'
    BY <1>2, NothingQueued DEF QueuedNow
  <1>10. SoundSnap' /\ SoundImage'
    BY <1>2 DEF IInv, SoundSnap, SoundImage
  <1> QED BY <1>8, <1>9, <1>10 DEF IInv

-----------------------------------------------------------------------------
(* Theorems: the structure of the catalog *)

LEMMA InitIInv == Init => IInv
  <1> SUFFICES ASSUME Init PROVE IInv
    OBVIOUS
  <1>1. Shaped(nodes, blocks, extra, payload, nextBID)
    <2>1. DOMAIN nodes = {} /\ DOMAIN blocks = {} /\ nextBID = 1
      BY DEF Init
    <2>2. IsFiniteSet(DOMAIN nodes)
      BY <2>1, FS_EmptySet
    <2>3. nodes \in [DOMAIN nodes -> Entry] /\ blocks \in [DOMAIN blocks -> Nat]
      BY <2>1 DEF Init
    <2>4. extra \in [Kind -> [BID -> Nat]]
      BY DEF Init, NoRefs
    <2>5. payload \in [BID -> Seq(Ref)] /\ \A b \in BID : Len(payload[b]) <= MaxBID
      BY CatalogAssumption DEF Init
    <2> QED BY <2>1, <2>2, <2>3, <2>4, <2>5, CatalogAssumption DEF Shaped
  <1>2. Covered(DOMAIN blocks, extra, payload, todo, faults)
    <2>1. ASSUME NEW k \in TypedKind, NEW b \in BID
          PROVE  Within(Cardinality(Links(DOMAIN blocks, payload, k, b))
                   + Cardinality(Owed(todo, k, b)), extra[k][b], faults)
      <3>1. Links(DOMAIN blocks, payload, k, b) = {} /\ todo = <<>> /\ extra[k][b] = 0
        BY DEF Init, Links, NoRefs, TypedKind, Kind
      <3>2. Cardinality(Links(DOMAIN blocks, payload, k, b)) = 0 /\ Cardinality(Owed(todo, k, b)) = 0
        BY <3>1, OwedNothing, FS_EmptySet
      <3> QED BY <3>1, <3>2 DEF Within
    <2> QED BY <2>1 DEF Covered
  <1>3. Targets(nodes, DOMAIN blocks) /\ Bare(DOMAIN blocks, extra)
    BY DEF Init, Targets, Bare, NoRefs
  <1>4. Housed(DOMAIN blocks, extents, faults)
    BY DEF Init, Housed
  <1>5. QueuedNow /\ SoundSnap /\ SoundImage
    BY NothingQueued DEF Init, QueuedNow, SoundSnap, SoundImage
  <1> QED BY <1>1, <1>2, <1>3, <1>4, <1>5 DEF IInv, SoundNow, Sound

LEMMA PutsStaged ==
  ASSUME IInv
  PROVE  /\ PutDataBlock => Staged(1, <<>>) /\ Stage(1, <<>>)
         /\ PutDataTree => \E refs : Staged(3, refs) /\ Stage(3, refs)
         /\ \A b, c \in DOMAIN blocks : PutSubnodeTree(<<b, c>>) =>
              \E refs : Staged(1, refs) /\ Stage(1, refs)
  <1>1. /\ nextBID \in 1 .. MaxBID + 1 /\ DOMAIN blocks \subseteq 1 .. nextBID - 1
    BY DEF IInv, SoundNow, Sound, Shaped
  <1>2. PutDataBlock => Staged(1, <<>>) /\ Stage(1, <<>>)
    BY CatalogAssumption DEF PutDataBlock, Staged
  <1>3. PutDataTree => \E refs : Staged(3, refs) /\ Stage(3, refs)
    <2> SUFFICES ASSUME PutDataTree PROVE \E refs : Staged(3, refs) /\ Stage(3, refs)
      OBVIOUS
    <2>1. PICK refs : refs = <<[bid |-> nextBID, kind |-> "data"],
                               [bid |-> nextBID + 1, kind |-> "data"]>>
      OBVIOUS
    <2>2. Stage(3, refs)
      BY <2>1 DEF PutDataTree
    <2>3. nextBID + 2 <= MaxBID
      BY <1>1, <2>2, CatalogAssumption DEF Stage
    <2>4. refs \in Seq(Ref) /\ Len(refs) = 2
      <3>1. [bid |-> nextBID, kind |-> "data"] \in Ref /\ [bid |-> nextBID + 1, kind |-> "data"] \in Ref
        BY <1>1, <2>3, CatalogAssumption DEF Ref, BID, TypedKind
      <3> QED BY <2>1, <3>1
    <2>5. Staged(3, refs)
      BY <1>1, <2>1, <2>3, <2>4, CatalogAssumption DEF Staged
    <2> QED BY <2>2, <2>5
  <1>4. ASSUME NEW b \in DOMAIN blocks, NEW c \in DOMAIN blocks, PutSubnodeTree(<<b, c>>)
        PROVE  \E refs : Staged(1, refs) /\ Stage(1, refs)
    <2>1. PICK refs : refs = [i \in DOMAIN <<b, c>> |-> [bid |-> <<b, c>>[i], kind |-> "sub"]]
      OBVIOUS
    <2>2. Stage(1, refs)
      BY <1>4, <2>1 DEF PutSubnodeTree
    <2>3. nextBID <= MaxBID /\ b \in 1 .. nextBID - 1 /\ c \in 1 .. nextBID - 1
      BY <1>1, <2>2, CatalogAssumption DEF Stage
    <2>4. [bid |-> b, kind |-> "sub"] \in Ref /\ [bid |-> c, kind |-> "sub"] \in Ref
      BY <1>1, <2>3, CatalogAssumption DEF Ref, BID, TypedKind
    <2>5. refs = <<[bid |-> b, kind |-> "sub"], [bid |-> c, kind |-> "sub"]>>
      BY <2>1
    <2>6. refs \in Seq(Ref) /\ Len(refs) = 2
      BY <2>4, <2>5
    <2>7. Staged(1, refs)
      BY <1>1, <2>3, <2>5, <2>6, CatalogAssumption DEF Staged
    <2> QED BY <2>2, <2>7
  <1> QED BY <1>2, <1>3, <1>4

LEMMA NextIInv == IInv /\ [Next]_vars => IInv'
  <1> SUFFICES ASSUME IInv, [Next]_vars PROVE IInv'
    OBVIOUS
  <1>1. CASE UNCHANGED vars
    BY <1>1 DEF vars, IInv, SoundNow, SoundSnap, SoundImage, QueuedNow
  <1>2. CASE Next
    <2>1. UNCHANGED faults
      BY <1>2 DEF Next
    <2>2. CASE PutDataBlock
      BY <2>1, <2>2, PutsStaged, StageStep
    <2>3. CASE PutDataTree
      BY <2>1, <2>3, PutsStaged, StageStep
    <2>4. CASE \E b, c \in DOMAIN blocks : PutSubnodeTree(<<b, c>>)
      BY <2>1, <2>4, PutsStaged, StageStep
    <2>5. CASE \E n \in NID, d, s \in DOMAIN blocks \cup {0}, t \in Transactional :
                 PutNode(n, d, s, t)
      BY <2>1, <2>5, PutNodeStep
    <2>6. CASE \E n \in DOMAIN nodes, t \in Transactional : DeleteNode(n, t)
      BY <2>1, <2>6, DeleteNodeStep
    <2>7. CASE Commit
      BY <2>1, <2>7, CommitStep
    <2>8. CASE OpenNDB
      BY <2>1, <2>8, OpenNDBStep
    <2>9. CASE Cascade
      BY <2>1, <2>9, ResyncRefStep, ResyncAfterDropStep, DropBlockStep, ReleaseExtraStep,
         EncodeStep, EncodeFailsStep DEF Cascade
    <2>10. CASE dropBlockFails
      BY <2>1, <2>10, DropBlockFailsStep
    <2> QED BY <1>2, <2>2, <2>3, <2>4, <2>5, <2>6, <2>7, <2>8, <2>9, <2>10 DEF Next
  <1> QED BY <1>1, <1>2

\* The invariant that every theorem below rests on.
LEMMA IInvHolds == Spec => []IInv
  BY InitIInv, NextIInv, PTL DEF Spec

\* For any number of blocks and nodes, whatever fails and whenever a file is
\* reopened, no node and no live payload names a block that is gone, not even
\* between two calls of a cascade of resyncAfterDrop, dropBlock, releaseExtra.
THEOREM NothingDangles == Spec => []NoDanglingReference
  BY IInvHolds, ClosedCatalog, PTL

\* A block in the catalog keeps its space: dropBlock, rollback and reopening
\* never free the space of a live block.
THEOREM LiveBlocksStayHoused == Spec => []LiveBlocksHoldSpace
  <1>1. IInv => LiveBlocksHoldSpace
    BY DEF IInv, SoundNow, Sound, Housed, LiveBlocksHoldSpace
  <1> QED BY <1>1, IInvHolds, PTL

\* On storage that works the Store holds the blocks of the catalog and nothing
\* else: the orphans Encode reclaims, and what dropping them orphans, are all
\* gone from a committed file.
THEOREM SpaceNeverLeaks == Spec => []NoLeakedSpace
  <1>1. IInv => NoLeakedSpace
    BY DEF IInv, SoundNow, Sound, Housed, NoLeakedSpace
  <1> QED BY <1>1, IInvHolds, PTL

-----------------------------------------------------------------------------
(* Reference counts *)

\* No block has so many references that its count wraps: cRef is a uint16 and
\* computeRef truncates.
CountsFit == \A b \in DOMAIN blocks : 1 + nbtLiveRefs(b) + extraLiveRefs(b) < RefMod

\* Every reference is one of a node or of a payload.
Explained(ex) == \A b \in BID : ex["opaque"][b] = 0

\* Every count is right, or a call still to run will see to it.
Exact(n, bl, ex, t) ==
  \A b \in DOMAIN bl :
    bl[b] = 1 + NodeRefs(n, b) + TreeRefs(ex, b) \/ Listed(t, b, Settling)

PreciseNow == faults = {} => Explained(extra) /\ Exact(nodes, blocks, extra, todo)

PreciseSnap ==
  faults = {} /\ snap # <<>> =>
    Explained(snap[1].extra) /\ Exact(snap[1].nodes, snap[1].blocks, snap[1].extra, <<>>)

PreciseImage ==
  image # <<>> =>
    /\ CountsAccepted(image[1])
    /\ faults = {} => \A b \in DOMAIN image[1].blocks : OpaqueRefs(image[1], b) = 0

PInv == PreciseNow /\ PreciseSnap /\ PreciseImage

LEMMA ModSmall ==
  ASSUME NEW x \in Nat, x < RefMod
  PROVE  x % RefMod = x
  BY CatalogAssumption

\* While its references fit, a count computed is a count of references.
LEMMA ComputeExact ==
  ASSUME IInv, CountsFit, NEW b \in DOMAIN blocks
  PROVE  computeRef(b) = 1 + NodeRefs(nodes, b) + TreeRefs(extra, b)
  <1>1. b \in BID
    BY CatalogAssumption DEF IInv, SoundNow, Sound, Shaped, BID
  <1>2. nbtLiveRefs(b) \in Nat /\ extraLiveRefs(b) \in Nat
    BY <1>1, RefsNat DEF IInv
  <1>3. PICK x : x = 1 + nbtLiveRefs(b) + extraLiveRefs(b)
    OBVIOUS
  <1>4. x \in Nat /\ x < RefMod
    BY <1>2, <1>3 DEF CountsFit
  <1>5. x % RefMod = x
    BY <1>4, ModSmall
  <1> QED BY <1>3, <1>5, UnownedIs DEF computeRef

LEMMA NothingListed ==
  ASSUME NEW b, NEW ops
  PROVE  ~ Listed(<<>>, b, ops)
  BY DEF Listed

\* Between operations every count is right.
LEMMA IdleExact ==
  ASSUME PreciseNow, faults = {}, Idle
  PROVE  /\ Explained(extra) /\ Exact(nodes, blocks, extra, <<>>)
         /\ \A b \in DOMAIN blocks : blocks[b] = 1 + NodeRefs(nodes, b) + TreeRefs(extra, b)
  BY NothingListed DEF PreciseNow, Exact, Idle

\* The counters of a block go up by the references to it that are staged.
LEMMA StageCounts ==
  ASSUME IInv, NEW count, NEW refs, Staged(count, refs), Stage(count, refs), NEW b \in BID
  PROVE  /\ TreeRefs(extra', b) = TreeRefs(extra, b) + Count(refs, b)
         /\ extra'["opaque"][b] = extra["opaque"][b]
         /\ TreeRefs(extra, b) \in Nat /\ Count(refs, b) \in Nat
  <1>1. /\ refs \in Seq(Ref) /\ extra \in [Kind -> [BID -> Nat]]
        /\ extra' = [k \in Kind |-> [c \in BID |-> extra[k][c] + CountKind(refs, c, k)]]
    BY DEF Staged, Stage, IInv, SoundNow, Sound, Shaped
  <1>2. CountKind(refs, b, "opaque") = 0
    <2>1. \A i \in 1 .. Len(refs) : refs[i] \in Ref
      BY <1>1, ElementOfSeq
    <2>2. {i \in DOMAIN refs : refs[i].bid = b /\ refs[i].kind = "opaque"} = {}
      BY <1>1, <2>1, LenProperties DEF Ref, TypedKind
    <2> QED BY <2>2, FS_EmptySet DEF CountKind
  <1>3. /\ extra'["opaque"][b] = extra["opaque"][b] + CountKind(refs, b, "opaque")
        /\ extra'["data"][b] = extra["data"][b] + CountKind(refs, b, "data")
        /\ extra'["sub"][b] = extra["sub"][b] + CountKind(refs, b, "sub")
        /\ extra["opaque"][b] \in Nat /\ extra["data"][b] \in Nat /\ extra["sub"][b] \in Nat
    BY <1>1 DEF Kind
  <1>4. /\ Count(refs, b) = CountKind(refs, b, "data") + CountKind(refs, b, "sub")
        /\ Count(refs, b) \in Nat
    BY <1>1, CountSplit
  <1>5. CountKind(refs, b, "data") \in Nat /\ CountKind(refs, b, "sub") \in Nat
    BY <1>1, CountKindFinite
  <1>6. PICK d, s, o : d = extra["data"][b] /\ s = extra["sub"][b] /\ o = extra["opaque"][b]
    OBVIOUS
  <1>7. TreeRefs(extra, b) = d + s + o
    BY <1>6 DEF TreeRefs
  <1>8. TreeRefs(extra', b) = (d + CountKind(refs, b, "data"))
                                + (s + CountKind(refs, b, "sub")) + o
    BY <1>2, <1>3, <1>6 DEF TreeRefs
  <1> QED BY <1>2, <1>3, <1>4, <1>5, <1>6, <1>7, <1>8

LEMMA StagePrecise ==
  ASSUME IInv, IInv', PreciseNow, CountsFit', NEW count, NEW refs, Staged(count, refs),
         Stage(count, refs), UNCHANGED faults, faults = {}
  PROVE  Explained(extra') /\ Exact(nodes', blocks', extra', todo')
  <1>1. PICK fresh : fresh = nextBID .. nextBID + count - 1
    OBVIOUS
  <1>2. /\ Idle
        /\ extra' = [k \in Kind |-> [b \in BID |-> extra[k][b] + CountKind(refs, b, k)]]
        /\ DOMAIN blocks' = DOMAIN blocks \cup fresh
        /\ \A b \in DOMAIN blocks \cup fresh : blocks'[b] =
             IF Count(refs, b) > 0
             THEN (1 + nbtLiveRefs(b) + extraLiveRefs(b) + Count(refs, b)) % RefMod
             ELSE IF b \in fresh THEN 1 ELSE blocks[b]
        /\ nodes' = nodes
    BY <1>1 DEF Stage
  <1>3. /\ Explained(extra)
        /\ \A b \in DOMAIN blocks : blocks[b] = 1 + NodeRefs(nodes, b) + TreeRefs(extra, b)
    BY <1>2, IdleExact
  <1>4. refs \in Seq(Ref) /\ extra \in [Kind -> [BID -> Nat]] /\ IsFiniteSet(DOMAIN nodes)
        /\ Targets(nodes, DOMAIN blocks) /\ Bare(DOMAIN blocks, extra)
    BY DEF Staged, IInv, SoundNow, Sound, Shaped
  <1>5. DOMAIN blocks' \subseteq BID
    <2>1. Shaped(nodes', blocks', extra', payload', nextBID')
      BY DEF IInv, SoundNow, Sound
    <2> QED BY <2>1, CatalogAssumption DEF Shaped, BID
  <1>7. ASSUME NEW b \in BID
        PROVE  /\ extra'["opaque"][b] = 0 /\ TreeRefs(extra', b) = TreeRefs(extra, b) + Count(refs, b)
               /\ TreeRefs(extra, b) \in Nat /\ Count(refs, b) \in Nat
    <2>1. extra["opaque"][b] = 0
      BY <1>3 DEF Explained
    <2> QED BY <2>1, StageCounts
  <1>8. ASSUME NEW b \in DOMAIN blocks'
        PROVE  blocks'[b] = 1 + NodeRefs(nodes', b) + TreeRefs(extra', b)
    <2>1. b \in BID /\ NodeRefs(nodes, b) \in Nat
      BY <1>4, <1>5, NodeRefsZero
    <2>2. PICK x : x = 1 + NodeRefs(nodes, b) + TreeRefs(extra, b) + Count(refs, b)
      OBVIOUS
    <2>3. x \in Nat /\ x = 1 + NodeRefs(nodes', b) + TreeRefs(extra', b)
      BY <1>2, <1>7, <2>1, <2>2
    <2>4. CASE Count(refs, b) > 0
      <3>1. blocks'[b] = x % RefMod
        BY <1>2, <2>2, <2>4, UnownedIs
      <3>2. 1 + NodeRefs(nodes', b) + TreeRefs(extra', b) < RefMod
        <4>1. nbtLiveRefs(b)' = NodeRefs(nodes', b) /\ extraLiveRefs(b)' = TreeRefs(extra', b)
          BY DEF nbtLiveRefs, NodeRefs, extraLiveRefs, TreeRefs
        <4>2. 1 + nbtLiveRefs(b)' + extraLiveRefs(b)' < RefMod
          BY <1>8 DEF CountsFit
        <4> QED BY <4>1, <4>2
      <3> QED BY <2>3, <3>1, <3>2, ModSmall
    <2>5. CASE ~ (Count(refs, b) > 0)
      <3>1. Count(refs, b) = 0
        BY <1>7, <2>1, <2>5
      <3>2. CASE b \in DOMAIN blocks
        <4>1. b \notin fresh
          BY <1>1, <3>2, CatalogAssumption DEF IInv, SoundNow, Sound, Shaped
        <4> QED BY <1>2, <1>3, <1>7, <2>1, <2>2, <2>3, <2>5, <3>1, <3>2, <4>1
      <3>3. CASE b \notin DOMAIN blocks
        <4>1. blocks'[b] = 1
          BY <1>2, <1>8, <2>5, <3>3
        <4>2. \A m \in DOMAIN nodes : nodes[m].data # b /\ nodes[m].sub # b
          BY <1>4, <2>1, <3>3, CatalogAssumption DEF Targets, BID
        <4>3. NodeRefs(nodes, b) = 0
          BY <1>4, <4>2, NodeRefsZero
        <4>4. TreeRefs(extra, b) = 0
          BY <1>4, <2>1, <3>3 DEF Bare, TreeRefs, Kind
        <4> QED BY <2>2, <2>3, <3>1, <4>1, <4>3, <4>4
      <3> QED BY <3>2, <3>3
    <2> QED BY <2>4, <2>5
  <1> QED BY <1>7, <1>8 DEF Explained, Exact

\* A change of nodes is followed by resyncs of the blocks whose count it changes.
LEMMA NodesPrecise ==
  ASSUME PreciseNow, faults = {}, Idle, NEW calls, todo' = calls,
         UNCHANGED <<blocks, extra>>,
         \A b \in DOMAIN blocks :
           NodeRefs(nodes', b) = NodeRefs(nodes, b) \/ Listed(calls, b, Settling)
  PROVE  Explained(extra') /\ Exact(nodes', blocks', extra', todo')
  <1>1. /\ Explained(extra)
        /\ \A b \in DOMAIN blocks : blocks[b] = 1 + NodeRefs(nodes, b) + TreeRefs(extra, b)
    BY IdleExact
  <1> QED BY <1>1 DEF Exact

LEMMA PutNodePrecise ==
  ASSUME IInv, PreciseNow, faults = {}, NEW n, NEW data, NEW sub, NEW t, PutNode(n, data, sub, t)
  PROVE  Explained(extra') /\ Exact(nodes', blocks', extra', todo')
  <1>1. PICK old : old = IF n \in DOMAIN nodes THEN nodes[n] ELSE [data |-> 0, sub |-> 0]
    OBVIOUS
  <1>2. PICK calls : calls = <<Call("resyncAfterDrop", old.data),
                               Call("resyncAfterDrop", old.sub),
                               Call("resyncRef", data), Call("resyncRef", sub)>>
    OBVIOUS
  <1>3. /\ Idle /\ todo' = calls
        /\ nodes' = [m \in DOMAIN nodes \cup {n} |->
                       IF m = n THEN [data |-> data, sub |-> sub] ELSE nodes[m]]
        /\ UNCHANGED <<blocks, extra>>
    BY <1>1, <1>2 DEF PutNode, Start
  <1>4. ASSUME NEW b, b \in {old.data, old.sub, data, sub}
        PROVE  Listed(calls, b, Settling)
    <2>1. DOMAIN calls = 1 .. 4
      BY <1>2
    <2>2. \E i \in 1 .. 4, op \in Settling : calls[i] = Call(op, b)
      BY <1>2, <1>4 DEF Settling, Dropping
    <2>3. \A op : Call(op, b).bid = b /\ Call(op, b).op = op
      BY DEF Call
    <2> QED BY <2>1, <2>2, <2>3 DEF Listed
  <1>5. ASSUME NEW b, b \notin {old.data, old.sub, data, sub}
        PROVE  NodeRefs(nodes', b) = NodeRefs(nodes, b)
    <2>1. {m \in DOMAIN nodes' : nodes'[m].data = b} = {m \in DOMAIN nodes : nodes[m].data = b}
      BY <1>1, <1>3, <1>5
    <2>2. {m \in DOMAIN nodes' : nodes'[m].sub = b} = {m \in DOMAIN nodes : nodes[m].sub = b}
      BY <1>1, <1>3, <1>5
    <2> QED BY <2>1, <2>2 DEF NodeRefs
  <1>6. \A b \in DOMAIN blocks :
          NodeRefs(nodes', b) = NodeRefs(nodes, b) \/ Listed(calls, b, Settling)
    BY <1>4, <1>5
  <1> QED BY <1>3, <1>6, NodesPrecise

LEMMA DeleteNodePrecise ==
  ASSUME IInv, PreciseNow, faults = {}, NEW n \in DOMAIN nodes, NEW t, DeleteNode(n, t)
  PROVE  Explained(extra') /\ Exact(nodes', blocks', extra', todo')
  <1>1. PICK calls : calls = <<Call("resyncAfterDrop", nodes[n].data),
                               Call("resyncAfterDrop", nodes[n].sub)>>
    OBVIOUS
  <1>2. /\ Idle /\ todo' = calls
        /\ nodes' = [m \in DOMAIN nodes \ {n} |-> nodes[m]]
        /\ UNCHANGED <<blocks, extra>>
    BY <1>1 DEF DeleteNode, Start
  <1>3. ASSUME NEW b, b \in {nodes[n].data, nodes[n].sub}
        PROVE  Listed(calls, b, Settling)
    <2>1. DOMAIN calls = 1 .. 2
      BY <1>1
    <2>2. \E i \in 1 .. 2, op \in Settling : calls[i] = Call(op, b)
      BY <1>1, <1>3 DEF Settling, Dropping
    <2>3. \A op : Call(op, b).bid = b /\ Call(op, b).op = op
      BY DEF Call
    <2> QED BY <2>1, <2>2, <2>3 DEF Listed
  <1>4. ASSUME NEW b, b \notin {nodes[n].data, nodes[n].sub}
        PROVE  NodeRefs(nodes', b) = NodeRefs(nodes, b)
    <2>1. {m \in DOMAIN nodes' : nodes'[m].data = b} = {m \in DOMAIN nodes : nodes[m].data = b}
      BY <1>2, <1>4
    <2>2. {m \in DOMAIN nodes' : nodes'[m].sub = b} = {m \in DOMAIN nodes : nodes[m].sub = b}
      BY <1>2, <1>4
    <2> QED BY <2>1, <2>2 DEF NodeRefs
  <1>5. \A b \in DOMAIN blocks :
          NodeRefs(nodes', b) = NodeRefs(nodes, b) \/ Listed(calls, b, Settling)
    BY <1>3, <1>4
  <1> QED BY <1>2, <1>5, NodesPrecise

\* A step of a cascade: counts are right, or were listed and still are.
LEMMA CascadePrecise ==
  ASSUME IInv, PreciseNow, faults = {}, todo # <<>>, NEW calls \in Seq(CallRecord),
         Continue(calls), nodes' = nodes,
         DOMAIN blocks' \subseteq DOMAIN blocks,
         \A b \in BID : extra'["opaque"][b] = extra["opaque"][b],
         \A b \in DOMAIN blocks' :
           \/ blocks'[b] = 1 + NodeRefs(nodes, b) + TreeRefs(extra', b)
           \/ Listed(calls, b, Settling)
           \/ /\ blocks'[b] = blocks[b] /\ TreeRefs(extra', b) = TreeRefs(extra, b)
              /\ ~ (Head(todo).bid = b /\ Head(todo).op \in Settling)
  PROVE  Explained(extra') /\ Exact(nodes', blocks', extra', todo')
  <1>1. Explained(extra) /\ Exact(nodes, blocks, extra, todo)
    BY DEF PreciseNow
  <1>2. Explained(extra')
    BY <1>1 DEF Explained
  <1>3. ASSUME NEW b \in DOMAIN blocks'
        PROVE  \/ blocks'[b] = 1 + NodeRefs(nodes', b) + TreeRefs(extra', b)
               \/ Listed(todo', b, Settling)
    <2>1. PICK t, u : t = todo /\ u = todo'
      OBVIOUS
    <2>2. t \in Seq(CallRecord) /\ t # <<>> /\ u = calls \o Tail(t)
      BY <2>1 DEF IInv, QueuedNow, Queued, Continue
    <2>3. /\ Listed(calls, b, Settling) => Listed(u, b, Settling)
          /\ Listed(t, b, Settling) => \/ Listed(u, b, Settling)
                                       \/ Head(t).bid = b /\ Head(t).op \in Settling
      BY <2>2, ContinueListed
    <2>4. \/ blocks[b] = 1 + NodeRefs(nodes, b) + TreeRefs(extra, b)
          \/ Listed(t, b, Settling)
      BY <1>1, <1>3, <2>1 DEF Exact
    <2>5. \/ blocks'[b] = 1 + NodeRefs(nodes, b) + TreeRefs(extra', b)
          \/ Listed(calls, b, Settling)
          \/ /\ blocks'[b] = blocks[b] /\ TreeRefs(extra', b) = TreeRefs(extra, b)
             /\ ~ (Head(t).bid = b /\ Head(t).op \in Settling)
      BY <1>3, <2>1
    <2> QED BY <2>1, <2>3, <2>4, <2>5
  <1> QED BY <1>2, <1>3 DEF Exact

LEMMA ResyncPrecise ==
  ASSUME IInv, PreciseNow, CountsFit, faults = {}, todo # <<>>, NEW calls \in Seq(CallRecord),
         Continue(calls), blocks' = Resynced(Head(todo).bid), UNCHANGED <<nodes, extra>>
  PROVE  Explained(extra') /\ Exact(nodes', blocks', extra', todo')
  <1>1. DOMAIN blocks' = DOMAIN blocks
    BY DEF Resynced
  <1>2. ASSUME NEW b \in DOMAIN blocks'
        PROVE  \/ blocks'[b] = 1 + NodeRefs(nodes, b) + TreeRefs(extra', b)
               \/ blocks'[b] = blocks[b] /\ Head(todo).bid # b
    <2>1. CASE Head(todo).bid = b
      BY <1>1, <1>2, <2>1, ComputeExact DEF Resynced
    <2>2. CASE Head(todo).bid # b
      BY <1>1, <1>2, <2>2 DEF Resynced
    <2> QED BY <2>1, <2>2
  <1> QED BY <1>1, <1>2, CascadePrecise

LEMMA DropBlockPrecise ==
  ASSUME IInv, PreciseNow, faults = {}, dropBlock
  PROVE  Explained(extra') /\ Exact(nodes', blocks', extra', todo')
  <1>1. PICK b : b = Head(todo).bid
    OBVIOUS
  <1>2. /\ Runs("dropBlock") /\ todo # <<>> /\ Ownerless(nodes, extra, b) /\ nodes' = nodes
    BY <1>1, FirstCall DEF IInv, dropBlock
  <1>3. CASE b \in DOMAIN blocks
    <2>1. PICK kids \in treeChildRefs(b) :
            Forget(b) /\ Continue([i \in DOMAIN kids |-> Release(kids[i])])
      BY <1>1, <1>3 DEF dropBlock
    <2>2. PICK calls : calls = [i \in DOMAIN kids |-> Release(kids[i])]
      OBVIOUS
    <2>3. b \in BID /\ extra' = extra /\ DOMAIN blocks' = DOMAIN blocks \ {b}
      BY <1>2, <1>3, <2>1, ForgetSound DEF IInv
    <2>4. kids \in Seq(Ref)
      <3>1. payload[b] \in Seq(Ref)
        BY <2>3 DEF IInv, SoundNow, Sound, Shaped
      <3>2. kids = payload[b]
        BY DEF treeChildRefs
      <3> QED BY <3>1, <3>2
    <2>5. calls \in Seq(CallRecord) /\ Continue(calls)
      BY <2>1, <2>2, <2>4, OwedReleases
    <2>6. \A c \in DOMAIN blocks' : blocks'[c] = blocks[c] /\ c # b
      BY <2>1, <2>3 DEF Forget
    <2> QED BY <1>1, <1>2, <2>3, <2>5, <2>6, CascadePrecise
  <1>4. CASE b \notin DOMAIN blocks
    <2>1. Continue(<<>>) /\ blocks' = blocks /\ extra' = extra /\ <<>> \in Seq(CallRecord)
      BY <1>1, <1>4 DEF dropBlock
    <2> QED BY <1>1, <1>2, <1>4, <2>1, CascadePrecise
  <1> QED BY <1>3, <1>4

LEMMA ReleaseExtraPrecise ==
  ASSUME IInv, PreciseNow, faults = {}, releaseExtra
  PROVE  Explained(extra') /\ Exact(nodes', blocks', extra', todo')
  <1>1. PICK k, b : k = Head(todo).kind /\ b = Head(todo).bid
    OBVIOUS
  <1>2. /\ b \in BID /\ k \in TypedKind /\ extra[k][b] \in Nat \ {0}
        /\ todo # <<>> /\ Head(todo).op = "releaseExtra"
    <2>1. Runs("releaseExtra")
      BY DEF releaseExtra
    <2> QED BY <1>1, <2>1, OwedIsCounted DEF Runs
  <1>3. PICK calls : calls = <<Call("resyncAfterDrop", b)>>
    OBVIOUS
  <1>4. /\ extra' = [extra EXCEPT ![k][b] = @ - 1] /\ Continue(calls)
        /\ UNCHANGED <<nodes, blocks>>
    <2>1. extra[k][b] > 0
      BY <1>2
    <2> QED BY <1>1, <1>3, <2>1 DEF releaseExtra
  <1>5. calls \in Seq(CallRecord)
    BY <1>2, <1>3, DropCall
  <1>6. Listed(calls, b, Settling)
    BY <1>3 DEF Listed, Call, Settling, Dropping
  <1>7. extra \in [Kind -> [BID -> Nat]] /\ DOMAIN blocks \subseteq BID
    BY CatalogAssumption DEF IInv, SoundNow, Sound, Shaped, BID
  <1>8. \A j \in Kind, c \in BID : j # k \/ c # b => extra'[j][c] = extra[j][c]
    BY <1>4, <1>7
  <1>9. \A c \in BID : extra'["opaque"][c] = extra["opaque"][c]
    BY <1>2, <1>8 DEF Kind, TypedKind
  <1>10. \A c \in BID : c # b => TreeRefs(extra', c) = TreeRefs(extra, c)
    BY <1>8 DEF TreeRefs, Kind
  <1>11. Head(todo).op \notin Settling
    BY <1>2 DEF Settling, Dropping
  <1> QED BY <1>2, <1>4, <1>5, <1>6, <1>7, <1>9, <1>10, <1>11, CascadePrecise

\* CheckRefCounts lets through only counts that hydrateNDB accepts.
LEMMA EncodePrecise ==
  ASSUME IInv, PreciseNow, CountsFit, encode
  PROVE  /\ CountsAccepted(image'[1])
         /\ faults = {} => \A b \in DOMAIN image'[1].blocks : OpaqueRefs(image'[1], b) = 0
  <1>1. PICK img : img = image'[1]
    OBVIOUS
  <1>2. /\ Runs("encode") /\ CheckRefCounts /\ Encoded(img)
    BY <1>1, EncodeIs DEF encode
  <1>3. /\ todo = <<Head(todo)>> /\ Head(todo).op = "encode" /\ ownedBlocks = DOMAIN blocks
        /\ \A b \in DOMAIN blocks : ~ Ownerless(nodes, extra, b)
    BY <1>2, EncodeReady DEF Runs
  <1>4. /\ img.nodes = nodes /\ img.payload = payload
        /\ DOMAIN img.blocks = DOMAIN blocks /\ \A b \in DOMAIN blocks : img.blocks[b] = blocks[b]
    BY <1>2, <1>3 DEF Encoded
  <1>5. /\ DOMAIN blocks \subseteq BID /\ extra \in [Kind -> [BID -> Nat]]
        /\ IsFiniteSet(DOMAIN nodes)
    BY CatalogAssumption DEF IInv, SoundNow, Sound, Shaped, BID
  <1>6. \A k, b : Cardinality(Owed(todo, k, b)) = 0
    <2>1. \A k, b : Owed(todo, k, b) = {}
      BY <1>3 DEF Owed
    <2> QED BY <2>1, FS_EmptySet
  <1>7. ASSUME NEW b \in DOMAIN blocks
        PROVE  /\ img.blocks[b] >= 2 /\ OpaqueRefs(img, b) >= 0
               /\ faults = {} => OpaqueRefs(img, b) = 0
    <2>1. PICK n, d, s, o, ld, ls :
            /\ n = NodeRefs(nodes, b)
            /\ d = extra["data"][b] /\ s = extra["sub"][b] /\ o = extra["opaque"][b]
            /\ ld = Cardinality(Links(DOMAIN blocks, payload, "data", b))
            /\ ls = Cardinality(Links(DOMAIN blocks, payload, "sub", b))
      OBVIOUS
    <2>2. n \in Nat /\ d \in Nat /\ s \in Nat /\ o \in Nat /\ ld \in Nat /\ ls \in Nat
      BY <1>5, <1>7, <2>1, NodeRefsZero, LinksFinite DEF Kind
    <2>3. img.blocks[b] = 1 + n + (d + s + o)
      BY <1>2, <1>4, <1>7, <2>1, ComputeExact DEF CheckRefCounts, TreeRefs
    <2>4. n + (d + s + o) # 0
      <3>1. ~ (n = 0 /\ d + s + o = 0)
        BY <1>3, <1>7, <2>1 DEF Ownerless, TreeRefs
      <3> QED BY <2>2, <3>1
    <2>5. Within(ld + 0, d, faults) /\ Within(ls + 0, s, faults)
      <3>1. \A k \in TypedKind :
              Within(Cardinality(Links(DOMAIN blocks, payload, k, b)) + Cardinality(Owed(todo, k, b)),
                     extra[k][b], faults)
        BY <1>5, <1>7 DEF IInv, SoundNow, Sound, Covered
      <3>2. \A k \in TypedKind :
              Within(Cardinality(Links(DOMAIN blocks, payload, k, b)) + 0, extra[k][b], faults)
        BY <1>6, <3>1
      <3> QED BY <2>1, <3>2 DEF TypedKind
    <2>6. OpaqueRefs(img, b) = img.blocks[b] - 1 - n - ld - ls
      BY <1>4, <2>1 DEF OpaqueRefs, NbtRefs, NodeRefs, TypedRefs
    <2>7. faults = {} => o = 0
      BY <1>5, <1>7, <2>1 DEF PreciseNow, Explained
    <2> QED BY <2>2, <2>3, <2>4, <2>5, <2>6, <2>7 DEF Within
  <1>8. \A m \in DOMAIN nodes : {nodes[m].data, nodes[m].sub} \ {0} \subseteq DOMAIN blocks
    BY <1>2 DEF CheckRefCounts
  <1> QED BY <1>1, <1>4, <1>7, <1>8 DEF CountsAccepted

LEMMA OpenNDBPrecise ==
  ASSUME IInv, PreciseImage, faults = {}, OpenNDB
  PROVE  Explained(extra') /\ Exact(nodes', blocks', extra', todo')
  <1>1. PICK img : img = image[1]
    OBVIOUS
  <1>2. /\ image # <<>> /\ nodes' = img.nodes /\ blocks' = img.blocks
        /\ extra' = [k \in Kind |-> [b \in BID |->
                       IF b \notin DOMAIN img.blocks THEN 0
                       ELSE IF k = "opaque" THEN OpaqueRefs(img, b) ELSE TypedRefs(img, k, b)]]
    BY <1>1 DEF OpenNDB
  <1>3. Shaped(img.nodes, img.blocks, [k \in Kind |-> NoRefs], img.payload, img.nextBID)
    BY <1>1, <1>2 DEF IInv, SoundImage
  <1>4. DOMAIN img.blocks \subseteq BID
    BY <1>3, CatalogAssumption DEF Shaped, BID
  <1>5. \A b \in DOMAIN img.blocks : OpaqueRefs(img, b) = 0
    BY <1>1, <1>2 DEF PreciseImage
  <1>6. Explained(extra')
    BY <1>2, <1>5 DEF Explained, Kind
  <1>7. ASSUME NEW b \in DOMAIN img.blocks
        PROVE  img.blocks[b] = 1 + NodeRefs(img.nodes, b) + TreeRefs(extra', b)
    <2>1. PICK c, n, ld, ls : /\ c = img.blocks[b] /\ n = NodeRefs(img.nodes, b)
                              /\ ld = TypedRefs(img, "data", b) /\ ls = TypedRefs(img, "sub", b)
      OBVIOUS
    <2>2. c \in Nat /\ n \in Nat /\ ld \in Nat /\ ls \in Nat
      BY <1>3, <1>7, <2>1, NodeRefsZero, LinksFinite DEF Shaped, TypedRefs
    <2>3. c - 1 - n - ld - ls = 0
      BY <1>5, <1>7, <2>1 DEF OpaqueRefs, NbtRefs, NodeRefs
    <2>4. TreeRefs(extra', b) = ld + ls + 0
      BY <1>2, <1>4, <1>5, <1>7, <2>1 DEF TreeRefs, Kind
    <2>5. c = 1 + n + (ld + ls + 0)
      BY <2>2, <2>3
    <2> QED BY <2>1, <2>4, <2>5
  <1> QED BY <1>2, <1>6, <1>7 DEF Exact

\* A transaction that starts keeps right counts, one that runs keeps them.
LEMMA SnapPrecise ==
  ASSUME PInv, UNCHANGED faults,
         \/ snap' = snap
         \/ snap' = <<>>
         \/ Idle /\ snap' = <<State>>
  PROVE  PreciseSnap'
  <1>1. CASE snap' = snap \/ snap' = <<>>
    BY <1>1 DEF PInv, PreciseSnap
  <1>2. CASE Idle /\ snap' = <<State>>
    <2>1. PICK s : s = State
      OBVIOUS
    <2>2. snap'[1] = s /\ s.nodes = nodes /\ s.blocks = blocks /\ s.extra = extra
      BY <1>2, <2>1 DEF State
    <2> QED BY <1>2, <2>2, IdleExact DEF PInv, PreciseSnap
  <1> QED BY <1>1, <1>2

LEMMA RestorePrecise ==
  ASSUME PInv, faults = {}, snap # <<>>, Restore, Abandon
  PROVE  Explained(extra') /\ Exact(nodes', blocks', extra', todo')
  BY DEF PInv, PreciseSnap, Restore, Abandon

LEMMA InitPInv == Init => PInv
  <1> SUFFICES ASSUME Init PROVE PInv
    OBVIOUS
  <1>1. Explained(extra) /\ Exact(nodes, blocks, extra, todo)
    BY DEF Init, Explained, Exact, NoRefs, Kind
  <1> QED BY <1>1 DEF Init, PInv, PreciseNow, PreciseSnap, PreciseImage

LEMMA CascadePInv ==
  ASSUME IInv, PInv, CountsFit, faults = {}, Cascade
  PROVE  Explained(extra') /\ Exact(nodes', blocks', extra', todo')
  <1> USE DEF PInv
  <1>1. CASE resyncRef
    <2>1. /\ todo # <<>> /\ Continue(<<>>) /\ <<>> \in Seq(CallRecord)
          /\ blocks' = Resynced(Head(todo).bid) /\ UNCHANGED <<nodes, extra>>
      BY <1>1 DEF resyncRef, Runs
    <2> QED BY <2>1, ResyncPrecise
  <1>2. CASE resyncAfterDrop
    <2>1. PICK calls : calls = IF Head(todo).bid \in DOMAIN blocks /\ Unowned(Head(todo).bid)
                               THEN <<Call("dropBlock", Head(todo).bid)>> ELSE <<>>
      OBVIOUS
    <2>2. /\ todo # <<>> /\ Continue(calls)
          /\ blocks' = Resynced(Head(todo).bid) /\ UNCHANGED <<nodes, extra>>
      BY <1>2, <2>1 DEF resyncAfterDrop, Runs
    <2>3. DOMAIN blocks \subseteq BID
      BY CatalogAssumption DEF IInv, SoundNow, Sound, Shaped, BID
    <2>4. calls \in Seq(CallRecord)
      <3>1. CASE Head(todo).bid \in DOMAIN blocks /\ Unowned(Head(todo).bid)
        BY <2>1, <2>3, <3>1, DropCall
      <3>2. CASE ~ (Head(todo).bid \in DOMAIN blocks /\ Unowned(Head(todo).bid))
        BY <2>1, <3>2, EmptySeq
      <3> QED BY <3>1, <3>2
    <2> QED BY <2>2, <2>4, ResyncPrecise
  <1>3. CASE dropBlock
    BY <1>3, DropBlockPrecise
  <1>4. CASE releaseExtra
    BY <1>4, ReleaseExtraPrecise
  <1>5. CASE encode
    <2>1. /\ todo = <<Head(todo)>> /\ Head(todo).op = "encode" /\ Tail(todo) = <<>>
      BY <1>5, EncodeReady DEF encode, Runs
    <2>2. UNCHANGED <<nodes, blocks, extra>> /\ Continue(<<>>) /\ todo # <<>>
      BY <1>5 DEF encode, Runs
    <2>3. Head(todo).op \notin Settling /\ <<>> \in Seq(CallRecord)
      BY <2>1 DEF Settling, Dropping
    <2> QED BY <2>2, <2>3, CascadePrecise
  <1>6. CASE encodeFails
    BY <1>6, EncodeReady, RestorePrecise DEF encodeFails
  <1> QED BY <1>1, <1>2, <1>3, <1>4, <1>5, <1>6 DEF Cascade

\* A transaction that starts keeps the catalog as it is.
LEMMA SnapStep ==
  ASSUME Next
  PROVE  snap' = snap \/ snap' = <<>> \/ (Idle /\ snap' = <<State>>)
  <1>1. CASE PutDataBlock \/ PutDataTree \/ OpenNDB
    BY <1>1 DEF PutDataBlock, PutDataTree, Stage, OpenNDB
  <1>2. CASE \E b, c \in DOMAIN blocks : PutSubnodeTree(<<b, c>>)
    BY <1>2 DEF PutSubnodeTree, Stage
  <1>3. CASE \E n \in NID, d, s \in DOMAIN blocks \cup {0}, t \in Transactional :
               PutNode(n, d, s, t)
    BY <1>3 DEF PutNode, Start
  <1>4. CASE \E n \in DOMAIN nodes, t \in Transactional : DeleteNode(n, t)
    BY <1>4 DEF DeleteNode, Start
  <1>5. CASE Commit
    BY <1>5 DEF Commit, Start
  <1>6. CASE Cascade
    BY <1>6 DEF Cascade, resyncRef, resyncAfterDrop, dropBlock, releaseExtra, encode,
                encodeFails, Continue, Abandon
  <1>7. CASE dropBlockFails
    BY <1>7 DEF dropBlockFails, Abandon
  <1> QED BY <1>1, <1>2, <1>3, <1>4, <1>5, <1>6, <1>7 DEF Next

\* Only serialising makes an image.
LEMMA ImageStep ==
  ASSUME Next
  PROVE  encode \/ image' = image \/ image' = <<>>
  <1>1. CASE PutDataBlock \/ PutDataTree \/ OpenNDB
    BY <1>1 DEF PutDataBlock, PutDataTree, Stage, OpenNDB, Outdated
  <1>2. CASE \E b, c \in DOMAIN blocks : PutSubnodeTree(<<b, c>>)
    BY <1>2 DEF PutSubnodeTree, Stage, Outdated
  <1>3. CASE \E n \in NID, d, s \in DOMAIN blocks \cup {0}, t \in Transactional :
               PutNode(n, d, s, t)
    BY <1>3 DEF PutNode, Outdated
  <1>4. CASE \E n \in DOMAIN nodes, t \in Transactional : DeleteNode(n, t)
    BY <1>4 DEF DeleteNode, Outdated
  <1>5. CASE Commit
    BY <1>5 DEF Commit, Outdated
  <1>6. CASE Cascade
    BY <1>6 DEF Cascade, resyncRef, resyncAfterDrop, dropBlock, releaseExtra, encodeFails
  <1>7. CASE dropBlockFails
    BY <1>7 DEF dropBlockFails
  <1> QED BY <1>1, <1>2, <1>3, <1>4, <1>5, <1>6, <1>7 DEF Next

LEMMA NextPInv == IInv /\ IInv' /\ PInv /\ CountsFit /\ CountsFit' /\ [Next]_vars => PInv'
  <1> SUFFICES ASSUME IInv, IInv', PInv, CountsFit, CountsFit', [Next]_vars PROVE PInv'
    OBVIOUS
  <1>1. CASE UNCHANGED vars
    BY <1>1 DEF vars, PInv, PreciseNow, PreciseSnap, PreciseImage, CountsAccepted, OpaqueRefs
  <1>2. CASE Next
    <2>1. faults' = faults
      BY <1>2 DEF Next
    <2>2. PreciseNow'
      <3> SUFFICES ASSUME faults = {}
                   PROVE  Explained(extra') /\ Exact(nodes', blocks', extra', todo')
        BY <2>1 DEF PreciseNow
      <3>1. CASE PutDataBlock
        BY <2>1, <3>1, PutsStaged, StagePrecise DEF PInv
      <3>2. CASE PutDataTree
        BY <2>1, <3>2, PutsStaged, StagePrecise DEF PInv
      <3>3. CASE \E b, c \in DOMAIN blocks : PutSubnodeTree(<<b, c>>)
        BY <2>1, <3>3, PutsStaged, StagePrecise DEF PInv
      <3>4. CASE \E n \in NID, d, s \in DOMAIN blocks \cup {0}, t \in Transactional :
                   PutNode(n, d, s, t)
        BY <3>4, PutNodePrecise DEF PInv
      <3>5. CASE \E n \in DOMAIN nodes, t \in Transactional : DeleteNode(n, t)
        BY <3>5, DeleteNodePrecise DEF PInv
      <3>6. CASE Commit
        <4>1. /\ Explained(extra)
              /\ \A b \in DOMAIN blocks : blocks[b] = 1 + NodeRefs(nodes, b) + TreeRefs(extra, b)
          BY <3>6, IdleExact DEF Commit, PInv
        <4>2. UNCHANGED <<nodes, blocks, extra>>
          BY <3>6 DEF Commit
        <4> QED BY <4>1, <4>2 DEF Exact
      <3>7. CASE OpenNDB
        BY <3>7, OpenNDBPrecise DEF PInv
      <3>8. CASE Cascade
        BY <3>8, CascadePInv
      <3>9. CASE dropBlockFails
        BY <3>9, RestorePrecise DEF dropBlockFails
      <3> QED BY <1>2, <3>1, <3>2, <3>3, <3>4, <3>5, <3>6, <3>7, <3>8, <3>9 DEF Next
    <2>3. PreciseSnap'
      BY <1>2, <2>1, SnapStep, SnapPrecise
    <2>4. PreciseImage'
      <3>1. encode \/ image' = image \/ image' = <<>>
        BY <1>2, ImageStep
      <3>2. CASE encode
        BY <2>1, <3>2, EncodePrecise DEF PInv, PreciseImage
      <3>3. CASE image' = image
        BY <2>1, <3>3 DEF PInv, PreciseImage
      <3>4. CASE image' = <<>>
        BY <3>4 DEF PreciseImage
      <3> QED BY <3>1, <3>2, <3>3, <3>4
    <2> QED BY <2>2, <2>3, <2>4 DEF PInv
  <1> QED BY <1>1, <1>2

LEMMA PInvHolds == Spec /\ []CountsFit => []PInv
  BY InitPInv, NextPInv, IInvHolds, PTL DEF Spec

\* While no count wraps, storage that works keeps every cRef equal to one for
\* the BBT entry, one for each node and one for each reference in a live
\* payload: the maps of addExtra and releaseExtra never drift from the bytes.
THEOREM CountsStayExact == Spec /\ []CountsFit => []RefCountsExact
  <1>1. IInv /\ PInv => RefCountsExact
    <2> SUFFICES ASSUME IInv, PInv, Idle, faults = {}, NEW b \in DOMAIN blocks
                 PROVE  blocks[b] = 1 + NbtRefs(State, b) + TypedRefs(State, "data", b)
                                      + TypedRefs(State, "sub", b)
      BY DEF RefCountsExact
    <2>1. Explained(extra) /\ blocks[b] = 1 + NodeRefs(nodes, b) + TreeRefs(extra, b)
      BY IdleExact DEF PInv
    <2>2. /\ b \in BID /\ IsFiniteSet(DOMAIN nodes) /\ todo = <<>>
      BY CatalogAssumption DEF IInv, SoundNow, Sound, Shaped, BID, Idle
    <2>3. PICK s : s = State
      OBVIOUS
    <2>4. s.nodes = nodes /\ s.blocks = blocks /\ s.payload = payload
      BY <2>3 DEF State
    <2>5. /\ NbtRefs(s, b) = NodeRefs(nodes, b)
          /\ \A k : TypedRefs(s, k, b) = Cardinality(Links(DOMAIN blocks, payload, k, b))
      BY <2>4 DEF NbtRefs, NodeRefs, TypedRefs
    <2>6. \A k \in TypedKind : Cardinality(Links(DOMAIN blocks, payload, k, b)) = extra[k][b]
      <3>1. ASSUME NEW k \in TypedKind
            PROVE  Cardinality(Links(DOMAIN blocks, payload, k, b)) = extra[k][b]
        <4>1. Within(Cardinality(Links(DOMAIN blocks, payload, k, b))
                       + Cardinality(Owed(todo, k, b)), extra[k][b], faults)
          BY <2>2 DEF IInv, SoundNow, Sound, Covered
        <4>2. /\ Cardinality(Owed(todo, k, b)) = 0
              /\ Cardinality(Links(DOMAIN blocks, payload, k, b)) \in Nat
          BY <2>2, OwedNothing, LinksFinite
        <4> QED BY <4>1, <4>2 DEF Within
      <3> QED BY <3>1
    <2>7. TreeRefs(extra, b) = TypedRefs(s, "data", b) + TypedRefs(s, "sub", b) + 0
      BY <2>1, <2>2, <2>5, <2>6 DEF TreeRefs, Explained, TypedKind
    <2>8. /\ NodeRefs(nodes, b) \in Nat /\ TypedRefs(s, "data", b) \in Nat
          /\ TypedRefs(s, "sub", b) \in Nat
      BY <2>2, <2>5, NodeRefsZero, LinksFinite
    <2> QED BY <2>1, <2>3, <2>5, <2>7, <2>8
  <1> QED BY <1>1, IInvHolds, PInvHolds, PTL

-----------------------------------------------------------------------------
(* Trees that walk *)

\* Every tree is valid: in the catalog, in the snapshot, and in the image.
WalksSnap == snap # <<>> => TreesWalk(DOMAIN snap[1].blocks, snap[1].payload)

WalksImage == image # <<>> => TreesWalk(DOMAIN image[1].blocks, image[1].payload)

WInv == TreesWalk(DOMAIN blocks, payload) /\ WalksSnap /\ WalksImage

\* The blocks in both catalogs keep their payload, and what it names is in the
\* second catalog.
Kept(live, bytes, live2, bytes2) ==
  \A c \in live \cap live2 :
    /\ bytes2[c] = bytes[c]
    /\ \A i \in DOMAIN bytes[c] : bytes[c][i].bid \in live2

LEMMA DataTreeKept ==
  ASSUME NEW live, NEW bytes, NEW live2, NEW bytes2, NEW b \in live \cap live2,
         Kept(live, bytes, live2, bytes2), DataTreeValid(live, bytes, b)
  PROVE  DataTreeValid(live2, bytes2, b)
  BY DEF Kept, DataTreeValid

\* The witness of a walk is what is left of the old one.
LEMMA TreeKept ==
  ASSUME NEW live, NEW bytes, NEW live2, NEW bytes2, NEW b \in live \cap live2,
         Kept(live, bytes, live2, bytes2), TreeValid(live, bytes, b)
  PROVE  TreeValid(live2, bytes2, b)
  <1>1. \A c \in live \cap live2 : SLBlock(bytes2, c) = SLBlock(bytes, c)
    BY DEF Kept, SLBlock
  <1>2. CASE ~ SLBlock(bytes, b)
    BY <1>1, <1>2, DataTreeKept DEF TreeValid
  <1>3. CASE SLBlock(bytes, b)
    <2>1. PICK met \in SUBSET live :
            /\ b \in met
            /\ \A p \in met : \A i \in DOMAIN bytes[p] :
                 LET c == bytes[p][i].bid
                 IN  /\ c \in live
                     /\ IF SLBlock(bytes, c)
                        THEN /\ c \in met \ {b}
                             /\ \A q \in met : \A j \in DOMAIN bytes[q] :
                                  bytes[q][j].bid = c => q = p /\ j = i
                        ELSE DataTreeValid(live, bytes, c)
      BY <1>3 DEF TreeValid, SubnodeTreeValid
    <2>2. PICK both : both = met \cap live2
      OBVIOUS
    <2>3. both \in SUBSET live2 /\ b \in both
      BY <2>1, <2>2
    <2>4. ASSUME NEW p \in both, NEW i \in DOMAIN bytes2[p], NEW c, c = bytes2[p][i].bid
          PROVE  /\ c \in live2
                 /\ IF SLBlock(bytes2, c)
                    THEN /\ c \in both \ {b}
                         /\ \A q \in both : \A j \in DOMAIN bytes2[q] :
                              bytes2[q][j].bid = c => q = p /\ j = i
                    ELSE DataTreeValid(live2, bytes2, c)
      <3>1. p \in met /\ p \in live \cap live2 /\ bytes2[p] = bytes[p]
        BY <2>1, <2>2, <2>4 DEF Kept
      <3>2. i \in DOMAIN bytes[p] /\ c = bytes[p][i].bid
        BY <2>4, <3>1
      <3>3. c \in live /\ c \in live2
        BY <2>1, <3>1, <3>2 DEF Kept
      <3>4. CASE SLBlock(bytes2, c)
        <4>1. SLBlock(bytes, c)
          BY <1>1, <3>3, <3>4
        <4>2. /\ c \in met \ {b}
              /\ \A q \in met : \A j \in DOMAIN bytes[q] :
                   bytes[q][j].bid = c => q = p /\ j = i
          BY <2>1, <3>1, <3>2, <4>1
        <4>3. \A q \in both : q \in met /\ bytes2[q] = bytes[q]
          BY <2>1, <2>2 DEF Kept
        <4> QED BY <2>2, <3>3, <3>4, <4>2, <4>3
      <3>5. CASE ~ SLBlock(bytes2, c)
        <4>1. ~ SLBlock(bytes, c)
          BY <1>1, <3>3, <3>5
        <4>2. DataTreeValid(live, bytes, c)
          BY <2>1, <3>1, <3>2, <4>1
        <4> QED BY <3>3, <3>5, <4>2, DataTreeKept
      <3> QED BY <3>4, <3>5
    <2>5. SubnodeTreeValid(live2, bytes2, b)
      BY <2>3, <2>4 DEF SubnodeTreeValid
    <2> QED BY <1>1, <1>3, <2>5 DEF TreeValid
  <1> QED BY <1>2, <1>3

\* A catalog that loses blocks and names none that it lost.
LEMMA TreesShrink ==
  ASSUME NEW live, NEW bytes, NEW live2 \in SUBSET live, NEW bytes2,
         TreesWalk(live, bytes), Kept(live, bytes, live2, bytes2)
  PROVE  TreesWalk(live2, bytes2)
  BY TreeKept DEF TreesWalk

\* A block without references is a valid tree.
LEMMA EmptyTree ==
  ASSUME NEW live, NEW bytes, NEW b, bytes[b] = <<>>
  PROVE  TreeValid(live, bytes, b)
  BY DEF TreeValid, SLBlock, DataTreeValid

\* Staging adds blocks that nothing named, the tree on top of them valid.
LEMMA StageWalks ==
  ASSUME IInv, TreesWalk(DOMAIN blocks, payload),
         NEW count \in Nat \ {0}, NEW refs, Stage(count, refs),
         TreeValid(DOMAIN blocks', payload', nextBID + count - 1)
  PROVE  TreesWalk(DOMAIN blocks', payload')
  <1>1. PICK fresh, top : fresh = nextBID .. nextBID + count - 1 /\ top = nextBID + count - 1
    OBVIOUS
  <1>2. /\ payload' = [b \in BID |-> IF b = top THEN refs
                                     ELSE IF b \in fresh THEN <<>> ELSE payload[b]]
        /\ DOMAIN blocks' = DOMAIN blocks \cup fresh /\ top <= MaxBID
    BY <1>1 DEF Stage
  <1>3. nextBID \in 1 .. MaxBID + 1 /\ DOMAIN blocks \subseteq 1 .. nextBID - 1
    BY DEF IInv, SoundNow, Sound, Shaped
  <1>4. fresh \subseteq BID /\ DOMAIN blocks \subseteq BID
        /\ \A b \in DOMAIN blocks : b # top /\ b \notin fresh
    BY <1>1, <1>2, <1>3, CatalogAssumption DEF BID
  <1>5. Kept(DOMAIN blocks, payload, DOMAIN blocks', payload')
    <2>1. \A p \in DOMAIN blocks : \A i \in DOMAIN payload[p] :
            payload[p][i].bid \in DOMAIN blocks
      BY ClosedCatalog DEF NoDanglingReference
    <2> QED BY <1>2, <1>4, <2>1 DEF Kept
  <1>6. ASSUME NEW b \in DOMAIN blocks'
        PROVE  TreeValid(DOMAIN blocks', payload', b)
    <2>1. CASE b \in DOMAIN blocks
      <3>1. TreeValid(DOMAIN blocks, payload, b)
        BY <2>1 DEF TreesWalk
      <3> QED BY <1>5, <1>6, <2>1, <3>1, TreeKept
    <2>2. CASE b \in fresh /\ b # top
      <3>1. payload'[b] = <<>>
        BY <1>2, <1>4, <2>2
      <3> QED BY <3>1, EmptyTree
    <2>3. CASE b = top
      BY <1>1, <2>3
    <2> QED BY <1>2, <1>6, <2>1, <2>2, <2>3
  <1> QED BY <1>6 DEF TreesWalk

\* What PutDataTree and PutSubnodeTree put on top.
LEMMA PutsWalk ==
  ASSUME IInv, ~ SharedSubnodes, TreesWalk(DOMAIN blocks, payload),
         \/ PutDataBlock \/ PutDataTree
         \/ \E b, c \in DOMAIN blocks : PutSubnodeTree(<<b, c>>)
  PROVE  TreesWalk(DOMAIN blocks', payload')
  <1>1. nextBID \in 1 .. MaxBID + 1 /\ MaxBID \in Nat
    BY CatalogAssumption DEF IInv, SoundNow, Sound, Shaped
  <1>2. CASE PutDataBlock
    <2>1. Stage(1, <<>>)
      BY <1>2 DEF PutDataBlock
    <2>2. nextBID <= MaxBID /\ payload'[nextBID] = <<>>
      BY <1>1, <2>1 DEF Stage, BID
    <2>3. TreeValid(DOMAIN blocks', payload', nextBID + 1 - 1)
      BY <1>1, <2>2, EmptyTree
    <2> QED BY <2>1, <2>3, StageWalks
  <1>3. CASE PutDataTree
    <2>1. PICK refs : refs = <<[bid |-> nextBID, kind |-> "data"],
                               [bid |-> nextBID + 1, kind |-> "data"]>>
      OBVIOUS
    <2>2. Stage(3, refs)
      BY <1>3, <2>1 DEF PutDataTree
    <2>3. /\ nextBID + 2 <= MaxBID /\ payload'[nextBID + 2] = refs
          /\ {nextBID, nextBID + 1} \subseteq DOMAIN blocks'
      BY <1>1, <2>2 DEF Stage, BID
    <2>4. /\ DOMAIN refs = {1, 2} /\ refs[1].bid = nextBID /\ refs[2].bid = nextBID + 1
          /\ refs[1].kind = "data" /\ refs[2].kind = "data"
      BY <2>1
    <2>5. ~ SLBlock(payload', nextBID + 2)
      BY <2>3, <2>4 DEF SLBlock
    <2>6. DataTreeValid(DOMAIN blocks', payload', nextBID + 2)
      BY <1>1, <2>3, <2>4 DEF DataTreeValid
    <2>7. TreeValid(DOMAIN blocks', payload', nextBID + 3 - 1)
      BY <1>1, <2>5, <2>6 DEF TreeValid
    <2> QED BY <2>2, <2>7, StageWalks
  <1>4. ASSUME NEW b \in DOMAIN blocks, NEW c \in DOMAIN blocks, PutSubnodeTree(<<b, c>>)
        PROVE  TreesWalk(DOMAIN blocks', payload')
    <2>1. PICK refs : refs = [i \in DOMAIN <<b, c>> |-> [bid |-> <<b, c>>[i], kind |-> "sub"]]
      OBVIOUS
    <2>2. Stage(1, refs) /\ SubnodeTreeValid(DOMAIN blocks', payload', nextBID)
      BY <1>4, <2>1 DEF PutSubnodeTree
    <2>3. nextBID <= MaxBID /\ payload'[nextBID] = refs
      BY <1>1, <2>2 DEF Stage, BID
    <2>4. 1 \in DOMAIN refs /\ refs[1].kind = "sub"
      BY <2>1
    <2>5. SLBlock(payload', nextBID)
      BY <2>3, <2>4 DEF SLBlock
    <2>6. TreeValid(DOMAIN blocks', payload', nextBID + 1 - 1)
      BY <1>1, <2>2, <2>5 DEF TreeValid
    <2> QED BY <2>2, <2>6, StageWalks
  <1> QED BY <1>2, <1>3, <1>4

\* A block that goes leaves the others as they are.
LEMMA ForgetWalks ==
  ASSUME IInv, NoDanglingReference', TreesWalk(DOMAIN blocks, payload), NEW b, Forget(b),
         payload' = payload \/ payload' = [payload EXCEPT ![b] = <<>>]
  PROVE  TreesWalk(DOMAIN blocks', payload')
  <1>1. DOMAIN blocks' = DOMAIN blocks \ {b}
    BY DEF Forget
  <1>2. \A c \in DOMAIN blocks' : payload'[c] = payload[c]
    BY <1>1, CatalogAssumption DEF IInv, SoundNow, Sound, Shaped, BID
  <1>3. \A p \in DOMAIN blocks' : \A i \in DOMAIN payload'[p] :
          payload'[p][i].bid \in DOMAIN blocks'
    BY DEF NoDanglingReference
  <1>4. Kept(DOMAIN blocks, payload, DOMAIN blocks', payload')
    BY <1>1, <1>2, <1>3 DEF Kept
  <1> QED BY <1>1, <1>4, TreesShrink

LEMMA CascadeWalks ==
  ASSUME IInv, NoDanglingReference', WInv, Cascade \/ dropBlockFails
  PROVE  TreesWalk(DOMAIN blocks', payload')
  <1>1. TreesWalk(DOMAIN blocks, payload)
    BY DEF WInv
  <1>2. CASE resyncRef \/ resyncAfterDrop
    <2>1. DOMAIN blocks' = DOMAIN blocks /\ payload' = payload
      BY <1>2 DEF resyncRef, resyncAfterDrop, Resynced
    <2> QED BY <1>1, <2>1
  <1>3. CASE releaseExtra
    BY <1>1, <1>3 DEF releaseExtra
  <1>4. CASE dropBlock
    BY <1>1, <1>4, ForgetWalks DEF dropBlock
  <1>5. CASE encode
    BY <1>1, <1>5 DEF encode
  <1>6. ASSUME snap # <<>>, Restore
        PROVE  TreesWalk(DOMAIN blocks', payload')
    BY <1>6 DEF WInv, WalksSnap, Restore
  <1>7. CASE encodeFails
    BY <1>6, <1>7, EncodeReady DEF encodeFails
  <1>8. CASE dropBlockFails
    <2>1. \/ snap # <<>> /\ Restore
          \/ Forget(Head(todo).bid) /\ payload' = payload
      BY <1>8 DEF dropBlockFails
    <2> QED BY <1>1, <1>6, <2>1, ForgetWalks
  <1> QED BY <1>2, <1>3, <1>4, <1>5, <1>7, <1>8 DEF Cascade

LEMMA NextWInv ==
  ~ SharedSubnodes /\ IInv /\ NoDanglingReference' /\ WInv /\ [Next]_vars => WInv'
  <1> SUFFICES ASSUME ~ SharedSubnodes, IInv, NoDanglingReference', WInv, [Next]_vars
               PROVE  WInv'
    OBVIOUS
  <1>1. CASE UNCHANGED vars
    BY <1>1 DEF vars, WInv, WalksSnap, WalksImage
  <1>2. CASE Next
    <2>1. TreesWalk(DOMAIN blocks', payload')
      <3>1. CASE PutDataBlock \/ PutDataTree \/ \E b, c \in DOMAIN blocks : PutSubnodeTree(<<b, c>>)
        BY <3>1, PutsWalk DEF WInv
      <3>2. CASE \E n \in NID, d, s \in DOMAIN blocks \cup {0}, t \in Transactional :
                   PutNode(n, d, s, t)
        BY <3>2 DEF WInv, PutNode
      <3>3. CASE \E n \in DOMAIN nodes, t \in Transactional : DeleteNode(n, t)
        BY <3>3 DEF WInv, DeleteNode
      <3>4. CASE Commit
        BY <3>4 DEF WInv, Commit
      <3>5. CASE OpenNDB
        BY <3>5 DEF WInv, WalksImage, OpenNDB
      <3>6. CASE Cascade \/ dropBlockFails
        BY <3>6, CascadeWalks
      <3> QED BY <1>2, <3>1, <3>2, <3>3, <3>4, <3>5, <3>6 DEF Next
    <2>2. WalksSnap'
      <3>1. CASE Idle /\ snap' = <<State>>
        <4>1. PICK s : s = State
          OBVIOUS
        <4>2. snap'[1] = s /\ s.blocks = blocks /\ s.payload = payload
          BY <3>1, <4>1 DEF State
        <4> QED BY <4>2 DEF WInv, WalksSnap
      <3>2. CASE snap' = snap \/ snap' = <<>>
        BY <3>2 DEF WInv, WalksSnap
      <3> QED BY <1>2, <3>1, <3>2, SnapStep
    <2>3. WalksImage'
      <3>1. CASE encode
        <4>1. PICK img : img = image'[1]
          OBVIOUS
        <4>2. Encoded(img) /\ ownedBlocks = DOMAIN blocks
          BY <3>1, <4>1, EncodeIs, EncodeReady DEF encode
        <4>3. DOMAIN img.blocks = DOMAIN blocks /\ img.payload = payload
          BY <4>2 DEF Encoded
        <4> QED BY <4>1, <4>3 DEF WInv, WalksImage
      <3>2. CASE image' = image \/ image' = <<>>
        BY <3>2 DEF WInv, WalksImage
      <3> QED BY <1>2, <3>1, <3>2, ImageStep
    <2> QED BY <2>1, <2>2, <2>3 DEF WInv
  <1> QED BY <1>1, <1>2

LEMMA InitWInv == Init => WInv
  BY DEF Init, WInv, TreesWalk, WalksSnap, WalksImage

LEMMA WInvHolds ==
  ASSUME ~ SharedSubnodes
  PROVE  Spec => []WInv
  <1>1. IInv /\ NoDanglingReference' /\ WInv /\ [Next]_vars => WInv'
    BY NextWInv
  <1> QED BY <1>1, InitWInv, IInvHolds, NothingDangles, PTL DEF Spec

\* While no count wraps and no caller builds a tree that names an SLBLOCK
\* twice, every file a commit writes can be opened again, whatever failed
\* before: hydrateNDB accepts the counts that CheckRefCounts lets through, and
\* each tree it validates is one that PutDataTree or PutSubnodeTree built.
THEOREM CommitsReopen ==
  ASSUME ~ SharedSubnodes
  PROVE  Spec /\ []CountsFit => []CommittedReopens
  <1>1. PInv /\ WInv => CommittedReopens
    BY DEF PInv, PreciseImage, WInv, WalksImage, CommittedReopens, OpenNDBAccepts
  <1>2. Spec => []WInv
    BY WInvHolds
  <1> QED BY <1>1, <1>2, PInvHolds, PTL

-----------------------------------------------------------------------------
(* When counts fit *)

\* A tree adds at most two references to one block for every block it takes,
\* so the block ids handed out bound what the counters hold.
Bounded(n, ex, nx) ==
  DOMAIN n \subseteq NID /\ \A b \in BID : TreeRefs(ex, b) <= 2 * (nx - 1)

BoundedSnap ==
  snap # <<>> => Bounded(snap[1].nodes, snap[1].extra, snap[1].nextBID)

\* The counts on file, once the nodes' references are taken off them.
BoundedImage ==
  image # <<>> =>
    /\ DOMAIN image[1].nodes \subseteq NID
    /\ \A b \in DOMAIN image[1].blocks :
         image[1].blocks[b] - 1 - NodeRefs(image[1].nodes, b) <= 2 * (image[1].nextBID - 1)

BInv == Bounded(nodes, extra, nextBID) /\ BoundedSnap /\ BoundedImage

\* Counts have room for two references from every node and every block.
RoomForAll ==
  IsFiniteSet(NID) /\ 1 + 2 * Cardinality(NID) + 2 * MaxBID < RefMod

LEMMA RoomFits ==
  ASSUME RoomForAll, IInv, Bounded(nodes, extra, nextBID)
  PROVE  CountsFit
  <1> SUFFICES ASSUME NEW b \in DOMAIN blocks
               PROVE  1 + nbtLiveRefs(b) + extraLiveRefs(b) < RefMod
    BY DEF CountsFit
  <1>1. b \in BID /\ nextBID \in 1 .. MaxBID + 1
    BY CatalogAssumption DEF IInv, SoundNow, Sound, Shaped, BID
  <1>2. PICK D, S : /\ D = {m \in DOMAIN nodes : nodes[m].data = b}
                    /\ S = {m \in DOMAIN nodes : nodes[m].sub = b}
    OBVIOUS
  <1>3. D \subseteq NID /\ S \subseteq NID /\ IsFiniteSet(NID)
    BY <1>2 DEF Bounded, RoomForAll
  <1>4. /\ Cardinality(D) <= Cardinality(NID) /\ Cardinality(S) <= Cardinality(NID)
        /\ Cardinality(D) \in Nat /\ Cardinality(S) \in Nat /\ Cardinality(NID) \in Nat
    BY <1>3, FS_Subset, FS_CardinalityType
  <1>5. nbtLiveRefs(b) = Cardinality(D) + Cardinality(S)
    BY <1>2 DEF nbtLiveRefs
  <1>6. extraLiveRefs(b) <= 2 * (nextBID - 1) /\ extraLiveRefs(b) \in Nat
    BY <1>1, UnownedIs, RefsNat DEF Bounded, IInv
  <1>7. extraLiveRefs(b) <= 2 * MaxBID
    BY <1>1, <1>6, CatalogAssumption
  <1> QED BY <1>4, <1>5, <1>6, <1>7, CatalogAssumption DEF RoomForAll

LEMMA StageBounded ==
  ASSUME IInv, Bounded(nodes, extra, nextBID), NEW count, NEW refs,
         Staged(count, refs), Stage(count, refs)
  PROVE  Bounded(nodes', extra', nextBID')
  <1>1. /\ count \in Nat \ {0} /\ refs \in Seq(Ref) /\ Len(refs) <= 2
        /\ nodes' = nodes /\ nextBID' = nextBID + count /\ nextBID \in Nat
    BY CatalogAssumption DEF Staged, Stage, IInv, SoundNow, Sound, Shaped
  <1>2. ASSUME NEW b \in BID
        PROVE  TreeRefs(extra', b) <= 2 * (nextBID' - 1)
    <2>1. /\ TreeRefs(extra', b) = TreeRefs(extra, b) + Count(refs, b)
          /\ TreeRefs(extra, b) \in Nat /\ Count(refs, b) \in Nat
      BY StageCounts
    <2>2. Count(refs, b) <= 2
      <3>1. {i \in DOMAIN refs : refs[i].bid = b} \in SUBSET (1 .. Len(refs))
        BY <1>1, LenProperties
      <3>2. IsFiniteSet(1 .. Len(refs)) /\ Cardinality(1 .. Len(refs)) = Len(refs)
        <4>1. Len(refs) \in Nat
          BY <1>1, LenProperties
        <4>2. Cardinality(1 .. Len(refs)) = IF 1 > Len(refs) THEN 0 ELSE Len(refs) - 1 + 1
          BY <4>1, FS_Interval
        <4>3. IsFiniteSet(1 .. Len(refs))
          BY <4>1, FS_Interval
        <4>4. CASE Len(refs) = 0
          BY <4>2, <4>3, <4>4
        <4>5. CASE Len(refs) # 0
          <5>1. ~ (1 > Len(refs)) /\ Len(refs) - 1 + 1 = Len(refs)
            BY <4>1, <4>5
          <5> QED BY <4>2, <4>3, <5>1
        <4> QED BY <4>4, <4>5
      <3>3. Count(refs, b) <= Len(refs)
        BY <3>1, <3>2, FS_Subset DEF Count
      <3> QED BY <1>1, <2>1, <3>3, LenProperties
    <2>3. TreeRefs(extra, b) <= 2 * (nextBID - 1)
      BY DEF Bounded
    <2> QED BY <1>1, <2>1, <2>2, <2>3
  <1> QED BY <1>1, <1>2 DEF Bounded

\* Fewer references on the counters.
LEMMA LessBounded ==
  ASSUME Bounded(nodes, extra, nextBID), nodes' = nodes, nextBID' = nextBID, nextBID \in Nat,
         \A b \in BID : TreeRefs(extra, b) \in Nat /\ TreeRefs(extra', b) \in Nat
                          /\ TreeRefs(extra', b) <= TreeRefs(extra, b)
  PROVE  Bounded(nodes', extra', nextBID')
  BY DEF Bounded

LEMMA TreeRefsNat ==
  ASSUME NEW ex \in [Kind -> [BID -> Nat]], NEW b \in BID
  PROVE  TreeRefs(ex, b) \in Nat
  BY DEF TreeRefs, Kind

LEMMA ForgetBounded ==
  ASSUME IInv, Bounded(nodes, extra, nextBID), NEW b, Forget(b), UNCHANGED <<nodes, nextBID>>
  PROVE  Bounded(nodes', extra', nextBID')
  <1>1. /\ extra \in [Kind -> [BID -> Nat]] /\ nextBID \in Nat
        /\ extra' = [k \in Kind |-> [extra[k] EXCEPT ![b] = 0]]
    BY CatalogAssumption DEF IInv, SoundNow, Sound, Shaped, Forget
  <1>2. \A c \in BID : TreeRefs(extra', c) = IF c = b THEN 0 ELSE TreeRefs(extra, c)
    BY <1>1 DEF TreeRefs, Kind
  <1>3. \A c \in BID : TreeRefs(extra, c) \in Nat
    BY <1>1, TreeRefsNat
  <1>4. \A c \in BID : TreeRefs(extra', c) \in Nat /\ TreeRefs(extra', c) <= TreeRefs(extra, c)
    BY <1>2, <1>3
  <1> QED BY <1>1, <1>3, <1>4, LessBounded

LEMMA ReleaseBounded ==
  ASSUME IInv, Bounded(nodes, extra, nextBID), releaseExtra
  PROVE  Bounded(nodes', extra', nextBID')
  <1>1. PICK k, b : k = Head(todo).kind /\ b = Head(todo).bid
    OBVIOUS
  <1>2. /\ b \in BID /\ k \in TypedKind /\ extra[k][b] \in Nat \ {0}
    <2>1. Runs("releaseExtra")
      BY DEF releaseExtra
    <2> QED BY <1>1, <2>1, OwedIsCounted DEF Runs
  <1>3. /\ extra' = [extra EXCEPT ![k][b] = @ - 1] /\ UNCHANGED <<nodes, nextBID>>
    <2>1. extra[k][b] > 0
      BY <1>2
    <2> QED BY <1>1, <2>1 DEF releaseExtra
  <1>4. extra \in [Kind -> [BID -> Nat]] /\ nextBID \in Nat
    BY CatalogAssumption DEF IInv, SoundNow, Sound, Shaped
  <1>5. \A j \in Kind, c \in BID : extra'[j][c] \in Nat /\ extra'[j][c] <= extra[j][c]
    <2>1. ASSUME NEW j \in Kind, NEW c \in BID
          PROVE  extra'[j][c] \in Nat /\ extra'[j][c] <= extra[j][c]
      <3>1. CASE j = k /\ c = b
        <4>1. extra'[j][c] = extra[k][b] - 1
          BY <1>3, <1>4, <3>1
        <4> QED BY <1>2, <3>1, <4>1
      <3>2. CASE ~ (j = k /\ c = b)
        <4>1. extra'[j][c] = extra[j][c]
          BY <1>3, <1>4, <3>2
        <4> QED BY <1>4, <4>1
      <3> QED BY <3>1, <3>2
    <2> QED BY <2>1
  <1>6. ASSUME NEW c \in BID
        PROVE  /\ TreeRefs(extra, c) \in Nat /\ TreeRefs(extra', c) \in Nat
               /\ TreeRefs(extra', c) <= TreeRefs(extra, c)
    <2>1. PICK d, s, o, dd, ss, oo :
            /\ d = extra["data"][c] /\ s = extra["sub"][c] /\ o = extra["opaque"][c]
            /\ dd = extra'["data"][c] /\ ss = extra'["sub"][c] /\ oo = extra'["opaque"][c]
      OBVIOUS
    <2>2. /\ d \in Nat /\ s \in Nat /\ o \in Nat /\ dd \in Nat /\ ss \in Nat /\ oo \in Nat
          /\ dd <= d /\ ss <= s /\ oo <= o
      BY <1>4, <1>5, <2>1 DEF Kind
    <2>3. TreeRefs(extra, c) = d + s + o /\ TreeRefs(extra', c) = dd + ss + oo
      BY <2>1 DEF TreeRefs
    <2> QED BY <2>2, <2>3
  <1> QED BY <1>3, <1>4, <1>6, LessBounded

\* Opening a file sets the counters to what its counts and payloads say.
LEMMA OpenNDBBounded ==
  ASSUME IInv, BoundedImage, OpenNDB
  PROVE  Bounded(nodes', extra', nextBID')
  <1>1. PICK img : img = image[1]
    OBVIOUS
  <1>2. /\ image # <<>> /\ nodes' = img.nodes /\ nextBID' = img.nextBID
        /\ extra' = [k \in Kind |-> [b \in BID |->
                       IF b \notin DOMAIN img.blocks THEN 0
                       ELSE IF k = "opaque" THEN OpaqueRefs(img, b) ELSE TypedRefs(img, k, b)]]
    BY <1>1 DEF OpenNDB
  <1>3. Shaped(img.nodes, img.blocks, [k \in Kind |-> NoRefs], img.payload, img.nextBID)
    BY <1>1, <1>2 DEF IInv, SoundImage
  <1>4. /\ DOMAIN img.nodes \subseteq NID
        /\ \A b \in DOMAIN img.blocks :
             img.blocks[b] - 1 - NodeRefs(img.nodes, b) <= 2 * (img.nextBID - 1)
    BY <1>1, <1>2 DEF BoundedImage
  <1>5. ASSUME NEW b \in BID
        PROVE  TreeRefs(extra', b) <= 2 * (img.nextBID - 1)
    <2>1. CASE b \notin DOMAIN img.blocks
      <3>1. TreeRefs(extra', b) = 0 + 0 + 0
        BY <1>2, <2>1 DEF TreeRefs, Kind
      <3>2. img.nextBID \in 1 .. MaxBID + 1
        BY <1>3 DEF Shaped
      <3> QED BY <3>1, <3>2, CatalogAssumption
    <2>2. CASE b \in DOMAIN img.blocks
      <3>1. PICK c, n, ld, ls : /\ c = img.blocks[b] /\ n = NodeRefs(img.nodes, b)
                                /\ ld = TypedRefs(img, "data", b) /\ ls = TypedRefs(img, "sub", b)
        OBVIOUS
      <3>2. c \in Nat /\ n \in Nat /\ ld \in Nat /\ ls \in Nat
        BY <1>3, <2>2, <3>1, NodeRefsZero, LinksFinite DEF Shaped, TypedRefs
      <3>3. OpaqueRefs(img, b) = c - 1 - n - ld - ls
        BY <3>1 DEF OpaqueRefs, NbtRefs, NodeRefs
      <3>4. TreeRefs(extra', b) = ld + ls + (c - 1 - n - ld - ls)
        BY <1>2, <2>2, <3>1, <3>3 DEF TreeRefs, Kind
      <3>5. TreeRefs(extra', b) = c - 1 - n
        BY <3>2, <3>4
      <3> QED BY <1>4, <2>2, <3>1, <3>5
    <2> QED BY <2>1, <2>2
  <1> QED BY <1>2, <1>4, <1>5 DEF Bounded

\* Every step keeps the bound.
LEMMA NextBounded ==
  ASSUME IInv, BInv, Next
  PROVE  Bounded(nodes', extra', nextBID')
  <1> USE DEF BInv
  <1>1. CASE PutDataBlock
    BY <1>1, PutsStaged, StageBounded
  <1>2. CASE PutDataTree
    BY <1>2, PutsStaged, StageBounded
  <1>3. CASE \E b, c \in DOMAIN blocks : PutSubnodeTree(<<b, c>>)
    BY <1>3, PutsStaged, StageBounded
  <1>4. CASE \E n \in NID, d, s \in DOMAIN blocks \cup {0}, t \in Transactional :
               PutNode(n, d, s, t)
    BY <1>4 DEF PutNode, Bounded
  <1>5. CASE \E n \in DOMAIN nodes, t \in Transactional : DeleteNode(n, t)
    BY <1>5 DEF DeleteNode, Bounded
  <1>6. CASE Commit
    BY <1>6 DEF Commit, Bounded
  <1>7. CASE OpenNDB
    BY <1>7, OpenNDBBounded
  <1>8. CASE resyncRef \/ resyncAfterDrop \/ encode
    BY <1>8 DEF resyncRef, resyncAfterDrop, encode, Bounded
  <1>9. CASE dropBlock
    <2>1. CASE Head(todo).bid \in DOMAIN blocks
      BY <1>9, <2>1, ForgetBounded DEF dropBlock
    <2>2. CASE Head(todo).bid \notin DOMAIN blocks
      BY <1>9, <2>2 DEF dropBlock, Bounded
    <2> QED BY <2>1, <2>2
  <1>10. CASE releaseExtra
    BY <1>10, ReleaseBounded
  <1>11. CASE encodeFails
    <2>1. snap # <<>> /\ Restore
      BY <1>11, EncodeReady DEF encodeFails
    <2> QED BY <2>1 DEF Restore, BoundedSnap
  <1>12. CASE dropBlockFails
    <2>1. CASE snap # <<>> /\ Restore
      BY <2>1 DEF Restore, BoundedSnap
    <2>2. CASE Forget(Head(todo).bid) /\ UNCHANGED <<nodes, payload, extents, nextBID>>
      BY <2>2, ForgetBounded
    <2> QED BY <1>12, <2>1, <2>2 DEF dropBlockFails
  <1> QED BY <1>1, <1>2, <1>3, <1>4, <1>5, <1>6, <1>7, <1>8, <1>9, <1>10, <1>11, <1>12
          DEF Next, Cascade

LEMMA EncodeBounded ==
  ASSUME IInv, CountsFit, Bounded(nodes, extra, nextBID), encode
  PROVE  BoundedImage'
  <1>1. PICK img : img = image'[1]
    OBVIOUS
  <1>2. CheckRefCounts /\ Encoded(img)
    BY <1>1, EncodeIs DEF encode
  <1>3. /\ img.nodes = nodes /\ img.nextBID = nextBID
        /\ \A b \in DOMAIN img.blocks : b \in DOMAIN blocks /\ img.blocks[b] = blocks[b]
    BY <1>2 DEF Encoded, ownedBlocks
  <1>4. ASSUME NEW b \in DOMAIN img.blocks
        PROVE  img.blocks[b] - 1 - NodeRefs(img.nodes, b) <= 2 * (img.nextBID - 1)
    <2>1. b \in BID /\ extra \in [Kind -> [BID -> Nat]] /\ IsFiniteSet(DOMAIN nodes)
      BY <1>3, <1>4, CatalogAssumption DEF IInv, SoundNow, Sound, Shaped, BID
    <2>2. NodeRefs(nodes, b) \in Nat /\ TreeRefs(extra, b) \in Nat
      BY <2>1, NodeRefsZero, TreeRefsNat
    <2>3. blocks[b] = 1 + NodeRefs(nodes, b) + TreeRefs(extra, b)
      BY <1>2, <1>3, <1>4, ComputeExact DEF CheckRefCounts
    <2>4. TreeRefs(extra, b) <= 2 * (nextBID - 1)
      BY <2>1 DEF Bounded
    <2>5. blocks[b] - 1 - NodeRefs(nodes, b) = TreeRefs(extra, b)
      BY <2>2, <2>3
    <2> QED BY <1>3, <1>4, <2>4, <2>5
  <1> QED BY <1>1, <1>3, <1>4 DEF BoundedImage, Bounded

LEMMA NextBInv ==
  ASSUME RoomForAll, IInv, BInv, [Next]_vars
  PROVE  BInv'
  <1>1. CASE UNCHANGED vars
    BY <1>1 DEF vars, BInv, Bounded, BoundedSnap, BoundedImage
  <1>2. CASE Next
    <2>1. Bounded(nodes, extra, nextBID)' 
      BY <1>2, NextBounded
    <2>2. BoundedSnap'
      <3>1. CASE snap' = snap \/ snap' = <<>>
        BY <3>1 DEF BInv, BoundedSnap
      <3>2. CASE snap' = <<State>>
        <4>1. PICK s : s = State
          OBVIOUS
        <4>2. snap'[1] = s /\ s.nodes = nodes /\ s.extra = extra /\ s.nextBID = nextBID
          BY <3>2, <4>1 DEF State
        <4> QED BY <4>2 DEF BInv, BoundedSnap
      <3> QED BY <1>2, <3>1, <3>2, SnapStep
    <2>3. BoundedImage'
      <3>1. CASE encode
        BY <3>1, EncodeBounded, RoomFits DEF BInv
      <3>2. CASE image' = image \/ image' = <<>>
        BY <3>2 DEF BInv, BoundedImage
      <3> QED BY <1>2, <3>1, <3>2, ImageStep
    <2> QED BY <2>1, <2>2, <2>3 DEF BInv
  <1> QED BY <1>1, <1>2

LEMMA InitBInv == Init => BInv
  <1> SUFFICES ASSUME Init PROVE BInv
    OBVIOUS
  <1>1. DOMAIN nodes \subseteq NID /\ snap = <<>> /\ image = <<>> /\ nextBID = 1
    BY DEF Init
  <1>2. \A b \in BID : TreeRefs(extra, b) = 0
    BY DEF Init, NoRefs, TreeRefs, Kind
  <1> QED BY <1>1, <1>2 DEF BInv, Bounded, BoundedSnap, BoundedImage

\* Where every node and every block could name one block twice and the count
\* would still be a uint16, no count ever wraps, whatever fails.
THEOREM CountsStayFit ==
  ASSUME RoomForAll
  PROVE  Spec => []CountsFit
  <1>1. IInv /\ BInv => CountsFit
    BY RoomFits DEF BInv
  <1>2. IInv /\ BInv /\ [Next]_vars => BInv'
    BY NextBInv
  <1> QED BY <1>1, <1>2, InitBInv, IInvHolds, PTL DEF Spec

\* Within that room the counts are exact, and where no caller builds a tree
\* that names an SLBLOCK twice commits reopen, without any hypothesis on the
\* behaviour.
THEOREM RoomyCatalog ==
  ASSUME RoomForAll
  PROVE  /\ Spec => []RefCountsExact
         /\ ~ SharedSubnodes => (Spec => []CommittedReopens)
  <1>1. Spec => []RefCountsExact
    BY CountsStayFit, CountsStayExact, PTL
  <1>2. ASSUME ~ SharedSubnodes
        PROVE  Spec => []CommittedReopens
    <2>1. Spec /\ []CountsFit => []CommittedReopens
      BY <1>2, CommitsReopen
    <2> QED BY <2>1, CountsStayFit, PTL
  <1> QED BY <1>1, <1>2
=============================================================================
