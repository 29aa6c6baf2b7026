---------------------------- MODULE ServiceProofs ----------------------------
(* Theorems about Service: what a request gets, what the server holds for   *)
(* its clients and the table that mount points implement.                   *)
EXTENDS Service, FiniteSetTheorems, WellFoundedInduction, TLAPS

-----------------------------------------------------------------------------
\* The inductive invariant.

Call == [path : Paths, factory : Factories \cup {None}]

Distinct(m) == \A i, j \in DOMAIN m : m[i].path = m[j].path => i = j
Ordered(m) == \A i, j \in DOMAIN m : i < j => Before(m[i].path, m[j].path)

MountsInv ==
    /\ mounts \in Seq(Item) /\ Distinct(mounts)
    /\ dirty \in BOOLEAN
    /\ ~dirty => Ordered(mounts)
    /\ mounting \in Seq(Call)

\* The server: its list has the clients that are accepted and not yet unmanaged.
Context == [at : {"new", "attached", "closing", "unmanaged", "freed"}, thread : Threads \cup {None}]
FilterCall ==
    [at : {"none", "func", "removed", "end"}, next : Clients \cup {None}, cookie : Nat,
     visited : SUBSET Clients, known : SUBSET Clients, dangling : BOOLEAN]

ServerTypes ==
    /\ clients \in Seq(Clients) /\ clients_cookie \in Nat
    /\ ctx \in [Clients -> Context] /\ used \in [Threads -> Nat] /\ filter \in FilterCall
    /\ socket \in Sources \cup {None} /\ sources \subseteq Sources

Listed(c) == ctx[c].at \in {"attached", "closing"}
ListInv == IsInjective(clients) /\ \A c \in Clients : Member(c) <=> Listed(c)

ThreadInv ==
    \A c \in Clients : /\ ctx[c].at = "new" => ctx[c].thread = None
                       /\ ctx[c].at = "unmanaged" => ctx[c].thread \in Threads

\* While the list has not changed, what comes up to the client that is filtered
\* was visited.
UpTo(c, seen) == \E i \in DOMAIN clients : clients[i] = c /\ \A j \in 1..i : clients[j] \in seen
FilterInv ==
    /\ filter.cookie <= clients_cookie
    /\ filter.at \in {"func", "removed"} =>
         /\ filter.next \in Clients
         /\ filter.cookie = clients_cookie => UpTo(filter.next, filter.visited)
    /\ \A c \in filter.known : ctx[c].at # "new"
    /\ FilterSafe /\ FilterVisitsAll

\* One source at a time: the socket is its.
SocketInv ==
    "second_source" \notin squirks =>
        "no_socket" \notin squirks /\ ((sources = {} /\ socket = None) \/ sources = {socket})

ServerInv == ServerTypes /\ ListInv /\ ThreadInv /\ ThreadsCounted /\ FilterInv /\ SocketInv
PlanInv ==
    /\ plan \in [connect : SUBSET Clients, thread : [Clients -> Threads \cup {None}],
                 filter : BOOLEAN, sources : Nat]
    /\ requests \in [Clients -> Seq([url : Paths \cup {<<>>}, matched : BOOLEAN])]

\* The factory: what a caller does, and whether it has a media.
MediaCall ==
    [at : {"idle", "found", "relock", "create", "constructed", "using", "failed", "finish", "unprepared"},
     key : Keys \cup {None}, media : Media \cup {None}, again : BOOLEAN]
Holding == {"found", "constructed", "using", "failed", "finish", "unprepared"}
MediaTable == [Media -> MediaRecord \cup {None}]

FactoryTypes ==
    /\ medias \in [Keys -> Media \cup {None}] /\ medias_lock \in Callers \cup {None}
    /\ md \in MediaTable /\ fc \in [Callers -> MediaCall]

\* What a caller has is not finalized, and only a media that has ended for good
\* is taken out of the cache.
Follows(x, d) ==
    /\ x.media # None <=> x.at \in Holding
    /\ x.at # "idle" => x.key \in Keys
    /\ x.media # None => d[x.media] # None
    /\ x.at = "unprepared" => ~can_be_shared(d[x.media])
CallInv == \A t \in Callers : Follows(fc[t], md)

\* Who makes a media has the lock of the cache, and found nothing there.
LockInv ==
    \A t \in Callers : /\ fc[t].at = "create" <=> medias_lock = t
                       /\ (fc[t].at = "create" /\ ~fc[t].again) => medias[fc[t].key] = None

InCache(c, d) ==
    \A k \in Keys : c[k] # None => k \in SharedKeys /\ d[c[k]] # None /\ d[c[k]].key = k
Uses(x, m) == x.media = m /\ x.at \in {"using", "failed"}
Holders(m) == {t \in Callers : Uses(fc[t], m)}
Configured(r) == (r.shared => r.key \in SharedKeys) /\ (r.hooked <=> ~r.reusable)
MediaInv ==
    \A m \in Media :
      md[m] # None => Configured(md[m]) /\ md[m].count = Cardinality(Holders(m))

FactoryInv ==
    FactoryTypes /\ CallInv /\ LockInv /\ InCache(medias, md) /\ MediaInv /\ CacheHasShared
-----------------------------------------------------------------------------
\* The order of paths.

(* Every set of naturals that is not empty has a least element.             *)
LEMMA LeastNatural ==
    ASSUME NEW I \in SUBSET Nat, I # {}
    PROVE  Min(I) \in I /\ \A y \in I : Min(I) <= y
<1> DEFINE R == OpToRel(<, Nat)
<1>1. PICK m \in I : \A y \in I : <<y, m>> \notin R
  <2>1. IsWellFoundedOn(R, Nat)
    BY NatLessThanWellFounded
  <2> HIDE DEF R
  <2> QED BY <2>1, WFMin
<1>2. \A y \in I : ~(y < m)
  BY <1>1 DEF OpToRel
<1>3. \A y \in I : m <= y
  BY <1>2
<1> QED BY <1>3 DEF Min

LEMMA PathsAre ==
    ASSUME NEW p \in Paths
    PROVE  p \in Seq(Nat) /\ Len(p) \in Nat \ {0} /\ p # <<>> /\ p[1] \in Nat
<1>1. p \in Seq(Nat) /\ p # <<>>
  BY ServiceAssumption DEF ServiceAssumption
<1> QED BY <1>1

LEMMA SameElements ==
    ASSUME NEW p \in Seq(Nat), NEW q \in Seq(Nat), Len(p) = Len(q), \A j \in 1..Len(p) : p[j] = q[j]
    PROVE  p = q
OBVIOUS

LEMMA LessTransitive ==
    ASSUME NEW a \in Nat, NEW b \in Nat, NEW c \in Nat, a < b, b < c
    PROVE  a < c
OBVIOUS

LEMMA NumberAt ==
    ASSUME NEW p \in Seq(Nat), NEW i \in 1..Len(p)
    PROVE  p[i] \in Nat
OBVIOUS

(* g_strcmp0 orders the paths.                                              *)
LEMMA BeforeIrreflexive ==
    ASSUME NEW p \in Seq(Nat)
    PROVE  ~Before(p, p)
BY DEF Before

LEMMA BeforeTransitive ==
    ASSUME NEW p \in Seq(Nat), NEW q \in Seq(Nat), NEW r \in Seq(Nat), Before(p, q), Before(q, r)
    PROVE  Before(p, r)
<1>1. PICK i \in 1..Len(q) :
        /\ \A j \in 1..(i - 1) : j <= Len(p) /\ p[j] = q[j]
        /\ i = Len(p) + 1 \/ (i <= Len(p) /\ p[i] < q[i])
  BY DEF Before
<1>2. PICK k \in 1..Len(r) :
        /\ \A j \in 1..(k - 1) : j <= Len(q) /\ q[j] = r[j]
        /\ k = Len(q) + 1 \/ (k <= Len(q) /\ q[k] < r[k])
  BY DEF Before
<1>3. i \in Nat /\ k \in Nat /\ Len(p) \in Nat /\ Len(q) \in Nat /\ Len(r) \in Nat
  OBVIOUS
<1>4. CASE i < k
  <2>1. i \in 1..Len(r) /\ q[i] = r[i]
    BY <1>2, <1>3, <1>4
  <2>2. ASSUME NEW j \in 1..(i - 1)
        PROVE  j <= Len(p) /\ p[j] = r[j]
    <3>1. j \in 1..(k - 1)
      BY <1>3, <1>4
    <3> QED BY <1>1, <1>2, <3>1
  <2> QED BY <1>1, <2>1, <2>2 DEF Before
<1>5. CASE i = k
  <2>1. \A j \in 1..(i - 1) : j <= Len(p) /\ p[j] = r[j]
    BY <1>1, <1>2, <1>3, <1>5
  <2>2. k <= Len(q) /\ q[k] < r[k]
    BY <1>1, <1>2, <1>3, <1>5
  <2>3. i = Len(p) + 1 \/ (i <= Len(p) /\ p[i] < r[i])
    <3>1. CASE i <= Len(p) /\ p[i] < q[i]
      <4>1. i \in 1..Len(p) /\ i \in 1..Len(q) /\ i \in 1..Len(r)
        BY <1>3, <1>5, <3>1
      <4>2. p[i] \in Nat /\ q[i] \in Nat /\ r[i] \in Nat
        <5> HIDE <1>1, <1>2
        <5> QED BY <4>1, NumberAt
      <4>3. p[i] < q[i] /\ q[i] < r[i] /\ i <= Len(p)
        BY <1>5, <2>2, <3>1
      <4>4. p[i] < r[i]
        BY <4>2, <4>3, LessTransitive
      <4> QED BY <4>3, <4>4
    <3> QED BY <1>1, <3>1
  <2> QED BY <1>2, <1>5, <2>1, <2>3 DEF Before
<1>6. CASE i > k
  <2>1. ASSUME NEW j \in 1..(k - 1)
        PROVE  j <= Len(p) /\ p[j] = r[j]
    <3>1. j \in 1..(i - 1)
      BY <1>3, <1>6
    <3> QED BY <1>1, <1>2, <3>1
  <2>2. k <= Len(p) /\ p[k] = q[k] /\ k <= Len(q)
    BY <1>1, <1>2, <1>3, <1>6
  <2>3. p[k] < r[k]
    BY <1>2, <1>3, <2>2
  <2> QED BY <2>1, <2>2, <2>3 DEF Before
<1> QED BY <1>3, <1>4, <1>5, <1>6

LEMMA BeforeTotal ==
    ASSUME NEW p \in Seq(Nat), NEW q \in Seq(Nat), p # q
    PROVE  Before(p, q) \/ Before(q, p)
<1> DEFINE I == {j \in Nat \ {0} : j > Len(p) \/ j > Len(q) \/ p[j] # q[j]}
           i == Min(I)
<1>1. Len(p) \in Nat /\ Len(q) \in Nat /\ Len(p) + 1 \in I /\ I \subseteq Nat
  OBVIOUS
<1>2. i \in I /\ \A y \in I : i <= y
  <2> HIDE DEF I
  <2> QED BY <1>1, LeastNatural
<1>3. /\ i \in Nat \ {0} /\ (i > Len(p) \/ i > Len(q) \/ p[i] # q[i])
      /\ \A j \in 1..(i - 1) : j <= Len(p) /\ j <= Len(q) /\ p[j] = q[j]
  <2> HIDE DEF i
  <2>1. i \in Nat \ {0} /\ (i > Len(p) \/ i > Len(q) \/ p[i] # q[i])
    BY <1>2
  <2>2. ASSUME NEW j \in 1..(i - 1)
        PROVE  j <= Len(p) /\ j <= Len(q) /\ p[j] = q[j]
    <3>1. j \in Nat \ {0} /\ ~(i <= j)
      BY <2>1
    <3>2. j \notin I
      BY <1>2, <3>1
    <3> QED BY <1>1, <3>1, <3>2
  <2> QED BY <2>1, <2>2
<1> HIDE DEF i, I
<1>4. CASE i > Len(p) /\ i > Len(q)
  <2>1. Len(p) = i - 1 /\ Len(q) = i - 1
    <3>1. Len(p) >= i - 1 /\ Len(q) >= i - 1
      <4>1. CASE i = 1
        BY <1>1, <4>1
      <4>2. CASE i # 1
        <5>1. i - 1 \in 1..(i - 1)
          BY <1>3, <4>2
        <5> QED BY <1>1, <1>3, <5>1
      <4> QED BY <4>1, <4>2
    <3> QED BY <1>1, <1>3, <1>4, <3>1
  <2>2. \A j \in 1..Len(p) : p[j] = q[j]
    BY <1>3, <2>1
  <2>3. p = q
    BY <2>1, <2>2
  <2> QED BY <2>3
<1>5. CASE i > Len(p) /\ i <= Len(q)
  <2>1. i = Len(p) + 1
    <3>1. CASE i = 1
      BY <1>1, <1>5, <3>1
    <3>2. CASE i # 1
      <4>1. i - 1 \in 1..(i - 1)
        BY <1>3, <3>2
      <4> QED BY <1>1, <1>3, <1>5, <4>1
    <3> QED BY <3>1, <3>2
  <2>2. i \in 1..Len(q)
    BY <1>1, <1>3, <1>5
  <2>3. Before(p, q)
    BY <1>3, <2>1, <2>2 DEF Before
  <2> QED BY <2>3
<1>6. CASE i <= Len(p) /\ i > Len(q)
  <2>1. i = Len(q) + 1
    <3>1. CASE i = 1
      BY <1>1, <1>6, <3>1
    <3>2. CASE i # 1
      <4>1. i - 1 \in 1..(i - 1)
        BY <1>3, <3>2
      <4> QED BY <1>1, <1>3, <1>6, <4>1
    <3> QED BY <3>1, <3>2
  <2>2. i \in 1..Len(p)
    BY <1>1, <1>3, <1>6
  <2>3. Before(q, p)
    BY <1>3, <2>1, <2>2 DEF Before
  <2> QED BY <2>3
<1>7. CASE i <= Len(p) /\ i <= Len(q)
  <2>1. i \in 1..Len(p) /\ i \in 1..Len(q) /\ p[i] # q[i]
    BY <1>1, <1>3, <1>7
  <2>2. p[i] \in Nat /\ q[i] \in Nat
    BY <2>1
  <2>3. CASE p[i] < q[i]
    <3>1. Before(p, q)
      BY <1>3, <1>7, <2>1, <2>3 DEF Before
    <3> QED BY <3>1
  <2>4. CASE q[i] < p[i]
    <3>1. Before(q, p)
      BY <1>3, <1>7, <2>1, <2>4 DEF Before
    <3> QED BY <3>1
  <2> QED BY <2>1, <2>2, <2>3, <2>4
<1> QED BY <1>1, <1>3, <1>4, <1>5, <1>6, <1>7

\* What comes first in a path sorts before the rest.
LEMMA BeforePrefix ==
    ASSUME NEW url \in Seq(Nat), NEW p \in Seq(Nat), NEW q \in Seq(Nat),
           Len(p) <= Len(url), \A j \in 1..Len(p) : p[j] = url[j],
           Len(q) <= Len(url), \A j \in 1..Len(q) : q[j] = url[j],
           Len(p) < Len(q)
    PROVE  Before(p, q)
<1> DEFINE i == Len(p) + 1
<1>1. i \in 1..Len(q)
  OBVIOUS
<1>2. \A j \in 1..(i - 1) : j <= Len(p) /\ p[j] = q[j]
  OBVIOUS
<1> QED BY <1>1, <1>2 DEF Before
-----------------------------------------------------------------------------
\* The sequence is sorted.

Lower(m, i) ==
    {j \in DOMAIN m : data_item_compare(m[j], m[i]) \/ (m[j].path = m[i].path /\ j <= i)}

LEMMA ItemPaths ==
    ASSUME NEW m \in Seq(Item)
    PROVE  /\ DOMAIN m = 1..Len(m) /\ Len(m) \in Nat
           /\ \A i \in DOMAIN m : m[i] \in Item /\ m[i].path \in Paths /\ m[i].path \in Seq(Nat) /\ m[i].factory \in Factories
<1>1. DOMAIN m = 1..Len(m) /\ Len(m) \in Nat /\ \A i \in DOMAIN m : m[i] \in Item
  OBVIOUS
<1>2. \A i \in DOMAIN m : m[i].path \in Paths /\ m[i].factory \in Factories
  BY <1>1 DEF Item
<1> QED BY <1>1, <1>2, PathsAre

LEMMA RankIs ==
    ASSUME NEW m \in Seq(Item), NEW i \in DOMAIN m
    PROVE  /\ IsFiniteSet(Lower(m, i)) /\ i \in Lower(m, i) /\ Rank(m, i) = Cardinality(Lower(m, i))
           /\ Rank(m, i) \in DOMAIN m
<1>1. DOMAIN m = 1..Len(m) /\ Len(m) \in Nat
  BY ItemPaths
<1>2. i \in Lower(m, i) /\ Lower(m, i) \subseteq 1..Len(m)
  BY <1>1 DEF Lower
<1>3. Rank(m, i) = Cardinality(Lower(m, i))
  BY DEF Rank, Lower
<1>4. IsFiniteSet(1..Len(m)) /\ Cardinality(1..Len(m)) = Len(m)
  <2>1. /\ IsFiniteSet(1..Len(m))
        /\ Cardinality(1..Len(m)) = IF 1 > Len(m) THEN 0 ELSE Len(m) - 1 + 1
    BY <1>1, FS_Interval
  <2> QED BY <1>1, <2>1
<1>5. IsFiniteSet(Lower(m, i)) /\ Cardinality(Lower(m, i)) <= Cardinality(1..Len(m))
  BY <1>2, <1>4, FS_Subset
<1>6. Cardinality(Lower(m, i)) \in Nat /\ Cardinality(Lower(m, i)) # 0
  <2>1. Cardinality(Lower(m, i)) \in Nat
    BY <1>5, FS_CardinalityType
  <2>2. Cardinality(Lower(m, i)) # 0
    BY <1>2, <1>5, FS_EmptySet
  <2> QED BY <2>1, <2>2
<1>7. Cardinality(Lower(m, i)) \in 1..Len(m)
  BY <1>1, <1>4, <1>5, <1>6
<1> QED BY <1>1, <1>2, <1>3, <1>5, <1>7

LEMMA RankOrder ==
    ASSUME NEW m \in Seq(Item), Distinct(m), NEW i \in DOMAIN m, NEW j \in DOMAIN m,
           Before(m[i].path, m[j].path)
    PROVE  Rank(m, i) < Rank(m, j)
<1>1. m[i].path \in Seq(Nat) /\ m[j].path \in Seq(Nat)
  BY ItemPaths
<1>2. Lower(m, i) \subseteq Lower(m, j)
  <2> SUFFICES ASSUME NEW k \in Lower(m, i)
               PROVE  k \in Lower(m, j)
    OBVIOUS
  <2>1. k \in DOMAIN m /\ m[k].path \in Seq(Nat)
    BY ItemPaths DEF Lower
  <2>2. Before(m[k].path, m[i].path) \/ m[k].path = m[i].path
    BY DEF Lower, data_item_compare
  <2>3. Before(m[k].path, m[j].path)
    BY <1>1, <2>1, <2>2, BeforeTransitive
  <2> QED BY <2>1, <2>3 DEF Lower, data_item_compare
<1>3. j \notin Lower(m, i)
  <2>1. ~Before(m[j].path, m[i].path)
    BY <1>1, BeforeTransitive, BeforeIrreflexive
  <2>2. m[j].path # m[i].path
    BY <1>1, BeforeIrreflexive
  <2> QED BY <2>1, <2>2 DEF Lower, data_item_compare
<1>4. /\ IsFiniteSet(Lower(m, j)) /\ j \in Lower(m, j)
      /\ Rank(m, i) = Cardinality(Lower(m, i)) /\ Rank(m, j) = Cardinality(Lower(m, j))
      /\ Rank(m, i) \in Nat /\ Rank(m, j) \in Nat
  <2>1. DOMAIN m \subseteq Nat
    BY ItemPaths
  <2> QED BY <2>1, RankIs
<1>5. Cardinality(Lower(m, i)) <= Cardinality(Lower(m, j)) /\ Cardinality(Lower(m, i)) # Cardinality(Lower(m, j))
  <2>1. /\ Cardinality(Lower(m, i)) <= Cardinality(Lower(m, j))
        /\ Cardinality(Lower(m, j)) = Cardinality(Lower(m, i)) => Lower(m, j) = Lower(m, i)
    BY <1>2, <1>4, FS_Subset
  <2> QED BY <1>3, <1>4, <2>1
<1> QED BY <1>4, <1>5

LEMMA RankOnto ==
    ASSUME NEW m \in Seq(Item), Distinct(m)
    PROVE  /\ \A i, j \in DOMAIN m : Rank(m, i) = Rank(m, j) => i = j
           /\ \A i, j \in DOMAIN m : Rank(m, i) < Rank(m, j) => Before(m[i].path, m[j].path)
           /\ \A k \in DOMAIN m : \E i \in DOMAIN m : Rank(m, i) = k
<1>1. DOMAIN m = 1..Len(m) /\ Len(m) \in Nat /\ \A i \in DOMAIN m : Rank(m, i) \in DOMAIN m
  BY ItemPaths, RankIs
<1>2. ASSUME NEW i \in DOMAIN m, NEW j \in DOMAIN m, i # j
      PROVE  Before(m[i].path, m[j].path) \/ Before(m[j].path, m[i].path)
  <2>1. m[i].path # m[j].path
    BY <1>2 DEF Distinct
  <2>2. m[i].path \in Seq(Nat) /\ m[j].path \in Seq(Nat)
    BY ItemPaths
  <2> QED BY <2>1, <2>2, BeforeTotal
<1>3. ASSUME NEW i \in DOMAIN m, NEW j \in DOMAIN m, Rank(m, i) = Rank(m, j)
      PROVE  i = j
  <2>1. ~Before(m[i].path, m[j].path) /\ ~Before(m[j].path, m[i].path)
    <3>1. Rank(m, i) \in Nat /\ Rank(m, j) \in Nat
      BY <1>1
    <3>2. ~(Rank(m, i) < Rank(m, j)) /\ ~(Rank(m, j) < Rank(m, i))
      BY <1>3, <3>1
    <3> QED BY <3>2, RankOrder
  <2> QED BY <1>2, <2>1
<1>4. ASSUME NEW i \in DOMAIN m, NEW j \in DOMAIN m, Rank(m, i) < Rank(m, j)
      PROVE  Before(m[i].path, m[j].path)
  <2>1. Rank(m, i) \in Nat /\ Rank(m, j) \in Nat
    BY <1>1
  <2>2. i # j /\ ~(Rank(m, j) < Rank(m, i))
    BY <1>4, <2>1
  <2>3. ~Before(m[j].path, m[i].path)
    BY <2>2, RankOrder
  <2> QED BY <1>2, <2>2, <2>3
<1>5. \A k \in DOMAIN m : \E i \in DOMAIN m : Rank(m, i) = k
  <2> DEFINE r == [i \in DOMAIN m |-> Rank(m, i)]
             S == DOMAIN m
  <2>1. r \in [S -> S] /\ \A i \in S : r[i] = Rank(m, i)
    BY <1>1
  <2>2. IsFiniteSet(S)
    BY <1>1, FS_Interval
  <2> HIDE DEF r
  <2>3. r \in Injection(S, S)
    BY <1>3, <2>1 DEF Injection, IsInjective
  <2>4. r \in Surjection(S, S)
    BY <2>2, <2>3, FS_Injection
  <2>5. \A k \in S : \E i \in S : r[i] = k
    BY <2>4 DEF Surjection
  <2> QED BY <2>1, <2>5
<1> QED BY <1>3, <1>4, <1>5

\* Two sequences with the same items.
Alike(s, m) ==
    /\ s \in Seq(Item) /\ Len(s) = Len(m)
    /\ \A k \in DOMAIN s : \E i \in DOMAIN m : s[k] = m[i]
    /\ \A i \in DOMAIN m : \E k \in DOMAIN s : s[k] = m[i]

(* Sorted has the same items in the order of their paths.                   *)
LEMMA SortedIs ==
    ASSUME NEW m \in Seq(Item), Distinct(m)
    PROVE  Alike(Sorted(m), m) /\ Distinct(Sorted(m)) /\ Ordered(Sorted(m))
<1> DEFINE at(k) == CHOOSE i \in DOMAIN m : Rank(m, i) = k
<1>1. /\ \A k \in DOMAIN m : at(k) \in DOMAIN m /\ Rank(m, at(k)) = k
      /\ \A i \in DOMAIN m : Rank(m, i) \in DOMAIN m /\ at(Rank(m, i)) = i
  <2>1. \A k \in DOMAIN m : at(k) \in DOMAIN m /\ Rank(m, at(k)) = k
    BY RankOnto
  <2>2. \A i \in DOMAIN m : Rank(m, i) \in DOMAIN m
    BY RankIs
  <2> HIDE DEF at
  <2> QED BY <2>1, <2>2, RankOnto
<1>2. Sorted(m) = [k \in DOMAIN m |-> m[at(k)]]
  BY DEF Sorted
<1> HIDE DEF at
<1>3. DOMAIN m = 1..Len(m) /\ Len(m) \in Nat /\ \A i \in DOMAIN m : m[i] \in Item
  BY ItemPaths
<1> DEFINE s == Sorted(m)
<1>4. /\ s \in Seq(Item) /\ Len(s) = Len(m) /\ DOMAIN s = DOMAIN m
      /\ \A k \in DOMAIN m : s[k] = m[at(k)]
  <2>1. /\ DOMAIN s = 1..Len(m) /\ s = [k \in 1..Len(m) |-> s[k]]
        /\ \A k \in DOMAIN m : s[k] = m[at(k)]
    BY <1>2, <1>3
  <2>2. \A k \in 1..Len(m) : s[k] \in Item
    BY <1>1, <1>3, <2>1
  <2> HIDE DEF s
  <2>3. s \in [1..Len(m) -> Item]
    BY <2>1, <2>2
  <2>4. s \in Seq(Item) /\ Len(s) = Len(m)
    BY <1>3, <2>3
  <2> QED BY <1>3, <2>1, <2>4
<1> HIDE DEF s
<1>5. Alike(s, m)
  <2>1. \A k \in DOMAIN s : \E i \in DOMAIN m : s[k] = m[i]
    BY <1>1, <1>4
  <2>2. \A i \in DOMAIN m : \E k \in DOMAIN s : s[k] = m[i]
    BY <1>1, <1>4
  <2> QED BY <1>4, <2>1, <2>2 DEF Alike
<1>6. Distinct(s)
  <2> SUFFICES ASSUME NEW j \in DOMAIN m, NEW k \in DOMAIN m, s[j].path = s[k].path
               PROVE  j = k
    BY <1>4 DEF Distinct
  <2>1. m[at(j)].path = m[at(k)].path /\ at(j) \in DOMAIN m /\ at(k) \in DOMAIN m
    BY <1>1, <1>4
  <2>2. at(j) = at(k)
    BY <2>1 DEF Distinct
  <2> QED BY <1>1, <2>2
<1>7. Ordered(s)
  <2> SUFFICES ASSUME NEW j \in DOMAIN m, NEW k \in DOMAIN m, j < k
               PROVE  Before(s[j].path, s[k].path)
    BY <1>4 DEF Ordered
  <2>1. at(j) \in DOMAIN m /\ at(k) \in DOMAIN m /\ Rank(m, at(j)) < Rank(m, at(k))
    BY <1>1
  <2>2. Before(m[at(j)].path, m[at(k)].path)
    BY <2>1, RankOnto
  <2> QED BY <1>4, <2>2
<1> QED BY <1>5, <1>6, <1>7 DEF s

(* What is in order is left as it is.                                       *)
LEMMA SortedStays ==
    ASSUME NEW m \in Seq(Item), Distinct(m), Ordered(m)
    PROVE  Sorted(m) = m
<1>1. DOMAIN m = 1..Len(m) /\ Len(m) \in Nat
  BY ItemPaths
<1>2. ASSUME NEW i \in DOMAIN m
      PROVE  Rank(m, i) = i
  <2>1. Lower(m, i) = 1..i
    <3>1. ASSUME NEW j \in DOMAIN m
          PROVE  j \in Lower(m, i) <=> j <= i
      <4>1. CASE j < i
        BY <1>1, <4>1 DEF Ordered, Lower, data_item_compare
      <4>2. CASE j = i
        BY <1>1, <4>2 DEF Lower
      <4>3. CASE j > i
        <5>1. Before(m[i].path, m[j].path)
          BY <1>1, <4>3 DEF Ordered
        <5>2. m[i].path \in Seq(Nat) /\ m[j].path \in Seq(Nat)
          BY ItemPaths
        <5>3. ~Before(m[j].path, m[i].path)
          BY <5>1, <5>2, BeforeTransitive, BeforeIrreflexive
        <5> QED BY <1>1, <4>3, <5>3 DEF Lower, data_item_compare
      <4> QED BY <1>1, <4>1, <4>2, <4>3
    <3>2. Lower(m, i) \subseteq DOMAIN m
      BY DEF Lower
    <3>3. Lower(m, i) \subseteq 1..i
      BY <1>1, <3>1, <3>2
    <3>4. 1..i \subseteq DOMAIN m
      BY <1>1
    <3>5. 1..i \subseteq Lower(m, i)
      BY <1>1, <3>1, <3>4
    <3> QED BY <3>3, <3>5
  <2>2. Cardinality(1..i) = i
    <3>1. Cardinality(1..i) = IF 1 > i THEN 0 ELSE i - 1 + 1
      BY <1>1, FS_Interval
    <3> QED BY <1>1, <3>1
  <2> QED BY <2>1, <2>2, RankIs
<1> DEFINE at(k) == CHOOSE i \in DOMAIN m : Rank(m, i) = k
<1>3. \A k \in DOMAIN m : at(k) = k
  BY <1>2
<1>4. Sorted(m) = [k \in DOMAIN m |-> m[at(k)]]
  BY DEF Sorted
<1> HIDE DEF at
<1>5. Sorted(m) = [k \in DOMAIN m |-> m[k]]
  BY <1>3, <1>4
<1> QED BY <1>1, <1>5

LEMMA CleanIs ==
    ASSUME NEW m \in Seq(Item), Distinct(m), NEW d \in BOOLEAN, ~d => Ordered(m)
    PROVE  Alike(Clean(m, d), m) /\ Distinct(Clean(m, d)) /\ Ordered(Clean(m, d))
<1>1. CASE d
  BY <1>1, SortedIs DEF Clean
<1>2. CASE ~d
  BY <1>2 DEF Clean, Alike
<1> QED BY <1>1, <1>2
-----------------------------------------------------------------------------
\* What is mounted and removed.

FactoryAt(m, p) ==
    IF \E i \in DOMAIN m : m[i].path = p THEN m[CHOOSE i \in DOMAIN m : m[i].path = p].factory ELSE None

LEMMA FactoryAtIs ==
    ASSUME NEW m \in Seq(Item), Distinct(m), NEW p
    PROVE  /\ \A i \in DOMAIN m : m[i].path = p => FactoryAt(m, p) = m[i].factory
           /\ (\A i \in DOMAIN m : m[i].path # p) => FactoryAt(m, p) = None
<1> DEFINE I(i) == i \in DOMAIN m /\ m[i].path = p
           c == CHOOSE i \in DOMAIN m : m[i].path = p
<1>1. ASSUME NEW i \in DOMAIN m, m[i].path = p
      PROVE  FactoryAt(m, p) = m[i].factory
  <2>1. c \in DOMAIN m /\ m[c].path = p
    BY <1>1
  <2>2. FactoryAt(m, p) = m[c].factory
    BY <1>1 DEF FactoryAt
  <2> HIDE DEF c
  <2>3. c = i
    BY <1>1, <2>1 DEF Distinct
  <2> QED BY <2>2, <2>3
<1>2. (\A i \in DOMAIN m : m[i].path # p) => FactoryAt(m, p) = None
  BY DEF FactoryAt
<1> QED BY <1>1, <1>2

\* What is alike is the same table.
LEMMA AlikeTable ==
    ASSUME NEW m \in Seq(Item), Distinct(m), NEW s, Alike(s, m), Distinct(s), NEW p
    PROVE  FactoryAt(s, p) = FactoryAt(m, p)
<1>1. s \in Seq(Item)
  BY DEF Alike
<1>2. CASE \E i \in DOMAIN m : m[i].path = p
  <2>1. PICK i \in DOMAIN m : m[i].path = p
    BY <1>2
  <2>2. PICK k \in DOMAIN s : s[k] = m[i]
    BY DEF Alike
  <2>3. FactoryAt(m, p) = m[i].factory
    BY <2>1, FactoryAtIs
  <2>4. FactoryAt(s, p) = s[k].factory
    BY <1>1, <2>1, <2>2, FactoryAtIs
  <2> QED BY <2>2, <2>3, <2>4
<1>3. CASE \A i \in DOMAIN m : m[i].path # p
  <2>1. \A k \in DOMAIN s : s[k].path # p
    BY <1>3 DEF Alike
  <2>2. FactoryAt(s, p) = None
    BY <1>1, <2>1, FactoryAtIs
  <2>3. FactoryAt(m, p) = None
    BY <1>3, FactoryAtIs
  <2> QED BY <2>2, <2>3
<1> QED BY <1>2, <1>3

\* The list l without its element i.
Shorter(l, i, rest, T) ==
    /\ rest \in Seq(T) /\ DOMAIN rest = 1..(Len(l) - 1)
    /\ \A k \in 1..(Len(l) - 1) : rest[k] = IF k < i THEN l[k] ELSE l[k + 1]

LEMMA RemoveAtIs ==
    ASSUME NEW T, NEW s \in Seq(T), NEW i \in DOMAIN s
    PROVE  Shorter(s, i, RemoveAt(s, i), T)
<1> DEFINE n == Len(s)
           a == SubSeq(s, 1, i - 1)
           b == SubSeq(s, i + 1, n)
           rest == RemoveAt(s, i)
<1>1. /\ n \in Nat /\ i \in 1..n /\ DOMAIN s = 1..n
      /\ a \in Seq(T) /\ Len(a) = i - 1 /\ \A k \in 1..(i - 1) : a[k] = s[k]
      /\ b \in Seq(T) /\ Len(b) = n - i /\ \A k \in 1..(n - i) : b[k] = s[i + k]
  OBVIOUS
<1>2. rest = a \o b
  BY DEF RemoveAt
<1> HIDE DEF n, a, b, rest
<1>3. /\ rest \in Seq(T) /\ DOMAIN rest = 1..(n - 1)
      /\ \A k \in 1..(i - 1) : rest[k] = a[k]
      /\ \A k \in 1..(n - i) : rest[(i - 1) + k] = b[k]
  <2>1. /\ a \o b \in Seq(T) /\ DOMAIN (a \o b) = 1..(Len(a) + Len(b))
        /\ \A k \in 1..Len(a) : (a \o b)[k] = a[k]
        /\ \A k \in 1..Len(b) : (a \o b)[Len(a) + k] = b[k]
    <3>1. a \in Seq(T) /\ b \in Seq(T)
      BY <1>1
    <3> QED BY <3>1
  <2>2. (i - 1) + (n - i) = n - 1
    BY <1>1
  <2> QED BY <1>1, <1>2, <2>1, <2>2
<1>4. ASSUME NEW k \in 1..(n - 1)
      PROVE  rest[k] = IF k < i THEN s[k] ELSE s[k + 1]
  <2>1. CASE k < i
    BY <1>1, <1>3, <2>1
  <2>2. CASE ~(k < i)
    <3>1. k - (i - 1) \in 1..(n - i) /\ k = (i - 1) + (k - (i - 1)) /\ i + (k - (i - 1)) = k + 1
      BY <1>1, <2>2
    <3>2. rest[k] = b[k - (i - 1)]
      BY <1>3, <3>1
    <3> QED BY <1>1, <2>2, <3>1, <3>2
  <2> QED BY <2>1, <2>2
<1> QED BY <1>3, <1>4 DEF Shorter, rest, n

\* Where the elements that stay go to.
LEMMA ShorterIs ==
    ASSUME NEW T, NEW s \in Seq(T), NEW i \in DOMAIN s, NEW r, Shorter(s, i, r, T)
    PROVE  /\ r \in Seq(T)
           /\ \A k \in DOMAIN r : \E j \in DOMAIN s : j # i /\ r[k] = s[j]
           /\ \A j \in DOMAIN s : j # i => \E k \in DOMAIN r : r[k] = s[j]
           /\ \A k, l \in DOMAIN r : \E x, y \in DOMAIN s :
                r[k] = s[x] /\ r[l] = s[y] /\ x # i /\ y # i /\ (x = y => k = l)
<1> DEFINE n == Len(s)
           from(k) == IF k < i THEN k ELSE k + 1
           to(k) == IF k < i THEN k ELSE k - 1
<1>1. n \in Nat /\ DOMAIN s = 1..n /\ i \in 1..n
  OBVIOUS
<1>2. r \in Seq(T) /\ DOMAIN r = 1..(n - 1) /\ \A k \in 1..(n - 1) : r[k] = s[from(k)]
  BY DEF Shorter
<1> HIDE DEF n
<1>3. \A k \in 1..(n - 1) : from(k) \in 1..n /\ from(k) # i
  BY <1>1
<1>4. \A j, k \in 1..(n - 1) : from(j) = from(k) => j = k
  BY <1>1
<1>5. \A k \in 1..n : k # i => to(k) \in 1..(n - 1) /\ from(to(k)) = k
  BY <1>1
<1> HIDE DEF from, to
<1>6. \A k \in DOMAIN r : \E j \in DOMAIN s : j # i /\ r[k] = s[j]
  BY <1>1, <1>2, <1>3
<1>7. \A j \in DOMAIN s : j # i => \E k \in DOMAIN r : r[k] = s[j]
  <2> SUFFICES ASSUME NEW j \in DOMAIN s, j # i
               PROVE  \E k \in DOMAIN r : r[k] = s[j]
    OBVIOUS
  <2>1. to(j) \in DOMAIN r /\ from(to(j)) = j
    BY <1>1, <1>2, <1>5
  <2>2. r[to(j)] = s[j]
    BY <1>2, <2>1
  <2> QED BY <2>1, <2>2
<1>8. ASSUME NEW k \in DOMAIN r, NEW l \in DOMAIN r
      PROVE  \E x, y \in DOMAIN s : r[k] = s[x] /\ r[l] = s[y] /\ x # i /\ y # i /\ (x = y => k = l)
  <2>1. r[k] = s[from(k)] /\ r[l] = s[from(l)]
    BY <1>2
  <2>2. from(k) \in DOMAIN s /\ from(k) # i /\ from(l) \in DOMAIN s /\ from(l) # i
    BY <1>1, <1>2, <1>3
  <2>3. from(k) = from(l) => k = l
    BY <1>2, <1>4
  <2> QED BY <2>1, <2>2, <2>3
<1> QED BY <1>2, <1>6, <1>7, <1>8

LEMMA ShorterDistinct ==
    ASSUME NEW s \in Seq(Item), Distinct(s), NEW i \in DOMAIN s, NEW l, Shorter(s, i, l, Item)
    PROVE  l \in Seq(Item) /\ Distinct(l) /\ \A k \in DOMAIN l : l[k].path # s[i].path
<1>1. /\ l \in Seq(Item)
      /\ \A k \in DOMAIN l : \E j \in DOMAIN s : j # i /\ l[k] = s[j]
      /\ \A k, h \in DOMAIN l : \E x, y \in DOMAIN s :
           l[k] = s[x] /\ l[h] = s[y] /\ x # i /\ y # i /\ (x = y => k = h)
  BY ShorterIs
<1>2. ASSUME NEW k \in DOMAIN l, NEW h \in DOMAIN l, l[k].path = l[h].path
      PROVE  k = h
  <2>1. PICK x \in DOMAIN s, y \in DOMAIN s : l[k] = s[x] /\ l[h] = s[y] /\ (x = y => k = h)
    BY <1>1
  <2>2. s[x].path = s[y].path
    BY <1>2, <2>1
  <2>3. x = y
    BY <2>2 DEF Distinct
  <2> QED BY <2>1, <2>3
<1>3. ASSUME NEW k \in DOMAIN l
      PROVE  l[k].path # s[i].path
  <2>1. PICK j \in DOMAIN s : j # i /\ l[k] = s[j]
    BY <1>1
  <2>2. s[j].path # s[i].path
    BY <2>1 DEF Distinct
  <2> QED BY <2>1, <2>2
<1>4. Distinct(l)
  BY <1>2 DEF Distinct
<1> QED BY <1>1, <1>3, <1>4

LEMMA ShorterTable ==
    ASSUME NEW s \in Seq(Item), Distinct(s), NEW i \in DOMAIN s, NEW l, Shorter(s, i, l, Item), NEW q
    PROVE  FactoryAt(l, q) = IF q = s[i].path THEN None ELSE FactoryAt(s, q)
<1>1. l \in Seq(Item) /\ Distinct(l) /\ \A k \in DOMAIN l : l[k].path # s[i].path
  BY ShorterDistinct
<1>2. /\ \A k \in DOMAIN l : \E j \in DOMAIN s : j # i /\ l[k] = s[j]
      /\ \A j \in DOMAIN s : j # i => \E k \in DOMAIN l : l[k] = s[j]
  BY ShorterIs
<1>3. CASE q = s[i].path
  <2>1. \A k \in DOMAIN l : l[k].path # q
    BY <1>1, <1>3
  <2>2. FactoryAt(l, q) = None
    BY <1>1, <2>1, FactoryAtIs
  <2> QED BY <1>3, <2>2
<1>4. CASE q # s[i].path /\ \A j \in DOMAIN s : s[j].path # q
  <2>1. ASSUME NEW k \in DOMAIN l
        PROVE  l[k].path # q
    <3>1. PICK j \in DOMAIN s : l[k] = s[j]
      BY <1>2
    <3> QED BY <1>4, <3>1
  <2>2. FactoryAt(l, q) = None
    BY <1>1, <2>1, FactoryAtIs
  <2>3. FactoryAt(s, q) = None
    BY <1>4, FactoryAtIs
  <2> QED BY <1>4, <2>2, <2>3
<1>5. CASE q # s[i].path /\ \E j \in DOMAIN s : s[j].path = q
  <2>1. PICK j \in DOMAIN s : s[j].path = q
    BY <1>5
  <2>2. j # i
    BY <1>5, <2>1
  <2>3. PICK k \in DOMAIN l : l[k] = s[j]
    BY <1>2, <2>2
  <2>4. l[k].path = q
    BY <2>1, <2>3
  <2>5. FactoryAt(l, q) = l[k].factory
    BY <1>1, <2>4, FactoryAtIs
  <2>6. FactoryAt(s, q) = s[j].factory
    BY <2>1, FactoryAtIs
  <2> QED BY <1>5, <2>3, <2>5, <2>6
<1> QED BY <1>3, <1>4, <1>5

LEMMA LookupIs ==
    ASSUME NEW m \in Seq(Item), Distinct(m), Ordered(m), NEW p
    PROVE  LET i == Lookup(m, p)
           IN  \/ i = 0 /\ \A j \in DOMAIN m : m[j].path # p
               \/ i \in DOMAIN m /\ i # 0 /\ m[i].path = p
<1> DEFINE I == {j \in 1..Len(m) : m[j].path = p}
           i == Lookup(m, p)
<1>1. DOMAIN m = 1..Len(m) /\ I \subseteq Nat
  BY ItemPaths
<1>2. i = IF I # {} THEN Min(I) ELSE 0
  BY SortedStays DEF Lookup, SelectInSeq
<1>3. I # {} => Min(I) \in I
  <2> HIDE DEF I
  <2> QED BY <1>1, LeastNatural
<1> HIDE DEF i
<1>4. CASE I = {}
  BY <1>1, <1>2, <1>4 DEF i
<1>5. CASE I # {}
  <2>1. i \in I
    BY <1>2, <1>3, <1>5
  <2>2. i \in DOMAIN m /\ i # 0 /\ m[i].path = p
    BY <1>1, <2>1
  <2> QED BY <2>2 DEF i
<1> QED BY <1>4, <1>5

\* The mount points after a call: mounted says what each path has.
Mounted(r, d) ==
    /\ r \in Seq(Item) /\ Distinct(r) /\ d \in BOOLEAN
    /\ ~d => Ordered(r)

LEMMA RemovedIs ==
    ASSUME NEW m \in Seq(Item), Distinct(m), NEW d \in BOOLEAN, ~d => Ordered(m), NEW p \in Paths
    PROVE  LET r == remove_factory_unlocked(m, d, p)
           IN  /\ Mounted(r.seq, r.dirty) /\ \A k \in DOMAIN r.seq : r.seq[k].path # p
               /\ \A q : FactoryAt(r.seq, q) = IF q = p THEN None ELSE FactoryAt(m, q)
<1> DEFINE s == Clean(m, d)
           i == Lookup(s, p)
           r == remove_factory_unlocked(m, d, p)
<1>1. s \in Seq(Item) /\ Distinct(s) /\ Ordered(s) /\ \A q : FactoryAt(s, q) = FactoryAt(m, q)
  <2>1. Alike(s, m) /\ Distinct(s) /\ Ordered(s)
    BY CleanIs
  <2> HIDE DEF s
  <2> QED BY <2>1, AlikeTable DEF Alike
<1>2. r = IF i = 0 THEN [seq |-> s, dirty |-> FALSE] ELSE [seq |-> RemoveAt(s, i), dirty |-> TRUE]
  BY DEF remove_factory_unlocked
<1> HIDE DEF r, s
<1>3. \/ i = 0 /\ \A j \in DOMAIN s : s[j].path # p
      \/ i \in DOMAIN s /\ i # 0 /\ s[i].path = p
  BY <1>1, LookupIs
<1> HIDE DEF i
<1>4. CASE i = 0
  <2>1. r.seq = s /\ r.dirty = FALSE /\ \A j \in DOMAIN s : s[j].path # p
    BY <1>2, <1>3, <1>4, <1>1
  <2>2. FactoryAt(s, p) = None
    BY <1>1, <2>1, FactoryAtIs
  <2>3. Mounted(r.seq, r.dirty)
    BY <1>1, <2>1 DEF Mounted
  <2> QED BY <1>1, <2>1, <2>2, <2>3 DEF r
<1>5. CASE i # 0
  <2> PICK l : l = RemoveAt(s, i)
    OBVIOUS
  <2>1. r.seq = l /\ r.dirty = TRUE /\ i \in DOMAIN s /\ s[i].path = p
    BY <1>2, <1>3, <1>5
  <2>2. Shorter(s, i, l, Item)
    BY <1>1, <2>1, RemoveAtIs
  <2>3. l \in Seq(Item) /\ Distinct(l) /\ \A k \in DOMAIN l : l[k].path # p
    BY <1>1, <2>1, <2>2, ShorterDistinct
  <2>6. \A q : FactoryAt(l, q) = IF q = p THEN None ELSE FactoryAt(s, q)
    BY <1>1, <2>1, <2>2, ShorterTable
  <2>7. Mounted(r.seq, r.dirty)
    BY <2>1, <2>3 DEF Mounted
  <2>8. \A q : FactoryAt(l, q) = IF q = p THEN None ELSE FactoryAt(m, q)
    BY <1>1, <2>6
  <2> QED BY <2>1, <2>3, <2>7, <2>8 DEF r
<1> QED BY <1>4, <1>5

LEMMA AddedIs ==
    ASSUME NEW m \in Seq(Item), Distinct(m), NEW d \in BOOLEAN, ~d => Ordered(m), NEW p \in Paths,
           NEW f \in Factories
    PROVE  LET r == Added(m, d, p, f)
           IN  /\ Mounted(r.seq, r.dirty)
               /\ \A q : FactoryAt(r.seq, q) = IF q = p THEN f ELSE FactoryAt(m, q)
<1> PICK r0 : r0 = remove_factory_unlocked(m, d, p)
  OBVIOUS
<1> PICK s : s = r0.seq
  OBVIOUS
<1>0. /\ Mounted(r0.seq, r0.dirty) /\ \A k \in DOMAIN r0.seq : r0.seq[k].path # p
      /\ \A q : FactoryAt(r0.seq, q) = IF q = p THEN None ELSE FactoryAt(m, q)
  BY RemovedIs
<1>1. /\ s \in Seq(Item) /\ Distinct(s) /\ \A k \in DOMAIN s : s[k].path # p
      /\ \A q : FactoryAt(s, q) = IF q = p THEN None ELSE FactoryAt(m, q)
  <2>1. Mounted(s, r0.dirty)
    BY <1>0
  <2>2. \A k \in DOMAIN s : s[k].path # p
    BY <1>0
  <2>3. \A q : FactoryAt(s, q) = IF q = p THEN None ELSE FactoryAt(m, q)
    BY <1>0
  <2> QED BY <2>1, <2>2, <2>3 DEF Mounted
<1> DEFINE x == [path |-> p, factory |-> f]
           l == Append(s, x)
           n == Len(s)
           r == Added(m, d, p, f)
<1>2. r.seq = l /\ r.dirty = TRUE
  BY DEF Added
<1>3. x \in Item /\ x.path = p /\ x.factory = f
  BY DEF Item
<1> HIDE DEF x
<1>4. /\ n \in Nat /\ DOMAIN s = 1..n
      /\ l \in Seq(Item) /\ DOMAIN l = 1..(n + 1) /\ l[n + 1] = x /\ \A k \in 1..n : l[k] = s[k]
  BY <1>1, <1>3
<1> HIDE DEF l, n, r
<1>5. \A k \in DOMAIN l : (k \in DOMAIN s /\ l[k] = s[k]) \/ (k = n + 1 /\ l[k] = x)
  BY <1>4
<1>6. n + 1 \in DOMAIN l /\ DOMAIN s \subseteq DOMAIN l
  BY <1>4
<1>7. Distinct(l)
  BY <1>1, <1>3, <1>5 DEF Distinct
<1>8. Mounted(r.seq, r.dirty)
  BY <1>2, <1>4, <1>7 DEF Mounted
<1>9. ASSUME NEW q
      PROVE  FactoryAt(l, q) = IF q = p THEN f ELSE FactoryAt(m, q)
  <2>1. CASE q = p
    BY <1>3, <1>4, <1>6, <1>7, <2>1, FactoryAtIs
  <2>2. CASE q # p /\ \A j \in DOMAIN s : s[j].path # q
    <3>1. \A k \in DOMAIN l : l[k].path # q
      BY <1>3, <1>5, <2>2
    <3>2. FactoryAt(l, q) = None
      BY <1>4, <1>7, <3>1, FactoryAtIs
    <3>3. FactoryAt(s, q) = None
      BY <1>1, <2>2, FactoryAtIs
    <3> QED BY <1>1, <2>2, <3>2, <3>3
  <2>3. CASE q # p /\ \E j \in DOMAIN s : s[j].path = q
    <3>1. PICK j \in DOMAIN s : s[j].path = q
      BY <2>3
    <3>2. j \in DOMAIN l /\ l[j] = s[j]
      BY <1>4, <1>6
    <3>3. FactoryAt(l, q) = l[j].factory
      BY <1>4, <1>7, <3>1, <3>2, FactoryAtIs
    <3>4. FactoryAt(s, q) = s[j].factory
      BY <1>1, <3>1, FactoryAtIs
    <3> QED BY <1>1, <2>3, <3>2, <3>3, <3>4
  <2> QED BY <2>1, <2>2, <2>3
<1> QED BY <1>2, <1>8, <1>9 DEF r
-----------------------------------------------------------------------------
\* What is matched.

LEMMA Greatest ==
    ASSUME NEW n \in Nat, NEW I \in SUBSET (1..n), I # {}
    PROVE  \E x \in I : \A y \in I : y <= x
<1> DEFINE J == {n - x : x \in I}
           z == Min(J)
<1>1. J \subseteq Nat /\ J # {}
  <2>1. \A x \in I : x \in 1..n /\ n - x \in Nat
    OBVIOUS
  <2>2. \E x \in I : n - x \in J
    OBVIOUS
  <2> QED BY <2>1, <2>2
<1>2. z \in J /\ \A y \in J : z <= y
  <2> HIDE DEF J
  <2> QED BY <1>1, LeastNatural
<1> HIDE DEF z
<1>3. PICK x \in I : z = n - x
  BY <1>2
<1>4. ASSUME NEW y \in I
      PROVE  y <= x
  <2>1. z <= n - y
    BY <1>2
  <2>2. x \in Nat /\ y \in Nat
    OBVIOUS
  <2> QED BY <1>3, <2>1, <2>2
<1> QED BY <1>4

\* A path that matches is how the url begins.
Begins(p, url) == Len(p) <= Len(url) /\ \A j \in 1..Len(p) : p[j] = url[j]

LEMMA PrefixBegins ==
    ASSUME NEW p \in Paths, NEW url \in Paths, has_prefix(url, p)
    PROVE  Begins(p, url)
<1>1. p \in Seq(Nat) /\ url \in Seq(Nat) /\ Len(p) \in Nat /\ Len(url) \in Nat
  BY PathsAre
<1>2. CASE p = <<Slash>> /\ url[1] = Slash
  <2>1. Len(p) = 1 /\ p[1] = Slash
    BY <1>2
  <2> QED BY <1>2, <2>1 DEF has_prefix, Begins
<1>3. CASE SubSeq(url, 1, Len(p)) = p
  <2>1. Len(p) <= Len(url)
    BY DEF has_prefix
  <2>2. \A j \in 1..Len(p) : SubSeq(url, 1, Len(p))[j] = url[j]
    BY <1>1, <2>1
  <2> QED BY <1>3, <2>1, <2>2 DEF Begins
<1> QED BY <1>2, <1>3 DEF has_prefix

LEMMA PrefixCovers ==
    ASSUME NEW p \in Paths, NEW url \in Paths
    PROVE  has_prefix(url, p) <=> Table!Covers(p, url)
<1>1. p \in Seq(Nat) /\ url \in Seq(Nat) /\ Len(p) \in Nat /\ Len(url) \in Nat /\ Len(url) >= 1
  BY PathsAre
<1>2. ASSUME has_prefix(url, p)
      PROVE  Table!Covers(p, url)
  <2>1. CASE p = <<Slash>> /\ url[1] = Slash
    BY <2>1 DEF Table!Covers
  <2>2. CASE (Len(url) > Len(p) => url[Len(p) + 1] = Slash) /\ SubSeq(url, 1, Len(p)) = p
    <3>1. CASE Len(url) > Len(p)
      BY <2>2, <3>1 DEF Table!Covers
    <3>2. CASE ~(Len(url) > Len(p))
      <4>1. Len(p) = Len(url)
        BY <1>1, <1>2, <3>2 DEF has_prefix
      <4>2. p = url
        BY <1>1, <2>2, <4>1
      <4> QED BY <4>2 DEF Table!Covers
    <3> QED BY <3>1, <3>2
  <2> QED BY <1>2, <2>1, <2>2 DEF has_prefix
<1>3. ASSUME Table!Covers(p, url)
      PROVE  has_prefix(url, p)
  <2>1. CASE p = url
    <3>1. SubSeq(url, 1, Len(p)) = p /\ Len(p) = Len(url)
      BY <1>1, <2>1
    <3> QED BY <1>1, <3>1 DEF has_prefix
  <2>2. CASE p = <<Slash>> /\ url[1] = Slash
    <3>1. Len(p) = 1
      BY <2>2
    <3> QED BY <1>1, <2>2, <3>1 DEF has_prefix
  <2>3. CASE Len(url) > Len(p) /\ url[Len(p) + 1] = Slash /\ SubSeq(url, 1, Len(p)) = p
    BY <1>1, <2>3 DEF has_prefix
  <2> QED BY <1>3, <2>1, <2>2, <2>3 DEF Table!Covers
<1> QED BY <1>2, <1>3

LEMMA BeginsOrder ==
    ASSUME NEW p \in Paths, NEW q \in Paths, NEW url \in Paths, Begins(p, url), Begins(q, url)
    PROVE  (Len(p) < Len(q) => Before(p, q)) /\ (Len(p) = Len(q) => p = q)
<1>1. p \in Seq(Nat) /\ q \in Seq(Nat) /\ url \in Seq(Nat)
  BY PathsAre
<1>2. Len(p) < Len(q) => Before(p, q)
  BY <1>1, BeforePrefix DEF Begins
<1>3. ASSUME Len(p) = Len(q)
      PROVE  p = q
  <2>1. \A j \in 1..Len(p) : p[j] = q[j]
    <3> SUFFICES ASSUME NEW j \in 1..Len(p)
                 PROVE  p[j] = q[j]
      OBVIOUS
    <3> QED BY <1>3 DEF Begins
  <2> QED BY <1>1, <1>3, <2>1, SameElements
<1> QED BY <1>2, <1>3

\* Something sorts between two matches and does not begin as the first does.
Between(s, url) ==
    \E i, j, k \in DOMAIN s :
      /\ has_prefix(url, s[i].path) /\ has_prefix(url, s[j].path) /\ i < k /\ k < j
      /\ ~has_prefix(s[k].path, s[i].path)

(* The walk reaches the last match, which is the longest.                   *)
LEMMA MatchIs ==
    ASSUME NEW s \in Seq(Item), Distinct(s), Ordered(s), NEW url \in Paths, ~Between(s, url),
           Matches(s, url) # {}
    PROVE  \E l \in DOMAIN s :
             /\ Match(s, url) = s[l] /\ l \in Matches(s, url)
             /\ \A k \in Matches(s, url) : Len(s[k].path) <= Len(s[l].path)
<1>1. DOMAIN s = 1..Len(s) /\ Len(s) \in Nat /\ \A i \in DOMAIN s : s[i].path \in Paths
  BY ItemPaths
<1>2. Matches(s, url) \subseteq 1..Len(s) /\ \A i \in Matches(s, url) : has_prefix(url, s[i].path)
  BY <1>1 DEF Matches
<1>3. PICK l \in Matches(s, url) : \A k \in Matches(s, url) : k <= l
  BY <1>1, <1>2, Greatest
<1>4. l \in Reached(s, url)
  <2> SUFFICES ASSUME NEW k \in 1..(l - 1), Ends(s, url, k)
               PROVE  FALSE
    BY DEF Reached
  <2>1. PICK b \in Matches(s, url) : b < k /\ ~has_prefix(s[k].path, s[b].path)
    BY DEF Ends
  <2>2. b \in DOMAIN s /\ l \in DOMAIN s /\ k \in DOMAIN s /\ k < l
    BY <1>1, <1>2
  <2> QED BY <1>2, <2>1, <2>2 DEF Between
<1>5. Reached(s, url) \subseteq Matches(s, url)
  BY DEF Reached
<1>6. Match(s, url) = s[l]
  <2> DEFINE c == CHOOSE i \in Reached(s, url) : \A j \in Reached(s, url) : j <= i
  <2>1. c \in Reached(s, url) /\ \A j \in Reached(s, url) : j <= c
    BY <1>3, <1>4, <1>5
  <2>2. Match(s, url) = s[c]
    BY <1>4 DEF Match
  <2> HIDE DEF c
  <2>3. c <= l /\ l <= c /\ c \in Nat /\ l \in Nat
    BY <1>2, <1>3, <1>4, <1>5, <2>1
  <2>4. c = l
    BY <2>3
  <2> QED BY <2>2, <2>4
<1>7. ASSUME NEW k \in Matches(s, url)
      PROVE  Len(s[k].path) <= Len(s[l].path)
  <2>1. k \in DOMAIN s /\ l \in DOMAIN s /\ k <= l /\ k \in Nat /\ l \in Nat
    BY <1>1, <1>2, <1>3
  <2>2. CASE k < l
    <3>1. Before(s[k].path, s[l].path)
      BY <2>1, <2>2 DEF Ordered
    <3>2. s[k].path \in Paths /\ s[l].path \in Paths /\ Begins(s[k].path, url) /\ Begins(s[l].path, url)
      BY <1>1, <1>2, <2>1, PrefixBegins
    <3>3. s[k].path \in Seq(Nat) /\ s[l].path \in Seq(Nat)
      BY <3>2, PathsAre
    <3>4. ~Before(s[l].path, s[k].path)
      BY <3>1, <3>3, BeforeTransitive, BeforeIrreflexive
    <3>5. ~(Len(s[l].path) < Len(s[k].path))
      BY <3>2, <3>4, BeginsOrder
    <3> QED BY <3>3, <3>5
  <2>3. CASE k = l
    <3>1. Len(s[l].path) \in Nat
      BY <1>1, <2>1, PathsAre
    <3> QED BY <2>3, <3>1
  <2> QED BY <2>1, <2>2, <2>3
<1> QED BY <1>1, <1>2, <1>6, <1>7

LEMMA TableIs ==
    ASSUME MountsInv, NEW p \in Paths
    PROVE  /\ MountedAt[p] = FactoryAt(mounts, p)
           /\ MountedAt[p] # None <=> \E i \in DOMAIN mounts : mounts[i].path = p
<1>1. MountedAt[p] = FactoryAt(mounts, p)
  BY DEF MountedAt, FactoryAt
<1>2. ASSUME NEW i \in DOMAIN mounts, mounts[i].path = p
      PROVE  MountedAt[p] # None
  <2>1. FactoryAt(mounts, p) = mounts[i].factory
    BY <1>2, FactoryAtIs DEF MountsInv
  <2>2. mounts[i].factory \in Factories
    BY ItemPaths DEF MountsInv
  <2> QED BY <1>1, <2>1, <2>2, ServiceAssumption DEF ServiceAssumption
<1>3. ASSUME \A i \in DOMAIN mounts : mounts[i].path # p
      PROVE  MountedAt[p] = None
  BY <1>1, <1>3, FactoryAtIs DEF MountsInv
<1> QED BY <1>1, <1>2, <1>3

(* A request gets the factory of the longest mount point.                   *)
LEMMA MountsMatch ==
    ASSUME MountsInv
    PROVE  MatchIsLongest
<1> DEFINE s == Clean(mounts, dirty)
<1> SUFFICES ASSUME NEW url \in Paths, ~(\E i \in DOMAIN mounts : Hides(mounts[i], url))
             PROVE  PathOf(Match(s, url)) = Table!Longest(url)
  BY DEF MatchIsLongest
<1>1. Alike(s, mounts) /\ Distinct(s) /\ Ordered(s)
  BY CleanIs DEF MountsInv
<1> HIDE DEF s
<1>2. s \in Seq(Item) /\ \A i \in DOMAIN s : s[i] \in Item /\ s[i].path \in Paths
  <2>1. s \in Seq(Item)
    BY <1>1 DEF Alike
  <2> QED BY <2>1, ItemPaths
<1>3. \A p : p \in Table!Candidates(url) <=> \E k \in Matches(s, url) : s[k].path = p
  <2>1. ASSUME NEW p \in Table!Candidates(url)
        PROVE  \E k \in Matches(s, url) : s[k].path = p
    <3>1. p \in Paths /\ MountedAt[p] # None /\ Table!Covers(p, url)
      BY DEF Table!Candidates
    <3>2. PICK i \in DOMAIN mounts : mounts[i].path = p
      BY <3>1, TableIs
    <3>3. PICK k \in DOMAIN s : s[k] = mounts[i]
      BY <1>1 DEF Alike
    <3>4. has_prefix(url, s[k].path)
      BY <3>1, <3>2, <3>3, PrefixCovers
    <3> QED BY <3>2, <3>3, <3>4 DEF Matches
  <2>2. ASSUME NEW k \in Matches(s, url)
        PROVE  s[k].path \in Table!Candidates(url)
    <3>1. k \in DOMAIN s /\ has_prefix(url, s[k].path) /\ s[k].path \in Paths
      BY <1>2 DEF Matches
    <3>2. PICK i \in DOMAIN mounts : s[k] = mounts[i]
      BY <1>1, <3>1 DEF Alike
    <3>3. MountedAt[s[k].path] # None
      BY <3>1, <3>2, TableIs
    <3> QED BY <3>1, <3>3, PrefixCovers DEF Table!Candidates
  <2> QED BY <2>1, <2>2
<1>4. CASE Matches(s, url) = {}
  <2>1. Match(s, url) = None
    <3>1. Reached(s, url) = {}
      BY <1>4 DEF Reached
    <3> QED BY <3>1 DEF Match
  <2>2. Table!Candidates(url) = {}
    BY <1>3, <1>4
  <2> QED BY <2>1, <2>2 DEF PathOf, Table!Longest
<1>5. CASE Matches(s, url) # {}
  <2>1. ~Between(s, url)
    <3> SUFFICES ASSUME NEW i \in DOMAIN s, NEW j \in DOMAIN s, NEW k \in DOMAIN s,
                        has_prefix(url, s[i].path), has_prefix(url, s[j].path), i < k, k < j,
                        ~has_prefix(s[k].path, s[i].path)
                 PROVE  FALSE
      BY DEF Between
    <3>1. Before(s[i].path, s[k].path) /\ Before(s[k].path, s[j].path)
      BY <1>1 DEF Ordered
    <3>2. Before(s[i].path, s[j].path)
      <4>1. s[i].path \in Seq(Nat) /\ s[j].path \in Seq(Nat) /\ s[k].path \in Seq(Nat)
        BY <1>2, ItemPaths
      <4> QED BY <3>1, <4>1, BeforeTransitive
    <3>3. PICK x \in DOMAIN mounts : s[i] = mounts[x]
      BY <1>1 DEF Alike
    <3>4. PICK y \in DOMAIN mounts : s[j] = mounts[y]
      BY <1>1 DEF Alike
    <3>5. PICK z \in DOMAIN mounts : s[k] = mounts[z]
      BY <1>1 DEF Alike
    <3>6. Hides(mounts[z], url)
      BY <3>1, <3>2, <3>3, <3>4, <3>5 DEF Hides
    <3> QED BY <3>6
  <2>2. PICK l \in DOMAIN s :
          /\ Match(s, url) = s[l] /\ l \in Matches(s, url)
          /\ \A k \in Matches(s, url) : Len(s[k].path) <= Len(s[l].path)
    BY <1>1, <1>2, <1>5, <2>1, MatchIs
  <2> PICK p : p = s[l].path
    OBVIOUS
  <2>3. PathOf(Match(s, url)) = p
    <3>1. s[l] # None
      BY <1>2, ServiceAssumption DEF ServiceAssumption
    <3> QED BY <2>2, <3>1 DEF PathOf
  <2>4. p \in Table!Candidates(url) /\ \A q \in Table!Candidates(url) : Len(q) <= Len(p)
    BY <1>3, <2>2
  <2>5. \A q \in Table!Candidates(url) : Begins(q, url) /\ q \in Paths /\ Len(q) \in Nat
    <3> SUFFICES ASSUME NEW q \in Table!Candidates(url)
                 PROVE  Begins(q, url) /\ q \in Paths /\ Len(q) \in Nat
      OBVIOUS
    <3>1. q \in Paths /\ Table!Covers(q, url)
      BY DEF Table!Candidates
    <3> QED BY <3>1, PrefixCovers, PrefixBegins, PathsAre
  <2> DEFINE c == CHOOSE q \in Table!Candidates(url) : \A r \in Table!Candidates(url) : Len(r) <= Len(q)
  <2>6. c \in Table!Candidates(url) /\ \A r \in Table!Candidates(url) : Len(r) <= Len(c)
    BY <2>4
  <2>7. Table!Longest(url) = c
    BY <2>4 DEF Table!Longest
  <2> HIDE DEF c
  <2>8. Len(c) = Len(p)
    BY <2>4, <2>5, <2>6
  <2>9. c = p
    BY <2>4, <2>5, <2>6, <2>8, BeginsOrder
  <2> QED BY <2>3, <2>7, <2>9
<1> QED BY <1>4, <1>5
LEMMA TableNow ==
    /\ MountedAt = [p \in Paths |-> FactoryAt(mounts, p)]
    /\ MountedAt' = [p \in Paths |-> FactoryAt(mounts', p)]
<1>1. MountedAt = [p \in Paths |-> FactoryAt(mounts, p)]
  BY DEF MountedAt, FactoryAt
<1>2. MountedAt' = [p \in Paths |-> FactoryAt(mounts', p)]
  BY DEF MountedAt, FactoryAt
<1> QED BY <1>1, <1>2

LEMMA MountsStill ==
    ASSUME MountsInv, UNCHANGED <<mountVars, mounting>>
    PROVE  MountsInv' /\ UNCHANGED <<MountedAt, mounting>>
<1>1. mounts' = mounts /\ dirty' = dirty /\ mounting' = mounting
  BY DEF mountVars
<1>2. MountsInv'
  BY <1>1 DEF MountsInv
<1>3. MountedAt' = MountedAt
  BY <1>1, TableNow
<1> QED BY <1>1, <1>2, <1>3

\* A request sorts what is mounted, which is the same table.
LEMMA MountsAsked ==
    ASSUME MountsInv, gst_rtsp_mount_points_match, UNCHANGED mounting
    PROVE  MountsInv' /\ UNCHANGED <<MountedAt, mounting>>
<1> PICK s : s = Clean(mounts, dirty)
  OBVIOUS
<1>1. mounts' = s /\ dirty' = FALSE
  BY DEF gst_rtsp_mount_points_match
<1>2. Alike(s, mounts) /\ Distinct(s) /\ Ordered(s)
  BY CleanIs DEF MountsInv
<1>3. MountsInv'
  BY <1>1, <1>2 DEF MountsInv, Alike
<1>4. \A p \in Paths : FactoryAt(s, p) = FactoryAt(mounts, p)
  BY <1>2, AlikeTable DEF MountsInv
<1>5. MountedAt' = MountedAt
  BY <1>1, <1>4, TableNow
<1> QED BY <1>3, <1>5

(* A call of the application changes the table at its path.                 *)
LEMMA MountsMove ==
    ASSUME MountsInv, Mounting
    PROVE  MountsInv' /\ Table!Mount
<1> PICK x : x = mounting[1]
  OBVIOUS
<1>1. mounting # <<>> /\ mounting' = Tail(mounting) /\ mounting' \in Seq(Call) /\ x \in Call
  BY DEF Mounting, MountsInv
<1>2. x.path \in Paths /\ x.factory \in Factories \cup {None}
  BY <1>1 DEF Call
<1> PICK r : r = IF x.factory = None THEN remove_factory_unlocked(mounts, dirty, x.path)
                 ELSE Added(mounts, dirty, x.path, x.factory)
  OBVIOUS
<1>3. mounts' = r.seq /\ dirty' = r.dirty
  BY DEF Mounting, gst_rtsp_mount_points_remove_factory, gst_rtsp_mount_points_add_factory
<1>4. /\ Mounted(r.seq, r.dirty)
      /\ \A q : FactoryAt(r.seq, q) = IF q = x.path THEN x.factory ELSE FactoryAt(mounts, q)
  <2>1. mounts \in Seq(Item) /\ Distinct(mounts) /\ dirty \in BOOLEAN /\ (~dirty => Ordered(mounts))
    BY DEF MountsInv
  <2>2. CASE x.factory = None
    <3>1. r = remove_factory_unlocked(mounts, dirty, x.path)
      BY <2>2
    <3>2. /\ Mounted(r.seq, r.dirty)
          /\ \A q : FactoryAt(r.seq, q) = IF q = x.path THEN None ELSE FactoryAt(mounts, q)
      BY <1>2, <2>1, <3>1, RemovedIs
    <3> QED BY <2>2, <3>2
  <2>3. CASE x.factory # None
    <3>1. r = Added(mounts, dirty, x.path, x.factory) /\ x.factory \in Factories
      BY <1>2, <2>3
    <3> QED BY <1>2, <2>1, <3>1, AddedIs
  <2> QED BY <2>2, <2>3
<1>5. MountsInv'
  BY <1>1, <1>3, <1>4 DEF MountsInv, Mounted
<1>6. MountedAt' = [MountedAt EXCEPT ![x.path] = x.factory]
  <2>1. \A p \in Paths : FactoryAt(mounts', p) = IF p = x.path THEN x.factory ELSE FactoryAt(mounts, p)
    BY <1>3, <1>4
  <2> QED BY <2>1, TableNow
<1>7. Table!Mount
  BY <1>1, <1>6 DEF Table!Mount
<1> QED BY <1>5, <1>7

LEMMA MountsInit ==
    ASSUME Init
    PROVE  MountsInv /\ Table!Init
<1>1. mounting \in Seq(Call) /\ mounts = <<>> /\ dirty = FALSE
  <2>1. PICK x \in Scenarios : mounting = x.mounting
    BY DEF Init
  <2>2. mounting \in Seq(Call)
    BY <2>1, ServiceAssumption DEF ServiceAssumption, Call
  <2> QED BY <2>2 DEF Init, MountInit
<1>2. MountsInv
  <2>1. mounts \in Seq(Item) /\ DOMAIN mounts = {}
    BY <1>1
  <2> QED BY <1>1, <2>1 DEF MountsInv, Distinct, Ordered
<1>3. MountedAt = [p \in Paths |-> None]
  BY <1>1, TableNow DEF FactoryAt
<1> QED BY <1>1, <1>2, <1>3 DEF Table!Init, Call

LEMMA MountsStep ==
    ASSUME MountsInv, [Next]_vars
    PROVE  MountsInv' /\ [Table!Mount]_<<MountedAt, mounting>>
<1>1. CASE Mounts
  BY <1>1, MountsMove DEF Mounts
<1>2. ASSUME NEW c \in Clients, Request(c)
      PROVE  MountsInv' /\ [Table!Mount]_<<MountedAt, mounting>>
  <2>1. gst_rtsp_mount_points_match /\ UNCHANGED mounting
    BY <1>2 DEF Request
  <2> QED BY <2>1, MountsAsked
<1>3. CASE UNCHANGED <<mountVars, mounting>>
  BY <1>3, MountsStill
<1>4. ASSUME NEW c \in Clients, Accept(c) \/ Serve(c) \/ Drop(c) \/ Leave(c) \/ Finalize(c)
      PROVE  UNCHANGED <<mountVars, mounting>>
  BY <1>4 DEF Accept, Serve, Drop, Leave, Finalize, ServerStep, FactoryStep
<1>5. CASE Filter \/ Listen
  <2>1. UNCHANGED <<mountVars, mounting>>
    BY <1>5 DEF Filter, Listen, ServerStep
  <2> QED BY <1>3, <2>1
<1>6. CASE UNCHANGED vars
  <2>1. UNCHANGED <<mountVars, mounting>>
    BY <1>6 DEF vars
  <2> QED BY <1>3, <2>1
<1> QED BY <1>1, <1>2, <1>3, <1>4, <1>5, <1>6 DEF Next

(* The mount points implement a table: what the application mounts and      *)
(* unmounts changes it one path at a time, whenever the sequence is sorted, *)
(* and no request, client or filter changes it.                             *)
THEOREM MountsImplementTable == Spec => MountSpec
<1>1. Init => MountsInv /\ Table!Init
  BY MountsInit
<1>2. MountsInv /\ [Next]_vars => MountsInv' /\ [Table!Mount]_<<MountedAt, mounting>>
  BY MountsStep
<1> QED BY <1>1, <1>2, PTL DEF Spec, MountSpec, Table!Spec

LEMMA MountsHold == Spec => []MountsInv
<1>1. Init => MountsInv
  BY MountsInit
<1>2. MountsInv /\ [Next]_vars => MountsInv'
  BY MountsStep
<1> QED BY <1>1, <1>2, PTL DEF Spec
-----------------------------------------------------------------------------
\* The list of clients.

LEMMA Apart ==
    /\ None \notin Clients /\ None \notin Threads /\ None \notin Sources /\ None \notin Media
    /\ None \notin Factories /\ None \notin MediaRecord
    /\ IsFiniteSet(Clients) /\ Callers = Clients
BY ServiceAssumption DEF ServiceAssumption

Has(s, d) == \E i \in DOMAIN s : s[i] = d

LEMMA RemoveFirstIs ==
    ASSUME NEW s \in Seq(Clients), IsInjective(s), NEW i \in DOMAIN s, NEW c, c = s[i], NEW r, r = RemoveFirst(s, c)
    PROVE  /\ r \in Seq(Clients) /\ IsInjective(r)
           /\ \A d \in Clients : Has(r, d) <=> d # c /\ Has(s, d)
<1> DEFINE I == {k \in 1..Len(s) : s[k] = c}
<1>1. i \in I /\ I \subseteq Nat /\ DOMAIN s = 1..Len(s)
  OBVIOUS
<1>2. r = RemoveAt(s, Min(I))
  BY <1>1 DEF RemoveFirst, SelectInSeq
<1>3. Min(I) \in I
  <2> HIDE DEF I
  <2> QED BY <1>1, LeastNatural
<1>4. Min(I) = i
  BY <1>1, <1>3 DEF IsInjective
<1> HIDE DEF I
<1>5. Shorter(s, i, r, Clients)
  BY <1>2, <1>4, RemoveAtIs
<1>6. /\ r \in Seq(Clients)
      /\ \A k \in DOMAIN r : \E j \in DOMAIN s : j # i /\ r[k] = s[j]
      /\ \A j \in DOMAIN s : j # i => \E k \in DOMAIN r : r[k] = s[j]
      /\ \A k, l \in DOMAIN r : \E x, y \in DOMAIN s :
           r[k] = s[x] /\ r[l] = s[y] /\ x # i /\ y # i /\ (x = y => k = l)
  BY <1>5, ShorterIs
<1>7. IsInjective(r)
  <2> SUFFICES ASSUME NEW k \in DOMAIN r, NEW l \in DOMAIN r, r[k] = r[l]
               PROVE  k = l
    BY DEF IsInjective
  <2>1. PICK x \in DOMAIN s, y \in DOMAIN s : r[k] = s[x] /\ r[l] = s[y] /\ (x = y => k = l)
    BY <1>6
  <2>2. x = y
    BY <2>1 DEF IsInjective
  <2> QED BY <2>1, <2>2
<1>8. ASSUME NEW d \in Clients, NEW k \in DOMAIN r, r[k] = d
      PROVE  d # c /\ \E j \in DOMAIN s : s[j] = d
  <2>1. PICK j \in DOMAIN s : j # i /\ r[k] = s[j]
    BY <1>6
  <2>2. s[j] # s[i]
    BY <2>1 DEF IsInjective
  <2> QED BY <1>8, <2>1, <2>2
<1>9. ASSUME NEW d \in Clients, d # c, NEW j \in DOMAIN s, s[j] = d
      PROVE  \E k \in DOMAIN r : r[k] = d
  <2>1. j # i
    BY <1>9
  <2> QED BY <1>6, <1>9, <2>1
<1> QED BY <1>6, <1>7, <1>8, <1>9 DEF Has

LEMMA PrependIs ==
    ASSUME NEW s \in Seq(Clients), IsInjective(s), NEW c \in Clients, ~Has(s, c),
           NEW r, r = <<c>> \o s
    PROVE  /\ r \in Seq(Clients) /\ IsInjective(r)
           /\ \A d \in Clients : Has(r, d) <=> d = c \/ Has(s, d)
<1> DEFINE n == Len(s)
<1>1. /\ n \in Nat /\ DOMAIN s = 1..n /\ r \in Seq(Clients) /\ DOMAIN r = 1..(n + 1)
      /\ r[1] = c /\ \A k \in 1..n : r[k + 1] = s[k]
  OBVIOUS
<1>0. \A j \in 1..n : s[j] # c
  BY <1>1 DEF Has
<1> HIDE DEF n
<1>2. ASSUME NEW k \in 1..(n + 1), k # 1
      PROVE  k - 1 \in 1..n /\ r[k] = s[k - 1]
  <2>1. k - 1 \in 1..n /\ (k - 1) + 1 = k
    BY <1>1, <1>2
  <2> QED BY <1>1, <2>1
<1>3. IsInjective(r)
  <2> SUFFICES ASSUME NEW j \in 1..(n + 1), NEW k \in 1..(n + 1), r[j] = r[k]
               PROVE  j = k
    BY <1>1 DEF IsInjective
  <2>1. CASE j = 1
    <3>1. r[k] = c
      BY <1>1, <2>1
    <3>2. ~(k # 1)
      BY <1>0, <1>2, <3>1
    <3> QED BY <2>1, <3>2
  <2>3. CASE k = 1
    <3>1. r[j] = c
      BY <1>1, <2>3
    <3>2. ~(j # 1)
      BY <1>0, <1>2, <3>1
    <3> QED BY <2>3, <3>2
  <2>2. CASE j # 1 /\ k # 1
    <3>1. j - 1 \in 1..n /\ k - 1 \in 1..n /\ s[j - 1] = s[k - 1]
      BY <1>2, <2>2
    <3>2. j - 1 = k - 1
      BY <1>1, <3>1 DEF IsInjective
    <3> QED BY <1>1, <3>2
  <2> QED BY <2>1, <2>2, <2>3
<1>4. ASSUME NEW k \in DOMAIN r
      PROVE  r[k] = c \/ \E j \in DOMAIN s : s[j] = r[k]
  BY <1>1, <1>2
<1>5. ASSUME NEW j \in DOMAIN s
      PROVE  \E k \in DOMAIN r : r[k] = s[j]
  <2>1. j + 1 \in DOMAIN r /\ r[j + 1] = s[j]
    BY <1>1
  <2> QED BY <2>1
<1>6. 1 \in DOMAIN r
  BY <1>1
<1>7. ASSUME NEW d \in Clients
      PROVE  Has(r, d) <=> d = c \/ Has(s, d)
  BY <1>1, <1>4, <1>5, <1>6 DEF Has
<1> QED BY <1>1, <1>3, <1>7

-----------------------------------------------------------------------------
\* The threads.

Users(t) == {c \in Clients : ctx[c].thread = t /\ ctx[c].at # "freed"}

LEMMA UsersMove ==
    ASSUME ServerTypes, NEW t \in Threads, NEW c \in Clients,
           \A d \in Clients \ {c} : ctx'[d].thread = ctx[d].thread /\ (ctx'[d].at = "freed" <=> ctx[d].at = "freed")
    PROVE  /\ IsFiniteSet(Users(t)) /\ Cardinality(Users(t)) \in Nat
           /\ Cardinality(Users(t)') =
                (IF c \in Users(t)' THEN 1 ELSE 0) + Cardinality(Users(t)) - (IF c \in Users(t) THEN 1 ELSE 0)
<1> DEFINE A == Users(t)
           B == Users(t)'
           R == A \ {c}
<1>1. A \subseteq Clients /\ B \subseteq Clients
  BY DEF Users
<1>2. IsFiniteSet(A) /\ IsFiniteSet(R)
  BY <1>1, Apart, FS_Subset
<1>3. B \ {c} = R
  BY DEF Users
<1> HIDE DEF A, B
<1>4. Cardinality(A) \in Nat
  BY <1>2, FS_CardinalityType
<1>5. Cardinality(R) = IF c \in A THEN Cardinality(A) - 1 ELSE Cardinality(A)
  BY <1>2, FS_RemoveElement
<1>6. B = IF c \in B THEN R \cup {c} ELSE R
  BY <1>3
<1> HIDE DEF R
<1>7. Cardinality(R \cup {c}) = IF c \in R THEN Cardinality(R) ELSE Cardinality(R) + 1
  BY <1>2, FS_AddElement
<1>8. c \notin R
  BY DEF R
<1>9. Cardinality(B) = IF c \in B THEN Cardinality(R) + 1 ELSE Cardinality(R)
  BY <1>6, <1>7, <1>8
<1>10. Cardinality(B) = (IF c \in B THEN 1 ELSE 0) + Cardinality(A) - (IF c \in A THEN 1 ELSE 0)
  BY <1>4, <1>5, <1>9
<1> QED BY <1>2, <1>4, <1>10 DEF A, B

LEMMA CountedIs ==
    /\ ThreadsCounted <=> \A t \in Threads : used[t] = Cardinality(Users(t))
    /\ ThreadsCounted' <=> \A t \in Threads : used'[t] = Cardinality(Users(t)')
BY DEF ThreadsCounted, Users
-----------------------------------------------------------------------------
\* The steps of the server.

\* One context changes and the list does not.
LEMMA ContextStep ==
    ASSUME ServerInv, NEW c \in Clients, NEW x \in Context, ctx' = [ctx EXCEPT ![c] = x],
           x.at # "new" \/ ctx[c].at = "new",
           x.at \in {"attached", "closing"} <=> Listed(c), x.at = "new" => x.thread = None,
           x.at = "unmanaged" => x.thread \in Threads,
           UNCHANGED <<clients, clients_cookie, socketVars, squirks>>
    PROVE  /\ ctx' \in [Clients -> Context] /\ ListInv' /\ ThreadInv' /\ SocketInv'
           /\ \A d \in filter.known : ctx'[d].at # "new"
<1>1. ctx \in [Clients -> Context] /\ filter \in FilterCall
  BY DEF ServerInv, ServerTypes
<1>2. ctx' \in [Clients -> Context] /\ ctx'[c] = x /\ \A d \in Clients \ {c} : ctx'[d] = ctx[d]
  BY <1>1
<1>3. ListInv'
  <2>1. \A d \in Clients : Listed(d)' <=> Listed(d)
    BY <1>2 DEF Listed
  <2>2. \A d \in Clients : Member(d)' <=> Member(d)
    BY DEF Member
  <2> QED BY <2>1, <2>2 DEF ServerInv, ListInv
<1>4. ThreadInv'
  BY <1>2 DEF ServerInv, ThreadInv
<1>5. \A d \in filter.known : ctx'[d].at # "new"
  <2>1. filter.known \subseteq Clients /\ \A d \in filter.known : ctx[d].at # "new"
    BY <1>1 DEF FilterCall, ServerInv, FilterInv
  <2> QED BY <1>2, <2>1
<1>6. SocketInv'
  BY DEF ServerInv, SocketInv, socketVars
<1> QED BY <1>2, <1>3, <1>4, <1>5, <1>6

LEMMA FilterSame ==
    ASSUME ServerInv, UNCHANGED <<clients, clients_cookie, filter>>, \A d \in filter.known : ctx'[d].at # "new"
    PROVE  FilterInv'
<1>1. \A d \in Clients : Member(d)' <=> Member(d)
  BY DEF Member
<1>2. FilterVisitsAll'
  BY DEF ServerInv, FilterInv, FilterVisitsAll, Member
<1> QED BY <1>2 DEF ServerInv, FilterInv, FilterSafe, UpTo

LEMMA CountSame ==
    ASSUME ServerInv, NEW c \in Clients, \A d \in Clients \ {c} : ctx'[d] = ctx[d],
           UNCHANGED used, \A t \in Threads : c \in Users(t)' <=> c \in Users(t)
    PROVE  ThreadsCounted'
<1> SUFFICES ASSUME NEW t \in Threads
             PROVE  used'[t] = Cardinality(Users(t)')
  BY CountedIs
<1>1. used[t] = Cardinality(Users(t))
  BY CountedIs DEF ServerInv
<1>2. Users(t)' = Users(t)
  BY DEF Users
<1> QED BY <1>1, <1>2

LEMMA CloseStep ==
    ASSUME ServerInv, NEW c \in Clients, CloseClient(c)
    PROVE  ServerInv'
<1>1. /\ ctx[c].at = "attached" /\ ctx' = [ctx EXCEPT ![c].at = "closing"] /\ ctx[c] \in Context
      /\ UNCHANGED <<clients, clients_cookie, used, filter, socketVars, squirks>>
  BY DEF CloseClient, ServerInv, ServerTypes
<1> PICK x : x = [ctx[c] EXCEPT !.at = "closing"]
  OBVIOUS
<1>2. x \in Context /\ x.at = "closing" /\ x.thread = ctx[c].thread /\ ctx' = [ctx EXCEPT ![c] = x]
  BY <1>1 DEF Context
<1>3. /\ ctx' \in [Clients -> Context] /\ ListInv' /\ ThreadInv' /\ SocketInv'
      /\ \A d \in filter.known : ctx'[d].at # "new"
  BY <1>1, <1>2, ContextStep DEF Listed
<1>4. FilterInv'
  BY <1>1, <1>3, FilterSame
<1>5. ThreadsCounted'
  <2>1. ctx'[c] = x /\ \A d \in Clients \ {c} : ctx'[d] = ctx[d]
    BY <1>2 DEF ServerInv, ServerTypes
  <2>2. \A t \in Threads : c \in Users(t)' <=> c \in Users(t)
    BY <1>1, <1>2, <2>1 DEF Users
  <2> QED BY <1>1, <2>1, <2>2, CountSame
<1>6. ServerTypes'
  BY <1>1, <1>3 DEF ServerInv, ServerTypes, socketVars
<1> QED BY <1>3, <1>4, <1>5, <1>6 DEF ServerInv

LEMMA RefuseStep ==
    ASSUME ServerInv, NEW c \in Clients, ctx[c].at = "new", ctx' = [ctx EXCEPT ![c].at = "freed"],
           UNCHANGED <<clients, clients_cookie, used, filter, socketVars, squirks>>
    PROVE  ServerInv'
<1>1. ctx[c] \in Context /\ ctx[c].thread = None
  BY DEF ServerInv, ServerTypes, ThreadInv
<1> PICK x : x = [ctx[c] EXCEPT !.at = "freed"]
  OBVIOUS
<1>2. x \in Context /\ x.at = "freed" /\ x.thread = None /\ ctx' = [ctx EXCEPT ![c] = x]
  BY <1>1 DEF Context
<1>3. /\ ctx' \in [Clients -> Context] /\ ListInv' /\ ThreadInv' /\ SocketInv'
      /\ \A d \in filter.known : ctx'[d].at # "new"
  BY <1>2, ContextStep DEF Listed
<1>4. FilterInv'
  BY <1>3, FilterSame
<1>5. ThreadsCounted'
  <2>1. ctx'[c] = x /\ \A d \in Clients \ {c} : ctx'[d] = ctx[d]
    BY <1>2 DEF ServerInv, ServerTypes
  <2>2. \A t \in Threads : c \in Users(t)' <=> c \in Users(t)
    BY <1>1, <1>2, <2>1, Apart DEF Users
  <2> QED BY <2>1, <2>2, CountSame
<1>6. ServerTypes'
  BY <1>3 DEF ServerInv, ServerTypes, socketVars
<1> QED BY <1>3, <1>4, <1>5, <1>6 DEF ServerInv

LEMMA FreeStep ==
    ASSUME ServerInv, NEW c \in Clients, free_client_context(c)
    PROVE  ServerInv'
<1> PICK t : t = ctx[c].thread
  OBVIOUS
<1>1. /\ ctx[c].at = "unmanaged" /\ used[t] > 0 /\ used' = StopThread(used, t)
      /\ ctx' = [ctx EXCEPT ![c].at = "freed"] /\ ctx[c] \in Context /\ t \in Threads
      /\ UNCHANGED <<clients, clients_cookie, filter, socketVars, squirks>>
  BY DEF free_client_context, ServerInv, ServerTypes, ThreadInv
<1> PICK x : x = [ctx[c] EXCEPT !.at = "freed"]
  OBVIOUS
<1>2. x \in Context /\ x.at = "freed" /\ x.thread = t /\ ctx' = [ctx EXCEPT ![c] = x]
  BY <1>1 DEF Context
<1>3. /\ ctx' \in [Clients -> Context] /\ ListInv' /\ ThreadInv' /\ SocketInv'
      /\ \A d \in filter.known : ctx'[d].at # "new"
  BY <1>1, <1>2, ContextStep DEF Listed
<1>4. FilterInv'
  BY <1>1, <1>3, FilterSame
<1>5. used' \in [Threads -> Nat] /\ \A u \in Threads : used'[u] = IF u = t THEN used[u] - 1 ELSE used[u]
  <2>1. used \in [Threads -> Nat] /\ used' = [used EXCEPT ![t] = @ - 1]
    BY <1>1, Apart DEF StopThread, ServerInv, ServerTypes
  <2> QED BY <1>1, <2>1
<1>6. ThreadsCounted'
  <2> SUFFICES ASSUME NEW u \in Threads
               PROVE  used'[u] = Cardinality(Users(u)')
    BY CountedIs
  <2>1. ctx'[c] = x /\ \A d \in Clients \ {c} : ctx'[d] = ctx[d]
    BY <1>2 DEF ServerInv, ServerTypes
  <2>2. used[u] = Cardinality(Users(u))
    BY CountedIs DEF ServerInv
  <2>3. c \notin Users(u)' /\ (c \in Users(u) <=> u = t)
    BY <1>1, <1>2, <2>1 DEF Users
  <2>4. /\ Cardinality(Users(u)) \in Nat
        /\ Cardinality(Users(u)') =
             (IF c \in Users(u)' THEN 1 ELSE 0) + Cardinality(Users(u)) - (IF c \in Users(u) THEN 1 ELSE 0)
    BY <2>1, UsersMove DEF ServerInv
  <2> QED BY <1>5, <2>2, <2>3, <2>4
<1>7. ServerTypes'
  BY <1>1, <1>3, <1>5 DEF ServerInv, ServerTypes, socketVars
<1> QED BY <1>3, <1>4, <1>6, <1>7 DEF ServerInv

LEMMA ManageStep ==
    ASSUME ServerInv, NEW c \in Clients, NEW t \in Threads \cup {None}, manage_client(c, t)
    PROVE  ServerInv'
<1> PICK r : r = <<c>> \o clients
  OBVIOUS
<1>1. /\ ctx[c].at = "new" /\ ctx' = [ctx EXCEPT ![c] = [at |-> "attached", thread |-> t]]
      /\ used' = GetThread(used, t) /\ clients' = r /\ clients_cookie' = clients_cookie + 1
      /\ UNCHANGED <<filter, socketVars, squirks>>
  BY DEF manage_client, CookieMoved
<1>2. /\ clients \in Seq(Clients) /\ clients_cookie \in Nat /\ ctx \in [Clients -> Context]
      /\ used \in [Threads -> Nat] /\ filter \in FilterCall /\ IsInjective(clients)
      /\ \A d \in Clients : Member(d) <=> Listed(d)
  BY DEF ServerInv, ServerTypes, ListInv
<1> PICK x : x = [at |-> "attached", thread |-> t]
  OBVIOUS
<1>3. /\ x \in Context /\ x.at = "attached" /\ x.thread = t /\ ctx' \in [Clients -> Context] /\ ctx'[c] = x
      /\ \A d \in Clients \ {c} : ctx'[d] = ctx[d]
  BY <1>1, <1>2 DEF Context
<1>4. ~Member(c) /\ ctx[c].thread = None
  BY <1>1, <1>2 DEF Listed, ServerInv, ThreadInv
<1>5. /\ r \in Seq(Clients) /\ IsInjective(r)
      /\ \A d \in Clients : Member(d)' <=> d = c \/ Member(d)
  <2>1. ~Has(clients, c)
    BY <1>4 DEF Member, Has
  <2>2. r \in Seq(Clients) /\ IsInjective(r) /\ \A d \in Clients : Has(r, d) <=> d = c \/ Has(clients, d)
    BY <1>2, <2>1, PrependIs
  <2> QED BY <1>1, <2>2 DEF Member, Has
<1>6. ListInv'
  <2>1. \A d \in Clients : Listed(d)' <=> d = c \/ Listed(d)
    BY <1>3 DEF Listed
  <2> QED BY <1>1, <1>2, <1>5, <2>1 DEF ListInv
<1>7. ThreadInv'
  BY <1>3 DEF ServerInv, ThreadInv
<1>8. used' \in [Threads -> Nat] /\ \A u \in Threads : used'[u] = IF u = t THEN used[u] + 1 ELSE used[u]
  <2>1. used' = IF t = None THEN used ELSE [used EXCEPT ![t] = @ + 1]
    BY <1>1 DEF GetThread
  <2> QED BY <1>2, <2>1, Apart
<1>9. ThreadsCounted'
  <2> SUFFICES ASSUME NEW u \in Threads
               PROVE  used'[u] = Cardinality(Users(u)')
    BY CountedIs
  <2>1. used[u] = Cardinality(Users(u))
    BY CountedIs DEF ServerInv
  <2>2. c \notin Users(u) /\ (c \in Users(u)' <=> u = t)
    BY <1>3, <1>4, Apart DEF Users
  <2>3. \A d \in Clients \ {c} : ctx'[d].thread = ctx[d].thread /\ (ctx'[d].at = "freed" <=> ctx[d].at = "freed")
    BY <1>3
  <2>4. /\ Cardinality(Users(u)) \in Nat
        /\ Cardinality(Users(u)') =
             (IF c \in Users(u)' THEN 1 ELSE 0) + Cardinality(Users(u)) - (IF c \in Users(u) THEN 1 ELSE 0)
    BY <2>3, UsersMove DEF ServerInv
  <2> QED BY <1>8, <2>1, <2>2, <2>4
<1>10. FilterInv'
  <2>1. /\ filter.known \subseteq Clients /\ filter.cookie \in Nat /\ filter.cookie <= clients_cookie
        /\ \A d \in filter.known : ctx[d].at # "new"
    BY <1>2 DEF ServerInv, FilterInv, FilterCall
  <2>2. c \notin filter.known
    BY <1>1, <2>1
  <2>3. \A d \in filter.known : ctx'[d].at # "new"
    BY <1>3, <2>1, <2>2
  <2>4. FilterVisitsAll'
    BY <1>1, <1>5, <2>1, <2>2 DEF ServerInv, FilterInv, FilterVisitsAll
  <2>5. filter.cookie <= clients_cookie' /\ filter.cookie # clients_cookie'
    BY <1>1, <1>2, <2>1
  <2>6. FilterSafe' /\ (filter.at \in {"func", "removed"} => filter.next \in Clients)
    BY <1>1 DEF ServerInv, FilterInv, FilterSafe
  <2> QED BY <1>1, <2>3, <2>4, <2>5, <2>6 DEF FilterInv
<1>11. ServerTypes' /\ SocketInv'
  BY <1>1, <1>2, <1>3, <1>5, <1>8 DEF ServerInv, ServerTypes, SocketInv, socketVars
<1> QED BY <1>6, <1>7, <1>9, <1>10, <1>11 DEF ServerInv

LEMMA UnmanageStep ==
    ASSUME ServerInv, NEW c \in Clients, unmanage_client(c)
    PROVE  ServerInv'
<1> PICK r : r = RemoveFirst(clients, c)
  OBVIOUS
<1>1. /\ ctx[c].at = "closing" /\ ctx' = [ctx EXCEPT ![c].at = Unmanaged(ctx[c].thread)]
      /\ clients' = r /\ clients_cookie' = clients_cookie + 1
      /\ UNCHANGED <<used, filter, socketVars, squirks>>
  BY DEF unmanage_client, CookieMoved
<1>2. /\ clients \in Seq(Clients) /\ clients_cookie \in Nat /\ ctx \in [Clients -> Context] /\ ctx[c] \in Context
      /\ used \in [Threads -> Nat] /\ filter \in FilterCall /\ IsInjective(clients)
      /\ \A d \in Clients : Member(d) <=> Listed(d)
  BY DEF ServerInv, ServerTypes, ListInv
<1> PICK x : x = [ctx[c] EXCEPT !.at = Unmanaged(ctx[c].thread)]
  OBVIOUS
<1>3. /\ x \in Context /\ x.thread = ctx[c].thread
      /\ x.at = IF x.thread = None THEN "freed" ELSE "unmanaged"
      /\ ctx' \in [Clients -> Context] /\ ctx'[c] = x /\ \A d \in Clients \ {c} : ctx'[d] = ctx[d]
  BY <1>1, <1>2 DEF Context, Unmanaged
<1>4. PICK i \in DOMAIN clients : clients[i] = c
  BY <1>1, <1>2 DEF Listed, Member
<1>5. /\ r \in Seq(Clients) /\ IsInjective(r)
      /\ \A d \in Clients : Member(d)' <=> d # c /\ Member(d)
  <2>1. r \in Seq(Clients) /\ IsInjective(r) /\ \A d \in Clients : Has(r, d) <=> d # c /\ Has(clients, d)
    BY <1>2, <1>4, RemoveFirstIs
  <2> QED BY <1>1, <2>1 DEF Member, Has
<1>6. ListInv'
  <2>1. \A d \in Clients : Listed(d)' <=> d # c /\ Listed(d)
    BY <1>3 DEF Listed
  <2> QED BY <1>1, <1>2, <1>5, <2>1 DEF ListInv
<1>7. ThreadInv'
  <2>1. x.at = "unmanaged" => x.thread \in Threads
    BY <1>3 DEF Context
  <2>2. x.at # "new"
    BY <1>3
  <2> QED BY <1>3, <2>1, <2>2 DEF ServerInv, ThreadInv
<1>8. ThreadsCounted'
  <2>1. \A t \in Threads : c \in Users(t)' <=> c \in Users(t)
    BY <1>1, <1>3, Apart DEF Users
  <2> QED BY <1>1, <1>3, <2>1, CountSame
<1>9. FilterInv'
  <2>1. /\ filter.known \subseteq Clients /\ filter.cookie \in Nat /\ filter.cookie <= clients_cookie
        /\ \A d \in filter.known : ctx[d].at # "new"
    BY <1>2 DEF ServerInv, FilterInv, FilterCall
  <2>2. \A d \in filter.known : ctx'[d].at # "new"
    BY <1>3, <2>1
  <2>3. FilterVisitsAll'
    BY <1>1, <1>5, <2>1 DEF ServerInv, FilterInv, FilterVisitsAll
  <2>4. filter.cookie <= clients_cookie' /\ filter.cookie # clients_cookie'
    BY <1>1, <1>2, <2>1
  <2>5. FilterSafe' /\ (filter.at \in {"func", "removed"} => filter.next \in Clients)
    BY <1>1 DEF ServerInv, FilterInv, FilterSafe
  <2> QED BY <1>1, <2>2, <2>3, <2>4, <2>5 DEF FilterInv
<1>10. ServerTypes' /\ SocketInv'
  BY <1>1, <1>2, <1>3, <1>5 DEF ServerInv, ServerTypes, SocketInv, socketVars
<1> QED BY <1>6, <1>7, <1>8, <1>9, <1>10 DEF ServerInv
\* The filter goes on from a place up to which all were visited.
LEMMA WalkIs ==
    ASSUME ServerInv, NEW f \in FilterCall, ~f.dangling, \A d \in f.known : ctx[d].at # "new",
           NEW i \in 1..(Len(clients) + 1), \A j \in 1..(i - 1) : clients[j] \in f.visited,
           Walk(f, i), UNCHANGED listVars
    PROVE  filter' \in FilterCall /\ FilterInv'
<1> DEFINE left == {j \in i..Len(clients) : clients[j] \notin f.visited}
           k == Min(left)
<1>1. /\ clients \in Seq(Clients) /\ DOMAIN clients = 1..Len(clients) /\ Len(clients) \in Nat /\ clients_cookie \in Nat
      /\ clients' = clients /\ clients_cookie' = clients_cookie /\ ctx' = ctx
  BY DEF ServerInv, ServerTypes, listVars
<1>2. /\ f.known \subseteq Clients /\ f.visited \subseteq Clients /\ f.dangling = FALSE
  BY DEF FilterCall
<1>3. filter' = IF left = {} THEN [f EXCEPT !.at = "end", !.next = None, !.cookie = clients_cookie]
                ELSE [f EXCEPT !.at = "func", !.next = clients[k], !.visited = @ \cup {clients[k]},
                               !.cookie = clients_cookie]
  BY DEF Walk
<1>4. left # {} => k \in left /\ \A y \in left : k <= y
  <2>1. left \subseteq Nat
    BY <1>1
  <2> HIDE DEF left
  <2> QED BY <2>1, LeastNatural
<1> HIDE DEF k
<1>5. CASE left = {}
  <2>1. filter' = [f EXCEPT !.at = "end", !.next = None, !.cookie = clients_cookie]
    BY <1>3, <1>5
  <2>2. /\ filter' \in FilterCall /\ filter'.at = "end" /\ filter'.cookie = clients_cookie
        /\ filter'.known = f.known /\ filter'.visited = f.visited /\ filter'.dangling = FALSE
    BY <1>1, <1>2, <2>1 DEF FilterCall
  <2>3. ASSUME NEW c \in Clients, Member(c)
        PROVE  c \in f.visited
    <3>1. PICK j \in DOMAIN clients : clients[j] = c
      BY <2>3 DEF Member
    <3>2. CASE j < i
      <4>1. j \in 1..(i - 1)
        BY <1>1, <3>2
      <4> QED BY <3>1, <4>1
    <3>3. CASE ~(j < i)
      <4>1. j \in i..Len(clients)
        BY <1>1, <3>3
      <4> QED BY <1>5, <3>1, <4>1
    <3> QED BY <3>2, <3>3
  <2>4. \A c \in Clients : Member(c)' <=> Member(c)
    BY <1>1 DEF Member
  <2>5. FilterVisitsAll'
    BY <1>2, <2>2, <2>3, <2>4 DEF FilterVisitsAll
  <2> QED BY <1>1, <2>2, <2>5 DEF FilterInv, FilterSafe
<1>6. CASE left # {}
  <2> PICK c : c = clients[k]
    OBVIOUS
  <2>1. k \in 1..Len(clients) /\ i <= k /\ c \in Clients
    BY <1>1, <1>4, <1>6
  <2>2. filter' = [f EXCEPT !.at = "func", !.next = c, !.visited = @ \cup {c}, !.cookie = clients_cookie]
    BY <1>3, <1>6
  <2>3. /\ filter' \in FilterCall /\ filter'.at = "func" /\ filter'.cookie = clients_cookie
        /\ filter'.next = c /\ filter'.known = f.known /\ filter'.visited = f.visited \cup {c}
        /\ filter'.dangling = FALSE
    BY <1>1, <1>2, <2>1, <2>2 DEF FilterCall
  <2>4. ASSUME NEW j \in 1..k
        PROVE  clients[j] \in f.visited \cup {c}
    <3>1. CASE j < i
      <4>1. j \in 1..(i - 1)
        BY <1>1, <3>1
      <4> QED BY <4>1
    <3>2. CASE ~(j < i) /\ j < k
      <4>1. j \in i..Len(clients) /\ ~(k <= j)
        BY <1>1, <2>1, <3>2
      <4> QED BY <1>4, <1>6, <4>1
    <3>3. CASE j = k
      BY <3>3
    <3> QED BY <1>1, <2>1, <3>1, <3>2, <3>3
  <2>5. UpTo(filter.next, filter.visited)'
    <3>1. k \in DOMAIN clients /\ clients[k] = c
      BY <1>1, <2>1
    <3> QED BY <1>1, <2>3, <2>4, <3>1 DEF UpTo
  <2>6. FilterVisitsAll'
    BY <2>3 DEF FilterVisitsAll
  <2> QED BY <1>1, <2>1, <2>3, <2>5, <2>6 DEF FilterInv, FilterSafe
<1> QED BY <1>5, <1>6

\* Where the walk goes on after the client it was at.
LEMMA RestIs ==
    ASSUME ServerInv, filter.at \in {"func", "removed"}, NEW i, i = Rest(filter, clients, clients_cookie)
    PROVE  /\ ~Dangling
           /\ i \in 1..(Len(clients) + 1) /\ \A j \in 1..(i - 1) : clients[j] \in filter.visited
<1> DEFINE c == filter.next
           I == {k \in 1..Len(clients) : clients[k] = c}
<1>1. /\ clients \in Seq(Clients) /\ DOMAIN clients = 1..Len(clients) /\ Len(clients) \in Nat /\ clients_cookie \in Nat
      /\ IsInjective(clients)
      /\ filter.cookie = clients_cookie => UpTo(c, filter.visited)
  BY DEF ServerInv, ServerTypes, ListInv, FilterInv
<1>2. CASE filter.cookie = clients_cookie
  <2>1. PICK k \in DOMAIN clients : clients[k] = c /\ \A j \in 1..k : clients[j] \in filter.visited
    BY <1>1, <1>2 DEF UpTo
  <2>2. k \in I /\ I \subseteq Nat
    BY <1>1, <2>1
  <2>3. i = Min(I) + 1
    BY <1>1, <1>2, <2>1, <2>2 DEF Rest, Behind, SelectInSeq
  <2>4. Min(I) \in I
    <3> HIDE DEF I
    <3> QED BY <2>2, LeastNatural
  <2>5. Min(I) = k
    BY <1>1, <2>1, <2>4 DEF IsInjective
  <2> HIDE DEF I
  <2>6. i = k + 1
    BY <2>3, <2>5
  <2>7. i \in 1..(Len(clients) + 1) /\ i - 1 = k
    BY <1>1, <2>6
  <2>8. ~Dangling
    BY <2>1 DEF Dangling, Member
  <2> QED BY <2>1, <2>7, <2>8
<1>3. CASE filter.cookie # clients_cookie
  BY <1>1, <1>3 DEF Rest, Dangling
<1> QED BY <1>2, <1>3

LEMMA CallIs ==
    ASSUME NEW K \in SUBSET Clients, NEW V \in SUBSET Clients, NEW n \in Clients \cup {None}, NEW z \in Nat, NEW f,
           f = [at |-> "none", next |-> n, cookie |-> z, visited |-> V, known |-> K, dangling |-> FALSE]
    PROVE  f \in FilterCall
BY DEF FilterCall

LEMMA CallOfAll ==
    ASSUME NEW K \in SUBSET Clients, NEW f, f = [NoFilter EXCEPT !.known = K]
    PROVE  f \in FilterCall /\ ~f.dangling /\ f.known = K
<1> PICK n : n = None
  OBVIOUS
<1> PICK z : z = 0
  OBVIOUS
<1> PICK V : V = {}
  OBVIOUS
<1>1. f = [at |-> "none", next |-> n, cookie |-> z, visited |-> V, known |-> K, dangling |-> FALSE]
  BY DEF NoFilter
<1>2. n \in Clients \cup {None} /\ z \in Nat /\ V \in SUBSET Clients
  OBVIOUS
<1>3. f \in FilterCall
  BY <1>1, <1>2, CallIs
<1> QED BY <1>1, <1>3

LEMMA FilteringStep ==
    ASSUME ServerInv, Filtering
    PROVE  ServerInv'
<1>1. filter \in FilterCall /\ clients \in Seq(Clients)
  BY DEF ServerInv, ServerTypes
<1>2. ASSUME filter' \in FilterCall, FilterInv', UNCHANGED <<listVars, socketVars, squirks>>
      PROVE  ServerInv'
  <2>1. /\ clients' = clients /\ clients_cookie' = clients_cookie /\ ctx' = ctx /\ used' = used
        /\ socket' = socket /\ sources' = sources /\ squirks' = squirks
    BY <1>2 DEF listVars, socketVars
  <2>2. ServerTypes' /\ SocketInv'
    BY <1>2, <2>1 DEF ServerInv, ServerTypes, SocketInv
  <2>3. ListInv' /\ ThreadInv'
    BY <2>1 DEF ServerInv, ListInv, ThreadInv, Member, Listed
  <2>4. ThreadsCounted'
    BY <2>1 DEF ServerInv, ThreadsCounted
  <2> QED BY <1>2, <2>2, <2>3, <2>4 DEF ServerInv
<1>3. CASE FilterBegin
  <2> PICK f : f = [NoFilter EXCEPT !.known = {clients[i] : i \in DOMAIN clients}]
    OBVIOUS
  <2>1. clients # <<>> /\ Walk(f, 1) /\ UNCHANGED <<listVars, socketVars, squirks>>
    BY <1>3 DEF FilterBegin
  <2>2. f \in FilterCall /\ ~f.dangling /\ f.known = {clients[i] : i \in DOMAIN clients}
    <3> PICK K : K = {clients[i] : i \in DOMAIN clients}
      OBVIOUS
    <3>1. K \in SUBSET Clients
      BY <1>1
    <3>2. f = [NoFilter EXCEPT !.known = K]
      OBVIOUS
    <3>3. f \in FilterCall /\ ~f.dangling /\ f.known = K
      BY <3>1, <3>2, CallOfAll
    <3> QED BY <3>3
  <2>3. \A d \in f.known : ctx[d].at # "new"
    <3> SUFFICES ASSUME NEW d \in f.known
                 PROVE  ctx[d].at # "new"
      OBVIOUS
    <3>1. d \in Clients /\ Member(d)
      BY <1>1, <2>2 DEF Member
    <3> QED BY <3>1 DEF ServerInv, ListInv, Listed
  <2>4. 1 \in 1..(Len(clients) + 1) /\ \A j \in 1..(1 - 1) : clients[j] \in f.visited
    BY <1>1
  <2>5. filter' \in FilterCall /\ FilterInv'
    BY <2>1, <2>2, <2>3, <2>4, WalkIs
  <2> QED BY <1>2, <2>1, <2>5
<1>4. CASE FilterOn
  <2> PICK f : f = [filter EXCEPT !.dangling = @ \/ Dangling]
    OBVIOUS
  <2> PICK i : i = Rest(filter, clients, clients_cookie)
    OBVIOUS
  <2>1. filter.at \in {"func", "removed"} /\ Walk(f, i) /\ UNCHANGED <<listVars, socketVars, squirks>>
    BY <1>4 DEF FilterOn
  <2>2. ~Dangling /\ i \in 1..(Len(clients) + 1) /\ \A j \in 1..(i - 1) : clients[j] \in filter.visited
    BY <2>1, RestIs
  <2>3. filter.dangling = FALSE /\ \A d \in filter.known : ctx[d].at # "new"
    BY <1>1 DEF ServerInv, FilterInv, FilterSafe, FilterCall
  <2>4. f = [filter EXCEPT !.dangling = FALSE]
    BY <2>2, <2>3
  <2>5. f \in FilterCall /\ ~f.dangling /\ f.known = filter.known /\ f.visited = filter.visited
    BY <1>1, <2>4 DEF FilterCall
  <2>6. filter' \in FilterCall /\ FilterInv'
    BY <2>1, <2>2, <2>3, <2>5, WalkIs
  <2> QED BY <1>2, <2>1, <2>6
<1>5. CASE FilterRemove
  <2> PICK c : c = filter.next
    OBVIOUS
  <2>1. /\ filter.at = "func" /\ filter' = [filter EXCEPT !.at = "removed"]
        /\ ctx' = [ctx EXCEPT ![c].at = IF @ = "attached" THEN "closing" ELSE @]
        /\ UNCHANGED <<clients, clients_cookie, used, socketVars, squirks>>
    BY <1>5 DEF FilterRemove
  <2>2. c \in Clients /\ ctx[c] \in Context
    BY <2>1 DEF ServerInv, ServerTypes, FilterInv
  <2> PICK x : x = [ctx[c] EXCEPT !.at = IF @ = "attached" THEN "closing" ELSE @]
    OBVIOUS
  <2>3. /\ x \in Context /\ x.thread = ctx[c].thread /\ ctx' = [ctx EXCEPT ![c] = x]
        /\ x.at = IF ctx[c].at = "attached" THEN "closing" ELSE ctx[c].at
    BY <2>1, <2>2 DEF Context
  <2>4. /\ x.at \in {"attached", "closing"} <=> Listed(c)
        /\ x.at = "new" => x.thread = None
        /\ x.at = "unmanaged" => x.thread \in Threads
        /\ x.at # "new" \/ ctx[c].at = "new"
    BY <2>2, <2>3 DEF Listed, ServerInv, ThreadInv
  <2>5. /\ ctx' \in [Clients -> Context] /\ ListInv' /\ ThreadInv' /\ SocketInv'
        /\ \A d \in filter.known : ctx'[d].at # "new"
    <3>1. UNCHANGED <<clients, clients_cookie, socketVars, squirks>>
      BY <2>1
    <3>2. x \in Context /\ ctx' = [ctx EXCEPT ![c] = x]
      BY <2>3
    <3> QED BY <2>2, <2>4, <3>1, <3>2, ContextStep
  <2>6. ThreadsCounted'
    <3>1. ctx'[c] = x /\ \A d \in Clients \ {c} : ctx'[d] = ctx[d]
      BY <2>2, <2>3 DEF ServerInv, ServerTypes
    <3>2. \A t \in Threads : c \in Users(t)' <=> c \in Users(t)
      BY <2>2, <2>3, <3>1 DEF Users
    <3> QED BY <2>1, <2>2, <3>1, <3>2, CountSame
  <2>7. /\ filter' \in FilterCall /\ filter'.at = "removed" /\ filter'.next = filter.next
        /\ filter'.cookie = filter.cookie /\ filter'.visited = filter.visited /\ filter'.known = filter.known
        /\ filter'.dangling = filter.dangling
    BY <1>1, <2>1 DEF FilterCall
  <2>8. FilterInv'
    <3>1. clients' = clients /\ clients_cookie' = clients_cookie
      BY <2>1
    <3>2. filter.cookie = clients_cookie => UpTo(filter.next, filter.visited)
      BY <2>1 DEF ServerInv, FilterInv
    <3>3. filter'.cookie = clients_cookie' => UpTo(filter.next, filter.visited)'
      BY <2>7, <3>1, <3>2 DEF UpTo
    <3>4. filter'.cookie <= clients_cookie' /\ filter'.next \in Clients /\ FilterSafe' /\ FilterVisitsAll'
      BY <2>1, <2>7, <3>1 DEF ServerInv, FilterInv, FilterSafe, FilterVisitsAll
    <3> QED BY <2>5, <2>7, <3>3, <3>4 DEF FilterInv
  <2>9. ServerTypes'
    BY <2>1, <2>5, <2>7 DEF ServerInv, ServerTypes, socketVars
  <2> QED BY <2>5, <2>6, <2>8, <2>9 DEF ServerInv
<1> QED BY <1>3, <1>4, <1>5 DEF Filtering

LEMMA SocketStep ==
    ASSUME ServerInv, NEW s \in Sources, gst_rtsp_server_create_source(s) \/ watch_destroyed(s)
    PROVE  ServerInv'
<1>1. UNCHANGED <<listVars, filter>>
  BY DEF gst_rtsp_server_create_source, watch_destroyed
<1>2. /\ clients' = clients /\ clients_cookie' = clients_cookie /\ ctx' = ctx /\ used' = used /\ filter' = filter
  BY <1>1 DEF listVars
<1>3. ListInv' /\ ThreadInv' /\ ThreadsCounted'
  BY <1>2 DEF ServerInv, ListInv, ThreadInv, Member, Listed, ThreadsCounted
<1>4. FilterInv'
  <2>1. \A d \in filter.known : ctx'[d].at # "new"
    BY <1>2 DEF ServerInv, FilterInv
  <2> QED BY <1>2, <2>1, FilterSame
<1>5. socket \in Sources \cup {None} /\ sources \subseteq Sources /\ s # None
  BY Apart DEF ServerInv, ServerTypes
<1>6. socket' \in Sources \cup {None} /\ sources' \subseteq Sources /\ SocketInv'
  <2>1. CASE gst_rtsp_server_create_source(s)
    <3>1. /\ s \notin sources /\ socket' = s /\ sources' = sources \cup {s}
          /\ squirks' = squirks \cup IF sources # {} THEN {"second_source"} ELSE {}
      BY <2>1 DEF gst_rtsp_server_create_source, Socket
    <3>2. SocketInv'
      BY <1>5, <3>1 DEF ServerInv, SocketInv
    <3> QED BY <1>5, <3>1, <3>2
  <2>2. CASE watch_destroyed(s)
    <3>1. /\ s \in sources /\ socket' = None /\ sources' = sources \ {s}
          /\ squirks' = squirks \cup IF socket = None THEN {"no_socket"} ELSE {}
      BY <2>2 DEF watch_destroyed
    <3>2. SocketInv'
      BY <1>5, <3>1 DEF ServerInv, SocketInv
    <3> QED BY <1>5, <3>1, <3>2
  <2> QED BY <2>1, <2>2
<1>7. ServerTypes'
  BY <1>2, <1>6 DEF ServerInv, ServerTypes
<1> QED BY <1>3, <1>4, <1>6, <1>7 DEF ServerInv

LEMMA ServerStill ==
    ASSUME ServerInv, UNCHANGED serverVars
    PROVE  ServerInv'
<1>1. UNCHANGED <<listVars, filter, socketVars, squirks>>
  BY DEF serverVars
<1>2. /\ clients' = clients /\ clients_cookie' = clients_cookie /\ ctx' = ctx /\ used' = used
      /\ filter' = filter /\ socket' = socket /\ sources' = sources /\ squirks' = squirks
  BY <1>1 DEF listVars, socketVars
<1>3. ListInv' /\ ThreadInv' /\ ThreadsCounted'
  BY <1>2 DEF ServerInv, ListInv, ThreadInv, Member, Listed, ThreadsCounted
<1>4. FilterInv'
  <2>1. \A d \in filter.known : ctx'[d].at # "new"
    BY <1>2 DEF ServerInv, FilterInv
  <2> QED BY <1>2, <2>1, FilterSame
<1>5. ServerTypes' /\ SocketInv'
  BY <1>2 DEF ServerInv, ServerTypes, SocketInv
<1> QED BY <1>3, <1>4, <1>5 DEF ServerInv

LEMMA ServerInitially ==
    ASSUME ServerInit
    PROVE  ServerInv
<1>1. /\ clients = <<>> /\ clients_cookie = 0 /\ ctx = [c \in Clients |-> [at |-> "new", thread |-> None]]
      /\ used = [t \in Threads |-> 0] /\ filter = NoFilter /\ socket = None /\ sources = {} /\ squirks = {}
  BY DEF ServerInit
<1>2. clients \in Seq(Clients) /\ DOMAIN clients = {}
  BY <1>1
<1>3. ServerTypes
  BY <1>1, <1>2 DEF ServerTypes, Context, FilterCall, NoFilter
<1>4. ListInv /\ ThreadInv
  BY <1>1, <1>2 DEF ListInv, ThreadInv, IsInjective, Member, Listed
<1>5. ThreadsCounted
  <2> SUFFICES ASSUME NEW t \in Threads
               PROVE  used[t] = Cardinality(Users(t))
    BY CountedIs
  <2>1. Users(t) = {}
    BY <1>1, Apart DEF Users
  <2> QED BY <1>1, <2>1, FS_EmptySet
<1>6. FilterInv /\ SocketInv
  BY <1>1 DEF FilterInv, SocketInv, NoFilter, FilterSafe, FilterVisitsAll
<1> QED BY <1>3, <1>4, <1>5, <1>6 DEF ServerInv

-----------------------------------------------------------------------------
\* The factory.

\* d, without media that nobody has.
Kept(d) ==
    \A m \in Media :
      \/ md'[m] = d[m]
      \/ md'[m] = None /\ (\A k \in Keys : medias'[k] # m) /\ (\A t \in Callers : fc'[t].media # m)

\* d has what the media have, with other counts and states; what has ended stays so.
SameMedia(r, q) ==
    /\ q.key = r.key /\ q.shared = r.shared /\ q.reusable = r.reusable /\ q.hooked = r.hooked
    /\ can_be_shared(q) => can_be_shared(r)
Grown(d) == \A m \in Media : md[m] # None => d[m] # None /\ SameMedia(md[m], d[m])

One(p) == IF p THEN 1 ELSE 0
Counts(t, x, d) ==
    \A m \in Media :
      d[m] # None =>
        IF md[m] = None THEN d[m].count = 0 /\ ~Uses(x, m)
        ELSE d[m].count = md[m].count + One(Uses(x, m)) - One(Uses(fc[t], m))

LEMMA NoneApart == None \notin Callers /\ None \notin Media /\ None \notin MediaRecord /\ IsFiniteSet(Callers)
BY ServiceAssumption

LEMMA SettledKept ==
    ASSUME NEW d \in MediaTable, md' = Settled(d)
    PROVE  Kept(d) /\ md' \in MediaTable
<1>1. \A m \in Media : md'[m] = d[m] \/ md'[m] = None
  BY DEF Settled
<1>2. md' = [m \in Media |-> md'[m]]
  BY DEF Settled
<1>3. \A m \in Media : md'[m] \in MediaRecord \cup {None}
  BY <1>1 DEF MediaTable
<1>4. md' \in MediaTable
  <2> HIDE DEF Settled
  <2> QED BY <1>2, <1>3 DEF MediaTable
<1>5. Kept(d)
  BY DEF Kept, Settled
<1> QED BY <1>4, <1>5

LEMMA SameKept ==
    ASSUME NEW d \in MediaTable, md' = d
    PROVE  Kept(d) /\ md' \in MediaTable
BY DEF Kept

LEMMA CallsStep ==
    ASSUME FactoryInv, NEW t \in Callers, NEW x \in MediaCall, NEW d \in MediaTable,
           fc' = [fc EXCEPT ![t] = x], Kept(d), Grown(d), Follows(x, d)
    PROVE  fc' \in [Callers -> MediaCall] /\ CallInv'
<1>1. fc \in [Callers -> MediaCall]
  BY DEF FactoryInv, FactoryTypes
<1>2. fc' \in [Callers -> MediaCall] /\ fc'[t] = x /\ \A s \in Callers \ {t} : fc'[s] = fc[s]
  BY <1>1
<1>3. ASSUME NEW s \in Callers
      PROVE  Follows(fc'[s], d)
  <2>1. CASE s = t
    BY <1>2, <2>1
  <2>2. CASE s # t
    <3>1. Follows(fc[s], md) /\ fc[s] \in MediaCall
      BY <1>1 DEF FactoryInv, CallInv
    <3>2. fc[s].media # None => fc[s].media \in Media
      BY <3>1 DEF MediaCall
    <3>3. fc[s].at = "unprepared" => fc[s].media # None
      BY <3>1 DEF Follows, Holding
    <3>4. Follows(fc[s], d)
      BY <3>1, <3>2, <3>3 DEF Follows, Grown, SameMedia
    <3> QED BY <1>2, <2>2, <3>4
  <2> QED BY <2>1, <2>2
<1>4. ASSUME NEW s \in Callers
      PROVE  Follows(fc'[s], md')
  <2>1. fc'[s] \in MediaCall /\ Follows(fc'[s], d)
    BY <1>2, <1>3
  <2>2. CASE fc'[s].media = None
    BY <2>1, <2>2 DEF Follows, Holding
  <2>3. CASE fc'[s].media # None
    <3>1. fc'[s].media \in Media
      BY <2>1, <2>3 DEF MediaCall
    <3>2. md'[fc'[s].media] = d[fc'[s].media]
      BY <3>1 DEF Kept
    <3> QED BY <2>1, <3>2 DEF Follows
  <2> QED BY <2>2, <2>3
<1> QED BY <1>2, <1>4 DEF CallInv

LEMMA CacheStep ==
    ASSUME NEW d \in MediaTable, medias' \in [Keys -> Media \cup {None}], Kept(d), InCache(medias', d)
    PROVE  InCache(medias, md)'
<1> SUFFICES ASSUME NEW k \in Keys, medias'[k] # None
             PROVE  k \in SharedKeys /\ md'[medias'[k]] # None /\ md'[medias'[k]].key = k
  BY DEF InCache
<1>1. medias'[k] \in Media
  OBVIOUS
<1>2. md'[medias'[k]] = d[medias'[k]]
  BY <1>1 DEF Kept
<1> QED BY <1>2 DEF InCache

LEMMA SharedStep ==
    ASSUME NEW d \in MediaTable, Kept(d),
           "created_twice" \notin fquirks' =>
             \A m \in Media : (d[m] # None /\ can_be_shared(d[m])) => medias'[d[m].key] = m
    PROVE  CacheHasShared'
<1> SUFFICES ASSUME NEW m \in Media, Usable(m)', "created_twice" \notin fquirks'
             PROVE  medias'[md'[m].key] = m
  BY DEF CacheHasShared
<1>1. md'[m] # None /\ can_be_shared(md'[m])
  BY NoneApart DEF Usable
<1>2. md'[m] = d[m]
  BY <1>1 DEF Kept
<1> QED BY <1>1, <1>2

LEMMA HoldersMove ==
    ASSUME NEW t \in Callers, NEW m \in Media, \A s \in Callers \ {t} : fc'[s] = fc[s]
    PROVE  /\ IsFiniteSet(Holders(m)) /\ Cardinality(Holders(m)) \in Nat
           /\ Cardinality(Holders(m)') =
                One(t \in Holders(m)') + Cardinality(Holders(m)) - One(t \in Holders(m))
<1> DEFINE A == Holders(m)
           B == Holders(m)'
           R == A \ {t}
<1>1. A \subseteq Callers /\ B \subseteq Callers
  BY DEF Holders
<1>2. IsFiniteSet(A) /\ IsFiniteSet(R)
  BY <1>1, NoneApart, FS_Subset
<1>3. B \ {t} = R
  BY DEF Holders, Uses
<1> HIDE DEF A, B
<1>4. Cardinality(A) \in Nat
  BY <1>2, FS_CardinalityType
<1>5. Cardinality(R) = IF t \in A THEN Cardinality(A) - 1 ELSE Cardinality(A)
  BY <1>2, FS_RemoveElement
<1>6. B = IF t \in B THEN R \cup {t} ELSE R
  BY <1>3
<1> HIDE DEF R
<1>7. Cardinality(R \cup {t}) = IF t \in R THEN Cardinality(R) ELSE Cardinality(R) + 1
  BY <1>2, FS_AddElement
<1>8. t \notin R
  BY DEF R
<1>9. Cardinality(B) = IF t \in B THEN Cardinality(R) + 1 ELSE Cardinality(R)
  BY <1>6, <1>7, <1>8
<1>10. Cardinality(B) = One(t \in B) + Cardinality(A) - One(t \in A)
  BY <1>4, <1>5, <1>9 DEF One
<1> QED BY <1>2, <1>4, <1>10 DEF A, B

LEMMA NobodyHolds ==
    ASSUME FactoryInv, NEW m \in Media, md[m] = None
    PROVE  Holders(m) = {}
<1> SUFFICES ASSUME NEW t \in Callers, Uses(fc[t], m)
             PROVE  FALSE
  BY DEF Holders
<1>1. fc[t].media = m /\ Follows(fc[t], md)
  BY DEF Uses, FactoryInv, CallInv
<1> QED BY <1>1, NoneApart DEF Follows

LEMMA CountsStep ==
    ASSUME FactoryInv, NEW t \in Callers, NEW x \in MediaCall, NEW d \in MediaTable,
           fc' = [fc EXCEPT ![t] = x], Kept(d), Counts(t, x, d),
           \A m \in Media : d[m] # None => Configured(d[m])
    PROVE  MediaInv'
<1>1. fc \in [Callers -> MediaCall]
  BY DEF FactoryInv, FactoryTypes
<1>2. fc'[t] = x /\ \A s \in Callers \ {t} : fc'[s] = fc[s]
  BY <1>1
<1> SUFFICES ASSUME NEW m \in Media, md'[m] # None
             PROVE  Configured(md'[m]) /\ md'[m].count = Cardinality(Holders(m)')
  BY DEF MediaInv
<1>3. md'[m] = d[m] /\ d[m] # None
  BY DEF Kept
<1> PICK h : h = Cardinality(Holders(m))
  OBVIOUS
<1>4. /\ h \in Nat
      /\ Cardinality(Holders(m)') = One(t \in Holders(m)') + h - One(t \in Holders(m))
  BY <1>2, HoldersMove
<1>5. (t \in Holders(m)' <=> Uses(x, m)) /\ (t \in Holders(m) <=> Uses(fc[t], m))
  <2>1. t \in Holders(m)' <=> Uses(fc'[t], m)
    BY DEF Holders, Uses
  <2>2. t \in Holders(m) <=> Uses(fc[t], m)
    BY DEF Holders
  <2> QED BY <1>2, <2>1, <2>2
<1>6. Cardinality(Holders(m)') = One(Uses(x, m)) + h - One(Uses(fc[t], m))
  BY <1>4, <1>5 DEF One
<1>7. CASE md[m] = None
  <2>1. Holders(m) = {} /\ ~Uses(fc[t], m)
    BY <1>5, <1>7, NobodyHolds
  <2>2. h = 0
    BY <2>1, FS_EmptySet
  <2>3. d[m].count = 0 /\ ~Uses(x, m)
    BY <1>3, <1>7 DEF Counts
  <2> QED BY <1>3, <1>6, <2>1, <2>2, <2>3 DEF One
<1>8. CASE md[m] # None
  <2>1. md[m].count = h
    BY <1>8 DEF FactoryInv, MediaInv
  <2>2. d[m].count = h + One(Uses(x, m)) - One(Uses(fc[t], m))
    BY <1>3, <1>8, <2>1 DEF Counts
  <2>3. One(Uses(x, m)) \in Int /\ One(Uses(fc[t], m)) \in Int
    BY DEF One
  <2> QED BY <1>3, <1>4, <1>6, <2>2, <2>3
<1> QED BY <1>7, <1>8

Fewer(d) == \A m \in Media : d[m] # None => md[m] # None
Put(f, m, r) == [f EXCEPT ![m] = r]

\* A step that adds nothing to the cache.
LEMMA FactoryMove ==
    ASSUME FactoryInv, NEW t \in Callers, NEW x \in MediaCall, NEW d \in MediaTable,
           fc' = [fc EXCEPT ![t] = x], Kept(d), Grown(d), Follows(x, d), Counts(t, x, d),
           md' \in MediaTable, UNCHANGED medias,
           Fewer(d),
           medias_lock' \in Callers \cup {None}, LockInv',
           "created_twice" \in fquirks => "created_twice" \in fquirks'
    PROVE  FactoryInv'
<1>1. medias \in [Keys -> Media \cup {None}]
  BY DEF FactoryInv, FactoryTypes
<1>2. \A m \in Media : d[m] # None => md[m] # None /\ SameMedia(md[m], d[m])
  BY DEF Grown, Fewer
<1>3. fc' \in [Callers -> MediaCall] /\ CallInv'
  BY CallsStep
<1>4. InCache(medias, md)'
  <2>1. InCache(medias, d)
    BY <1>1, <1>2 DEF InCache, FactoryInv, SameMedia, Grown
  <2> QED BY <1>1, <2>1, CacheStep
<1>5. MediaInv'
  <2>1. \A m \in Media : d[m] # None => Configured(d[m])
    BY <1>2 DEF FactoryInv, MediaInv, Configured, SameMedia
  <2> QED BY <2>1, CountsStep
<1>6. CacheHasShared'
  <2>1. ASSUME NEW m \in Media, d[m] # None, can_be_shared(d[m]), "created_twice" \notin fquirks'
        PROVE  medias[d[m].key] = m
    <3>1. Usable(m) /\ d[m].key = md[m].key
      BY <1>2, <2>1, NoneApart DEF Usable, SameMedia
    <3> QED BY <2>1, <3>1 DEF FactoryInv, CacheHasShared
  <2> QED BY <2>1, SharedStep
<1>7. FactoryTypes'
  BY <1>1, <1>3 DEF FactoryTypes
<1> QED BY <1>3, <1>4, <1>5, <1>6, <1>7 DEF FactoryInv

LEMMA SameMove ==
    ASSUME FactoryInv, NEW t \in Callers, NEW x \in MediaCall, \A m \in Media : Uses(x, m) <=> Uses(fc[t], m)
    PROVE  Grown(md) /\ Counts(t, x, md) /\ Fewer(md) /\ md \in MediaTable
<1>1. md \in MediaTable /\ \A m \in Media : md[m] # None => md[m].count \in Nat
  BY DEF FactoryInv, FactoryTypes, MediaTable, MediaRecord
<1>2. Counts(t, x, md)
  BY <1>1 DEF Counts, One
<1> QED BY <1>1, <1>2 DEF Grown, SameMedia, Fewer

LEMMA PutMove ==
    ASSUME FactoryInv, NEW t \in Callers, NEW x \in MediaCall, NEW m \in Media, NEW r \in MediaRecord, NEW d,
           fc[t].media = m, md[m] # None, SameMedia(md[m], r), d = Put(md, m, r),
           x.media = m \/ x.media = None,
           r.count = md[m].count + One(Uses(x, m)) - One(Uses(fc[t], m))
    PROVE  /\ d \in MediaTable /\ Grown(d) /\ Counts(t, x, d)
           /\ Fewer(d)
<1>1. md \in MediaTable /\ \A n \in Media : md[n] # None => md[n].count \in Nat
  BY DEF FactoryInv, FactoryTypes, MediaTable, MediaRecord
<1>2. d \in MediaTable /\ d[m] = r /\ \A n \in Media \ {m} : d[n] = md[n]
  BY <1>1 DEF MediaTable, Put
<1>3. Grown(d) /\ Fewer(d)
  BY <1>2, NoneApart DEF Grown, SameMedia, Fewer
<1>4. Counts(t, x, d)
  <2> SUFFICES ASSUME NEW n \in Media, d[n] # None
               PROVE  IF md[n] = None THEN d[n].count = 0 /\ ~Uses(x, n)
                      ELSE d[n].count = md[n].count + One(Uses(x, n)) - One(Uses(fc[t], n))
    BY DEF Counts
  <2>1. CASE n = m
    BY <1>2, <2>1
  <2>2. CASE n # m
    <3>1. ~Uses(x, n) /\ ~Uses(fc[t], n)
      BY <2>2, NoneApart DEF Uses
    <3> QED BY <1>1, <1>2, <2>2, <3>1 DEF One
  <2> QED BY <2>1, <2>2
<1> QED BY <1>2, <1>3, <1>4

LEMMA LockSame ==
    ASSUME FactoryInv, NEW t \in Callers, NEW x \in MediaCall, fc' = [fc EXCEPT ![t] = x],
           UNCHANGED <<medias, medias_lock>>, fc[t].at # "create", x.at # "create"
    PROVE  LockInv' /\ medias_lock' \in Callers \cup {None}
<1>1. fc \in [Callers -> MediaCall] /\ medias_lock \in Callers \cup {None}
  BY DEF FactoryInv, FactoryTypes
<1>2. fc'[t] = x /\ \A s \in Callers \ {t} : fc'[s] = fc[s]
  BY <1>1
<1> QED BY <1>1, <1>2 DEF FactoryInv, LockInv

\* Who takes or leaves the lock of the cache.
LEMMA LockStep ==
    ASSUME FactoryInv, NEW t \in Callers, NEW x \in MediaCall, fc' = [fc EXCEPT ![t] = x],
           UNCHANGED <<medias, md, fquirks>>, fc[t].media = None, Follows(x, md), x.media = None,
           medias_lock \in {t, None}, medias_lock' = (IF x.at = "create" THEN t ELSE None),
           x.at = "create" => x.again \/ medias[x.key] = None
    PROVE  FactoryInv'
<1>1. fc \in [Callers -> MediaCall] /\ medias_lock \in Callers \cup {None} /\ md \in MediaTable
  BY DEF FactoryInv, FactoryTypes
<1>2. fc'[t] = x /\ \A s \in Callers \ {t} : fc'[s] = fc[s]
  BY <1>1
<1>3. LockInv'
  <2>1. \A s \in Callers \ {t} : fc[s].at # "create"
    BY NoneApart DEF FactoryInv, LockInv
  <2> QED BY <1>2, <2>1, NoneApart DEF LockInv
<1>4. \A m \in Media : Uses(x, m) <=> Uses(fc[t], m)
  BY NoneApart DEF Uses
<1>5. Kept(md) /\ md' \in MediaTable
  BY <1>1, SameKept
<1>6. Grown(md) /\ Counts(t, x, md) /\ Fewer(md)
  BY <1>4, SameMove
<1>7. medias' = medias /\ fquirks' = fquirks /\ medias_lock' \in Callers \cup {None}
  OBVIOUS
<1> QED BY <1>1, <1>3, <1>5, <1>6, <1>7, FactoryMove

LEMMA ConstructStep ==
    ASSUME FactoryInv, NEW t \in Callers, NEW k \in Keys, construct(t, k)
    PROVE  FactoryInv'
<1>1. /\ medias \in [Keys -> Media \cup {None}] /\ fc[t] \in MediaCall /\ Follows(fc[t], md) /\ md \in MediaTable
      /\ fc[t].at = "idle" /\ fc[t].media = None /\ medias_lock = None /\ UNCHANGED <<medias, md, fquirks>>
  BY DEF FactoryInv, FactoryTypes, CallInv, Follows, Holding, construct
<1>2. CASE medias[k] # None
  <2> PICK x : x = [NoCall EXCEPT !.at = "found", !.key = k, !.media = medias[k]]
    OBVIOUS
  <2>1. medias[k] \in Media
    BY <1>1, <1>2
  <2>2. x \in MediaCall /\ x.at = "found" /\ x.key = k /\ x.media = medias[k]
    BY <2>1 DEF NoCall, MediaCall
  <2>3. Follows(x, md)
    <3>1. md[medias[k]] # None
      BY <1>2 DEF FactoryInv, InCache
    <3> QED BY <1>2, <2>2, <3>1 DEF Follows, Holding
  <2>4. fc' = [fc EXCEPT ![t] = x] /\ medias_lock' = medias_lock
    BY <1>2 DEF construct
  <2>5. LockInv' /\ medias_lock' \in Callers \cup {None}
    BY <1>1, <2>2, <2>4, LockSame
  <2>6. Kept(md) /\ md' \in MediaTable
    BY <1>1, SameKept
  <2>7. Grown(md) /\ Counts(t, x, md) /\ Fewer(md)
    <3>1. \A m \in Media : Uses(x, m) <=> Uses(fc[t], m)
      BY <1>1, <2>2 DEF Uses
    <3> QED BY <2>2, <3>1, SameMove
  <2> QED BY <1>1, <2>2, <2>3, <2>4, <2>5, <2>6, <2>7, FactoryMove
<1>3. CASE medias[k] = None
  <2> PICK x : x = [NoCall EXCEPT !.at = "create", !.key = k]
    OBVIOUS
  <2>1. x \in MediaCall /\ x.at = "create" /\ x.key = k /\ x.media = None
    BY DEF NoCall, MediaCall
  <2>2. fc' = [fc EXCEPT ![t] = x] /\ medias_lock' = t
    BY <1>3 DEF construct, HeldFor
  <2>3. Follows(x, md)
    BY <2>1 DEF Follows, Holding
  <2> QED BY <1>1, <1>3, <2>1, <2>2, <2>3, LockStep
<1> QED BY <1>2, <1>3

LEMMA NoCallIs == NoCall \in MediaCall /\ NoCall.media = None /\ NoCall.at = "idle" /\ Follows(NoCall, md)
BY DEF NoCall, MediaCall, Follows, Holding

LEMMA LockingStep ==
    ASSUME FactoryInv, NEW t \in Callers, Relock(t) \/ CreateFails(t)
    PROVE  FactoryInv'
<1>1. /\ fc[t] \in MediaCall /\ Follows(fc[t], md) /\ UNCHANGED <<medias, md, fquirks>>
      /\ fc[t].at = "create" <=> medias_lock = t
  BY DEF FactoryInv, FactoryTypes, CallInv, LockInv, Relock, CreateFails
<1>2. CASE Relock(t)
  <2> PICK x : x = [fc[t] EXCEPT !.at = "create", !.again = TRUE]
    OBVIOUS
  <2>1. fc[t].at = "relock" /\ medias_lock = None /\ medias_lock' = t
    BY <1>2 DEF Relock
  <2>2. fc' = [fc EXCEPT ![t] = x]
    BY <1>2 DEF Relock
  <2>3. fc[t].media = None /\ fc[t].key \in Keys
    BY <1>1, <2>1 DEF Follows, Holding
  <2>4. x \in MediaCall /\ x.at = "create" /\ x.again /\ x.media = None /\ x.key = fc[t].key
    BY <1>1, <2>3 DEF MediaCall
  <2>5. Follows(x, md)
    BY <2>3, <2>4 DEF Follows, Holding
  <2> QED BY <1>1, <2>1, <2>2, <2>3, <2>4, <2>5, LockStep
<1>3. CASE CreateFails(t)
  <2>1. fc[t].at = "create" /\ medias_lock' = None /\ fc' = [fc EXCEPT ![t] = NoCall]
    BY <1>3 DEF CreateFails
  <2>2. fc[t].media = None
    BY <1>1, <2>1 DEF Follows, Holding
  <2> QED BY <1>1, <2>1, <2>2, NoCallIs, LockStep
<1> QED BY <1>2, <1>3

\* A step of a caller within the media it has.
LEMMA UseMove ==
    ASSUME FactoryInv, NEW t \in Callers, NEW x \in MediaCall, NEW d \in MediaTable,
           fc' = [fc EXCEPT ![t] = x], UNCHANGED <<medias, medias_lock>>,
           fc[t].at # "create", x.at # "create", Kept(d), md' \in MediaTable, Grown(d), Follows(x, d), Counts(t, x, d),
           Fewer(d),
           "created_twice" \in fquirks => "created_twice" \in fquirks'
    PROVE  FactoryInv'
<1>1. LockInv' /\ medias_lock' \in Callers \cup {None}
  BY LockSame
<1>2. medias' = medias
  OBVIOUS
<1> QED BY <1>1, <1>2, FactoryMove

LEMMA ShareStep ==
    ASSUME FactoryInv, NEW t \in Callers, Share(t)
    PROVE  FactoryInv'
<1>1. /\ fc[t] \in MediaCall /\ Follows(fc[t], md) /\ md \in MediaTable /\ fc[t].at = "found"
      /\ UNCHANGED <<medias, medias_lock>> /\ fquirks' = fquirks /\ md' = Settled(md)
  BY DEF FactoryInv, FactoryTypes, CallInv, Share
<1>2. Kept(md) /\ md' \in MediaTable
  BY <1>1, SettledKept
<1>3. fc[t].media # None /\ fc[t].key \in Keys /\ md[fc[t].media] # None
  BY <1>1 DEF Follows, Holding
<1>4. ASSUME NEW x \in MediaCall, fc' = [fc EXCEPT ![t] = x], x.at \notin {"create", "using", "failed"}, Follows(x, md)
      PROVE  FactoryInv'
  <2>1. \A m \in Media : Uses(x, m) <=> Uses(fc[t], m)
    BY <1>1, <1>4 DEF Uses
  <2>2. Grown(md) /\ Counts(t, x, md) /\ Fewer(md)
    BY <2>1, SameMove
  <2> QED BY <1>1, <1>2, <1>4, <2>2, UseMove
<1>5. CASE can_be_shared(md[fc[t].media])
  <2> PICK x : x = [fc[t] EXCEPT !.at = "constructed"]
    OBVIOUS
  <2>1. fc' = [fc EXCEPT ![t] = x]
    BY <1>5 DEF Share, At
  <2>2. x \in MediaCall /\ x.at = "constructed" /\ x.key = fc[t].key /\ x.media = fc[t].media
    BY <1>1 DEF MediaCall
  <2>3. Follows(x, md)
    BY <1>3, <2>2 DEF Follows, Holding
  <2> QED BY <1>4, <2>1, <2>2, <2>3
<1>6. CASE ~can_be_shared(md[fc[t].media])
  <2> PICK x : x = [fc[t] EXCEPT !.at = "relock", !.media = None]
    OBVIOUS
  <2>1. fc' = [fc EXCEPT ![t] = x]
    BY <1>6 DEF Share
  <2>2. x \in MediaCall /\ x.at = "relock" /\ x.key = fc[t].key /\ x.media = None
    BY <1>1 DEF MediaCall
  <2>3. Follows(x, md)
    BY <1>3, <2>2 DEF Follows, Holding
  <2> QED BY <1>4, <2>1, <2>2, <2>3
<1> QED BY <1>5, <1>6

\* The media a caller has.
LEMMA MediaOf ==
    ASSUME FactoryInv, NEW t \in Callers, fc[t].at \in Holding
    PROVE  /\ fc[t] \in MediaCall /\ fc[t].media \in Media /\ fc[t].key \in Keys /\ md \in MediaTable
           /\ md[fc[t].media] # None /\ md[fc[t].media] \in MediaRecord /\ md[fc[t].media].count \in Nat
           /\ fc[t].at \in {"using", "failed"} => md[fc[t].media].count > 0
<1>1. fc[t] \in MediaCall /\ md \in MediaTable /\ Follows(fc[t], md)
  BY DEF FactoryInv, FactoryTypes, CallInv
<1> PICK m : m = fc[t].media
  OBVIOUS
<1>2. m \in Media /\ fc[t].key \in Keys /\ md[m] # None
  BY <1>1 DEF Follows, MediaCall, Holding
<1>3. md[m] \in MediaRecord /\ md[m].count \in Nat
  BY <1>1, <1>2 DEF MediaTable, MediaRecord
<1>4. ASSUME fc[t].at \in {"using", "failed"}
      PROVE  md[m].count > 0
  <2> PICK A : A = Holders(m)
    OBVIOUS
  <2>1. t \in A /\ A \subseteq Callers
    BY <1>4 DEF Holders, Uses
  <2>2. IsFiniteSet(A)
    BY <2>1, NoneApart, FS_Subset
  <2>3. Cardinality(A) # 0
    BY <2>1, <2>2, FS_EmptySet
  <2>4. md[m].count = Cardinality(A)
    BY <1>2 DEF FactoryInv, MediaInv
  <2> QED BY <1>3, <2>3, <2>4
<1> QED BY <1>1, <1>2, <1>3, <1>4

Counted(q, n, s) == [q EXCEPT !.count = n, !.status = s]
LEMMA RecordIs ==
    ASSUME NEW q \in MediaRecord, NEW n \in Nat, NEW s \in {"unprepared", "prepared", "unpreparing"}, NEW r,
           r = Counted(q, n, s)
    PROVE  r \in MediaRecord /\ r.count = n /\ SameMedia(q, r)
<1>1. /\ q.key \in Keys /\ q.shared \in BOOLEAN /\ q.reusable \in BOOLEAN /\ q.reused \in BOOLEAN
      /\ q.hooked \in BOOLEAN
  BY DEF MediaRecord
<1>2. r = [key |-> q.key, shared |-> q.shared, reusable |-> q.reusable, reused |-> q.reused,
           hooked |-> q.hooked, status |-> s, count |-> n]
  BY DEF MediaRecord, Counted
<1>3. r \in MediaRecord
  BY <1>1, <1>2 DEF MediaRecord
<1>4. SameMedia(q, r)
  BY <1>2 DEF SameMedia, can_be_shared
<1> QED BY <1>2, <1>3, <1>4

LEMMA PrepareStep ==
    ASSUME FactoryInv, NEW t \in Callers, Prepare(t)
    PROVE  FactoryInv'
<1> PICK m : m = fc[t].media
  OBVIOUS
<1>1. fc[t].at = "constructed" /\ fc[t].at \in Holding /\ UNCHANGED <<medias, medias_lock>>
  BY DEF Prepare, Holding
<1>2. /\ fc[t] \in MediaCall /\ m \in Media /\ fc[t].key \in Keys /\ md \in MediaTable
      /\ md[m] # None /\ md[m] \in MediaRecord /\ md[m].count \in Nat
  BY <1>1, MediaOf
<1>3. \A n \in Media : ~Uses(fc[t], n)
  BY <1>1 DEF Uses
<1>4. CASE Refused(md[m])
  <2>1. /\ fc' = [fc EXCEPT ![t] = NoCall] /\ md' = Settled(md)
        /\ "created_twice" \in fquirks => "created_twice" \in fquirks'
    BY <1>4 DEF Prepare
  <2>2. Kept(md) /\ md' \in MediaTable
    BY <1>2, <2>1, SettledKept
  <2>3. \A n \in Media : Uses(NoCall, n) <=> Uses(fc[t], n)
    BY <1>3, NoCallIs DEF Uses
  <2>4. Grown(md) /\ Counts(t, NoCall, md) /\ Fewer(md)
    BY <2>3, NoCallIs, SameMove
  <2> QED BY <1>1, <1>2, <2>1, <2>2, <2>4, NoCallIs, UseMove
<1>5. CASE ~Refused(md[m])
  <2>9. PICK z \in Nat : z = md[m].count + 1
    BY <1>2
  <2>7. PICK r : r = Counted(md[m], z, "prepared")
    OBVIOUS
  <2>8. PICK d : d = Put(md, m, r)
    OBVIOUS
  <2>1. md' = d /\ fquirks' = fquirks
    BY <1>2, <1>5, <2>9, <2>7, <2>8 DEF Prepare, Counted, Put
  <2>2. r \in MediaRecord /\ r.count = z /\ SameMedia(md[m], r)
    <3> PICK q : q = md[m]
      OBVIOUS
    <3> PICK s : s = "prepared"
      OBVIOUS
    <3>1. /\ q \in MediaRecord /\ r = Counted(q, z, s) /\ z \in Nat
          /\ s \in {"unprepared", "prepared", "unpreparing"}
      BY <1>2, <2>9, <2>7
    <3>2. r \in MediaRecord
      BY <3>1, RecordIs
    <3>3. r.count = z
      BY <3>1, RecordIs
    <3>4. SameMedia(q, r)
      BY <3>1, RecordIs
    <3> QED BY <3>2, <3>3, <3>4
  <2>3. ASSUME NEW a \in {"using", "failed"}, At(t, a)
        PROVE  FactoryInv'
    <3> PICK x : x = [fc[t] EXCEPT !.at = a]
      OBVIOUS
    <3>1. fc' = [fc EXCEPT ![t] = x]
      BY <2>3 DEF At
    <3>2. x \in MediaCall /\ x.at = a /\ x.key = fc[t].key /\ x.media = m
      BY <1>2, <2>3 DEF MediaCall
    <3>3. Uses(x, m)
      BY <2>3, <3>2 DEF Uses
    <3>4. r.count = md[m].count + One(Uses(x, m)) - One(Uses(fc[t], m))
      BY <1>2, <1>3, <2>2, <2>9, <3>3 DEF One
    <3>5. /\ d \in MediaTable /\ Grown(d) /\ Counts(t, x, d)
          /\ Fewer(d)
      <4>1. fc[t].media = m
        OBVIOUS
      <4> QED BY <1>2, <2>2, <2>8, <3>2, <3>4, <4>1, PutMove
    <3>6. d[m] # None
      BY <1>2, <3>5 DEF Grown
    <3>7. Follows(x, d)
      BY <1>2, <2>3, <3>2, <3>6, NoneApart DEF Follows, Holding
    <3>8. Kept(d) /\ md' \in MediaTable
      BY <2>1, <3>5, SameKept
    <3>9. x.at # "create" /\ fc[t].at # "create" /\ fquirks' = fquirks
      BY <1>1, <2>1, <2>3, <3>2
    <3> QED BY <1>1, <3>1, <3>2, <3>5, <3>7, <3>8, <3>9, UseMove
  <2>4. At(t, "using") \/ At(t, "failed")
    BY <1>5 DEF Prepare
  <2> QED BY <2>3, <2>4
<1> QED BY <1>4, <1>5

LEMMA UnprepareStep ==
    ASSUME FactoryInv, NEW t \in Callers, NEW a \in {"using", "failed"}, Unprepare(t, a)
    PROVE  FactoryInv'
<1>0. PICK m : fc[t].media = m
  OBVIOUS
<1>1. /\ fc[t].at = a /\ fc[t].at \in Holding /\ fc[t].at # "create"
      /\ UNCHANGED <<medias, medias_lock>> /\ fquirks' = fquirks
  BY DEF Unprepare, Holding
<1>2. /\ fc[t] \in MediaCall /\ m \in Media /\ fc[t].key \in Keys /\ md \in MediaTable
      /\ md[m] # None /\ md[m] \in MediaRecord /\ md[m].count \in Nat /\ md[m].count > 0
  BY <1>0, <1>1, MediaOf
<1>3. Uses(fc[t], m)
  BY <1>0, <1>1 DEF Uses
<1>4. ASSUME NEW z \in Nat, NEW s \in {"unprepared", "prepared", "unpreparing"}, NEW x \in MediaCall,
             md' = Put(md, m, Counted(md[m], z, s)), fc' = [fc EXCEPT ![t] = x],
             z = md[m].count - 1, ~Uses(x, m), x.at # "create",
             (x.at = "idle" /\ x.media = None) \/ (x.at = "finish" /\ x.media = m /\ x.key = fc[t].key)
      PROVE  FactoryInv'
  <2>1. PICK q : q = md[m]
    OBVIOUS
  <2>2. PICK r : r = Counted(q, z, s)
    OBVIOUS
  <2>3. PICK d : d = Put(md, m, r)
    OBVIOUS
  <2>4. q \in MediaRecord
    BY <1>2, <2>1
  <2>5. r \in MediaRecord
    BY <2>2, <2>4, RecordIs
  <2>6. r.count = z
    BY <2>2, <2>4, RecordIs
  <2>7. SameMedia(md[m], r)
    BY <2>1, <2>2, <2>4, RecordIs
  <2>8. r.count = md[m].count + One(Uses(x, m)) - One(Uses(fc[t], m))
    BY <1>2, <1>3, <1>4, <2>6 DEF One
  <2>9. d \in MediaTable /\ Grown(d) /\ Counts(t, x, d) /\ Fewer(d)
    BY <1>0, <1>2, <1>4, <2>3, <2>5, <2>7, <2>8, PutMove
  <2>10. Kept(d) /\ md' \in MediaTable
    BY <1>4, <2>1, <2>2, <2>3, <2>9, SameKept
  <2>11. Follows(x, d)
    <3>1. d[m] # None
      BY <1>2, <2>9 DEF Grown
    <3> QED BY <1>2, <1>4, <3>1, NoneApart DEF Follows, Holding
  <2>12. fc[t].at # "create" /\ UNCHANGED <<medias, medias_lock>> /\ fquirks' = fquirks
    BY <1>1
  <2> QED BY <1>4, <2>9, <2>10, <2>11, <2>12, UseMove
<1>5. CASE md[m].count > 1
  <2>1. fc' = [fc EXCEPT ![t] = NoCall] /\ md' = [md EXCEPT ![m].count = md[m].count - 1]
    BY <1>0, <1>5 DEF Unprepare
  <2>2. PICK z \in Nat : z = md[m].count - 1
    BY <1>2
  <2>3. PICK s \in {"unprepared", "prepared", "unpreparing"} : s = md[m].status
    BY <1>2 DEF MediaRecord
  <2>4. [md[m] EXCEPT !.count = z] = Counted(md[m], z, s)
    BY <1>2, <2>2, <2>3 DEF Counted, MediaRecord
  <2>5. md' = Put(md, m, Counted(md[m], z, s))
    BY <2>1, <2>2, <2>4 DEF Put
  <2>6. ~Uses(NoCall, m) /\ NoCall.at # "create"
    BY NoCallIs DEF Uses
  <2> QED BY <1>4, <2>1, <2>2, <2>5, <2>6, NoCallIs
<1>6. CASE ~(md[m].count > 1)
  <2>1. At(t, "finish") /\ md' = [md EXCEPT ![m].count = 0, ![m].status = "unpreparing"]
    BY <1>0, <1>6 DEF Unprepare
  <2>2. PICK x : x = [fc[t] EXCEPT !.at = "finish"]
    OBVIOUS
  <2>3. x \in MediaCall /\ x.at = "finish" /\ x.media = m /\ x.key = fc[t].key
    BY <1>0, <1>2, <2>2 DEF MediaCall
  <2>4. fc' = [fc EXCEPT ![t] = x]
    BY <2>1, <2>2 DEF At
  <2>5. PICK z \in Nat : z = 0
    OBVIOUS
  <2>6. PICK s \in {"unprepared", "prepared", "unpreparing"} : s = "unpreparing"
    OBVIOUS
  <2>7. md' = Put(md, m, Counted(md[m], z, s))
    BY <1>2, <2>1, <2>5, <2>6 DEF Put, Counted
  <2>8. z = md[m].count - 1
    BY <1>2, <1>6, <2>5
  <2>9. /\ ~Uses(x, m) /\ x.at # "create"
        /\ (x.at = "idle" /\ x.media = None) \/ (x.at = "finish" /\ x.media = m /\ x.key = fc[t].key)
    BY <2>3 DEF Uses
  <2> HIDE <1>0, <2>2, <2>5, <2>6
  <2> QED BY <1>4, <2>3, <2>4, <2>7, <2>8, <2>9
<1> QED BY <1>5, <1>6

\* The pipeline is stopped; a media that is not reusable is told to the factory.
Ended(q) == [q EXCEPT !.status = "unprepared", !.reused = TRUE]
LEMMA EndedIs ==
    ASSUME NEW q \in MediaRecord, NEW r, r = Ended(q)
    PROVE  r \in MediaRecord /\ r.count = q.count /\ SameMedia(q, r) /\ ((q.hooked /\ Configured(q)) => ~can_be_shared(r))
<1>1. /\ q.key \in Keys /\ q.shared \in BOOLEAN /\ q.reusable \in BOOLEAN /\ q.reused \in BOOLEAN
      /\ q.hooked \in BOOLEAN /\ q.count \in Nat
  BY DEF MediaRecord
<1> PICK s \in {"unprepared", "prepared", "unpreparing"} : s = "unprepared"
  OBVIOUS
<1>2. r = [key |-> q.key, shared |-> q.shared, reusable |-> q.reusable, reused |-> TRUE,
           hooked |-> q.hooked, status |-> s, count |-> q.count]
  BY DEF MediaRecord, Ended
<1>3. r \in MediaRecord
  <2> PICK b \in BOOLEAN : b = TRUE
    OBVIOUS
  <2>1. r = [key |-> q.key, shared |-> q.shared, reusable |-> q.reusable, reused |-> b,
             hooked |-> q.hooked, status |-> s, count |-> q.count]
    BY <1>2
  <2> QED BY <1>1, <2>1 DEF MediaRecord
<1>4. SameMedia(q, r)
  BY <1>2 DEF SameMedia, can_be_shared
<1>5. (q.hooked /\ Configured(q)) => ~can_be_shared(r)
  BY <1>2 DEF Configured, can_be_shared
<1> QED BY <1>2, <1>3, <1>4, <1>5

LEMMA FinishStep ==
    ASSUME FactoryInv, NEW t \in Callers, FinishUnprepare(t)
    PROVE  FactoryInv'
<1>0. PICK m : fc[t].media = m
  OBVIOUS
<1>1. /\ fc[t].at = "finish" /\ fc[t].at \in Holding
      /\ UNCHANGED <<medias, medias_lock>> /\ fquirks' = fquirks
  BY DEF FinishUnprepare, Holding
<1>2. /\ fc[t] \in MediaCall /\ m \in Media /\ fc[t].key \in Keys /\ md \in MediaTable
      /\ md[m] # None /\ md[m] \in MediaRecord /\ md[m].count \in Nat
  BY <1>0, <1>1, MediaOf
<1>3. PICK q : q = md[m]
  OBVIOUS
<1>4. PICK r : r = Ended(q)
  OBVIOUS
<1>5. PICK d : d = Put(md, m, r)
  OBVIOUS
<1>6. q \in MediaRecord
  BY <1>2, <1>3
<1>7. r \in MediaRecord
  BY <1>4, <1>6, EndedIs
<1>8. r.count = q.count
  BY <1>4, <1>6, EndedIs
<1>9. SameMedia(q, r)
  BY <1>4, <1>6, EndedIs
<1>10. md' = Settled(d)
  BY <1>0, <1>3, <1>4, <1>5 DEF FinishUnprepare, Put, Ended
<1>11. ASSUME NEW x \in MediaCall, fc' = [fc EXCEPT ![t] = x], x.at \notin {"create", "using", "failed"}, Follows(x, d),
              x.media \in {m, None}
       PROVE  FactoryInv'
  <2>1. \A n \in Media : ~Uses(x, n) /\ ~Uses(fc[t], n)
    BY <1>1, <1>11 DEF Uses
  <2>2. r.count = md[m].count + One(Uses(x, m)) - One(Uses(fc[t], m))
    BY <1>2, <1>3, <1>8, <2>1 DEF One
  <2>3. d \in MediaTable /\ Grown(d) /\ Counts(t, x, d) /\ Fewer(d)
    BY <1>0, <1>2, <1>3, <1>5, <1>7, <1>9, <1>11, <2>2, PutMove
  <2>4. Kept(d) /\ md' \in MediaTable
    BY <1>10, <2>3, SettledKept
  <2>5. x.at # "create" /\ fc[t].at # "create"
    BY <1>1, <1>11
  <2> QED BY <1>1, <1>11, <2>3, <2>4, <2>5, UseMove
<1>12. CASE md[m].hooked
  <2>1. At(t, "unprepared")
    BY <1>0, <1>12 DEF FinishUnprepare
  <2>2. PICK x : x = [fc[t] EXCEPT !.at = "unprepared"]
    OBVIOUS
  <2>3. x \in MediaCall /\ x.at = "unprepared" /\ x.media = m /\ x.key = fc[t].key
    BY <1>0, <1>2, <2>2 DEF MediaCall
  <2>4. fc' = [fc EXCEPT ![t] = x]
    BY <2>1, <2>2 DEF At
  <2>5. Configured(q)
    BY <1>2, <1>3 DEF FactoryInv, MediaInv
  <2>6. ~can_be_shared(r)
    BY <1>3, <1>4, <1>6, <1>12, <2>5, EndedIs
  <2>7. d[m] = r /\ r # None
    BY <1>2, <1>5, <1>7, NoneApart DEF Put, MediaTable
  <2>8. Follows(x, d)
    BY <1>2, <2>3, <2>6, <2>7, NoneApart DEF Follows, Holding
  <2> QED BY <1>11, <2>3, <2>4, <2>8
<1>13. CASE ~md[m].hooked
  <2>1. fc' = [fc EXCEPT ![t] = NoCall]
    BY <1>0, <1>13 DEF FinishUnprepare
  <2>2. NoCall \in MediaCall /\ NoCall.media \in {m, None} /\ NoCall.at = "idle"
    BY NoCallIs
  <2>3. Follows(NoCall, d)
    BY DEF NoCall, Follows, Holding
  <2> QED BY <1>11, <2>1, <2>2, <2>3
<1> QED BY <1>12, <1>13

LEMMA RemovedStep ==
    ASSUME FactoryInv, NEW t \in Callers, media_unprepared(t)
    PROVE  FactoryInv'
<1>0. PICK m : fc[t].media = m
  OBVIOUS
<1>1. /\ fc[t].at = "unprepared" /\ fc[t].at \in Holding /\ medias_lock' = medias_lock /\ fquirks' = fquirks
      /\ medias' = RemoveMedia(m) /\ fc' = [fc EXCEPT ![t] = NoCall] /\ md' = Settled(md)
  BY <1>0 DEF media_unprepared, Holding
<1>2. /\ m \in Media /\ md \in MediaTable /\ ~can_be_shared(md[m])
      /\ medias \in [Keys -> Media \cup {None}] /\ medias_lock \in Callers \cup {None} /\ fc \in [Callers -> MediaCall]
  <2>1. m \in Media /\ md \in MediaTable
    BY <1>0, <1>1, MediaOf
  <2> QED BY <1>0, <1>1, <2>1 DEF FactoryInv, FactoryTypes, CallInv, Follows
<1>3. /\ medias' \in [Keys -> Media \cup {None}]
      /\ \A k \in Keys : medias'[k] = IF medias[k] = m THEN None ELSE medias[k]
  BY <1>1, <1>2 DEF RemoveMedia
<1>4. Kept(md) /\ md' \in MediaTable
  BY <1>1, <1>2, SettledKept
<1>5. \A n \in Media : Uses(NoCall, n) <=> Uses(fc[t], n)
  BY <1>1, NoCallIs DEF Uses
<1>6. Grown(md) /\ Counts(t, NoCall, md)
  BY <1>5, NoCallIs, SameMove
<1>7. fc' \in [Callers -> MediaCall] /\ CallInv'
  BY <1>1, <1>2, <1>4, <1>6, NoCallIs, CallsStep
<1>8. InCache(medias, md)'
  <2>1. InCache(medias', md)
    BY <1>3 DEF InCache, FactoryInv
  <2> QED BY <1>2, <1>3, <1>4, <2>1, CacheStep
<1>9. MediaInv'
  <2>1. \A n \in Media : md[n] # None => Configured(md[n])
    BY DEF FactoryInv, MediaInv
  <2> QED BY <1>1, <1>2, <1>4, <1>6, <2>1, NoCallIs, CountsStep
<1>10. CacheHasShared'
  <2>1. ASSUME NEW n \in Media, md[n] # None, can_be_shared(md[n]), "created_twice" \notin fquirks'
        PROVE  medias'[md[n].key] = n
    <3>1. Usable(n)
      BY <2>1, NoneApart DEF Usable
    <3>2. medias[md[n].key] = n
      BY <1>1, <2>1, <3>1 DEF FactoryInv, CacheHasShared
    <3>3. md[n].key \in Keys
      BY <1>2, <2>1 DEF MediaTable, MediaRecord
    <3> QED BY <1>2, <1>3, <2>1, <3>2, <3>3
  <2> QED BY <1>2, <1>4, <2>1, SharedStep
<1>11. LockInv'
  <2> SUFFICES ASSUME NEW s \in Callers
               PROVE  /\ fc'[s].at = "create" <=> medias_lock' = s
                      /\ (fc'[s].at = "create" /\ ~fc'[s].again) => medias'[fc'[s].key] = None
    BY DEF LockInv
  <2>1. /\ fc[s].at = "create" <=> medias_lock = s
        /\ (fc[s].at = "create" /\ ~fc[s].again) => medias[fc[s].key] = None
        /\ fc[s].at = "create" => fc[s].key \in Keys
    BY DEF FactoryInv, LockInv, CallInv, Follows
  <2>2. CASE s = t
    BY <1>1, <1>2, <2>1, <2>2, NoCallIs
  <2>3. CASE s # t
    <3>1. fc'[s] = fc[s]
      BY <1>1, <1>2, <2>3
    <3> QED BY <1>1, <1>3, <2>1, <3>1
  <2> QED BY <2>2, <2>3
<1>12. FactoryTypes'
  BY <1>1, <1>2, <1>3, <1>4, <1>7 DEF FactoryTypes
<1> QED BY <1>7, <1>8, <1>9, <1>10, <1>11, <1>12 DEF FactoryInv

LEMMA NewMediaIs ==
    ASSUME NEW k \in Keys, NEW r, r = NewMedia(k)
    PROVE  /\ r \in MediaRecord /\ r.key = k /\ r.count = 0 /\ Configured(r)
           /\ can_be_shared(r) => k \in SharedKeys
<1>1. PICK b \in BOOLEAN : b = FALSE
  OBVIOUS
<1>2. PICK s \in {"unprepared", "prepared", "unpreparing"} : s = "unprepared"
  OBVIOUS
<1>3. PICK z \in Nat : z = 0
  OBVIOUS
<1> DEFINE shared == k \in SharedKeys
           reusable == k \in Reusable
<1>4. shared \in BOOLEAN /\ reusable \in BOOLEAN /\ Hooked(k) \in BOOLEAN
  BY DEF Hooked
<1>5. PICK u, v, h : u = shared /\ v = reusable /\ h = Hooked(k)
  OBVIOUS
<1>6. u \in BOOLEAN /\ v \in BOOLEAN /\ h \in BOOLEAN
  <2> HIDE DEF shared, reusable
  <2> QED BY <1>4, <1>5
<1>7. r = [key |-> k, shared |-> u, reusable |-> v, reused |-> b, status |-> s, count |-> z, hooked |-> h]
  BY <1>1, <1>2, <1>3, <1>4, <1>5, <1>6 DEF NewMedia
<1>8. r \in MediaRecord
  <2> HIDE <1>1, <1>2, <1>3, <1>4, <1>5, <1>6
  <2> HIDE DEF shared, reusable
  <2> QED BY <1>6, <1>7 DEF MediaRecord
<1>9. r.key = k /\ r.count = 0
  BY <1>3, <1>7
<1>10. (r.shared <=> shared) /\ (r.reusable <=> reusable) /\ (r.hooked <=> ~reusable)
  <2>1. r.shared = u /\ r.reusable = v /\ r.hooked = h
    BY <1>7
  <2>2. Hooked(k) <=> ~reusable
    BY DEF Hooked
  <2>3. (h <=> Hooked(k)) /\ (u <=> shared) /\ (v <=> reusable)
    <3> HIDE DEF shared, reusable
    <3> QED BY <1>5
  <2> HIDE DEF shared, reusable
  <2> QED BY <2>1, <2>2, <2>3
<1>11. Configured(r) /\ (can_be_shared(r) => k \in SharedKeys)
  BY <1>9, <1>10 DEF Configured, can_be_shared
<1> QED BY <1>8, <1>9, <1>11

LEMMA CreateStep ==
    ASSUME FactoryInv, NEW t \in Callers, Create(t)
    PROVE  FactoryInv'
<1> PICK k : k = fc[t].key
  OBVIOUS
<1> PICK m : m = CHOOSE n \in Media : md[n] = None
  OBVIOUS
<1> PICK r : r = NewMedia(k)
  OBVIOUS
<1> PICK d : d = Put(md, m, r)
  OBVIOUS
<1> PICK x : x = [fc[t] EXCEPT !.at = "constructed", !.media = m]
  OBVIOUS
<1>1. /\ fc[t].at = "create" /\ medias_lock' = None
      /\ medias' = Cached(k, m) /\ fquirks' = fquirks \cup Replaces(t)
  BY DEF Create
<1>2. /\ fc' = [fc EXCEPT ![t] = x] /\ md' = Settled(d)
  BY DEF Create, Put
<1>3. m \in Media /\ md[m] = None
  BY DEF Create
<1>4. /\ medias \in [Keys -> Media \cup {None}] /\ fc \in [Callers -> MediaCall] /\ fc[t] \in MediaCall
      /\ md \in MediaTable /\ Follows(fc[t], md) /\ medias_lock = t
      /\ fc[t].again \/ medias[k] = None
  BY <1>1 DEF FactoryInv, FactoryTypes, CallInv, LockInv
<1>5. k \in Keys
  BY <1>1, <1>4 DEF Follows
<1>6. r \in MediaRecord /\ r.key = k /\ r.count = 0 /\ Configured(r) /\ (can_be_shared(r) => k \in SharedKeys)
  BY <1>5, NewMediaIs
<1>7. /\ x \in MediaCall /\ x.at = "constructed" /\ x.key = k /\ x.media = m
  BY <1>3, <1>4 DEF MediaCall
<1>8. d \in MediaTable /\ d[m] = r /\ r # None /\ \A n \in Media \ {m} : d[n] = md[n]
  BY <1>3, <1>4, <1>6, NoneApart DEF Put, MediaTable
<1>9. Grown(d)
  BY <1>3, <1>8 DEF Grown, SameMedia
<1>10. Follows(x, d)
  BY <1>3, <1>5, <1>7, <1>8, NoneApart DEF Follows, Holding
<1>11. Counts(t, x, d)
  <2> SUFFICES ASSUME NEW n \in Media, d[n] # None
               PROVE  IF md[n] = None THEN d[n].count = 0 /\ ~Uses(x, n)
                      ELSE d[n].count = md[n].count + One(Uses(x, n)) - One(Uses(fc[t], n))
    BY DEF Counts
  <2>1. ~Uses(x, n) /\ ~Uses(fc[t], n)
    BY <1>1, <1>7 DEF Uses
  <2>2. CASE n = m
    BY <1>3, <1>6, <1>8, <2>1, <2>2
  <2>3. CASE n # m
    <3>1. d[n] = md[n] /\ md[n].count \in Nat
      BY <1>4, <1>8, <2>3 DEF MediaTable, MediaRecord
    <3> QED BY <2>1, <3>1 DEF One
  <2> QED BY <2>2, <2>3
<1>12. Kept(d) /\ md' \in MediaTable
  BY <1>2, <1>8, SettledKept
<1>13. fc' \in [Callers -> MediaCall] /\ CallInv'
  BY <1>2, <1>7, <1>8, <1>9, <1>10, <1>12, CallsStep
<1>14. /\ medias' \in [Keys -> Media \cup {None}]
       /\ \A j \in Keys : medias'[j] = IF j = k /\ k \in SharedKeys THEN m ELSE medias[j]
  BY <1>1, <1>3, <1>4, <1>5 DEF Cached
<1>15. InCache(medias, md)'
  <2>1. InCache(medias', d)
    <3> SUFFICES ASSUME NEW j \in Keys, medias'[j] # None
                 PROVE  j \in SharedKeys /\ d[medias'[j]] # None /\ d[medias'[j]].key = j
      BY DEF InCache
    <3>1. CASE j = k /\ k \in SharedKeys
      BY <1>6, <1>8, <1>14, <3>1
    <3>2. CASE ~(j = k /\ k \in SharedKeys)
      <4>1. medias'[j] = medias[j] /\ medias[j] \in Media
        BY <1>4, <1>14, <3>2
      <4>2. j \in SharedKeys /\ md[medias[j]] # None /\ md[medias[j]].key = j
        BY <4>1 DEF FactoryInv, InCache
      <4> QED BY <1>3, <1>8, <4>1, <4>2
    <3> QED BY <3>1, <3>2
  <2> QED BY <1>8, <1>12, <1>14, <2>1, CacheStep
<1>16. MediaInv'
  <2>1. ASSUME NEW n \in Media, d[n] # None
        PROVE  Configured(d[n])
    <3>1. CASE n = m
      BY <1>6, <1>8, <3>1
    <3>2. CASE n # m
      BY <1>8, <2>1, <3>2 DEF FactoryInv, MediaInv
    <3> QED BY <3>1, <3>2
  <2> QED BY <1>2, <1>7, <1>8, <1>11, <1>12, <2>1, CountsStep
<1>17. CacheHasShared'
  <2>1. ASSUME NEW n \in Media, d[n] # None, can_be_shared(d[n]), "created_twice" \notin fquirks'
        PROVE  medias'[d[n].key] = n
    <3>1. CASE n = m
      BY <1>5, <1>6, <1>8, <1>14, <2>1, <3>1
    <3>2. CASE n # m
      <4>1. d[n] = md[n] /\ md[n] # None /\ md[n].key \in Keys /\ Usable(n)
        BY <1>4, <1>8, <2>1, <3>2, NoneApart DEF Usable, MediaTable, MediaRecord
      <4>2. medias[md[n].key] = n
        BY <1>1, <2>1, <4>1 DEF FactoryInv, CacheHasShared
      <4>3. CASE md[n].key = k /\ k \in SharedKeys
        <5>1. fc[t].again
          BY <1>4, <4>2, <4>3, NoneApart
        <5>2. Replaces(t) = {"created_twice"}
          BY <4>1, <4>2, <4>3, <5>1 DEF Replaces
        <5> QED BY <1>1, <2>1, <5>2
      <4>4. CASE ~(md[n].key = k /\ k \in SharedKeys)
        BY <1>14, <4>1, <4>2, <4>4
      <4> QED BY <4>3, <4>4
    <3> QED BY <3>1, <3>2
  <2> QED BY <1>8, <1>12, <2>1, SharedStep
<1>18. LockInv'
  <2>1. \A s \in Callers \ {t} : fc[s].at # "create" /\ fc'[s] = fc[s]
    BY <1>2, <1>4, NoneApart DEF FactoryInv, LockInv
  <2>2. fc'[t] = x
    BY <1>2, <1>4
  <2> QED BY <1>1, <1>7, <2>1, <2>2, NoneApart DEF LockInv
<1>19. FactoryTypes'
  BY <1>1, <1>12, <1>13, <1>14 DEF FactoryTypes
<1> QED BY <1>13, <1>15, <1>16, <1>17, <1>18, <1>19 DEF FactoryInv

LEMMA FactoryStill ==
    ASSUME FactoryInv, UNCHANGED factoryVars
    PROVE  FactoryInv'
<1>1. medias' = medias /\ medias_lock' = medias_lock /\ md' = md /\ fc' = fc /\ fquirks' = fquirks
  BY DEF factoryVars
<1>2. FactoryTypes' /\ CallInv' /\ LockInv' /\ InCache(medias, md)'
  BY <1>1 DEF FactoryInv, FactoryTypes, CallInv, LockInv, InCache
<1>3. MediaInv'
  BY <1>1 DEF FactoryInv, MediaInv, Holders
<1>4. CacheHasShared'
  BY <1>1 DEF FactoryInv, CacheHasShared, Usable
<1> QED BY <1>2, <1>3, <1>4 DEF FactoryInv

LEMMA FactoryInitially ==
    ASSUME FactoryInit
    PROVE  FactoryInv
<1>1. /\ medias = [k \in Keys |-> None] /\ medias_lock = None /\ md = [m \in Media |-> None]
      /\ fc = [t \in Callers |-> NoCall] /\ fquirks = {}
  BY DEF FactoryInit
<1>2. FactoryTypes
  BY <1>1, NoCallIs DEF FactoryTypes, MediaTable
<1>3. CallInv
  BY <1>1, NoCallIs DEF CallInv
<1>4. LockInv
  BY <1>1, NoCallIs, NoneApart DEF LockInv
<1>5. InCache(medias, md)
  BY <1>1 DEF InCache
<1>6. MediaInv
  BY <1>1 DEF MediaInv
<1>7. CacheHasShared
  BY <1>1, NoneApart DEF CacheHasShared, Usable
<1> QED BY <1>2, <1>3, <1>4, <1>5, <1>6, <1>7 DEF FactoryInv

LEMMA ConstructingStep ==
    ASSUME FactoryInv, NEW t \in Callers, Constructing(t) \/ Unprepare(t, "using")
    PROVE  FactoryInv'
BY ShareStep, LockingStep, CreateStep, PrepareStep, UnprepareStep, FinishStep, RemovedStep DEF Constructing

-----------------------------------------------------------------------------
\* What a request finds.

LEMMA FoundIs ==
    ASSUME MountsInv, NEW url \in Paths, NEW p, NEW b, NEW item, item = Result(Match(Clean(mounts, dirty), url), p, b)
    PROVE  item \in Item \cup {None}
<1> PICK s : s = Clean(mounts, dirty)
  OBVIOUS
<1>1. s \in Seq(Item)
  BY CleanIs DEF MountsInv, Alike
<1>2. DOMAIN s = 1..Len(s) /\ Len(s) \in Nat
  BY <1>1
<1> PICK R : R = Reached(s, url)
  OBVIOUS
<1>3. R \in SUBSET (1..Len(s))
  BY <1>2 DEF Reached, Matches
<1>4. Match(s, url) \in Item \cup {None}
  <2>1. CASE R = {}
    BY <2>1 DEF Match
  <2>2. CASE R # {}
    <3>1. \E i \in R : \A j \in R : j <= i
      BY <1>2, <1>3, <2>2, Greatest
    <3> PICK l : l = CHOOSE i \in R : \A j \in R : j <= i
      OBVIOUS
    <3>2. l \in R
      BY <3>1
    <3>3. Match(s, url) = s[l]
      BY <2>2 DEF Match
    <3> QED BY <1>1, <1>2, <1>3, <3>2, <3>3
  <2> QED BY <2>1, <2>2
<1> QED BY <1>4 DEF Result

-----------------------------------------------------------------------------
\* The service.

ServiceInv == ServerInv /\ FactoryInv /\ MountsInv /\ PlanInv

LEMMA ServiceInitially ==
    ASSUME Init
    PROVE  ServiceInv
<1>1. PICK x \in Scenarios : requests = x.requests /\ plan = x.plan
  BY DEF Init
<1>2. PlanInv
  BY <1>1, ServiceAssumption DEF ServiceAssumption, PlanInv
<1>3. ServerInit /\ FactoryInit
  BY DEF Init
<1> QED BY <1>2, <1>3, MountsInit, ServerInitially, FactoryInitially DEF ServiceInv

LEMMA PlanStill ==
    ASSUME PlanInv, UNCHANGED envVars
    PROVE  PlanInv'
BY DEF PlanInv, envVars

LEMMA TailIs ==
    ASSUME NEW A, NEW s \in Seq(A), s # <<>>
    PROVE  s[1] \in A /\ Tail(s) \in Seq(A)
OBVIOUS

LEMMA RequestStep ==
    ASSUME ServiceInv, NEW c \in Clients, Request(c)
    PROVE  ServerInv' /\ FactoryInv' /\ PlanInv'
<1>1. /\ requests[c] # <<>> /\ requests' = [requests EXCEPT ![c] = Tail(@)] /\ plan' = plan
      /\ UNCHANGED serverVars
  BY DEF Request
<1>2. ServerInv'
  BY <1>1, ServerStill DEF ServiceInv
<1> PICK q : q = requests[c][1]
  OBVIOUS
<1> PICK A : A = [url : Paths \cup {<<>>}, matched : BOOLEAN]
  OBVIOUS
<1>8. requests \in [Clients -> Seq(A)]
  BY DEF ServiceInv, PlanInv
<1>9. q \in A /\ Tail(requests[c]) \in Seq(A)
  <2>1. requests[c] \in Seq(A) /\ requests[c] # <<>>
    BY <1>1, <1>8
  <2> QED BY <2>1, TailIs
<1>10. requests' \in [Clients -> Seq(A)]
  BY <1>1, <1>8, <1>9
<1>3. q \in [url : Paths \cup {<<>>}, matched : BOOLEAN] /\ PlanInv'
  BY <1>1, <1>9, <1>10 DEF ServiceInv, PlanInv
<1> PICK url : url = default_make_path(q.url)
  OBVIOUS
<1>4. url \in Paths
  BY <1>3, ServiceAssumption DEF ServiceAssumption, default_make_path
<1> PICK item : item = Result(Match(Clean(mounts, dirty), url), url, q.matched)
  OBVIOUS
<1>5. item \in Item \cup {None}
  BY <1>4, FoundIs DEF ServiceInv
<1>6. IF item = None THEN UNCHANGED factoryVars ELSE construct(c, <<item.factory, url>>)
  BY DEF Request
<1>7. FactoryInv'
  <2>1. CASE item = None
    BY <1>6, <2>1, FactoryStill DEF ServiceInv
  <2>2. CASE item # None
    <3>1. item.factory \in Factories
      BY <1>5, <2>2 DEF Item
    <3>2. <<item.factory, url>> \in Keys /\ c \in Callers
      BY <1>4, <3>1, ServiceAssumption DEF ServiceAssumption
    <3> QED BY <1>6, <2>2, <3>2, ConstructStep DEF ServiceInv
  <2> QED BY <2>1, <2>2
<1> QED BY <1>2, <1>3, <1>7

LEMMA AcceptStep ==
    ASSUME ServiceInv, NEW c \in Clients, Accept(c)
    PROVE  ServerInv'
<1>1. plan.thread[c] \in Threads \cup {None}
  BY DEF ServiceInv, PlanInv
<1> PICK t : t = plan.thread[c]
  OBVIOUS
<1>2. gst_rtsp_server_transfer_connection(c, t) \/ gst_rtsp_server_io_func(c, t)
  BY DEF Accept
<1>3. CASE manage_client(c, t)
  BY <1>1, <1>3, ManageStep DEF ServiceInv
<1>4. CASE gst_rtsp_server_io_func(c, t) /\ c \in Refuses
  <2>1. /\ ctx[c].at = "new" /\ ctx' = [ctx EXCEPT ![c].at = "freed"]
        /\ UNCHANGED <<clients, clients_cookie, used, filter, socketVars, squirks>>
    BY <1>4 DEF gst_rtsp_server_io_func
  <2> QED BY <2>1, RefuseStep DEF ServiceInv
<1> QED BY <1>2, <1>3, <1>4 DEF gst_rtsp_server_transfer_connection, gst_rtsp_server_io_func

LEMMA ListenStep ==
    ASSUME ServiceInv, Listen
    PROVE  ServerInv' /\ PlanInv'
<1>1. UNCHANGED requests
  BY DEF Listen
<1>2. CASE /\ plan.sources > 0 /\ plan' = [plan EXCEPT !.sources = @ - 1]
           /\ \E s \in Sources : gst_rtsp_server_create_source(s)
  <2>1. ServerInv'
    BY <1>2, SocketStep DEF ServiceInv
  <2>2. PlanInv'
    <3> PICK T : T = [Clients -> Threads \cup {None}]
      OBVIOUS
    <3>1. plan \in [connect : SUBSET Clients, thread : T, filter : BOOLEAN, sources : Nat]
      BY DEF ServiceInv, PlanInv
    <3> PICK n : n = plan.sources - 1
      OBVIOUS
    <3>2. n \in Nat /\ plan' = [plan EXCEPT !.sources = n]
      BY <1>2, <3>1
    <3>3. plan' \in [connect : SUBSET Clients, thread : T, filter : BOOLEAN, sources : Nat]
      BY <3>1, <3>2
    <3> QED BY <1>1, <3>3 DEF ServiceInv, PlanInv
  <2> QED BY <2>1, <2>2
<1>3. CASE plan' = plan /\ \E s \in sources : watch_destroyed(s)
  <2>1. sources \subseteq Sources
    BY DEF ServiceInv, ServerInv, ServerTypes
  <2>2. ServerInv'
    BY <1>3, <2>1, SocketStep DEF ServiceInv
  <2> QED BY <1>1, <1>3, <2>2 DEF ServiceInv, PlanInv
<1> QED BY <1>2, <1>3 DEF Listen

LEMMA FactoryLeft ==
    ASSUME ServiceInv, NEW t \in Clients, Constructing(t) \/ Unprepare(t, "using"), FactoryStep
    PROVE  ServerInv' /\ FactoryInv' /\ PlanInv'
<1>1. UNCHANGED serverVars /\ UNCHANGED envVars
  BY DEF FactoryStep
<1>2. FactoryInv'
  BY ConstructingStep, Apart DEF ServiceInv
<1> QED BY <1>1, <1>2, ServerStill, PlanStill DEF ServiceInv

LEMMA ServiceStep ==
    ASSUME ServiceInv, [Next]_vars
    PROVE  ServiceInv'
<1>1. MountsInv'
  BY MountsStep DEF ServiceInv
<1>2. ASSUME UNCHANGED factoryVars, UNCHANGED envVars
      PROVE  FactoryInv' /\ PlanInv'
  BY <1>2, FactoryStill, PlanStill DEF ServiceInv
<1>3. ASSUME NEW c \in Clients, Accept(c) \/ Leave(c)
      PROVE  ServerInv' /\ FactoryInv' /\ PlanInv'
  <2>1. UNCHANGED factoryVars /\ UNCHANGED envVars
    BY <1>3 DEF Accept, Leave, ServerStep
  <2>2. ServerInv'
    BY <1>3, AcceptStep, CloseStep, UnmanageStep, FreeStep DEF Leave, ServiceInv
  <2> QED BY <1>2, <2>1, <2>2
<1>4. ASSUME NEW c \in Clients, Serve(c) \/ Drop(c) \/ Finalize(c)
      PROVE  ServerInv' /\ FactoryInv' /\ PlanInv'
  BY <1>4, FactoryLeft DEF Serve, Drop, Finalize
<1>5. CASE Mounts
  <2>1. UNCHANGED serverVars /\ UNCHANGED factoryVars /\ UNCHANGED envVars
    BY <1>5 DEF Mounts
  <2> QED BY <1>1, <1>2, <2>1, ServerStill DEF ServiceInv
<1>6. CASE Filter
  <2>1. ServerInv'
    BY <1>6, FilteringStep DEF Filter, ServiceInv
  <2>2. UNCHANGED factoryVars /\ UNCHANGED envVars
    BY <1>6 DEF Filter, ServerStep
  <2> QED BY <1>1, <1>2, <2>1, <2>2 DEF ServiceInv
<1>7. CASE Listen
  <2>1. UNCHANGED factoryVars
    BY <1>7 DEF Listen, ServerStep
  <2> QED BY <1>1, <1>7, <2>1, ListenStep, FactoryStill DEF ServiceInv
<1>8. CASE UNCHANGED vars
  <2>1. UNCHANGED serverVars /\ UNCHANGED factoryVars /\ UNCHANGED envVars
    BY <1>8 DEF vars
  <2> QED BY <1>1, <1>2, <2>1, ServerStill DEF ServiceInv
<1>9. ASSUME NEW c \in Clients, Accept(c) \/ Request(c) \/ Serve(c) \/ Drop(c) \/ Leave(c) \/ Finalize(c)
      PROVE  ServiceInv'
  BY <1>1, <1>3, <1>4, <1>9, RequestStep DEF ServiceInv
<1>10. CASE Mounts \/ Filter \/ Listen
  BY <1>1, <1>5, <1>6, <1>7, <1>10 DEF ServiceInv
<1>11. CASE Next
  BY <1>9, <1>10, <1>11 DEF Next
<1> QED BY <1>8, <1>11

-----------------------------------------------------------------------------
\* The theorems.

LEMMA ServiceHolds == Spec => []ServiceInv
<1>1. Init => ServiceInv
  BY ServiceInitially
<1>2. ServiceInv /\ [Next]_vars => ServiceInv'
  BY ServiceStep
<1> QED BY <1>1, <1>2, PTL DEF Spec

LEMMA SharedIsOne ==
    ASSUME FactoryInv
    PROVE  OneShareable
<1> SUFFICES ASSUME "created_twice" \notin fquirks, NEW m \in Media, NEW n \in Media, m # n, Usable(m), Usable(n),
                    md[m].key = md[n].key
             PROVE  FALSE
  BY DEF OneShareable
<1>1. medias[md[m].key] = m /\ medias[md[n].key] = n
  BY DEF FactoryInv, CacheHasShared
<1> QED BY <1>1

LEMMA InvRequests ==
    ASSUME ServiceInv
    PROVE  RequestsMatch
<1>1. MatchIsLongest
  BY MountsMatch DEF ServiceInv
<1> QED BY <1>1, SharedIsOne DEF ServiceInv, FactoryInv, RequestsMatch

LEMMA InvLeft ==
    ASSUME ServiceInv
    PROVE  NothingLeft
<1> SUFFICES ASSUME \A c \in Clients : ctx[c].at = "freed" /\ fc[c].at = "idle"
             PROVE  (\A m \in Media : md[m] # None => md[m].count = 0) /\ \A t \in Threads : used[t] = 0
  BY DEF NothingLeft
<1>1. ASSUME NEW m \in Media, md[m] # None
      PROVE  md[m].count = 0
  <2>1. Holders(m) = {}
    BY Apart DEF Holders, Uses
  <2>2. md[m].count = Cardinality(Holders(m))
    BY <1>1 DEF ServiceInv, FactoryInv, MediaInv
  <2> QED BY <2>1, <2>2, FS_EmptySet
<1>2. ASSUME NEW t \in Threads
      PROVE  used[t] = 0
  <2>1. Users(t) = {}
    BY DEF Users
  <2>2. used[t] = Cardinality(Users(t))
    BY CountedIs DEF ServiceInv, ServerInv
  <2> QED BY <2>1, <2>2, FS_EmptySet
<1> QED BY <1>1, <1>2

LEMMA InvHeld ==
    ASSUME ServiceInv
    PROVE  ClientsHeld
<1>1. ServiceTypeOK
  <2>1. \A c \in Clients : ctx[c].at \in {"new", "attached", "closing", "unmanaged", "freed"}
    BY DEF ServiceInv, ServerInv, ServerTypes, Context
  <2>2. clients_cookie \in Nat /\ (\A t \in Threads : used[t] \in Nat) /\ socket \in Sources \cup {None}
    BY DEF ServiceInv, ServerInv, ServerTypes
  <2>3. dirty \in BOOLEAN /\ mounts \in Seq(Item)
    BY DEF ServiceInv, MountsInv
  <2>4. /\ medias \in [Keys -> Media \cup {None}] /\ md \in [Media -> MediaRecord \cup {None}]
        /\ medias_lock \in Callers \cup {None}
    BY DEF ServiceInv, FactoryInv, FactoryTypes, MediaTable
  <2> QED BY <2>1, <2>2, <2>3, <2>4 DEF ServiceTypeOK
<1>2. FilterSafe /\ FilterVisitsAll /\ ThreadsCounted
  BY DEF ServiceInv, ServerInv, FilterInv
<1>3. PortKnown
  BY DEF ServiceInv, ServerInv, SocketInv, PortKnown
<1> QED BY <1>1, <1>2, <1>3, InvLeft DEF ClientsHeld

(* A request gets the factory of the longest mount point, whatever was      *)
(* mounted and removed before it, and the callers of a shared path get the  *)
(* one media that the cache has for it, unless two of them made one each.   *)
THEOREM RequestsAlwaysMatch == Spec => []RequestsMatch
<1>1. ServiceInv => RequestsMatch
  BY InvRequests
<1> QED BY <1>1, ServiceHolds, PTL

(* The walk over the clients never reads a context that was freed and       *)
(* misses none that stays, a thread is used as often as it is counted, the  *)
(* server has the socket of its source, and once every client is gone no    *)
(* media is prepared and no thread is used.                                 *)
THEOREM ClientsAlwaysHeld == Spec => []ClientsHeld
<1>1. ServiceInv => ClientsHeld
  BY InvHeld
<1> QED BY <1>1, ServiceHolds, PTL
=============================================================================
