------------------------------ MODULE StreamProofs ------------------------------
(* Theorems about Stream: the addresses it holds, the sinks that serve its     *)
(* transports, and the filter that visits them.                                *)
EXTENDS Stream, TLAPS, FiniteSetTheorems, WellFoundedInduction

-----------------------------------------------------------------------------
\* The inductive invariant.

Fresh == {"new", "absent"}
Phases == Fresh \cup {"v4", "sockets", "ready", "complete", "added", "active", "paused"}

TypeInv ==
    /\ host \subseteq Family
    /\ addr \in [Udp -> [Family -> Address \cup {None}]]
    /\ socket \in [Udp -> [Family -> Ports \cup {None}]]
    /\ owner \in [Pool -> {"free", "us", "other"}]
    /\ sink \in [Index -> [Kinds -> {"none", "waiting", "direct", "queued"}]]
    /\ pending \subseteq [index : Index, old : Kinds, new : Kinds]
    /\ early \subseteq Family /\ known \in [Udp -> SUBSET Family]
    /\ transports \in Seq(Trans)
    /\ mcast_clients \in [Dest -> Nat]
    /\ phase \in [Trans -> Phases]
    /\ dest \in [Trans -> Dest \cup {None}]
    /\ filter \in Filters \cup {None}

\* A socket has an address, and only DESCRIBE makes one without a socket.
Bound ==
    \A f \in Family :
        /\ \A k \in Udp : socket[k][f] # None => addr[k][f] # None /\ addr[k][f].port = socket[k][f]
        /\ addr["udp"][f] # None => socket["udp"][f] # None

Unasked == Own = [t \in Trans |-> None]
Even == Unasked => \A k \in Udp : \A f \in Family : addr[k][f] # None => addr[k][f].port % 2 = 0

Apart ==
    \A f \in Family : \A k, k2 \in Udp :
        k # k2 /\ socket[k][f] # None /\ socket[k2][f] # None => Pair(socket[k][f]) \cap Pair(socket[k2][f]) = {}

NetInv == Bound /\ Even /\ Apart /\ PoolBalanced

\* A client that has gone past the allocation for its family has sockets, and
\* a family with an address has some then.
SocketInv ==
    \A t \in Trans : Kind[t] \in Udp /\ phase[t] \notin Fresh =>
        socket[Kind[t]][Fam[t]] # None \/ (phase[t] = "v4" /\ Fam[t] = "v6")

AddressInv ==
    Without({"preset_failed", "late_address", "unbound"}) =>
        \A t \in Trans : Kind[t] = "mcast" /\ phase[t] \notin Fresh =>
            \A f \in Family : addr["mcast"][f] # None =>
                socket["mcast"][f] # None \/ (phase[t] = "v4" /\ f = "v6")

\* Behind a tee: the first sink is linked to it until the probe has put queues
\* before both.
ProbeInv ==
    /\ \A p \in pending : sink[p.index][p.old] = "direct" /\ sink[p.index][p.new] = "waiting"
    /\ \A p, q \in pending : p.index = q.index => p = q
    /\ \A i \in Index : \A k \in Kinds :
         /\ sink[i][k] = "waiting" => \E p \in pending : p.index = i /\ p.new = k
         /\ sink[i][k] = "direct" => Present(i) = {k} \/ \E p \in pending : p.index = i /\ p.old = k
         /\ Present(i) = {k} => sink[i][k] = "direct"

\* The sinks know the sockets there are.
KnownInv ==
    /\ Without({"late_family"}) =>
         \A k \in Udp : (\E i \in Index : sink[i][k] # "none") => known[k] = Sockets(k)
    /\ 1 \in Index => \A t \in Trans :
         phase[t] \in {"complete", "added", "active"} => sink[1][Kind[t]] # "none"

EarlyInv == Without({"left_blocked"}) => \A f \in early : <<1, "udp", f>> \in source

ListInv ==
    /\ IsInjective(transports) /\ SinksFollowList
    /\ \A t \in Range(transports) : phase[t] \in {"added", "active"}

\* The multicast clients whose destination counts.
Counted(d) ==
    {t \in Trans : Kind[t] = "mcast" /\ dest[t] = d /\ (phase[t] \in {"ready", "complete"} \/ Listed(t))}

CountInv == Without({"played_again"}) => \A d \in Dest : Cardinality(Counted(d)) <= mcast_clients[d]

DestInv ==
    \A t \in Trans : Kind[t] = "mcast" /\ phase[t] \in {"ready", "complete", "added", "active", "paused"} => dest[t] \in Dest

\* x comes before u in l, or is u.
Ahead(l, x, u) == \E i, j \in DOMAIN l : i <= j /\ l[i] = x /\ l[j] = u

\* A filter of the list l has visited what stays, or will come to it.
Fits(f, l) ==
    /\ f.at \in f.visited /\ f.stay \subseteq Range(l) /\ f.next # f.at
    /\ f.dead = None /\ ~f.moved =>
         /\ f.next # None => f.next \in Range(l)
         /\ \A u \in f.stay \ f.visited : Ahead(l, f.next, u)

FilterInv == filter # None => Fits(filter, transports)

IInv ==
    /\ TypeInv
    /\ NetInv
    /\ SocketInv
    /\ AddressInv
    /\ ProbeInv
    /\ KnownInv
    /\ EarlyInv
    /\ ListInv
    /\ CountInv
    /\ DestInv
    /\ FilterInv
    /\ FilterSafe
    /\ NoAbort

-----------------------------------------------------------------------------
\* Sequences.

(* Every set of naturals that is not empty has a least element.              *)
LEMMA LeastNatural ==
    ASSUME NEW I \in SUBSET Nat, I # {}
    PROVE  Min(I) \in I /\ \A y \in I : Min(I) <= y
<1> DEFINE R == OpToRel(<, Nat)
<1>1. IsWellFoundedOn(R, Nat)
  BY NatLessThanWellFounded
<1>2. PICK m \in I : \A y \in I : <<y, m>> \notin R
  <2> HIDE DEF R
  <2> QED BY <1>1, WFMin
<1>3. \A y \in I : ~(y < m)
  BY <1>2 DEF OpToRel
<1>4. \A y \in I : m <= y
  BY <1>3
<1> QED BY <1>4 DEF Min

\* The list l without its element i.
Shorter(l, i, rest) ==
    /\ rest \in Seq(Trans) /\ DOMAIN rest = 1..(Len(l) - 1)
    /\ \A k \in 1..(Len(l) - 1) : rest[k] = IF k < i THEN l[k] ELSE l[k + 1]

LEMMA RemoveAtIs ==
    ASSUME NEW s \in Seq(Trans), NEW i \in DOMAIN s
    PROVE  Shorter(s, i, RemoveAt(s, i))
<1> DEFINE n == Len(s)
           a == SubSeq(s, 1, i - 1)
           b == SubSeq(s, i + 1, n)
           rest == RemoveAt(s, i)
<1>1. /\ n \in Nat /\ i \in 1..n /\ DOMAIN s = 1..n
      /\ a \in Seq(Trans) /\ Len(a) = i - 1 /\ \A k \in 1..(i - 1) : a[k] = s[k]
      /\ b \in Seq(Trans) /\ Len(b) = n - i /\ \A k \in 1..(n - i) : b[k] = s[i + k]
  OBVIOUS
<1>2. rest = a \o b
  BY DEF RemoveAt
<1> HIDE DEF n, a, b, rest
<1>3. /\ rest \in Seq(Trans) /\ DOMAIN rest = 1..(Len(a) + Len(b))
      /\ \A k \in 1..Len(a) : rest[k] = a[k]
      /\ \A k \in 1..(n - i) : rest[(i - 1) + k] = b[k]
  <2>1. /\ a \o b \in Seq(Trans) /\ DOMAIN (a \o b) = 1..(Len(a) + Len(b))
        /\ \A k \in 1..Len(a) : (a \o b)[k] = a[k]
        /\ \A k \in 1..Len(b) : (a \o b)[Len(a) + k] = b[k]
    <3>1. a \in Seq(Trans) /\ b \in Seq(Trans)
      BY <1>1
    <3> QED BY <3>1
  <2> QED BY <1>1, <1>2, <2>1
<1>4. /\ DOMAIN rest = 1..(n - 1)
      /\ \A k \in 1..(n - 1) : rest[k] = IF k < i THEN s[k] ELSE s[k + 1]
  <2>1. DOMAIN rest = 1..(n - 1)
    BY <1>1, <1>3
  <2>2. ASSUME NEW k \in 1..(n - 1), k < i PROVE rest[k] = s[k]
    BY <1>1, <1>3, <2>2
  <2>3. ASSUME NEW k \in 1..(n - 1), ~(k < i) PROVE rest[k] = s[k + 1]
    <3>1. k - (i - 1) \in 1..(n - i) /\ k = (i - 1) + (k - (i - 1)) /\ i + (k - (i - 1)) = k + 1
      BY <1>1, <2>3
    <3>2. rest[k] = b[k - (i - 1)]
      BY <1>1, <1>3, <3>1
    <3> QED BY <1>1, <3>1, <3>2
  <2> QED BY <2>1, <2>2, <2>3
<1> QED BY <1>3, <1>4 DEF Shorter, rest, n

\* Where an element goes to.
LEMMA ShorterIs ==
    ASSUME NEW s \in Seq(Trans), IsInjective(s), NEW i \in DOMAIN s, NEW r, Shorter(s, i, r)
    PROVE  /\ r \in Seq(Trans) /\ IsInjective(r) /\ Range(r) = Range(s) \ {s[i]}
           /\ \A x, u : x # s[i] /\ u # s[i] /\ Ahead(s, x, u) => Ahead(r, x, u)
<1> DEFINE n == Len(s)
           from(k) == IF k < i THEN k ELSE k + 1
           to(k) == IF k < i THEN k ELSE k - 1
<1>1. n \in Nat /\ DOMAIN s = 1..n /\ i \in 1..n
  OBVIOUS
<1>2. r \in Seq(Trans) /\ DOMAIN r = 1..(n - 1) /\ \A k \in 1..(n - 1) : r[k] = s[from(k)]
  BY DEF Shorter
<1> HIDE DEF n
<1>3. \A k \in 1..(n - 1) : from(k) \in 1..n /\ from(k) # i
  BY <1>1
<1>4. \A j, k \in 1..(n - 1) : from(j) = from(k) => j = k
  BY <1>1
<1>5. \A k \in 1..n : k # i => to(k) \in 1..(n - 1) /\ from(to(k)) = k
  BY <1>1
<1>6. \A j, k \in 1..n : j # i /\ k # i /\ j <= k => to(j) <= to(k)
  BY <1>1
<1>7. \A k \in 1..n : k # i => r[to(k)] = s[k]
  BY <1>2, <1>5
<1>8. \A j, k \in 1..n : s[j] = s[k] => j = k
  BY <1>1 DEF IsInjective
<1> HIDE DEF from, to
<1>9. IsInjective(r)
  BY <1>2, <1>3, <1>4, <1>8 DEF IsInjective
<1>10. Range(r) = Range(s) \ {s[i]}
  <2>1. ASSUME NEW v \in Range(r) PROVE v \in Range(s) \ {s[i]}
    <3>1. PICK k \in 1..(n - 1) : v = r[k]
      BY <1>2 DEF Range
    <3> QED BY <1>1, <1>2, <1>3, <1>8, <3>1 DEF Range
  <2>2. ASSUME NEW v \in Range(s) \ {s[i]} PROVE v \in Range(r)
    <3>1. PICK k \in 1..n : v = s[k]
      BY <1>1 DEF Range
    <3>2. k # i
      BY <3>1
    <3> QED BY <1>2, <1>5, <1>7, <3>1, <3>2 DEF Range
  <2> QED BY <2>1, <2>2
<1>11. ASSUME NEW x, NEW u, x # s[i], u # s[i], Ahead(s, x, u) PROVE Ahead(r, x, u)
  <2>1. PICK j, k \in 1..n : j <= k /\ s[j] = x /\ s[k] = u
    BY <1>1, <1>11 DEF Ahead
  <2>2. j # i /\ k # i
    BY <1>11, <2>1
  <2>3. to(j) \in DOMAIN r /\ to(k) \in DOMAIN r /\ to(j) <= to(k) /\ r[to(j)] = x /\ r[to(k)] = u
    BY <1>2, <1>5, <1>6, <1>7, <2>1, <2>2
  <2> QED BY <2>3 DEF Ahead
<1> QED BY <1>2, <1>9, <1>10, <1>11

LEMMA RemoveFirstIs ==
    ASSUME NEW s \in Seq(Trans), IsInjective(s), NEW t \in Range(s)
    PROVE  /\ RemoveFirst(s, t) \in Seq(Trans) /\ IsInjective(RemoveFirst(s, t))
           /\ Range(RemoveFirst(s, t)) = Range(s) \ {t}
           /\ \A x, u : x # t /\ u # t /\ Ahead(s, x, u) => Ahead(RemoveFirst(s, t), x, u)
<1> DEFINE I == {k \in 1..Len(s) : s[k] = t}
<1>1. I # {} /\ I \subseteq Nat /\ I \subseteq DOMAIN s
  BY DEF Range
<1>2. RemoveFirst(s, t) = RemoveAt(s, Min(I))
  BY <1>1 DEF RemoveFirst, SelectInSeq
<1>3. Min(I) \in I
  <2> HIDE DEF I
  <2> QED BY <1>1, LeastNatural
<1> DEFINE i == Min(I)
<1>4. i \in DOMAIN s /\ s[i] = t
  BY <1>1, <1>3
<1> HIDE DEF i
<1>5. RemoveFirst(s, t) = RemoveAt(s, i)
  BY <1>2 DEF i
<1>6. Shorter(s, i, RemoveFirst(s, t))
  BY <1>4, <1>5, RemoveAtIs
<1> QED BY <1>4, <1>6, ShorterIs

LEMMA PrependIs ==
    ASSUME NEW s \in Seq(Trans), IsInjective(s), NEW t \in Trans, t \notin Range(s)
    PROVE  /\ <<t>> \o s \in Seq(Trans) /\ IsInjective(<<t>> \o s)
           /\ Range(<<t>> \o s) = Range(s) \cup {t}
           /\ \A x, u : Ahead(s, x, u) => Ahead(<<t>> \o s, x, u)
<1> DEFINE n == Len(s)
           c == <<t>> \o s
<1>1. /\ n \in Nat /\ DOMAIN s = 1..n /\ c \in Seq(Trans) /\ DOMAIN c = 1..(n + 1)
      /\ c[1] = t /\ \A k \in 1..n : c[k + 1] = s[k]
  OBVIOUS
<1> HIDE DEF n, c
<1>2. \A k \in 1..(n + 1) : k = 1 \/ (k - 1 \in 1..n /\ c[k] = s[k - 1])
  <2>1. ASSUME NEW k \in 1..(n + 1), k # 1 PROVE k - 1 \in 1..n /\ c[k] = s[k - 1]
    <3>1. k - 1 \in 1..n /\ (k - 1) + 1 = k
      BY <1>1, <2>1
    <3> QED BY <1>1, <3>1
  <2> QED BY <2>1
<1>3. \A k \in 1..n : k + 1 \in 1..(n + 1)
  BY <1>1
<1>4. IsInjective(c)
  <2> SUFFICES ASSUME NEW j \in 1..(n + 1), NEW k \in 1..(n + 1), c[j] = c[k] PROVE j = k
    BY <1>1 DEF IsInjective
  <2>1. CASE j = 1 /\ k # 1
    BY <1>1, <1>2, <2>1 DEF Range
  <2>2. CASE j # 1 /\ k = 1
    BY <1>1, <1>2, <2>2 DEF Range
  <2>3. CASE j # 1 /\ k # 1
    <3>1. j - 1 \in 1..n /\ k - 1 \in 1..n /\ s[j - 1] = s[k - 1]
      BY <1>2, <2>3
    <3>2. \A x, y \in 1..n : s[x] = s[y] => x = y
      BY <1>1 DEF IsInjective
    <3>3. j - 1 = k - 1
      BY <3>1, <3>2
    <3> QED BY <1>1, <3>3
  <2> QED BY <2>1, <2>2, <2>3
<1>5. Range(c) = Range(s) \cup {t}
  <2>1. ASSUME NEW v \in Range(c) PROVE v \in Range(s) \cup {t}
    <3>1. PICK k \in 1..(n + 1) : v = c[k]
      BY <1>1 DEF Range
    <3> QED BY <1>1, <1>2, <3>1 DEF Range
  <2>2. ASSUME NEW v \in Range(s) PROVE v \in Range(c)
    <3>1. PICK k \in 1..n : v = s[k]
      BY <1>1 DEF Range
    <3> QED BY <1>1, <1>3, <3>1 DEF Range
  <2>3. t \in Range(c)
    <3>1. 1 \in 1..(n + 1)
      BY <1>1
    <3> QED BY <1>1, <3>1 DEF Range
  <2> QED BY <2>1, <2>2, <2>3
<1>6. ASSUME NEW x, NEW u, Ahead(s, x, u) PROVE Ahead(c, x, u)
  <2>1. PICK j, k \in 1..n : j <= k /\ s[j] = x /\ s[k] = u
    BY <1>1, <1>6 DEF Ahead
  <2>2. j + 1 \in 1..(n + 1) /\ k + 1 \in 1..(n + 1) /\ j + 1 <= k + 1
    BY <1>1, <2>1
  <2> QED BY <1>1, <2>1, <2>2 DEF Ahead
<1> QED BY <1>1, <1>4, <1>5, <1>6 DEF c

LEMMA UnvisitedIs ==
    ASSUME NEW l \in Seq(Trans), NEW visited, NEW i, i = Unvisited(l, visited)
    PROVE  /\ i = 0 => \A k \in DOMAIN l : l[k] \in visited
           /\ i # 0 => i \in DOMAIN l /\ l[i] \notin visited /\ \A k \in DOMAIN l : k < i => l[k] \in visited
<1> DEFINE I == {k \in 1..Len(l) : l[k] \notin visited}
<1>1. DOMAIN l = 1..Len(l) /\ I \subseteq Nat
  OBVIOUS
<1>2. i = IF I # {} THEN Min(I) ELSE 0
  BY DEF Unvisited, SelectInSeq
<1>3. I # {} => Min(I) \in I /\ \A k \in I : Min(I) <= k
  <2> HIDE DEF I
  <2> QED BY <1>1, LeastNatural
<1>4. CASE I # {}
  <2>1. i \in 1..Len(l) /\ l[i] \notin visited /\ \A k \in I : i <= k
    BY <1>2, <1>3, <1>4
  <2> QED BY <1>1, <2>1
<1> QED BY <1>1, <1>2, <1>4

LEMMA AtIs ==
    ASSUME NEW l \in Seq(Trans), IsInjective(l), NEW i \in DOMAIN l
    PROVE  At(l, l[i]) = i
<1> DEFINE I == {k \in 1..Len(l) : l[k] = l[i]}
<1>1. I # {} /\ I \subseteq Nat /\ DOMAIN l = 1..Len(l)
  OBVIOUS
<1>2. At(l, l[i]) = Min(I)
  BY <1>1 DEF At, SelectInSeq
<1>3. Min(I) \in I
  <2> HIDE DEF I
  <2> QED BY <1>1, LeastNatural
<1> QED BY <1>1, <1>2, <1>3 DEF IsInjective

LEMMA AfterIs ==
    ASSUME NEW l \in Seq(Trans), IsInjective(l), NEW i \in DOMAIN l
    PROVE  After(l, l[i]) = IF i < Len(l) THEN l[i + 1] ELSE None
<1>1. i \in 1..Len(l) /\ Len(l) \in Nat
  OBVIOUS
<1>2. i \in 1..(Len(l) - 1) <=> i < Len(l)
  BY <1>1
<1> QED BY <1>2, AtIs DEF After

\* todo is the end of l from its element b + 1.
End(l, b, todo) ==
    /\ b \in 0..Len(l) /\ todo \in Seq(Trans) /\ Len(todo) = Len(l) - b
    /\ \A k \in 1..(Len(l) - b) : todo[k] = l[b + k]

LEMMA SuffixIs ==
    ASSUME NEW l \in Seq(Trans), IsInjective(l), NEW i \in DOMAIN l
    PROVE  End(l, i - 1, Suffix(l, l[i]))
<1>1. i \in 1..Len(l) /\ Len(l) \in Nat /\ l[i] \in Range(l)
  BY DEF Range
<1>2. Suffix(l, l[i]) = SubSeq(l, i, Len(l))
  BY <1>1, AtIs DEF Suffix
<1>3. /\ SubSeq(l, i, Len(l)) \in Seq(Trans) /\ Len(SubSeq(l, i, Len(l))) = Len(l) - i + 1
      /\ \A k \in 1..(Len(l) - i + 1) : SubSeq(l, i, Len(l))[k] = l[i + k - 1]
  BY <1>1
<1>4. Len(l) - (i - 1) = Len(l) - i + 1 /\ \A k \in 1..(Len(l) - i + 1) : (i - 1) + k = i + k - 1
  BY <1>1
<1> QED BY <1>1, <1>2, <1>3, <1>4 DEF End

(* A filter that goes on comes to everything that stays, and ends when it    *)
(* has visited all of it.                                                    *)
LEMMA VisitIs ==
    ASSUME StreamAssumption,
           NEW l \in Seq(Trans), IsInjective(l), NEW b, NEW todo, End(l, b, todo),
           NEW visited \in SUBSET Trans, NEW moved \in BOOLEAN, NEW stay \in SUBSET Range(l),
           \A u \in stay \ visited : \E k \in DOMAIN todo : todo[k] = u,
           Visit(l, todo, visited, moved, stay)
    PROVE  /\ filter' \in Filters \cup {None}
           /\ filter' # None => Fits(filter', l) /\ filter'.dead = None
           /\ filter' = None => \A k \in DOMAIN todo : todo[k] \in visited
<1> DEFINE i == Unvisited(todo, visited)
<1>1. /\ b \in 0..Len(l) /\ Len(l) \in Nat /\ DOMAIN l = 1..Len(l)
      /\ todo \in Seq(Trans) /\ DOMAIN todo = 1..(Len(l) - b)
      /\ \A k \in 1..(Len(l) - b) : todo[k] = l[b + k]
  BY DEF End
<1>2. /\ i = 0 => \A k \in DOMAIN todo : todo[k] \in visited
      /\ i # 0 => i \in DOMAIN todo /\ todo[i] \notin visited /\ \A k \in DOMAIN todo : k < i => todo[k] \in visited
  BY <1>1, UnvisitedIs
<1>3. filter' = IF i = 0 THEN None
                ELSE [at |-> todo[i], next |-> After(l, todo[i]), moved |-> moved,
                      visited |-> visited \cup {todo[i]}, stay |-> stay, dead |-> None]
  BY DEF Visit
<1> HIDE DEF i
<1>4. Range(l) \subseteq Trans
  BY <1>1 DEF Range
<1>5. CASE i = 0
  BY <1>2, <1>3, <1>5
<1>6. CASE i # 0
  <2> DEFINE t == todo[i]
             f == [at |-> t, next |-> After(l, t), moved |-> moved,
                   visited |-> visited \cup {t}, stay |-> stay, dead |-> None]
  <2>1. i \in 1..(Len(l) - b) /\ t \notin visited /\ t \in Trans /\ \A k \in DOMAIN todo : k < i => todo[k] \in visited
    BY <1>1, <1>2, <1>6
  <2>2. b + i \in DOMAIN l /\ t = l[b + i]
    BY <1>1, <2>1
  <2>3. After(l, t) = IF b + i < Len(l) THEN l[b + i + 1] ELSE None
    BY <2>2, AfterIs
  <2>4. b + i < Len(l) => b + i + 1 \in DOMAIN l
    BY <1>1, <2>2
  <2>5. After(l, t) \in Range(l) \cup {None} /\ After(l, t) # t
    <3>1. CASE b + i < Len(l)
      <4>1. After(l, t) = l[b + i + 1] /\ b + i + 1 \in DOMAIN l /\ b + i + 1 # b + i
        BY <1>1, <2>1, <2>3, <2>4, <3>1
      <4> QED BY <2>2, <4>1 DEF IsInjective, Range
    <3>2. CASE ~(b + i < Len(l))
      BY <2>1, <2>3, <3>2 DEF StreamAssumption
    <3> QED BY <3>1, <3>2
  <2>6. f \in Filters
    BY <1>4, <2>1, <2>5 DEF Filters
  <2>7. ASSUME ~moved, NEW u \in stay, u \notin visited \cup {t} PROVE Ahead(l, After(l, t), u)
    <3>1. PICK k \in 1..(Len(l) - b) : todo[k] = u
      BY <1>1, <2>7
    <3>2. k # i /\ ~(k < i)
      <4>1. k # i
        BY <2>7, <3>1
      <4>2. k < i => u \in visited
        BY <1>1, <2>1, <3>1
      <4> QED BY <2>7, <4>1, <4>2
    <3>3. b + i < Len(l) /\ b + k \in DOMAIN l /\ b + i + 1 <= b + k /\ l[b + k] = u
      BY <1>1, <2>1, <3>1, <3>2
    <3> QED BY <2>3, <2>4, <3>3 DEF Ahead
  <2>8. Fits(f, l)
    BY <2>5, <2>7 DEF Fits
  <2>9. filter' = f /\ f # None
    BY <1>3, <1>6, <2>6 DEF StreamAssumption
  <2> QED BY <2>6, <2>8, <2>9
<1> QED BY <1>5, <1>6

-----------------------------------------------------------------------------
\* The allocation of sockets.

LEMMA Kinds3 ==
    ASSUME StreamAssumption
    PROVE  /\ Udp = {"udp", "mcast"} /\ Kinds = {"udp", "mcast", "tcp"}
           /\ Family = {"v4", "v6"} /\ Index \subseteq {0, 1}
           /\ \A t \in Trans : Kind[t] \in Kinds /\ Fam[t] \in Family /\ Own[t] \in Ports \cup {None}
           /\ \A x \in Pool : x = <<x[1], x[2], x[3]>> /\ x[1] \in Udp /\ x[2] \in Family /\ x[3] \in Ports
                                /\ x[3] % 2 = 0
BY DEF StreamAssumption, Udp, Kinds, Index

\* What an allocation that succeeds does, wherever the address comes from.
Granted(k, f, a) ==
    /\ SetSockets(k, f, a) /\ MayBindPair(f, a.port) /\ host' = host
    /\ a \in Address /\ (Unasked => a.port % 2 = 0)
    /\ \E q : q \subseteq {"late_family", "overwritten"} /\ Late(k) \subseteq q /\ Quirk(q)
    /\ \/ ~a.pooled /\ owner' = owner /\ (Owned(k, f, addr[k][f]) => "overwritten" \in quirks')
       \/ a = addr[k][f] /\ owner' = owner
       \/ /\ a.pooled /\ addr[k][f] = None
          /\ <<k, f, a.port>> \in Pool /\ owner' = [owner EXCEPT ![<<k, f, a.port>>] = "us"]

\* And one that could not bind the address there was.
Refused(k, f) ==
    /\ UNCHANGED <<host, addr, socket>> /\ owner' \in {owner, Freed(owner, k, f, addr[k][f])}
    /\ \E q : q \subseteq {"preset_failed", "aborted"} /\ "preset_failed" \in q /\ Quirk(q)

LEMMA AllocIs ==
    ASSUME StreamAssumption, TypeInv, NetInv, NEW k \in Udp, NEW f \in Family, NEW p \in Ports \cup {None},
           p # None => k = "mcast" /\ ~Unasked, alloc_ports_one_family(k, f, p)
    PROVE  (\E a : Granted(k, f, a)) \/ Refused(k, f)
<1>1. Late(k) \subseteq {"late_family"}
  BY DEF Late
<1>2. CASE p # None
  <2> DEFINE a == [port |-> p, pooled |-> FALSE]
  <2>1. alloc_specific(f, p) /\ k = "mcast" /\ p \in Ports
    BY <1>2 DEF alloc_ports_one_family
  <2>2. a \in Address /\ a.port = p /\ ~a.pooled
    BY <2>1 DEF Address
  <2> DEFINE q == Late("mcast") \cup IF Owned("mcast", f, addr["mcast"][f]) THEN {"overwritten"} ELSE {}
  <2>3. SetSockets(k, f, a) /\ MayBindPair(f, p) /\ Quirk(q) /\ host' = host /\ owner' = owner
    BY <2>1 DEF alloc_specific
  <2>4. q \subseteq {"late_family", "overwritten"} /\ Late(k) \subseteq q
    BY <1>1, <2>1
  <2>5. Owned(k, f, addr[k][f]) => "overwritten" \in quirks'
    BY <2>1, <2>3 DEF Quirk
  <2> HIDE DEF q
  <2>6. Granted(k, f, a)
    BY <1>2, <2>2, <2>3, <2>4, <2>5 DEF Granted
  <2> QED BY <2>6
<1>3. CASE p = None /\ ~UsesPool(k, f)
  <2>1. alloc_random(k, f)
    BY <1>3 DEF alloc_ports_one_family
  <2>2. PICK r \in Ports : /\ r % 2 = 0 /\ MayBindPair(f, r) /\ SetSockets(k, f, [port |-> r, pooled |-> FALSE])
                           /\ Quirk(Late(k)) /\ UNCHANGED <<host, owner>>
    BY <2>1 DEF alloc_random
  <2> DEFINE a == [port |-> r, pooled |-> FALSE]
  <2>3. a \in Address /\ a.port = r /\ ~a.pooled
    BY DEF Address
  <2>4. ~Owned(k, f, addr[k][f])
    BY <1>3, Kinds3 DEF Owned, UsesPool
  <2>5. Granted(k, f, a)
    BY <1>1, <2>2, <2>3, <2>4 DEF Granted
  <2> QED BY <2>5
<1>4. CASE p = None /\ UsesPool(k, f) /\ addr[k][f] # None
  <2> DEFINE a == addr[k][f]
  <2>1. alloc_preset(k, f) /\ a \in Address
    BY <1>4 DEF alloc_ports_one_family, TypeInv
  <2>2. CASE MayBindPair(f, a.port) /\ SetSockets(k, f, a) /\ Quirk(Late(k)) /\ UNCHANGED <<host, owner>>
    <3>1. Unasked => a.port % 2 = 0
      BY <1>4 DEF NetInv, Even
    <3>2. Granted(k, f, a)
      BY <1>1, <2>1, <2>2, <3>1 DEF Granted
    <3> QED BY <3>2
  <2>3. CASE owner' = Freed(owner, k, f, a) /\ Quirk({"preset_failed"}) /\ UNCHANGED <<host, addr, socket>>
    BY <2>3 DEF Refused
  <2>4. CASE Quirk({"preset_failed", "aborted"}) /\ UNCHANGED netVars
    BY <2>4 DEF Refused, netVars
  <2> QED BY <2>1, <2>2, <2>3, <2>4 DEF alloc_preset
<1>5. CASE p = None /\ UsesPool(k, f) /\ addr[k][f] = None
  <2>1. alloc_pooled(k, f)
    BY <1>5 DEF alloc_ports_one_family
  <2>2. PICK r \in Ports : /\ Acquire(k, f, r) /\ MayBindPair(f, r)
                           /\ SetSockets(k, f, [port |-> r, pooled |-> TRUE]) /\ Quirk(Late(k)) /\ UNCHANGED host
    BY <2>1 DEF alloc_pooled
  <2> DEFINE a == [port |-> r, pooled |-> TRUE]
  <2>3. a \in Address /\ a.port = r /\ a.pooled
    BY DEF Address
  <2>4. <<k, f, r>> \in Pool /\ owner' = [owner EXCEPT ![<<k, f, r>>] = "us"]
    BY <2>2 DEF Acquire
  <2>5. r % 2 = 0
    BY <2>4 DEF StreamAssumption
  <2>6. Granted(k, f, a)
    BY <1>1, <1>5, <2>2, <2>3, <2>4, <2>5 DEF Granted
  <2> QED BY <2>6
<1> QED BY <1>2, <1>3, <1>4, <1>5

LEMMA SetIs ==
    ASSUME TypeInv, NEW k \in Udp, NEW f \in Family, NEW a \in Address, SetSockets(k, f, a)
    PROVE  /\ addr' \in [Udp -> [Family -> Address \cup {None}]]
           /\ socket' \in [Udp -> [Family -> Ports \cup {None}]]
           /\ \A k2 \in Udp : \A f2 \in Family :
                /\ addr'[k2][f2] = IF k2 = k /\ f2 = f THEN a ELSE addr[k2][f2]
                /\ socket'[k2][f2] = IF k2 = k /\ f2 = f THEN a.port ELSE socket[k2][f2]
<1>1. a.port \in Ports
  BY DEF Address
<1>2. /\ addr \in [Udp -> [Family -> Address \cup {None}]]
      /\ socket \in [Udp -> [Family -> Ports \cup {None}]]
  BY DEF TypeInv
<1>3. addr' = [addr EXCEPT ![k][f] = a] /\ socket' = [socket EXCEPT ![k][f] = a.port]
  BY DEF SetSockets
<1> QED BY <1>1, <1>2, <1>3

LEMMA OwnersStay ==
    ASSUME NEW q, NEW r, Without(q)', Quirk(r)
    PROVE  Without(q)
BY DEF Without, Quirk

LEMMA GrantedKeeps ==
    ASSUME StreamAssumption, TypeInv, NetInv, NEW k \in Udp, NEW f \in Family, NEW a,
           socket[k][f] = None, Granted(k, f, a)
    PROVE  NetInv' /\ owner' \in [Pool -> {"free", "us", "other"}]
<1>1. /\ a \in Address /\ a.port \in Ports /\ a # None /\ a.port # None
      /\ \A k2 \in Udp : \A f2 \in Family :
           /\ addr'[k2][f2] = IF k2 = k /\ f2 = f THEN a ELSE addr[k2][f2]
           /\ socket'[k2][f2] = IF k2 = k /\ f2 = f THEN a.port ELSE socket[k2][f2]
  <2>1. a \in Address /\ a.port \in Ports
    BY DEF Granted, Address
  <2> QED BY <2>1, SetIs DEF Granted, StreamAssumption
<1>2. owner' \in [Pool -> {"free", "us", "other"}]
  BY DEF Granted, TypeInv
<1>3. Bound'
  <2> SUFFICES ASSUME NEW f2 \in Family
               PROVE  /\ \A k2 \in Udp : socket'[k2][f2] # None => addr'[k2][f2] # None /\ addr'[k2][f2].port = socket'[k2][f2]
                      /\ addr'["udp"][f2] # None => socket'["udp"][f2] # None
    BY DEF Bound
  <2>1. "udp" \in Udp
    BY DEF Udp
  <2> QED BY <1>1, <2>1 DEF NetInv, Bound
<1>4. Even'
  BY <1>1 DEF NetInv, Even, Granted, Unasked
<1>5. Apart'
  <2>1. ASSUME NEW k2 \in Udp, k2 # k, socket[k2][f] # None PROVE Pair(a.port) \cap Pair(socket[k2][f]) = {}
    <3>1. MayBind(f, a.port) /\ (EnableRtcp => MayBind(f, a.port + 1))
      BY DEF Granted, MayBindPair
    <3> QED BY <2>1, <3>1 DEF MayBind, Pair
  <2> SUFFICES ASSUME NEW f2 \in Family, NEW k1 \in Udp, NEW k2 \in Udp, k1 # k2,
                      socket'[k1][f2] # None, socket'[k2][f2] # None
               PROVE  Pair(socket'[k1][f2]) \cap Pair(socket'[k2][f2]) = {}
    BY DEF Apart
  <2>2. CASE f2 = f /\ k1 = k
    <3>1. socket'[k1][f2] = a.port /\ socket'[k2][f2] = socket[k2][f] /\ socket[k2][f] # None
      BY <1>1, <2>2
    <3>2. Pair(a.port) \cap Pair(socket[k2][f]) = {}
      BY <2>1, <2>2, <3>1
    <3>3. Pair(socket'[k1][f2]) = Pair(a.port) /\ Pair(socket'[k2][f2]) = Pair(socket[k2][f])
      BY <3>1
    <3> QED BY <3>2, <3>3
  <2>3. CASE f2 = f /\ k2 = k
    <3>1. socket'[k2][f2] = a.port /\ socket'[k1][f2] = socket[k1][f] /\ socket[k1][f] # None
      BY <1>1, <2>3
    <3>2. Pair(a.port) \cap Pair(socket[k1][f]) = {}
      BY <2>1, <2>3, <3>1
    <3>3. Pair(socket'[k1][f2]) = Pair(socket[k1][f]) /\ Pair(socket'[k2][f2]) = Pair(a.port)
      BY <3>1
    <3> QED BY <3>2, <3>3
  <2>4. CASE f2 # f \/ (k1 # k /\ k2 # k)
    <3>1. socket'[k1][f2] = socket[k1][f2] /\ socket'[k2][f2] = socket[k2][f2]
      BY <1>1, <2>4
    <3>2. Pair(socket[k1][f2]) \cap Pair(socket[k2][f2]) = {}
      BY <3>1 DEF NetInv, Apart
    <3>3. Pair(socket'[k1][f2]) = Pair(socket[k1][f2]) /\ Pair(socket'[k2][f2]) = Pair(socket[k2][f2])
      BY <3>1
    <3> QED BY <3>2, <3>3
  <2> QED BY <2>2, <2>3, <2>4
<1>6. PoolBalanced'
  <2> SUFFICES ASSUME Without({"preset_failed", "overwritten"})', NEW x \in Pool
               PROVE  owner'[x] = "us" <=> addr'[x[1]][x[2]] = [port |-> x[3], pooled |-> TRUE]
    BY DEF PoolBalanced
  <2>1. Without({"preset_failed", "overwritten"}) /\ "overwritten" \notin quirks'
    BY DEF Without, Granted, Quirk
  <2> DEFINE e == [port |-> x[3], pooled |-> TRUE]
  <2>2. x[1] \in Udp /\ x[2] \in Family /\ x = <<x[1], x[2], x[3]>> /\ e \in Address /\ e # None
    <3>1. x[1] \in Udp /\ x[2] \in Family /\ x[3] \in Ports /\ x = <<x[1], x[2], x[3]>>
      BY Kinds3
    <3>2. e \in Address
      BY <3>1 DEF Address
    <3> QED BY <3>1, <3>2 DEF StreamAssumption
  <2>3. owner[x] = "us" <=> addr[x[1]][x[2]] = e
    BY <2>1 DEF NetInv, PoolBalanced
  <2>4. CASE ~(x[1] = k /\ x[2] = f)
    <3>1. owner'[x] = owner[x]
      <4>1. owner' = owner \/ (owner' = [owner EXCEPT ![<<k, f, a.port>>] = "us"] /\ <<k, f, a.port>> \in Pool)
        BY DEF Granted
      <4>2. x # <<k, f, a.port>>
        BY <2>2, <2>4
      <4> QED BY <4>1, <4>2 DEF TypeInv
    <3> QED BY <1>1, <2>2, <2>3, <2>4, <3>1
  <2>5. CASE x[1] = k /\ x[2] = f
    <3>1. addr'[k][f] = a
      BY <1>1
    <3>2. CASE ~a.pooled /\ owner' = owner /\ (Owned(k, f, addr[k][f]) => "overwritten" \in quirks')
      <4>1. addr[k][f] # e
        <5>1. addr[k][f] = e => Owned(k, f, addr[k][f])
          BY <2>2, <2>5 DEF Owned
        <5> QED BY <2>1, <3>2, <5>1
      <4>2. a # e
        BY <3>2
      <4> QED BY <2>3, <2>5, <3>1, <3>2, <4>1, <4>2
    <3>3. CASE a = addr[k][f] /\ owner' = owner
      BY <2>3, <2>5, <3>1, <3>3
    <3>4. CASE /\ a.pooled /\ addr[k][f] = None
               /\ <<k, f, a.port>> \in Pool /\ owner' = [owner EXCEPT ![<<k, f, a.port>>] = "us"]
      <4>1. owner[x] # "us"
        BY <2>2, <2>3, <2>5, <3>4
      <4>2. a = e <=> a.port = x[3]
        <5>1. a = [port |-> a.port, pooled |-> a.pooled] /\ a.pooled = TRUE
          BY <1>1, <3>4 DEF Address
        <5> QED BY <5>1
      <4>3. owner'[x] = "us" <=> x = <<k, f, a.port>>
        BY <3>4, <4>1 DEF TypeInv
      <4>4. x = <<k, f, a.port>> <=> x[3] = a.port
        BY <2>2, <2>5
      <4> QED BY <2>5, <3>1, <4>2, <4>3, <4>4
    <3> QED BY <3>2, <3>3, <3>4 DEF Granted
  <2> QED BY <2>4, <2>5
<1> QED BY <1>2, <1>3, <1>4, <1>5, <1>6 DEF NetInv

LEMMA RefusedKeeps ==
    ASSUME StreamAssumption, TypeInv, NetInv, NEW k \in Udp, NEW f \in Family, Refused(k, f)
    PROVE  NetInv' /\ owner' \in [Pool -> {"free", "us", "other"}]
<1>1. Bound' /\ Even' /\ Apart'
  BY DEF Refused, NetInv, Bound, Even, Apart
<1>2. PoolBalanced'
  BY DEF Refused, PoolBalanced, Without, Quirk
<1>3. owner' \in [Pool -> {"free", "us", "other"}]
  BY DEF Refused, Freed, TypeInv
<1> QED BY <1>1, <1>2, <1>3 DEF NetInv

\* A call of allocate_udp_sockets, its result and its effect.
Allocated(t, f, from, to, v) ==
    LET k == Kind[t]
    IN  /\ k \in Udp /\ phase[t] = from /\ phase' = [phase EXCEPT ![t] = v]
        /\ v \in {to, "new"} /\ (v = to /\ f = Fam[t] => socket'[k][f] # None)
        /\ UNCHANGED <<graphVars, listVars, dest, filter, filters>>
        /\ \/ socket[k][f] # None /\ UNCHANGED <<netVars, quirks>>
           \/ socket[k][f] = None /\ \E a : Granted(k, f, a)
           \/ Refused(k, f)
           \/ Quirk(Unbound(k, f)) /\ UNCHANGED netVars

LEMMA AllocateIs ==
    ASSUME StreamAssumption, TypeInv, NetInv, NEW t \in Trans, NEW f \in Family, NEW from, NEW to, to # "new",
           allocate_udp_sockets(t, f, from, to)
    PROVE  \E v : Allocated(t, f, from, to, v)
<1> DEFINE k == Kind[t]
           p == IF Kind[t] = "mcast" THEN Own[t] ELSE None
<1>1. k \in Udp /\ phase[t] = from /\ UNCHANGED <<graphVars, listVars, dest, filter, filters>>
  BY DEF allocate_udp_sockets
<1>2. CASE socket[k][f] # None /\ phase' = [phase EXCEPT ![t] = to] /\ UNCHANGED <<netVars, quirks>>
  <2>1. socket'[k][f] # None
    BY <1>2 DEF netVars
  <2>2. Allocated(t, f, from, to, to)
    BY <1>1, <1>2, <2>1 DEF Allocated
  <2> QED BY <2>2
<1>3. CASE /\ socket[k][f] = None /\ alloc_ports_one_family(k, f, p)
           /\ phase' = [phase EXCEPT ![t] = IF socket'[k][f] # None \/ f # Fam[t] THEN to ELSE "new"]
  <2> DEFINE v == IF socket'[k][f] # None \/ f # Fam[t] THEN to ELSE "new"
  <2>1. p \in Ports \cup {None} /\ (p # None => k = "mcast")
    BY Kinds3
  <2>2. p # None => ~Unasked
    BY DEF Unasked
  <2>3. (\E a : Granted(k, f, a)) \/ Refused(k, f)
    <3> HIDE DEF p, k
    <3> QED BY <1>1, <1>3, <2>1, <2>2, AllocIs
  <2>4. v \in {to, "new"} /\ (v = to /\ f = Fam[t] => socket'[k][f] # None)
    OBVIOUS
  <2>5. Allocated(t, f, from, to, v)
    BY <1>1, <1>3, <2>3, <2>4 DEF Allocated
  <2> QED BY <2>5
<1>4. CASE /\ socket[k][f] = None /\ phase' = [phase EXCEPT ![t] = IF f # Fam[t] THEN to ELSE "new"]
           /\ Quirk(Unbound(k, f)) /\ UNCHANGED netVars
  <2>1. Allocated(t, f, from, to, IF f # Fam[t] THEN to ELSE "new")
    BY <1>1, <1>4 DEF Allocated
  <2> QED BY <2>1
<1> QED BY <1>1, <1>2, <1>3, <1>4 DEF allocate_udp_sockets

-----------------------------------------------------------------------------
\* What a step leaves alone keeps its part of the invariant.

Ready == {"ready", "complete", "added", "active", "paused"}
Grows == quirks \subseteq quirks'

LEMMA WithoutStays ==
    ASSUME Grows, NEW q
    PROVE  Without(q)' => Without(q)
BY DEF Without, Grows

\* Nobody passes the allocation, but a client that is past it or needs none.
Moves ==
    \A t \in Trans : phase'[t] = phase[t] \/ phase'[t] \in Fresh \/ phase[t] \notin Fresh \cup {"v4"} \/ Kind[t] \notin Udp

LEMMA SocketStill ==
    ASSUME socket' = socket, SocketInv, Moves
    PROVE  SocketInv'
BY DEF SocketInv, Moves

LEMMA NetStill ==
    ASSUME UNCHANGED netVars, NetInv, SocketInv, AddressInv, Grows, Moves
    PROVE  NetInv' /\ SocketInv' /\ AddressInv'
<1>1. Bound' /\ Even' /\ Apart'
  BY DEF netVars, NetInv, Bound, Even, Apart
<1>2. PoolBalanced'
  BY DEF netVars, NetInv, PoolBalanced, Without, Grows
<1>3. SocketInv'
  BY SocketStill DEF netVars
<1>4. AddressInv'
  <2> SUFFICES ASSUME Without({"preset_failed", "late_address", "unbound"})', NEW t \in Trans, Kind[t] = "mcast",
                      phase'[t] \notin Fresh, NEW f \in Family, addr["mcast"][f] # None, socket["mcast"][f] = None
               PROVE  phase'[t] = "v4" /\ f = "v6"
    BY DEF AddressInv, netVars
  <2>1. Without({"preset_failed", "late_address", "unbound"})
    BY WithoutStays
  <2>2. Kind[t] \in Udp
    BY DEF Udp
  <2> QED BY <2>1, <2>2 DEF AddressInv, Moves
<1> QED BY <1>1, <1>2, <1>3, <1>4 DEF NetInv

LEMMA ProbeStill ==
    ASSUME sink' = sink, pending' = pending, ProbeInv
    PROVE  ProbeInv'
BY DEF ProbeInv, Present

LEMMA KnownStill ==
    ASSUME sink' = sink, known' = known, socket' = socket, Grows, KnownInv,
           \A t \in Trans : phase'[t] \in {"complete", "added", "active"} =>
              phase[t] \in {"complete", "added", "active"}
    PROVE  KnownInv'
BY WithoutStays DEF KnownInv, Sockets

LEMMA EarlyStill ==
    ASSUME early' \subseteq early, source' = source, Grows, EarlyInv
    PROVE  EarlyInv'
BY WithoutStays DEF EarlyInv

LEMMA ListStill ==
    ASSUME transports' = transports, client' = client, ListInv,
           \A t \in Trans : phase[t] \in {"added", "active"} => phase'[t] \in {"added", "active"} \/ ~Listed(t),
           transports \in Seq(Trans)
    PROVE  ListInv'
BY DEF ListInv, SinksFollowList, Listed, IsInjective, Range

LEMMA CountLess ==
    ASSUME StreamAssumption, mcast_clients \in [Dest -> Nat], mcast_clients' = mcast_clients, Grows, CountInv,
           Without({"played_again"})' => \A d \in Dest : Counted(d)' \subseteq Counted(d)
    PROVE  CountInv'
<1> SUFFICES ASSUME Without({"played_again"})', NEW d \in Dest PROVE Cardinality(Counted(d)') <= mcast_clients[d]
  BY DEF CountInv
<1>1. Cardinality(Counted(d)) <= mcast_clients[d] /\ Counted(d)' \subseteq Counted(d)
  BY WithoutStays DEF CountInv
<1>2. IsFiniteSet(Counted(d))
  <2>1. Counted(d) \subseteq Trans
    BY DEF Counted
  <2> QED BY <2>1, FS_Subset DEF StreamAssumption
<1>3. Cardinality(Counted(d)') <= Cardinality(Counted(d))
  BY <1>1, <1>2, FS_Subset
<1>4. Cardinality(Counted(d)) \in Nat /\ Cardinality(Counted(d)') \in Nat
  BY <1>1, <1>2, FS_Subset, FS_CardinalityType
<1>5. mcast_clients[d] \in Nat
  OBVIOUS
<1> QED BY <1>1, <1>3, <1>4, <1>5

LEMMA CountStill ==
    ASSUME StreamAssumption, TypeInv, transports' = transports, dest' = dest, mcast_clients' = mcast_clients, Grows, CountInv,
           \A t \in Trans : Kind[t] = "mcast" /\ phase'[t] \in {"ready", "complete"} =>
              phase[t] \in {"ready", "complete"} \/ "played_again" \in quirks'
    PROVE  CountInv'
<1>1. Without({"played_again"})' => \A d \in Dest : Counted(d)' \subseteq Counted(d)
  BY DEF Counted, Listed, Without
<1> QED BY <1>1, CountLess DEF TypeInv

LEMMA DestStill ==
    ASSUME dest' = dest, DestInv,
           \A t \in Trans : Kind[t] = "mcast" /\ phase'[t] \in Ready => phase[t] \in Ready
    PROVE  DestInv'
BY DEF DestInv, Ready

LEMMA FilterStill ==
    ASSUME filter' = filter, transports' = transports, FilterInv, FilterSafe
    PROVE  FilterInv' /\ FilterSafe'
BY DEF FilterInv, FilterSafe, Fits, Ahead, Range

LEMMA AbortStill ==
    ASSUME Grows, NoAbort,
           "aborted" \in quirks' =>
              "aborted" \in quirks \/ ~Without({"preset_failed", "late_address", "unbound", "left_blocked"})'
    PROVE  NoAbort'
BY WithoutStays DEF NoAbort

\* One client moves on.
LEMMA PhaseIs ==
    ASSUME TypeInv, NEW t \in Trans, NEW v, phase' = [phase EXCEPT ![t] = v]
    PROVE  phase'[t] = v /\ \A u \in Trans \ {t} : phase'[u] = phase[u]
BY DEF TypeInv

-----------------------------------------------------------------------------
\* The actions on the addresses.

LEMMA AllocatedNet ==
    ASSUME StreamAssumption, TypeInv, NetInv, NEW t \in Trans, NEW f \in Family, NEW from, NEW to, NEW v,
           Allocated(t, f, from, to, v)
    PROVE  /\ NetInv' /\ owner' \in [Pool -> {"free", "us", "other"}] /\ host' = host
           /\ addr' \in [Udp -> [Family -> Address \cup {None}]]
           /\ socket' \in [Udp -> [Family -> Ports \cup {None}]]
           /\ \A k2 \in Udp : \A f2 \in Family :
                /\ socket[k2][f2] # None => socket'[k2][f2] # None
                /\ \/ socket'[k2][f2] # None /\ k2 = Kind[t] /\ f2 = f
                   \/ socket'[k2][f2] = socket[k2][f2] /\ addr'[k2][f2] = addr[k2][f2]
           /\ Grows
           /\ socket' = socket \/ Late(Kind[t]) \subseteq quirks'
           /\ "aborted" \in quirks' => "aborted" \in quirks \/ "preset_failed" \in quirks'
           /\ \/ addr'[Kind[t]][f] = None \/ socket'[Kind[t]][f] # None
              \/ ~Without({"preset_failed", "late_address", "unbound"})'
<1> DEFINE k == Kind[t]
<1>1. CASE socket[k][f] # None /\ UNCHANGED <<netVars, quirks>>
  <2>1. NetInv'
    <3>1. Bound' /\ Even' /\ Apart'
      BY <1>1 DEF netVars, NetInv, Bound, Even, Apart
    <3>2. PoolBalanced'
      BY <1>1 DEF netVars, NetInv, PoolBalanced, Without
    <3> QED BY <3>1, <3>2 DEF NetInv
  <2> QED BY <1>1, <2>1 DEF netVars, TypeInv, Grows
<1>2. CASE socket[k][f] = None /\ \E a : Granted(k, f, a)
  <2>1. PICK a : Granted(k, f, a)
    BY <1>2
  <2>2. k \in Udp
    BY DEF Allocated
  <2>3. NetInv' /\ owner' \in [Pool -> {"free", "us", "other"}]
    BY <1>2, <2>1, <2>2, GrantedKeeps
  <2>4. a \in Address /\ SetSockets(k, f, a) /\ host' = host
    BY <2>1 DEF Granted
  <2>5. a.port # None
    BY <2>4 DEF Address, StreamAssumption
  <2>6. /\ addr' \in [Udp -> [Family -> Address \cup {None}]]
        /\ socket' \in [Udp -> [Family -> Ports \cup {None}]]
        /\ \A k2 \in Udp : \A f2 \in Family :
             /\ addr'[k2][f2] = IF k2 = k /\ f2 = f THEN a ELSE addr[k2][f2]
             /\ socket'[k2][f2] = IF k2 = k /\ f2 = f THEN a.port ELSE socket[k2][f2]
    BY <2>2, <2>4, SetIs
  <2>7. PICK q : q \subseteq {"late_family", "overwritten"} /\ Late(k) \subseteq q /\ Quirk(q)
    BY <2>1 DEF Granted
  <2>8. /\ Grows /\ Late(k) \subseteq quirks'
        /\ "aborted" \in quirks' => "aborted" \in quirks
    BY <2>7 DEF Grows, Quirk
  <2> QED BY <2>2, <2>3, <2>4, <2>5, <2>6, <2>8
<1>3. CASE Refused(k, f)
  <2>1. k \in Udp
    BY DEF Allocated
  <2>2. NetInv' /\ owner' \in [Pool -> {"free", "us", "other"}]
    BY <1>3, <2>1, RefusedKeeps
  <2>3. Grows /\ "preset_failed" \in quirks'
    BY <1>3 DEF Refused, Grows, Quirk
  <2>4. ~Without({"preset_failed", "late_address", "unbound"})'
    BY <2>3 DEF Without
  <2> QED BY <1>3, <2>2, <2>3, <2>4 DEF Refused, TypeInv
<1>4. CASE Quirk(Unbound(k, f)) /\ UNCHANGED netVars
  <2>1. NetInv'
    <3>1. Bound' /\ Even' /\ Apart'
      BY <1>4 DEF netVars, NetInv, Bound, Even, Apart
    <3>2. PoolBalanced'
      BY <1>4 DEF netVars, NetInv, PoolBalanced, Without, Quirk
    <3> QED BY <3>1, <3>2 DEF NetInv
  <2>2. Grows /\ ("aborted" \in quirks' => "aborted" \in quirks)
    BY <1>4 DEF Grows, Quirk, Unbound
  <2>3. addr[k][f] = None \/ ~Without({"preset_failed", "late_address", "unbound"})'
    BY <1>4 DEF Quirk, Unbound, Without
  <2> QED BY <1>4, <2>1, <2>2, <2>3 DEF netVars, TypeInv
<1> QED BY <1>1, <1>2, <1>3, <1>4 DEF Allocated

LEMMA AllocatedKeeps ==
    ASSUME StreamAssumption, IInv, NEW t \in Trans, NEW f \in Family, NEW from, NEW to, NEW v,
           \/ f = "v4" /\ from = "new" /\ to = "v4"
           \/ f = "v6" /\ from = "v4" /\ to = "sockets",
           Allocated(t, f, from, to, v)
    PROVE  IInv'
<1> DEFINE k == Kind[t]
<1>1. /\ TypeInv /\ NetInv /\ SocketInv /\ AddressInv
      /\ k \in Udp /\ phase[t] = from /\ phase' = [phase EXCEPT ![t] = v] /\ v \in {to, "new"}
      /\ (v = to /\ f = Fam[t] => socket'[k][f] # None)
      /\ UNCHANGED <<graphVars, listVars, dest, filter, filters>>
  BY DEF IInv, Allocated
<1>2. phase'[t] = v /\ \A u \in Trans \ {t} : phase'[u] = phase[u]
  BY <1>1, PhaseIs
<1>3. v \in {"v4", "sockets", "new"} /\ from \in {"new", "v4"}
  BY <1>1
<1>4. /\ NetInv' /\ owner' \in [Pool -> {"free", "us", "other"}] /\ host' = host
      /\ addr' \in [Udp -> [Family -> Address \cup {None}]]
      /\ socket' \in [Udp -> [Family -> Ports \cup {None}]]
      /\ \A k2 \in Udp : \A f2 \in Family :
           /\ socket[k2][f2] # None => socket'[k2][f2] # None
           /\ \/ socket'[k2][f2] # None /\ k2 = Kind[t] /\ f2 = f
              \/ socket'[k2][f2] = socket[k2][f2] /\ addr'[k2][f2] = addr[k2][f2]
      /\ Grows
      /\ socket' = socket \/ Late(Kind[t]) \subseteq quirks'
      /\ "aborted" \in quirks' => "aborted" \in quirks \/ "preset_failed" \in quirks'
      /\ \/ addr'[Kind[t]][f] = None \/ socket'[Kind[t]][f] # None
         \/ ~Without({"preset_failed", "late_address", "unbound"})'
  BY <1>1, AllocatedNet
<1>5. TypeInv'
  <2>1. phase' \in [Trans -> Phases]
    BY <1>1, <1>3 DEF TypeInv, Phases, Fresh
  <2> QED BY <1>1, <1>4, <2>1 DEF TypeInv, graphVars, listVars
<1>6. SocketInv'
  <2> SUFFICES ASSUME NEW u \in Trans, Kind[u] \in Udp, phase'[u] \notin Fresh
               PROVE  socket'[Kind[u]][Fam[u]] # None \/ (phase'[u] = "v4" /\ Fam[u] = "v6")
    BY DEF SocketInv
  <2>1. Fam[u] \in Family /\ Family = {"v4", "v6"}
    BY Kinds3
  <2>2. CASE u # t
    <3>1. socket[Kind[u]][Fam[u]] # None \/ (phase[u] = "v4" /\ Fam[u] = "v6")
      BY <1>1, <1>2, <2>2 DEF SocketInv
    <3> QED BY <1>2, <1>4, <2>1, <2>2, <3>1
  <2>3. CASE u = t
    <3>1. v = to
      BY <1>1, <1>2, <2>3 DEF Fresh
    <3>2. CASE f = "v4"
      BY <1>1, <1>2, <2>1, <2>3, <3>1, <3>2
    <3>3. CASE f = "v6" /\ Fam[t] = "v4"
      <4>1. socket[k]["v4"] # None
        BY <1>1, <3>3 DEF SocketInv, Fresh
      <4> QED BY <1>1, <1>4, <2>1, <2>3, <3>3, <4>1
    <3>4. CASE f = "v6" /\ Fam[t] = "v6"
      BY <1>1, <2>3, <3>1, <3>4
    <3> QED BY <2>1, <3>2, <3>3, <3>4
  <2> QED BY <2>2, <2>3
<1>7. AddressInv'
  <2> SUFFICES ASSUME Without({"preset_failed", "late_address", "unbound"})', NEW u \in Trans, Kind[u] = "mcast",
                      phase'[u] \notin Fresh, NEW f2 \in Family, addr'["mcast"][f2] # None, socket'["mcast"][f2] = None
               PROVE  phase'[u] = "v4" /\ f2 = "v6"
    BY DEF AddressInv
  <2>1. Without({"preset_failed", "late_address", "unbound"})
    BY <1>4, WithoutStays
  <2>2. "mcast" \in Udp /\ Family = {"v4", "v6"}
    BY Kinds3
  <2>3. socket["mcast"][f2] = None /\ addr["mcast"][f2] # None
    BY <1>4, <2>2
  <2>4. CASE u # t
    BY <1>1, <1>2, <2>1, <2>3, <2>4 DEF AddressInv
  <2>5. CASE u = t
    <3>1. v = to /\ k = "mcast"
      BY <1>1, <1>2, <2>5 DEF Fresh
    <3>2. f2 # f
      BY <1>4, <3>1
    <3>3. CASE f = "v4"
      BY <1>2, <2>2, <2>5, <3>1, <3>2, <3>3
    <3>4. CASE f = "v6"
      <4>1. phase[t] = "v4" /\ f2 = "v4"
        BY <1>1, <2>2, <3>2, <3>4
      <4> QED BY <1>1, <2>1, <2>3, <2>5, <4>1 DEF AddressInv, Fresh
    <3> QED BY <2>2, <3>3, <3>4
  <2> QED BY <2>4, <2>5
<1>8. ProbeInv'
  BY <1>1, ProbeStill DEF IInv, graphVars
<1>9. KnownInv'
  <2>1. ASSUME 1 \in Index, NEW u \in Trans, phase'[u] \in {"complete", "added", "active"} PROVE sink'[1][Kind[u]] # "none"
    <3>1. u # t /\ phase[u] \in {"complete", "added", "active"}
      BY <1>2, <1>3, <2>1
    <3> QED BY <1>1, <2>1, <3>1 DEF IInv, KnownInv, graphVars
  <2>2. ASSUME Without({"late_family"})', NEW k2 \in Udp, NEW i \in Index, sink'[i][k2] # "none" PROVE known'[k2] = Sockets(k2)'
    <3>1. Without({"late_family"}) /\ "late_family" \notin quirks'
      BY <1>4, <2>2, WithoutStays DEF Without
    <3>2. sink[i][k2] # "none" /\ known' = known
      BY <1>1, <2>2 DEF graphVars
    <3>3. known[k2] = Sockets(k2)
      BY <3>1, <3>2 DEF IInv, KnownInv
    <3>4. k2 = k => Late(k) = {"late_family"}
      BY <3>2 DEF Late
    <3>5. socket' = socket \/ k2 # k
      BY <1>4, <3>1, <3>4
    <3>6. \A f2 \in Family : socket'[k2][f2] = socket[k2][f2]
      BY <1>4, <3>5
    <3> QED BY <3>2, <3>3, <3>6 DEF Sockets
  <2> QED BY <2>1, <2>2 DEF KnownInv
<1>10. EarlyInv'
  BY <1>1, <1>4, EarlyStill DEF IInv, graphVars
<1>11. ListInv'
  <2>1. \A u \in Trans : phase[u] \in {"added", "active"} => phase'[u] \in {"added", "active"}
    BY <1>1, <1>2, <1>3
  <2>2. transports' = transports /\ client' = client /\ transports \in Seq(Trans) /\ ListInv
    BY <1>1 DEF IInv, TypeInv, listVars
  <2> QED BY <2>1, <2>2, ListStill
<1>12. CountInv'
  <2>1. \A u \in Trans : phase'[u] \in {"ready", "complete"} => phase[u] \in {"ready", "complete"}
    BY <1>2, <1>3
  <2>2. CountInv /\ transports' = transports /\ dest' = dest /\ mcast_clients' = mcast_clients
    BY <1>1 DEF IInv, listVars
  <2> QED BY <1>1, <1>4, <2>1, <2>2, CountStill
<1>13. DestInv'
  <2>1. \A u \in Trans : phase'[u] \in Ready => phase[u] \in Ready
    BY <1>2, <1>3 DEF Ready
  <2> QED BY <1>1, <2>1, DestStill DEF IInv
<1>14. FilterInv' /\ FilterSafe'
  BY <1>1, FilterStill DEF IInv, listVars
<1>15. NoAbort'
  <2>1. "aborted" \in quirks' => "aborted" \in quirks \/ ~Without({"preset_failed", "late_address", "unbound", "left_blocked"})'
    BY <1>4 DEF Without
  <2> QED BY <1>4, <2>1, AbortStill DEF IInv
<1> QED BY <1>4, <1>5, <1>6, <1>7, <1>8, <1>9, <1>10, <1>11, <1>12, <1>13, <1>14, <1>15 DEF IInv

LEMMA ReserveKeeps ==
    ASSUME StreamAssumption, IInv, NEW f \in Family, NEW p \in Ports, reserve_address(f, p)
    PROVE  IInv'
<1> DEFINE a == [port |-> p, pooled |-> TRUE]
           x0 == <<"mcast", f, p>>
<1>1. /\ TypeInv /\ NetInv /\ SocketInv /\ AddressInv
      /\ addr["mcast"][f] = None /\ x0 \in Pool /\ owner[x0] = "free"
      /\ owner' = [owner EXCEPT ![x0] = "us"] /\ addr' = [addr EXCEPT !["mcast"][f] = a]
      /\ Quirk(LateAddress)
      /\ UNCHANGED <<host, socket, graphVars, listVars, callVars, filter, filters>>
  BY DEF IInv, reserve_address, Acquire
<1>2. /\ a \in Address /\ a # None /\ a.port = p /\ "mcast" \in Udp /\ Udp = {"udp", "mcast"}
  <2>1. a \in Address
    BY DEF Address
  <2> QED BY <2>1, Kinds3 DEF StreamAssumption
<1>3. /\ addr' \in [Udp -> [Family -> Address \cup {None}]]
      /\ \A k2 \in Udp : \A f2 \in Family : addr'[k2][f2] = IF k2 = "mcast" /\ f2 = f THEN a ELSE addr[k2][f2]
  <2>1. addr \in [Udp -> [Family -> Address \cup {None}]]
    BY <1>1 DEF TypeInv
  <2> HIDE DEF a
  <2> QED BY <1>1, <1>2, <2>1
<1>4. Grows /\ ("aborted" \in quirks' => "aborted" \in quirks)
  BY <1>1 DEF Grows, Quirk, LateAddress
<1>5. TypeInv'
  <2>1. owner' \in [Pool -> {"free", "us", "other"}]
    BY <1>1 DEF TypeInv
  <2> QED BY <1>1, <1>3, <2>1 DEF TypeInv, graphVars, listVars, callVars
<1>6. NetInv'
  <2>1. Bound'
    <3> SUFFICES ASSUME NEW f2 \in Family
                 PROVE  /\ \A k2 \in Udp : socket'[k2][f2] # None => addr'[k2][f2] # None /\ addr'[k2][f2].port = socket'[k2][f2]
                        /\ addr'["udp"][f2] # None => socket'["udp"][f2] # None
      BY DEF Bound
    <3>1. socket' = socket /\ socket["mcast"][f] = None
      BY <1>1, <1>2 DEF NetInv, Bound
    <3> HIDE DEF a
    <3> QED BY <1>2, <1>3, <3>1, <1>1 DEF NetInv, Bound
  <2>2. Even'
    <3>1. a.port % 2 = 0
      BY <1>1, <1>2, Kinds3
    <3> HIDE DEF a
    <3> QED BY <1>1, <1>3, <3>1 DEF NetInv, Even
  <2>3. Apart'
    BY <1>1 DEF NetInv, Apart
  <2>4. PoolBalanced'
    <3> SUFFICES ASSUME Without({"preset_failed", "overwritten"})', NEW x \in Pool
                 PROVE  owner'[x] = "us" <=> addr'[x[1]][x[2]] = [port |-> x[3], pooled |-> TRUE]
      BY DEF PoolBalanced
    <3> DEFINE e == [port |-> x[3], pooled |-> TRUE]
    <3>1. x[1] \in Udp /\ x[2] \in Family /\ x = <<x[1], x[2], x[3]>> /\ x[3] \in Ports
      BY Kinds3
    <3>2. owner[x] = "us" <=> addr[x[1]][x[2]] = e
      BY <1>1, <1>4, WithoutStays DEF NetInv, PoolBalanced
    <3>3. CASE ~(x[1] = "mcast" /\ x[2] = f)
      <4>1. x # x0
        BY <3>1, <3>3
      <4>2. owner'[x] = owner[x]
        BY <1>1, <4>1 DEF TypeInv
      <4> QED BY <1>3, <3>1, <3>2, <3>3, <4>2
    <3>4. CASE x[1] = "mcast" /\ x[2] = f
      <4>1. addr'[x[1]][x[2]] = a
        BY <1>2, <1>3, <3>4
      <4>2. addr[x[1]][x[2]] = None /\ e # None
        <5>1. e \in Address
          BY <3>1 DEF Address
        <5> QED BY <1>1, <3>4, <5>1 DEF StreamAssumption
      <4>3. owner'[x] = "us" <=> x = x0
        BY <1>1, <3>2, <4>2 DEF TypeInv
      <4>4. x = x0 <=> x[3] = p
        BY <3>1, <3>4
      <4>5. a = e <=> x[3] = p
        OBVIOUS
      <4>6. addr'[x[1]][x[2]] = e <=> x[3] = p
        BY <4>1, <4>5
      <4> QED BY <4>3, <4>4, <4>6
    <3> QED BY <3>3, <3>4
  <2> QED BY <2>1, <2>2, <2>3, <2>4 DEF NetInv
<1>7. SocketInv'
  BY <1>1, SocketStill DEF Moves, callVars
<1>8. AddressInv'
  <2> SUFFICES ASSUME Without({"preset_failed", "late_address", "unbound"})' PROVE \A t \in Trans : Kind[t] = "mcast" => phase'[t] \in Fresh
    BY DEF AddressInv
  <2>1. "late_address" \notin quirks' /\ LateAddress \subseteq quirks'
    BY <1>1 DEF Without, Quirk
  <2> QED BY <1>1, <2>1 DEF LateAddress, Fresh, callVars
<1>9. ProbeInv'
  BY <1>1, ProbeStill DEF IInv, graphVars
<1>10. KnownInv'
  BY <1>1, <1>4, KnownStill DEF IInv, graphVars, callVars
<1>11. EarlyInv'
  BY <1>1, <1>4, EarlyStill DEF IInv, graphVars
<1>12. ListInv'
  BY <1>1, ListStill DEF IInv, TypeInv, listVars, callVars
<1>13. CountInv'
  BY <1>1, <1>4, CountStill DEF IInv, listVars, callVars
<1>14. DestInv'
  BY <1>1, DestStill DEF IInv, callVars
<1>15. FilterInv' /\ FilterSafe'
  BY <1>1, FilterStill DEF IInv, listVars
<1>16. NoAbort'
  BY <1>4, AbortStill DEF IInv
<1> QED BY <1>5, <1>6, <1>7, <1>8, <1>9, <1>10, <1>11, <1>12, <1>13, <1>14, <1>15, <1>16 DEF IInv

LEMMA OtherKeeps ==
    ASSUME StreamAssumption, IInv, NEW x0, Other(x0)
    PROVE  IInv'
<1>1. /\ owner[x0] # "us" /\ owner' = [owner EXCEPT ![x0] = IF @ = "free" THEN "other" ELSE "free"]
      /\ UNCHANGED <<host, addr, socket, graphVars, listVars, callVars, filter, quirks, filters>>
      /\ TypeInv /\ NetInv /\ Grows
  BY DEF Other, IInv, Grows
<1>2. TypeInv'
  BY <1>1 DEF TypeInv, graphVars, listVars, callVars
<1>3. NetInv'
  <2>1. Bound' /\ Even' /\ Apart'
    BY <1>1 DEF NetInv, Bound, Even, Apart
  <2>2. \A x \in Pool : owner'[x] = "us" <=> owner[x] = "us"
    BY <1>1 DEF TypeInv
  <2>3. PoolBalanced'
    BY <1>1, <2>2 DEF NetInv, PoolBalanced, Without
  <2> QED BY <2>1, <2>3 DEF NetInv
<1>4. SocketInv' /\ AddressInv'
  BY <1>1 DEF IInv, SocketInv, AddressInv, callVars, Without
<1>5. ProbeInv' /\ EarlyInv'
  BY <1>1, ProbeStill, EarlyStill DEF IInv, graphVars
<1>6. KnownInv'
  BY <1>1, KnownStill DEF IInv, graphVars, callVars
<1>7. ListInv'
  BY <1>1, ListStill DEF IInv, TypeInv, listVars, callVars
<1>8. CountInv'
  BY <1>1, CountStill DEF IInv, listVars, callVars
<1>9. DestInv'
  BY <1>1, DestStill DEF IInv, callVars
<1>10. FilterInv' /\ FilterSafe'
  BY <1>1, FilterStill DEF IInv, listVars
<1>11. NoAbort'
  BY <1>1, AbortStill DEF IInv
<1> QED BY <1>2, <1>3, <1>4, <1>5, <1>6, <1>7, <1>8, <1>9, <1>10, <1>11 DEF IInv

-----------------------------------------------------------------------------
\* The calls of a client that only move it on.

\* Sinks, sources, sockets and the list stay; the client goes from u to v.
Steps(t, from, v) ==
    /\ phase[t] \in from /\ phase' = [phase EXCEPT ![t] = v]
    /\ UNCHANGED <<netVars, joined, sink, pending, source, known, transports, client, filter, quirks>>
    /\ early' \subseteq early

LEMMA StepsKeep ==
    ASSUME StreamAssumption, IInv, NEW t \in Trans, NEW from, NEW v, Steps(t, from, v),
           v \in Phases,
           from \cap (Fresh \cup {"v4"}) = {} \/ v \in Fresh \/ Kind[t] \notin Udp,
           v \in {"complete", "added", "active"} => from \subseteq {"complete", "added", "active"},
           from \cap {"added", "active"} = {} \/ v \in {"added", "active"}
    PROVE  /\ phase' \in [Trans -> Phases] /\ phase'[t] = v /\ \A u \in Trans \ {t} : phase'[u] = phase[u]
           /\ NetInv' /\ SocketInv' /\ AddressInv' /\ ProbeInv' /\ KnownInv' /\ EarlyInv' /\ ListInv'
           /\ FilterInv' /\ FilterSafe' /\ NoAbort'
<1>1. phase' \in [Trans -> Phases] /\ phase'[t] = v /\ \A u \in Trans \ {t} : phase'[u] = phase[u]
  BY PhaseIs DEF IInv, TypeInv, Steps
<1>2. Grows /\ Moves
  <2>1. Grows
    BY DEF Steps, Grows
  <2>2. Moves
    BY <1>1 DEF Moves, Steps
  <2> QED BY <2>1, <2>2
<1>3. NetInv' /\ SocketInv' /\ AddressInv'
  BY <1>2, NetStill DEF IInv, Steps
<1>4. ProbeInv' /\ EarlyInv'
  BY <1>2, ProbeStill, EarlyStill DEF IInv, Steps
<1>5. KnownInv'
  <2>1. \A u \in Trans : phase'[u] \in {"complete", "added", "active"} => phase[u] \in {"complete", "added", "active"}
    BY <1>1 DEF Steps
  <2> QED BY <1>2, <2>1, KnownStill DEF IInv, Steps, netVars
<1>6. ListInv'
  <2>1. \A u \in Trans : phase[u] \in {"added", "active"} => phase'[u] \in {"added", "active"}
    BY <1>1 DEF Steps
  <2> QED BY <2>1, ListStill DEF IInv, TypeInv, Steps
<1>7. FilterInv' /\ FilterSafe'
  BY FilterStill DEF IInv, Steps
<1>8. NoAbort'
  BY <1>2, AbortStill DEF IInv, Steps
<1> QED BY <1>1, <1>3, <1>4, <1>5, <1>6, <1>7, <1>8

\* And destinations stay too.
LEMMA PhaseKeeps ==
    ASSUME StreamAssumption, IInv, NEW t \in Trans, NEW from, NEW v, Steps(t, from, v),
           UNCHANGED <<mcast_clients, dest>>,
           v \in Phases,
           from \cap (Fresh \cup {"v4"}) = {} \/ v \in Fresh \/ Kind[t] \notin Udp,
           v \in {"complete", "added", "active"} => from \subseteq {"complete", "added", "active"},
           from \cap {"added", "active"} = {} \/ v \in {"added", "active"},
           Kind[t] = "mcast" /\ v \in {"ready", "complete"} => from \subseteq {"ready", "complete"},
           Kind[t] = "mcast" /\ v \in Ready => from \subseteq Ready
    PROVE  IInv'
<1>1. /\ phase' \in [Trans -> Phases] /\ phase'[t] = v /\ \A u \in Trans \ {t} : phase'[u] = phase[u]
      /\ NetInv' /\ SocketInv' /\ AddressInv' /\ ProbeInv' /\ KnownInv' /\ EarlyInv' /\ ListInv'
      /\ FilterInv' /\ FilterSafe' /\ NoAbort'
  BY StepsKeep
<1>2. TypeInv'
  BY <1>1 DEF IInv, TypeInv, Steps, netVars
<1>3. CountInv'
  <2>1. \A u \in Trans : Kind[u] = "mcast" /\ phase'[u] \in {"ready", "complete"} => phase[u] \in {"ready", "complete"}
    BY <1>1 DEF Steps
  <2> QED BY <2>1, CountStill DEF IInv, Steps, Grows
<1>4. DestInv'
  <2>1. \A u \in Trans : Kind[u] = "mcast" /\ phase'[u] \in Ready => phase[u] \in Ready
    BY <1>1 DEF Steps
  <2> QED BY <2>1, DestStill DEF IInv
<1> QED BY <1>1, <1>2, <1>3, <1>4 DEF IInv

LEMMA ConfigureKeeps ==
    ASSUME StreamAssumption, IInv, NEW t \in Trans, ConfigureUnicast(t)
    PROVE  IInv'
<1>1. CASE Kind[t] = "udp" /\ phase[t] = "sockets"
  <2>1. Steps(t, {"sockets"}, "ready") /\ UNCHANGED <<mcast_clients, dest>>
    BY <1>1 DEF ConfigureUnicast, Steps, graphVars, listVars
  <2> QED BY <1>1, <2>1, PhaseKeeps DEF Phases, Fresh
<1>2. CASE Kind[t] = "tcp" /\ phase[t] = "new"
  <2>1. Steps(t, {"new"}, "ready") /\ UNCHANGED <<mcast_clients, dest>>
    BY <1>2 DEF ConfigureUnicast, Steps, graphVars, listVars
  <2>2. "tcp" \notin Udp
    BY DEF Udp
  <2> QED BY <1>2, <2>1, <2>2, PhaseKeeps DEF Phases, Fresh
<1> QED BY <1>1, <1>2 DEF ConfigureUnicast

LEMMA PlayFailsKeeps ==
    ASSUME StreamAssumption, IInv, NEW t \in Trans, PlayFails(t)
    PROVE  IInv'
<1>1. Steps(t, {"complete"}, "ready") /\ UNCHANGED <<mcast_clients, dest>>
  BY DEF PlayFails, Steps, graphVars, listVars
<1> QED BY <1>1, PhaseKeeps DEF Phases, Fresh, Ready

LEMMA UnblockKeeps ==
    ASSUME StreamAssumption, IInv, NEW t \in Trans, unblock_rtcp(t)
    PROVE  IInv'
<1>1. Steps(t, {"added"}, "active") /\ UNCHANGED <<mcast_clients, dest>>
  BY DEF unblock_rtcp, Steps, listVars
<1> QED BY <1>1, PhaseKeeps DEF Phases, Fresh, Ready

LEMMA EndKeeps ==
    ASSUME StreamAssumption, IInv, NEW t \in Trans, EndClient(t)
    PROVE  IInv'
<1>1. /\ Steps(t, {"ready", "paused"}, "new")
      /\ dest' = [dest EXCEPT ![t] = None] /\ UNCHANGED <<mcast_clients, early>>
  BY DEF EndClient, Steps, graphVars, listVars
<1>2. /\ phase' \in [Trans -> Phases] /\ phase'[t] = "new" /\ \A u \in Trans \ {t} : phase'[u] = phase[u]
      /\ NetInv' /\ SocketInv' /\ AddressInv' /\ ProbeInv' /\ KnownInv' /\ EarlyInv' /\ ListInv'
      /\ FilterInv' /\ FilterSafe' /\ NoAbort'
  BY <1>1, StepsKeep DEF Phases, Fresh
<1>3. \A u \in Trans \ {t} : dest'[u] = dest[u]
  BY <1>1 DEF IInv, TypeInv
<1>4. TypeInv'
  <2>1. dest' \in [Trans -> Dest \cup {None}]
    BY <1>1 DEF IInv, TypeInv
  <2> QED BY <1>1, <1>2, <2>1 DEF IInv, TypeInv, Steps, netVars
<1>5. CountInv'
  <2>1. ~Listed(t)
    BY <1>1 DEF IInv, ListInv, Listed, Steps
  <2>2. \A d \in Dest : Counted(d)' \subseteq Counted(d)
    BY <1>1, <1>2, <1>3, <2>1 DEF Counted, Listed, Steps
  <2> QED BY <1>1, <2>2, CountLess DEF IInv, TypeInv, Steps, Grows
<1>6. DestInv'
  BY <1>2, <1>3 DEF IInv, DestInv
<1> QED BY <1>2, <1>4, <1>5, <1>6 DEF IInv

LEMMA AddDestinationKeeps ==
    ASSUME StreamAssumption, IInv, NEW t \in Trans, add_multicast_client_address(t)
    PROVE  IInv'
<1> DEFINE d0 == Destination(t)
<1>1. /\ Kind[t] = "mcast" /\ Steps(t, {"sockets"}, "ready") /\ socket["mcast"][Fam[t]] # None
      /\ dest' = [dest EXCEPT ![t] = d0]
      /\ mcast_clients' = [mcast_clients EXCEPT ![d0] = @ + 1]
  BY DEF add_multicast_client_address, add_mcast_client_addr, Steps, graphVars
<1>2. /\ phase' \in [Trans -> Phases] /\ phase'[t] = "ready" /\ \A u \in Trans \ {t} : phase'[u] = phase[u]
      /\ NetInv' /\ SocketInv' /\ AddressInv' /\ ProbeInv' /\ KnownInv' /\ EarlyInv' /\ ListInv'
      /\ FilterInv' /\ FilterSafe' /\ NoAbort'
  BY <1>1, StepsKeep DEF Phases, Fresh
<1>3. d0 \in Dest
  <2>1. Fam[t] \in Family /\ Own[t] \in Ports \cup {None} /\ "mcast" \in Udp
    BY Kinds3
  <2>2. addr["mcast"][Fam[t]] \in Address
    BY <1>1, <2>1 DEF IInv, TypeInv, NetInv, Bound
  <2>3. addr["mcast"][Fam[t]].port \in Ports
    BY <2>2 DEF Address
  <2> QED BY <2>1, <2>3 DEF Destination, Dest
<1> HIDE DEF d0
<1>4. dest'[t] = d0 /\ \A u \in Trans \ {t} : dest'[u] = dest[u]
  BY <1>1 DEF IInv, TypeInv
<1>5. /\ mcast_clients' \in [Dest -> Nat] /\ mcast_clients'[d0] = mcast_clients[d0] + 1
      /\ \A d \in Dest \ {d0} : mcast_clients'[d] = mcast_clients[d]
  BY <1>1, <1>3 DEF IInv, TypeInv
<1>6. TypeInv'
  <2>1. dest' \in [Trans -> Dest \cup {None}]
    BY <1>1, <1>3 DEF IInv, TypeInv
  <2> QED BY <1>1, <1>2, <1>5, <2>1 DEF IInv, TypeInv, Steps, netVars
<1>7. CountInv'
  <2> SUFFICES ASSUME Without({"played_again"})', NEW d \in Dest PROVE Cardinality(Counted(d)') <= mcast_clients'[d]
    BY DEF CountInv
  <2>1. /\ Cardinality(Counted(d)) <= mcast_clients[d] /\ mcast_clients[d] \in Nat
        /\ IsFiniteSet(Counted(d)) /\ Cardinality(Counted(d)) \in Nat
    <3>1. Counted(d) \subseteq Trans /\ IsFiniteSet(Trans)
      BY DEF Counted, StreamAssumption
    <3>2. Without({"played_again"})
      BY <1>1 DEF Without, Steps
    <3> QED BY <3>1, <3>2, FS_Subset, FS_CardinalityType DEF IInv, CountInv, TypeInv
  <2>2. CASE d = d0
    <3>1. Counted(d)' \subseteq Counted(d) \cup {t}
      BY <1>1, <1>2, <1>4 DEF Counted, Listed, Steps
    <3>2. /\ IsFiniteSet(Counted(d) \cup {t})
          /\ Cardinality(Counted(d) \cup {t}) <= Cardinality(Counted(d)) + 1
          /\ Cardinality(Counted(d) \cup {t}) \in Nat
      <4>1. /\ IsFiniteSet(Counted(d) \cup {t})
            /\ Cardinality(Counted(d) \cup {t}) =
                 IF t \in Counted(d) THEN Cardinality(Counted(d)) ELSE Cardinality(Counted(d)) + 1
        BY <2>1, FS_AddElement
      <4> QED BY <2>1, <4>1, FS_CardinalityType
    <3>3. Cardinality(Counted(d)') <= Cardinality(Counted(d) \cup {t}) /\ Cardinality(Counted(d)') \in Nat
      BY <3>1, <3>2, FS_Subset, FS_CardinalityType
    <3> QED BY <1>5, <2>1, <2>2, <3>2, <3>3
  <2>3. CASE d # d0
    <3>1. Counted(d)' \subseteq Counted(d)
      BY <1>1, <1>2, <1>4, <2>3 DEF Counted, Listed, Steps
    <3>2. Cardinality(Counted(d)') <= Cardinality(Counted(d)) /\ Cardinality(Counted(d)') \in Nat
      BY <2>1, <3>1, FS_Subset, FS_CardinalityType
    <3> QED BY <1>5, <2>1, <2>3, <3>2
  <2> QED BY <2>2, <2>3
<1>8. DestInv'
  BY <1>2, <1>3, <1>4 DEF IInv, DestInv
<1> QED BY <1>2, <1>6, <1>7, <1>8 DEF IInv

-----------------------------------------------------------------------------
\* The elements.

LEMMA JoinKeeps ==
    ASSUME StreamAssumption, IInv, join_bin
    PROVE  IInv'
<1>1. /\ UNCHANGED <<netVars, sink, pending, source, early, known, listVars, callVars, filter, quirks, filters>>
      /\ Grows /\ Moves
  BY DEF join_bin, Grows, Moves, callVars
<1>2. TypeInv'
  BY <1>1 DEF IInv, TypeInv, netVars, listVars, callVars
<1>3. NetInv' /\ SocketInv' /\ AddressInv'
  BY <1>1, NetStill DEF IInv
<1>4. ProbeInv' /\ EarlyInv'
  BY <1>1, ProbeStill, EarlyStill DEF IInv
<1>5. KnownInv'
  BY <1>1, KnownStill DEF IInv, netVars, callVars
<1>6. ListInv'
  BY <1>1, ListStill DEF IInv, TypeInv, listVars, callVars
<1>7. CountInv'
  BY <1>1, CountStill DEF IInv, listVars, callVars
<1>8. DestInv'
  BY <1>1, DestStill DEF IInv, callVars
<1>9. FilterInv' /\ FilterSafe'
  BY <1>1, FilterStill DEF IInv, listVars
<1>10. NoAbort'
  BY <1>1, AbortStill DEF IInv
<1> QED BY <1>2, <1>3, <1>4, <1>5, <1>6, <1>7, <1>8, <1>9, <1>10 DEF IInv

LEMMA LeaveKeeps ==
    ASSUME StreamAssumption, IInv, leave_bin
    PROVE  IInv'
<1>1. /\ \A t \in Trans : phase[t] \in Fresh
      /\ sink' = NoSinks /\ pending' = {} /\ source' = {} /\ known' = [k \in Udp |-> {}]
      /\ addr' = NoAddresses /\ socket' = NoAddresses /\ owner' = FreeAddresses
      /\ quirks' = quirks \cup IF early # {} THEN {"left_blocked"} ELSE {}
      /\ UNCHANGED <<host, early, listVars, callVars, filter>>
  BY DEF leave_bin, Fresh, Quirk
<1>2. /\ \A k \in Udp : \A f \in Family : addr'[k][f] = None /\ socket'[k][f] = None
      /\ \A i \in Index : \A k \in Kinds : sink'[i][k] = "none"
  BY <1>1 DEF NoAddresses, NoSinks
<1>3. Grows /\ ("aborted" \in quirks' => "aborted" \in quirks)
  BY <1>1 DEF Grows
<1>4. TypeInv'
  <2>1. owner' \in [Pool -> {"free", "us", "other"}]
    BY <1>1 DEF FreeAddresses, IInv, TypeInv
  <2>2. /\ addr' \in [Udp -> [Family -> Address \cup {None}]] /\ socket' \in [Udp -> [Family -> Ports \cup {None}]]
        /\ sink' \in [Index -> [Kinds -> {"none", "waiting", "direct", "queued"}]]
        /\ known' \in [Udp -> SUBSET Family]
    BY <1>1 DEF NoAddresses, NoSinks
  <2> QED BY <1>1, <2>1, <2>2 DEF IInv, TypeInv, listVars, callVars
<1>5. NetInv'
  <2>1. Bound' /\ Even' /\ Apart'
    BY <1>2, Kinds3 DEF Bound, Even, Apart
  <2>2. PoolBalanced'
    <3> SUFFICES ASSUME Without({"preset_failed", "overwritten"})', NEW x \in Pool
                 PROVE  owner'[x] # "us" /\ addr'[x[1]][x[2]] # [port |-> x[3], pooled |-> TRUE]
      BY DEF PoolBalanced
    <3> DEFINE e == [port |-> x[3], pooled |-> TRUE]
    <3>1. x[1] \in Udp /\ x[2] \in Family /\ x[3] \in Ports
      BY Kinds3
    <3>2. e # None
      <4>1. e \in Address
        BY <3>1 DEF Address
      <4> QED BY <4>1 DEF StreamAssumption
    <3>3. owner[x] = "us" <=> addr[x[1]][x[2]] = e
      BY <1>3, WithoutStays DEF IInv, NetInv, PoolBalanced
    <3>4. owner'[x] # "us"
      BY <1>1, <3>3 DEF FreeAddresses
    <3> QED BY <1>2, <3>1, <3>2, <3>4
  <2> QED BY <2>1, <2>2 DEF NetInv
<1>6. SocketInv' /\ AddressInv'
  BY <1>1 DEF SocketInv, AddressInv, callVars
<1>7. ProbeInv'
  BY <1>1, <1>2 DEF ProbeInv, Present
<1>8. KnownInv'
  BY <1>1, <1>2, Kinds3 DEF KnownInv, callVars, Fresh
<1>9. EarlyInv'
  BY <1>1 DEF EarlyInv, Without
<1>10. ListInv'
  BY <1>1, ListStill DEF IInv, TypeInv, listVars, callVars
<1>11. CountInv'
  BY <1>1, <1>3, CountStill DEF IInv, listVars, callVars
<1>12. DestInv'
  BY <1>1, DestStill DEF IInv, callVars
<1>13. FilterInv' /\ FilterSafe'
  BY <1>1, FilterStill DEF IInv, listVars
<1>14. NoAbort'
  BY <1>3, AbortStill DEF IInv
<1> QED BY <1>4, <1>5, <1>6, <1>7, <1>8, <1>9, <1>10, <1>11, <1>12, <1>13, <1>14 DEF IInv

LEMMA PlugKeeps ==
    ASSUME StreamAssumption, IInv, NEW p, PlugQueues(p)
    PROVE  IInv'
<1>1. p \in pending /\ p.index \in Index /\ p.old \in Kinds /\ p.new \in Kinds
  BY DEF PlugQueues, IInv, TypeInv
<1>2. sink[p.index][p.old] = "direct" /\ sink[p.index][p.new] = "waiting" /\ p.old # p.new
  BY <1>1 DEF IInv, ProbeInv
<1>3. /\ pending' = pending \ {p}
      /\ sink' = [sink EXCEPT ![p.index][p.old] = "queued", ![p.index][p.new] = "queued"]
      /\ UNCHANGED <<netVars, joined, joins, source, early, known, listVars, callVars, filter, quirks>>
      /\ Grows /\ Moves
  BY <1>2 DEF PlugQueues, Grows, Moves, callVars
<1>4. /\ sink' \in [Index -> [Kinds -> {"none", "waiting", "direct", "queued"}]]
      /\ \A i \in Index : \A k \in Kinds :
           sink'[i][k] = IF i = p.index /\ k \in {p.old, p.new} THEN "queued" ELSE sink[i][k]
  BY <1>1, <1>3 DEF IInv, TypeInv
<1>5. TypeInv'
  <2>1. pending' \subseteq [index : Index, old : Kinds, new : Kinds]
    BY <1>3 DEF IInv, TypeInv
  <2> QED BY <1>3, <1>4, <2>1 DEF IInv, TypeInv, netVars, listVars, callVars
<1>6. \A i \in Index : Present(i)' = Present(i)
  BY <1>1, <1>2, <1>4 DEF Present
<1>7. ProbeInv'
  <2>1. ASSUME NEW q \in pending' PROVE sink'[q.index][q.old] = "direct" /\ sink'[q.index][q.new] = "waiting"
    <3>1. q \in pending /\ q # p /\ q.index \in Index /\ q.old \in Kinds /\ q.new \in Kinds
      BY <1>3 DEF IInv, TypeInv
    <3>2. q.index # p.index
      BY <1>1, <3>1 DEF IInv, ProbeInv
    <3> QED BY <1>4, <3>1, <3>2 DEF IInv, ProbeInv
  <2>2. \A q, r \in pending' : q.index = r.index => q = r
    BY <1>3 DEF IInv, ProbeInv
  <2>3. ASSUME NEW i \in Index, NEW k \in Kinds
        PROVE  /\ sink'[i][k] = "waiting" => \E q \in pending' : q.index = i /\ q.new = k
               /\ sink'[i][k] = "direct" => Present(i)' = {k} \/ \E q \in pending' : q.index = i /\ q.old = k
               /\ Present(i)' = {k} => sink'[i][k] = "direct"
    <3>1. /\ sink[i][k] = "waiting" => \E q \in pending : q.index = i /\ q.new = k
          /\ sink[i][k] = "direct" => Present(i) = {k} \/ \E q \in pending : q.index = i /\ q.old = k
          /\ Present(i) = {k} => sink[i][k] = "direct"
      BY DEF IInv, ProbeInv
    <3>2. CASE i # p.index
      <4>1. \A q \in pending : q.index = i => q \in pending'
        BY <1>3, <3>2
      <4> QED BY <1>4, <1>6, <3>1, <3>2, <4>1
    <3>3. CASE i = p.index
      <4>1. \A q \in pending : q.index = i => q = p
        BY <1>1, <3>3 DEF IInv, ProbeInv
      <4>2. p.old \in Present(i) /\ p.new \in Present(i)
        BY <1>1, <1>2, <3>3 DEF Present
      <4>3. Present(i) # {k}
        BY <1>2, <4>2
      <4>4. sink'[i][k] \notin {"waiting", "direct"}
        BY <1>4, <3>1, <3>3, <4>1, <4>3
      <4> QED BY <1>6, <4>3, <4>4
    <3> QED BY <3>2, <3>3
  <2> QED BY <2>1, <2>2, <2>3 DEF ProbeInv
<1>8. KnownInv'
  <2>1. \A i \in Index : \A k \in Kinds : sink'[i][k] # "none" <=> sink[i][k] # "none"
    BY <1>1, <1>2, <1>4
  <2>2. Udp \subseteq Kinds /\ \A t \in Trans : Kind[t] \in Kinds
    BY Kinds3
  <2>3. ASSUME Without({"late_family"})', NEW k \in Udp, NEW i \in Index, sink'[i][k] # "none" PROVE known'[k] = Sockets(k)'
    <3>1. Without({"late_family"}) /\ sink[i][k] # "none"
      BY <1>3, <2>1, <2>2, <2>3, WithoutStays
    <3>2. known[k] = Sockets(k)
      BY <3>1 DEF IInv, KnownInv
    <3> QED BY <1>3, <3>2 DEF Sockets, netVars
  <2>4. ASSUME 1 \in Index, NEW t \in Trans, phase'[t] \in {"complete", "added", "active"} PROVE sink'[1][Kind[t]] # "none"
    <3>1. sink[1][Kind[t]] # "none"
      BY <1>3, <2>4 DEF IInv, KnownInv, callVars
    <3> QED BY <2>1, <2>2, <2>4, <3>1
  <2> QED BY <2>3, <2>4 DEF KnownInv
<1>9. NetInv' /\ SocketInv' /\ AddressInv'
  BY <1>3, NetStill DEF IInv
<1>10. EarlyInv'
  BY <1>3, EarlyStill DEF IInv
<1>11. ListInv'
  BY <1>3, ListStill DEF IInv, TypeInv, listVars, callVars
<1>12. CountInv'
  BY <1>3, CountStill DEF IInv, listVars, callVars
<1>13. DestInv'
  BY <1>3, DestStill DEF IInv, callVars
<1>14. FilterInv' /\ FilterSafe'
  BY <1>3, FilterStill DEF IInv, listVars
<1>15. NoAbort'
  BY <1>3, AbortStill DEF IInv
<1> QED BY <1>5, <1>7, <1>8, <1>9, <1>10, <1>11, <1>12, <1>13, <1>14, <1>15 DEF IInv

\* What plugging a sink of kind k does at one index.
LEMMA PlugIs ==
    ASSUME StreamAssumption, TypeInv, ProbeInv, NEW i \in Index, NEW k \in Kinds, sink[i][k] = "none"
    PROVE  /\ k \notin Present(i) /\ Present(i) \subseteq Kinds
           /\ plug_sink(i, k).sinks \in [Kinds -> {"none", "waiting", "direct", "queued"}]
           /\ plug_sink(i, k).probes \subseteq [index : Index, old : Kinds, new : Kinds]
           /\ \A k2 \in Kinds \ {k} : plug_sink(i, k).sinks[k2] = sink[i][k2]
           /\ \/ /\ Present(i) = {} /\ plug_sink(i, k).sinks[k] = "direct" /\ plug_sink(i, k).probes = {}
              \/ \E k1 : /\ Present(i) = {k1} /\ plug_sink(i, k).sinks[k] = "waiting"
                         /\ plug_sink(i, k).probes = {[index |-> i, old |-> k1, new |-> k]}
              \/ /\ Present(i) # {} /\ \A k1 : Present(i) # {k1}
                 /\ plug_sink(i, k).sinks[k] = "queued" /\ plug_sink(i, k).probes = {}
<1> DEFINE S == Present(i)
           n == Cardinality(S)
           state == IF n = 0 THEN "direct" ELSE IF n = 1 THEN "waiting" ELSE "queued"
<1>1. S \subseteq Kinds /\ k \notin S
  BY DEF Present
<1>2. IsFiniteSet(S)
  <2>1. IsFiniteSet({"udp", "mcast", "tcp"})
    <3>1. IsFiniteSet({}) /\ {} \cup {"udp"} = {"udp"} /\ {"udp"} \cup {"mcast"} = {"udp", "mcast"}
          /\ {"udp", "mcast"} \cup {"tcp"} = {"udp", "mcast", "tcp"}
      BY FS_EmptySet
    <3>2. IsFiniteSet({} \cup {"udp"})
      BY <3>1, FS_AddElement
    <3>3. IsFiniteSet({"udp"} \cup {"mcast"})
      BY <3>1, <3>2, FS_AddElement
    <3>4. IsFiniteSet({"udp", "mcast"})
      BY <3>1, <3>3
    <3>5. IsFiniteSet({"udp", "mcast"} \cup {"tcp"})
      BY <3>4, FS_AddElement
    <3> QED BY <3>1, <3>5
  <2> QED BY <1>1, <2>1, Kinds3, FS_Subset
<1>3. (n = 0 <=> S = {}) /\ (n = 1 <=> \E x : S = {x})
  BY <1>2, FS_EmptySet, FS_Singleton
<1>4. sink[i] \in [Kinds -> {"none", "waiting", "direct", "queued"}]
  BY DEF TypeInv
<1>5. /\ plug_sink(i, k).sinks = [sink[i] EXCEPT ![k] = state]
      /\ plug_sink(i, k).probes = IF n = 1 THEN {[index |-> i, old |-> k2, new |-> k] : k2 \in S} ELSE {}
  BY DEF plug_sink
<1>6. state \in {"none", "waiting", "direct", "queued"}
  OBVIOUS
<1>7. /\ plug_sink(i, k).sinks \in [Kinds -> {"none", "waiting", "direct", "queued"}]
      /\ plug_sink(i, k).sinks[k] = state
      /\ \A k2 \in Kinds \ {k} : plug_sink(i, k).sinks[k2] = sink[i][k2]
  <2> HIDE DEF state
  <2> QED BY <1>4, <1>5, <1>6
<1>8. plug_sink(i, k).probes \subseteq [index : Index, old : Kinds, new : Kinds]
  BY <1>1, <1>5
<1>9. CASE S = {}
  BY <1>1, <1>3, <1>5, <1>7, <1>8, <1>9
<1>10. CASE \E x : S = {x}
  <2>1. PICK k1 : S = {k1}
    BY <1>10
  <2>2. n = 1
    BY <1>3, <1>10
  <2>3. plug_sink(i, k).probes = {[index |-> i, old |-> k1, new |-> k]}
    BY <1>5, <2>1, <2>2
  <2>4. plug_sink(i, k).sinks[k] = "waiting"
    BY <1>7, <2>2
  <2> QED BY <1>1, <1>7, <1>8, <2>1, <2>3, <2>4
<1>11. CASE S # {} /\ \A x : S # {x}
  <2>1. n # 0 /\ n # 1
    BY <1>3, <1>11
  <2> QED BY <1>1, <1>5, <1>7, <1>8, <1>11, <2>1
<1> QED BY <1>9, <1>10, <1>11

\* The probes and the sinks after a sink of kind k was plugged at the indices new.
LEMMA SenderIs ==
    ASSUME StreamAssumption, IInv, NEW k \in Kinds, create_sender_part(k)
    PROVE  /\ sink' \in [Index -> [Kinds -> {"none", "waiting", "direct", "queued"}]]
           /\ pending' \subseteq [index : Index, old : Kinds, new : Kinds]
           /\ \A i \in Index : \A k2 \in Kinds \ {k} : sink'[i][k2] = sink[i][k2]
           /\ \A i \in Index : sink[i][k] # "none" => sink'[i][k] # "none"
           /\ \A i \in SinkIndex : sink'[i][k] # "none"
           /\ ProbeInv'
<1> DEFINE new == {i \in SinkIndex : sink[i][k] = "none"}
<1>1. /\ sink' = [i \in Index |-> IF i \in new THEN plug_sink(i, k).sinks ELSE sink[i]]
      /\ pending' = pending \cup UNION {plug_sink(i, k).probes : i \in new}
      /\ new \subseteq Index /\ SinkIndex \subseteq Index
      /\ TypeInv /\ ProbeInv
  BY DEF create_sender_part, SinkIndex, IInv
<1>2. ASSUME NEW i \in new
      PROVE  /\ i \in Index /\ sink'[i] = plug_sink(i, k).sinks
             /\ k \notin Present(i) /\ Present(i) \subseteq Kinds
             /\ plug_sink(i, k).sinks \in [Kinds -> {"none", "waiting", "direct", "queued"}]
             /\ plug_sink(i, k).probes \subseteq [index : Index, old : Kinds, new : Kinds]
             /\ \A k2 \in Kinds \ {k} : plug_sink(i, k).sinks[k2] = sink[i][k2]
             /\ \/ /\ Present(i) = {} /\ plug_sink(i, k).sinks[k] = "direct" /\ plug_sink(i, k).probes = {}
                \/ \E k1 : /\ Present(i) = {k1} /\ plug_sink(i, k).sinks[k] = "waiting"
                           /\ plug_sink(i, k).probes = {[index |-> i, old |-> k1, new |-> k]}
                \/ /\ Present(i) # {} /\ \A k1 : Present(i) # {k1}
                   /\ plug_sink(i, k).sinks[k] = "queued" /\ plug_sink(i, k).probes = {}
  <2>1. i \in Index /\ sink[i][k] = "none" /\ sink'[i] = plug_sink(i, k).sinks
    BY <1>1
  <2> QED BY <1>1, <2>1, PlugIs
<1>3. \A i \in Index \ new : sink'[i] = sink[i]
  BY <1>1
<1>4. /\ sink' \in [Index -> [Kinds -> {"none", "waiting", "direct", "queued"}]]
  <2>1. \A i \in Index : sink'[i] \in [Kinds -> {"none", "waiting", "direct", "queued"}]
    BY <1>1, <1>2, <1>3 DEF TypeInv
  <2>2. sink' = [i \in Index |-> sink'[i]]
    BY <1>1
  <2> QED BY <2>1, <2>2
<1>5. pending' \subseteq [index : Index, old : Kinds, new : Kinds]
  <2>1. \A i \in new : plug_sink(i, k).probes \subseteq [index : Index, old : Kinds, new : Kinds]
    BY <1>2
  <2>2. pending \subseteq [index : Index, old : Kinds, new : Kinds]
    BY <1>1 DEF TypeInv
  <2> HIDE DEF new
  <2> QED BY <1>1, <2>1, <2>2
<1>6. \A i \in new : plug_sink(i, k).sinks[k] # "none"
  BY <1>2
<1>7. \A i \in Index : \A k2 \in Kinds \ {k} : sink'[i][k2] = sink[i][k2]
  BY <1>2, <1>3
<1>8. \A i \in Index : sink[i][k] # "none" => sink'[i][k] # "none"
  BY <1>3
<1>9. \A i \in SinkIndex : sink'[i][k] # "none"
  <2> SUFFICES ASSUME NEW i \in SinkIndex PROVE sink'[i][k] # "none"
    OBVIOUS
  <2>1. i \in Index /\ (sink[i][k] = "none" => i \in new)
    BY <1>1
  <2> QED BY <1>2, <1>6, <1>8, <2>1
<1>10. \A q \in pending' : q \in pending \/ \E i \in new : q \in plug_sink(i, k).probes
  BY <1>1
\* At an index that changes there was no probe before, or there are more sinks.
<1>11. ASSUME NEW i \in new, NEW q \in pending, q.index = i
       PROVE  Present(i) # {} /\ \A k1 : Present(i) # {k1}
  <2>1. q.old \in Kinds /\ q.new \in Kinds /\ sink[i][q.old] = "direct" /\ sink[i][q.new] = "waiting"
    BY <1>1, <1>11 DEF TypeInv, ProbeInv
  <2>2. q.old \in Present(i) /\ q.new \in Present(i) /\ q.old # q.new
    BY <2>1 DEF Present
  <2> QED BY <2>2
<1>12. \A i \in new : \A q \in plug_sink(i, k).probes :
         q.index = i /\ q.new = k /\ Present(i) = {q.old} /\ plug_sink(i, k).sinks[k] = "waiting"
         /\ plug_sink(i, k).probes = {q}
  BY <1>2
<1> HIDE DEF new
<1>13. ProbeInv'
  <2>1. ASSUME NEW q \in pending' PROVE sink'[q.index][q.old] = "direct" /\ sink'[q.index][q.new] = "waiting"
    <3>1. CASE q \in pending
      <4>1. /\ q.index \in Index /\ q.old \in Kinds /\ q.new \in Kinds
            /\ sink[q.index][q.old] = "direct" /\ sink[q.index][q.new] = "waiting"
        BY <1>1, <3>1 DEF TypeInv, ProbeInv
      <4>2. CASE q.index \in new
        <5>1. q.old # k /\ q.new # k
          BY <1>2, <4>1, <4>2 DEF Present
        <5> QED BY <1>7, <4>1, <5>1
      <4>3. CASE q.index \notin new
        BY <1>3, <4>1, <4>3
      <4> QED BY <4>2, <4>3
    <3>2. CASE \E i \in new : q \in plug_sink(i, k).probes
      <4>1. PICK i \in new : q \in plug_sink(i, k).probes
        BY <3>2
      <4>2. q.index = i /\ q.new = k /\ Present(i) = {q.old} /\ plug_sink(i, k).sinks[k] = "waiting"
        BY <1>12, <4>1
      <4>3. i \in Index /\ q.old \in Kinds /\ q.old # k /\ sink'[i][k] = "waiting"
        BY <1>2, <4>2
      <4>4. sink[i][q.old] = "direct"
        BY <1>1, <4>2, <4>3 DEF ProbeInv
      <4> QED BY <1>7, <4>2, <4>3, <4>4
    <3> QED BY <1>10, <3>1, <3>2
  <2>2. ASSUME NEW q \in pending', NEW r \in pending', q.index = r.index PROVE q = r
    <3>1. CASE q \in pending /\ r \in pending
      BY <1>1, <2>2, <3>1 DEF ProbeInv
    <3>2. ASSUME NEW i \in new, NEW a \in plug_sink(i, k).probes, NEW b \in pending' , b.index = a.index PROVE a = b
      <4>1. a.index = i /\ Present(i) = {a.old} /\ plug_sink(i, k).probes = {a}
        BY <1>12, <3>2
      <4>2. b \notin pending
        BY <1>11, <3>2, <4>1
      <4>3. PICK j \in new : b \in plug_sink(j, k).probes
        BY <1>10, <3>2, <4>2
      <4>4. j = i
        BY <1>12, <3>2, <4>1, <4>3
      <4> QED BY <4>1, <4>3, <4>4
    <3> QED BY <1>10, <2>2, <3>1, <3>2
  <2>3. ASSUME NEW i \in Index, NEW k2 \in Kinds
        PROVE  /\ sink'[i][k2] = "waiting" => \E q \in pending' : q.index = i /\ q.new = k2
               /\ sink'[i][k2] = "direct" => Present(i)' = {k2} \/ \E q \in pending' : q.index = i /\ q.old = k2
               /\ Present(i)' = {k2} => sink'[i][k2] = "direct"
    <3>1. /\ sink[i][k2] = "waiting" => \E q \in pending : q.index = i /\ q.new = k2
          /\ sink[i][k2] = "direct" => Present(i) = {k2} \/ \E q \in pending : q.index = i /\ q.old = k2
          /\ Present(i) = {k2} => sink[i][k2] = "direct"
          /\ pending \subseteq pending'
      BY <1>1 DEF ProbeInv
    <3>2. CASE i \notin new
      <4>1. sink'[i] = sink[i]
        BY <1>3, <3>2
      <4>2. Present(i)' = Present(i)
        BY <4>1 DEF Present
      <4> QED BY <3>1, <4>1, <4>2
    <3>3. CASE i \in new
      <4>1. Present(i)' = Present(i) \cup {k} /\ k \notin Present(i)
        BY <1>2, <1>6, <1>7, <3>3 DEF Present
      <4>2. sink'[i][k] = plug_sink(i, k).sinks[k] /\ \A k3 \in Kinds \ {k} : sink'[i][k3] = sink[i][k3]
        BY <1>2, <1>7, <3>3
      <4>3. plug_sink(i, k).probes \subseteq pending'
        BY <1>1, <3>3 DEF new
      <4>4. CASE Present(i) = {} /\ plug_sink(i, k).sinks[k] = "direct"
        <5>1. k2 # k => sink[i][k2] = "none"
          BY <4>4 DEF Present
        <5> QED BY <4>1, <4>2, <4>4, <5>1
      <4>5. CASE \E k1 : /\ Present(i) = {k1} /\ plug_sink(i, k).sinks[k] = "waiting"
                         /\ plug_sink(i, k).probes = {[index |-> i, old |-> k1, new |-> k]}
        <5>1. PICK k1 : /\ Present(i) = {k1} /\ plug_sink(i, k).sinks[k] = "waiting"
                        /\ plug_sink(i, k).probes = {[index |-> i, old |-> k1, new |-> k]}
          BY <4>5
        <5> DEFINE q == [index |-> i, old |-> k1, new |-> k]
        <5>2. q \in pending' /\ q.index = i /\ q.old = k1 /\ q.new = k /\ k1 # k
          BY <4>1, <4>3, <5>1
        <5>3. Present(i)' # {k2}
          BY <4>1, <5>1, <5>2
        <5>4. k2 \notin {k1, k} => sink'[i][k2] = "none"
          BY <4>2, <5>1 DEF Present
        <5>5. sink'[i][k] = "waiting" /\ k1 \in Kinds /\ sink'[i][k1] = "direct"
          <6>1. k1 \in Kinds
            BY <1>2, <3>3, <5>1
          <6>2. sink[i][k1] = "direct"
            BY <1>1, <5>1, <6>1 DEF ProbeInv
          <6> QED BY <4>2, <5>1, <5>2, <6>1, <6>2
        <5> HIDE DEF q
        <5> QED BY <5>2, <5>3, <5>4, <5>5
      <4>6. CASE /\ Present(i) # {} /\ \A k1 : Present(i) # {k1} /\ plug_sink(i, k).sinks[k] = "queued"
        <5>1. Present(i)' # {k2}
          BY <4>1, <4>6
        <5> QED BY <3>1, <4>2, <4>6, <5>1
      <4> QED BY <1>2, <3>3, <4>4, <4>5, <4>6
    <3> QED BY <3>2, <3>3
  <2> QED BY <2>1, <2>2, <2>3 DEF ProbeInv
<1> QED BY <1>4, <1>5, <1>7, <1>8, <1>9, <1>13

LEMMA CompleteKeeps ==
    ASSUME StreamAssumption, IInv, NEW t \in Trans, complete_stream(t)
    PROVE  IInv'
<1> DEFINE k == Kind[t]
<1>1. /\ phase[t] \in {"ready", "paused"} /\ UNCHANGED <<netVars, listVars, dest, filter, filters>>
      /\ TypeInv /\ NetInv /\ SocketInv /\ AddressInv
      /\ k \in Kinds /\ Udp = {"udp", "mcast"} /\ Udp \subseteq Kinds /\ Family = {"v4", "v6"}
  BY Kinds3 DEF complete_stream, IInv
<1>2. CASE ReceiverAborts(k) /\ Quirk({"aborted"}) /\ UNCHANGED <<graphVars, phase>>
  <2>1. Grows /\ Moves
    BY <1>2 DEF Grows, Moves, Quirk
  <2>2. ~Without({"preset_failed", "late_address", "unbound", "left_blocked"})'
    <3> SUFFICES ASSUME Without({"preset_failed", "late_address", "unbound", "left_blocked"}) PROVE FALSE
      BY <2>1, WithoutStays
    <3>1. Without({"preset_failed", "late_address", "unbound"}) /\ Without({"left_blocked"})
      BY DEF Without
    <3>2. CASE k \in Udp /\ \E s \in NewSources(k) : socket[k][s[3]] = None
      <4>1. PICK s \in NewSources(k) : socket[k][s[3]] = None
        BY <3>2
      <4>2. k # "tcp"
        BY <3>2 DEF Udp
      <4>3. s[3] \in Family /\ addr[k][s[3]] # None
        BY <4>1, <4>2 DEF NewSources
      <4>4. k = "mcast"
        BY <1>1, <3>2, <4>1, <4>3 DEF NetInv, Bound
      <4> QED BY <1>1, <3>1, <4>1, <4>3, <4>4 DEF AddressInv, Fresh
    <3>3. CASE NewEarly(k) \cap early # {}
      <4>1. PICK f \in NewEarly(k) : f \in early
        BY <3>3
      <4>2. k = "udp" /\ <<1, k, f>> \in NewSources(k)
        BY <4>1 DEF NewEarly
      <4>3. <<1, "udp", f>> \notin source
        BY <4>2 DEF NewSources
      <4> QED BY <3>1, <4>1, <4>3 DEF IInv, EarlyInv
    <3> QED BY <1>2, <3>2, <3>3 DEF ReceiverAborts
  <2>3. TypeInv'
    BY <1>1, <1>2 DEF TypeInv, netVars, graphVars, listVars
  <2>4. NetInv' /\ SocketInv' /\ AddressInv'
    BY <1>1, <2>1, NetStill
  <2>5. ProbeInv' /\ EarlyInv'
    BY <1>2, <2>1, ProbeStill, EarlyStill DEF IInv, graphVars
  <2>6. KnownInv'
    BY <1>1, <1>2, <2>1, KnownStill DEF IInv, graphVars, netVars
  <2>7. ListInv'
    BY <1>1, <1>2, ListStill DEF IInv, TypeInv, listVars
  <2>8. CountInv'
    BY <1>1, <1>2, <2>1, CountStill DEF IInv, listVars
  <2>9. DestInv'
    BY <1>1, <1>2, DestStill DEF IInv
  <2>10. FilterInv' /\ FilterSafe'
    BY <1>1, FilterStill DEF IInv, listVars
  <2>11. NoAbort'
    BY <2>2 DEF NoAbort
  <2> QED BY <2>3, <2>4, <2>5, <2>6, <2>7, <2>8, <2>9, <2>10, <2>11 DEF IInv
<1>3. CASE /\ create_receiver_part(k) /\ create_sender_part(k)
           /\ phase' = [phase EXCEPT ![t] = "complete"]
           /\ Quirk(IF k = "mcast" /\ phase[t] = "paused" THEN {"played_again"} ELSE {})
           /\ UNCHANGED <<joined, joins>>
  <2>1. phase'[t] = "complete" /\ \A u \in Trans \ {t} : phase'[u] = phase[u]
    BY <1>1, <1>3, PhaseIs
  <2>2. /\ Grows /\ ("aborted" \in quirks' => "aborted" \in quirks)
        /\ k = "mcast" /\ phase[t] = "paused" => "played_again" \in quirks'
    BY <1>3 DEF Grows, Quirk
  <2>3. Moves
    BY <1>1, <2>1 DEF Moves, Fresh
  <2>4. /\ sink' \in [Index -> [Kinds -> {"none", "waiting", "direct", "queued"}]]
        /\ pending' \subseteq [index : Index, old : Kinds, new : Kinds]
        /\ \A i \in Index : \A k2 \in Kinds \ {k} : sink'[i][k2] = sink[i][k2]
        /\ \A i \in Index : sink[i][k] # "none" => sink'[i][k] # "none"
        /\ \A i \in SinkIndex : sink'[i][k] # "none"
        /\ ProbeInv'
    BY <1>1, <1>3, SenderIs
  <2> DEFINE new == {i \in SinkIndex : sink[i][k] = "none"}
  <2>5. /\ known' = IF k \in Udp /\ new # {} THEN [known EXCEPT ![k] = Sockets(k)] ELSE known
        /\ new = {} => \A i \in Index : sink'[i] = sink[i]
        /\ known' \in [Udp -> SUBSET Family]
    <3>1. known' = IF k \in Udp /\ new # {} THEN [known EXCEPT ![k] = Sockets(k)] ELSE known
      BY <1>3 DEF create_sender_part
    <3>2. new = {} => \A i \in Index : sink'[i] = sink[i]
      BY <1>3 DEF create_sender_part
    <3>3. Sockets(k) \in SUBSET Family /\ known \in [Udp -> SUBSET Family]
      BY <1>1 DEF Sockets, TypeInv
    <3> HIDE DEF new
    <3>4. known' \in [Udp -> SUBSET Family]
      BY <3>1, <3>3
    <3> QED BY <3>1, <3>2, <3>4
  <2> HIDE DEF new
  <2>6. TypeInv'
    <3>1. phase' \in [Trans -> Phases]
      BY <1>1, <1>3 DEF TypeInv, Phases
    <3>2. early' \subseteq Family
      BY <1>1, <1>3 DEF create_receiver_part, NewEarly, TypeInv
    <3> QED BY <1>1, <2>4, <2>5, <3>1, <3>2 DEF TypeInv, netVars, listVars
  <2>7. NetInv' /\ SocketInv' /\ AddressInv'
    BY <1>1, <2>2, <2>3, NetStill
  <2>8. KnownInv'
    <3>1. ASSUME Without({"late_family"})', NEW k2 \in Udp, NEW i \in Index, sink'[i][k2] # "none" PROVE known'[k2] = Sockets(k2)'
      <4>1. Without({"late_family"}) /\ Sockets(k2)' = Sockets(k2)
        BY <1>1, <2>2, <3>1, WithoutStays DEF Sockets, netVars
      <4>2. CASE k2 = k /\ new # {}
        BY <1>1, <2>5, <4>1, <4>2 DEF TypeInv
      <4>3. CASE k2 = k /\ new = {}
        <5>1. sink[i][k2] # "none"
          BY <2>5, <3>1, <4>3
        <5> QED BY <2>5, <4>1, <4>3, <5>1 DEF IInv, KnownInv
      <4>4. CASE k2 # k
        <5>1. sink[i][k2] # "none"
          BY <1>1, <2>4, <3>1, <4>4
        <5>2. known'[k2] = known[k2]
          BY <1>1, <2>5, <4>4 DEF TypeInv
        <5> QED BY <4>1, <5>1, <5>2 DEF IInv, KnownInv
      <4> QED BY <4>2, <4>3, <4>4
    <3>2. ASSUME 1 \in Index, NEW u \in Trans, phase'[u] \in {"complete", "added", "active"} PROVE sink'[1][Kind[u]] # "none"
      <4>1. 1 \in SinkIndex /\ Kind[u] \in Kinds
        BY <3>2, Kinds3 DEF SinkIndex
      <4>2. CASE Kind[u] = k
        BY <2>4, <4>1, <4>2
      <4>3. CASE Kind[u] # k
        <5>1. sink[1][Kind[u]] # "none"
          BY <2>1, <3>2, <4>3 DEF IInv, KnownInv
        <5> QED BY <2>4, <3>2, <4>1, <4>3, <5>1
      <4> QED BY <4>2, <4>3
    <3> QED BY <3>1, <3>2 DEF KnownInv
  <2>9. EarlyInv'
    <3> SUFFICES ASSUME Without({"left_blocked"})', NEW f \in early' PROVE <<1, "udp", f>> \in source'
      BY DEF EarlyInv
    <3>1. source' = source \cup NewSources(k) /\ early' = early \cup NewEarly(k)
      BY <1>3 DEF create_receiver_part
    <3>2. CASE f \in early
      BY <2>2, <3>1, <3>2, WithoutStays DEF IInv, EarlyInv
    <3>3. CASE f \in NewEarly(k)
      BY <3>1, <3>3 DEF NewEarly
    <3> QED BY <3>1, <3>2, <3>3
  <2>10. ListInv'
    <3>1. \A u \in Trans : phase[u] \in {"added", "active"} => phase'[u] \in {"added", "active"}
      BY <1>1, <2>1
    <3> QED BY <1>1, <3>1, ListStill DEF IInv, TypeInv, listVars
  <2>11. CountInv'
    <3>1. \A u \in Trans : Kind[u] = "mcast" /\ phase'[u] \in {"ready", "complete"} =>
             phase[u] \in {"ready", "complete"} \/ "played_again" \in quirks'
      BY <1>1, <2>1, <2>2
    <3> QED BY <1>1, <2>2, <3>1, CountStill DEF IInv, listVars
  <2>12. DestInv'
    <3>1. \A u \in Trans : phase'[u] \in Ready => phase[u] \in Ready
      BY <1>1, <2>1 DEF Ready
    <3> QED BY <1>1, <3>1, DestStill DEF IInv
  <2>13. FilterInv' /\ FilterSafe'
    BY <1>1, FilterStill DEF IInv, listVars
  <2>14. NoAbort'
    BY <2>2, AbortStill DEF IInv
  <2> QED BY <2>4, <2>6, <2>7, <2>8, <2>9, <2>10, <2>11, <2>12, <2>13, <2>14 DEF IInv
<1> QED BY <1>2, <1>3 DEF complete_stream

-----------------------------------------------------------------------------
\* The list and its filter.

LEMMA TellIs ==
    ASSUME StreamAssumption, TypeInv, NEW t \in Trans, TellFilter(t)
    PROVE  /\ filter' \in Filters \cup {None} /\ (filter' = None <=> filter = None)
           /\ filter # None =>
                /\ filter'.at = filter.at /\ filter'.next = filter.next /\ filter'.visited = filter.visited
                /\ filter'.stay = filter.stay \ {t} /\ filter'.moved = (filter.moved \/ Moved(t))
                /\ filter'.dead = IF filter.next = t THEN t ELSE filter.dead
<1>1. CASE filter = None
  BY <1>1 DEF TellFilter
<1>2. CASE filter # None
  <2>1. filter \in Filters
    BY <1>2 DEF TypeInv
  <2>2. /\ filter.at \in Trans /\ filter.next \in Trans \cup {None} /\ filter.moved \in BOOLEAN
        /\ filter.visited \in SUBSET Trans /\ filter.stay \in SUBSET Trans /\ filter.dead \in Trans \cup {None}
        /\ filter = [at |-> filter.at, next |-> filter.next, moved |-> filter.moved, visited |-> filter.visited,
                     stay |-> filter.stay, dead |-> filter.dead]
    BY <2>1 DEF Filters
  <2> DEFINE g == [at |-> filter.at, next |-> filter.next, moved |-> filter.moved \/ Moved(t), visited |-> filter.visited,
                   stay |-> filter.stay \ {t}, dead |-> IF filter.next = t THEN t ELSE filter.dead]
  <2>3. filter' = [filter EXCEPT !.moved = filter.moved \/ Moved(t), !.stay = filter.stay \ {t},
                                 !.dead = IF filter.next = t THEN t ELSE filter.dead]
    BY <1>2 DEF TellFilter, Stale
  <2>4. filter' = g
    BY <2>2, <2>3
  <2>5. (filter.moved \/ Moved(t)) \in BOOLEAN
    BY <2>2 DEF Moved
  <2>6. (IF filter.next = t THEN t ELSE filter.dead) \in Trans \cup {None}
    BY <2>2
  <2>7. g \in Filters
    BY <2>2, <2>5, <2>6 DEF Filters
  <2>8. g # None
    BY <2>7 DEF StreamAssumption
  <2> QED BY <1>2, <2>4, <2>7, <2>8
<1> QED BY <1>1, <1>2

\* A filter that is told of t, when the list loses t or gets it.
LEMMA TellKeeps ==
    ASSUME StreamAssumption, IInv, NEW t \in Trans, TellFilter(t),
           Range(transports) \ {t} \subseteq Range(transports'),
           \A x, u : x # t /\ u # t /\ Ahead(transports, x, u) => Ahead(transports', x, u)
    PROVE  filter' \in Filters \cup {None} /\ FilterInv' /\ FilterSafe'
<1>1. /\ filter' \in Filters \cup {None} /\ (filter' = None <=> filter = None)
      /\ filter # None =>
           /\ filter'.at = filter.at /\ filter'.next = filter.next /\ filter'.visited = filter.visited
           /\ filter'.stay = filter.stay \ {t} /\ filter'.moved = (filter.moved \/ Moved(t))
           /\ filter'.dead = IF filter.next = t THEN t ELSE filter.dead
  BY TellIs DEF IInv
<1>2. t # None
  BY DEF StreamAssumption
<1>3. FilterInv'
  <2> SUFFICES ASSUME filter' # None PROVE Fits(filter', transports')
    BY DEF FilterInv
  <2>1. Fits(filter, transports) /\ filter # None
    BY <1>1 DEF IInv, FilterInv
  <2>2. filter'.at \in filter'.visited /\ filter'.stay \subseteq Range(transports') /\ filter'.next # filter'.at
    BY <1>1, <2>1 DEF Fits
  <2>3. ASSUME filter'.dead = None, ~filter'.moved
        PROVE  /\ filter'.next # None => filter'.next \in Range(transports')
               /\ \A u \in filter'.stay \ filter'.visited : Ahead(transports', filter'.next, u)
    <3>1. filter.dead = None /\ ~filter.moved /\ filter.next # t
      BY <1>1, <1>2, <2>1, <2>3
    <3>2. /\ filter.next # None => filter.next \in Range(transports)
          /\ \A u \in filter.stay \ filter.visited : Ahead(transports, filter.next, u)
      BY <2>1, <3>1 DEF Fits
    <3>3. filter'.next # None => filter'.next \in Range(transports')
      BY <1>1, <2>1, <3>1, <3>2
    <3>4. \A u \in filter'.stay \ filter'.visited : u # t /\ Ahead(transports, filter.next, u)
      BY <1>1, <2>1, <3>2
    <3>5. \A u \in filter'.stay \ filter'.visited : Ahead(transports', filter.next, u)
      BY <3>1, <3>4
    <3> QED BY <1>1, <2>1, <3>3, <3>5
  <2> QED BY <2>2, <2>3 DEF Fits
<1>4. FilterSafe'
  BY <1>1 DEF IInv, FilterSafe, Moved
<1> QED BY <1>1, <1>3, <1>4

LEMMA ListRemoveIs ==
    ASSUME StreamAssumption, IInv, NEW t \in Trans, Listed(t), ListRemove(t)
    PROVE  /\ transports' \in Seq(Trans) /\ IsInjective(transports')
           /\ Range(transports') = Range(transports) \ {t} /\ client' = Range(transports')
           /\ \A x, u : x # t /\ u # t /\ Ahead(transports, x, u) => Ahead(transports', x, u)
<1>1. transports \in Seq(Trans) /\ IsInjective(transports) /\ client = Range(transports) /\ t \in Range(transports)
  BY DEF IInv, TypeInv, ListInv, SinksFollowList, Listed
<1>2. transports' = RemoveFirst(transports, t) /\ client' = client \ {t}
  BY DEF ListRemove, SinksRemove
<1> DEFINE r == RemoveFirst(transports, t)
<1>3. /\ r \in Seq(Trans) /\ IsInjective(r) /\ Range(r) = Range(transports) \ {t}
      /\ \A x, u : x # t /\ u # t /\ Ahead(transports, x, u) => Ahead(r, x, u)
  BY <1>1, RemoveFirstIs
<1> HIDE DEF r
<1>4. transports' = r
  BY <1>2 DEF r
<1>5. Range(transports') = Range(r) /\ (IsInjective(transports') <=> IsInjective(r))
  BY <1>4
<1>6. \A x, u : Ahead(transports', x, u) <=> Ahead(r, x, u)
  BY <1>4
<1> QED BY <1>1, <1>2, <1>3, <1>4, <1>5, <1>6

LEMMA ListRemoveCounts ==
    ASSUME StreamAssumption, IInv, NEW t \in Trans, Listed(t), ListRemove(t), dest' = dest, quirks' = quirks,
           \A u \in Trans : phase'[u] \in {"ready", "complete"} => phase[u] \in {"ready", "complete"},
           phase'[t] \notin {"ready", "complete"}
    PROVE  mcast_clients' \in [Dest -> Nat] /\ CountInv'
<1>1. /\ Range(transports') = Range(transports) \ {t} /\ mcast_clients \in [Dest -> Nat]
      /\ phase[t] \in {"added", "active"}
  BY ListRemoveIs DEF IInv, TypeInv, ListInv, Listed
<1>2. \A d \in Dest : Counted(d)' \subseteq Counted(d)
  BY <1>1 DEF Counted, Listed
<1>3. CASE Kind[t] # "mcast"
  <2>1. mcast_clients' = mcast_clients
    BY <1>3 DEF ListRemove
  <2> QED BY <1>1, <1>2, <2>1, CountLess DEF IInv, Grows
<1>4. CASE Kind[t] = "mcast"
  <2>1. PICK d0 \in Dest : d0 = dest[t]
    BY <1>1, <1>4 DEF IInv, DestInv
  <2>2. mcast_clients' = [mcast_clients EXCEPT ![d0] = IF @ > 0 THEN @ - 1 ELSE 0]
    BY <1>4, <2>1 DEF ListRemove, remove_mcast_client_addr
  <2>3. /\ mcast_clients' \in [Dest -> Nat]
        /\ mcast_clients'[d0] = IF mcast_clients[d0] > 0 THEN mcast_clients[d0] - 1 ELSE 0
        /\ \A d \in Dest \ {d0} : mcast_clients'[d] = mcast_clients[d]
    <3>1. mcast_clients[d0] \in Nat
      BY <1>1
    <3>2. (IF mcast_clients[d0] > 0 THEN mcast_clients[d0] - 1 ELSE 0) \in Nat
      BY <3>1
    <3> QED BY <1>1, <2>2, <3>2
  <2>4. t \in Counted(d0) /\ t \notin Counted(d0)'
    BY <1>1, <1>4, <2>1 DEF Counted, Listed
  <2>5. CountInv'
    <3> SUFFICES ASSUME Without({"played_again"})', NEW d \in Dest PROVE Cardinality(Counted(d)') <= mcast_clients'[d]
      BY DEF CountInv
    <3>1. /\ Cardinality(Counted(d)) <= mcast_clients[d] /\ mcast_clients[d] \in Nat
          /\ IsFiniteSet(Counted(d)) /\ Cardinality(Counted(d)) \in Nat
      <4>1. Counted(d) \subseteq Trans /\ IsFiniteSet(Trans)
        BY DEF Counted, StreamAssumption
      <4>2. Without({"played_again"})
        BY DEF Without
      <4> QED BY <1>1, <4>1, <4>2, FS_Subset, FS_CardinalityType DEF IInv, CountInv
    <3>2. CASE d = d0
      <4>1. Counted(d)' \subseteq Counted(d) \ {t} /\ t \in Counted(d)
        BY <1>2, <2>4, <3>2
      <4>2. IsFiniteSet(Counted(d) \ {t}) /\ Cardinality(Counted(d) \ {t}) = Cardinality(Counted(d)) - 1
        BY <3>1, <4>1, FS_RemoveElement
      <4>3. Cardinality(Counted(d)') <= Cardinality(Counted(d) \ {t}) /\ Cardinality(Counted(d)') \in Nat
        BY <4>1, <4>2, FS_Subset, FS_CardinalityType
      <4> QED BY <2>3, <3>1, <3>2, <4>2, <4>3
    <3>3. CASE d # d0
      <4>1. Cardinality(Counted(d)') <= Cardinality(Counted(d)) /\ Cardinality(Counted(d)') \in Nat
        BY <1>2, <3>1, FS_Subset, FS_CardinalityType
      <4> QED BY <2>3, <3>1, <3>3, <4>1
    <3> QED BY <3>2, <3>3
  <2> QED BY <2>3, <2>5
<1> QED BY <1>3, <1>4

\* Addresses, elements and quirks stay, and only the list and its filter may change.
Lists(t) ==
    /\ UNCHANGED <<netVars, graphVars, dest, quirks>>
    /\ \A u \in Trans \ {t} : phase'[u] = phase[u]

LEMMA ListsKeep ==
    ASSUME StreamAssumption, IInv, NEW t \in Trans, Lists(t), phase' \in [Trans -> Phases],
           phase'[t] = phase[t] \/ (phase[t] \in {"complete", "added", "active"} /\ phase'[t] \in Ready),
           phase'[t] \in {"complete", "added", "active"} => phase[t] \in {"complete", "added", "active"}
    PROVE  NetInv' /\ SocketInv' /\ AddressInv' /\ ProbeInv' /\ EarlyInv' /\ KnownInv' /\ DestInv' /\ NoAbort'
<1>1. Grows /\ Moves
  BY DEF Grows, Moves, Lists, Fresh
<1>2. NetInv' /\ SocketInv' /\ AddressInv'
  BY <1>1, NetStill DEF IInv, Lists
<1>3. ProbeInv' /\ EarlyInv'
  BY <1>1, ProbeStill, EarlyStill DEF IInv, Lists, graphVars
<1>4. KnownInv'
  BY <1>1, KnownStill DEF IInv, Lists, graphVars, netVars
<1>5. DestInv'
  <2>1. \A u \in Trans : phase'[u] \in Ready => phase[u] \in Ready
    BY DEF Lists, Ready
  <2> QED BY <2>1, DestStill DEF IInv, Lists
<1>6. NoAbort'
  BY <1>1, AbortStill DEF IInv, Lists
<1> QED BY <1>2, <1>3, <1>4, <1>5, <1>6

LEMMA AddKeeps ==
    ASSUME StreamAssumption, IInv, NEW t \in Trans, add_transport(t)
    PROVE  IInv'
<1>1. CASE phase' = [phase EXCEPT ![t] = "ready"] /\ UNCHANGED <<listVars, filter>>
  <2>1. Steps(t, {"complete"}, "ready") /\ UNCHANGED <<mcast_clients, dest>>
    BY <1>1 DEF add_transport, Steps, graphVars, listVars
  <2> QED BY <2>1, PhaseKeeps DEF Phases, Fresh, Ready
<1>2. CASE /\ transports' = <<t>> \o transports /\ client' = client \cup {t} /\ TellFilter(t)
           /\ phase' = [phase EXCEPT ![t] = "added"] /\ UNCHANGED mcast_clients
  <2>1. /\ phase[t] = "complete" /\ UNCHANGED <<netVars, graphVars, dest, quirks>>
        /\ transports \in Seq(Trans) /\ IsInjective(transports) /\ client = Range(transports)
    BY DEF add_transport, IInv, TypeInv, ListInv, SinksFollowList
  <2>2. phase'[t] = "added" /\ \A u \in Trans \ {t} : phase'[u] = phase[u]
    BY <1>2, PhaseIs DEF IInv
  <2>3. t \notin Range(transports)
    BY <2>1 DEF IInv, ListInv
  <2> DEFINE c == <<t>> \o transports
  <2>4. /\ c \in Seq(Trans) /\ IsInjective(c) /\ Range(c) = Range(transports) \cup {t}
        /\ \A x, u : Ahead(transports, x, u) => Ahead(c, x, u)
    BY <2>1, <2>3, PrependIs
  <2> HIDE DEF c
  <2>5. transports' = c
    BY <1>2 DEF c
  <2>6. /\ transports' \in Seq(Trans) /\ IsInjective(transports') /\ Range(transports') = Range(transports) \cup {t}
        /\ \A x, u : Ahead(transports, x, u) => Ahead(transports', x, u)
    <3>1. Range(transports') = Range(c) /\ (IsInjective(transports') <=> IsInjective(c))
      BY <2>5
    <3>2. \A x, u : Ahead(transports', x, u) <=> Ahead(c, x, u)
      BY <2>5
    <3> QED BY <2>4, <2>5, <3>1, <3>2
  <2>7. filter' \in Filters \cup {None} /\ FilterInv' /\ FilterSafe'
    BY <1>2, <2>6, TellKeeps
  <2>8. phase' \in [Trans -> Phases]
    BY <1>2 DEF IInv, TypeInv, Phases
  <2>9. TypeInv'
    BY <1>2, <2>1, <2>6, <2>7, <2>8 DEF IInv, TypeInv, netVars, graphVars
  <2>10. ListInv'
    BY <1>2, <2>1, <2>2, <2>6 DEF IInv, ListInv, SinksFollowList
  <2>11. CountInv'
    <3>1. \A d \in Dest : Counted(d)' \subseteq Counted(d)
      BY <2>1, <2>2, <2>6 DEF Counted, Listed
    <3> QED BY <1>2, <2>1, <3>1, CountLess DEF IInv, TypeInv, Grows
  <2>12. Lists(t)
    BY <2>1, <2>2 DEF Lists
  <2>13. NetInv' /\ SocketInv' /\ AddressInv' /\ ProbeInv' /\ EarlyInv' /\ KnownInv' /\ DestInv' /\ NoAbort'
    BY <2>1, <2>2, <2>8, <2>12, ListsKeep DEF Ready
  <2> QED BY <2>7, <2>9, <2>10, <2>11, <2>13 DEF IInv
<1> QED BY <1>1, <1>2 DEF add_transport

LEMMA RemoveKeeps ==
    ASSUME StreamAssumption, IInv, NEW t \in Trans, remove_transport(t)
    PROVE  IInv'
<1>1. /\ phase[t] \in {"added", "active"} /\ phase' = [phase EXCEPT ![t] = "paused"]
      /\ UNCHANGED <<netVars, graphVars, dest, quirks>>
  BY DEF remove_transport
<1>2. phase'[t] = "paused" /\ \A u \in Trans \ {t} : phase'[u] = phase[u]
  BY <1>1, PhaseIs DEF IInv
<1>3. phase' \in [Trans -> Phases]
  BY <1>1 DEF IInv, TypeInv, Phases
<1>4. Lists(t)
  BY <1>1, <1>2 DEF Lists
<1>5. NetInv' /\ SocketInv' /\ AddressInv' /\ ProbeInv' /\ EarlyInv' /\ KnownInv' /\ DestInv' /\ NoAbort'
  BY <1>1, <1>2, <1>3, <1>4, ListsKeep DEF Ready
<1>6. CASE ~Listed(t) /\ UNCHANGED <<listVars, filter>>
  <2>1. TypeInv'
    BY <1>1, <1>3, <1>6 DEF IInv, TypeInv, netVars, graphVars, listVars
  <2>2. ListInv'
    <3>1. \A u \in Trans : phase[u] \in {"added", "active"} => phase'[u] \in {"added", "active"} \/ ~Listed(u)
      BY <1>2, <1>6
    <3> QED BY <1>6, <3>1, ListStill DEF IInv, TypeInv, listVars
  <2>3. CountInv'
    <3>1. \A u \in Trans : phase'[u] \in {"ready", "complete"} => phase[u] \in {"ready", "complete"}
      BY <1>2
    <3> QED BY <1>1, <1>6, <3>1, CountStill DEF IInv, Grows, listVars
  <2>4. FilterInv' /\ FilterSafe'
    BY <1>6, FilterStill DEF IInv, listVars
  <2> QED BY <1>5, <2>1, <2>2, <2>3, <2>4 DEF IInv
<1>7. CASE Listed(t) /\ ListRemove(t) /\ TellFilter(t)
  <2>1. /\ transports' \in Seq(Trans) /\ IsInjective(transports')
        /\ Range(transports') = Range(transports) \ {t} /\ client' = Range(transports')
        /\ \A x, u : x # t /\ u # t /\ Ahead(transports, x, u) => Ahead(transports', x, u)
    BY <1>7, ListRemoveIs
  <2>2. filter' \in Filters \cup {None} /\ FilterInv' /\ FilterSafe'
    BY <1>7, <2>1, TellKeeps
  <2>3. mcast_clients' \in [Dest -> Nat] /\ CountInv'
    BY <1>1, <1>2, <1>7, ListRemoveCounts
  <2>4. TypeInv'
    BY <1>1, <1>3, <2>1, <2>2, <2>3 DEF IInv, TypeInv, netVars, graphVars
  <2>5. ListInv'
    <3>1. \A u \in Range(transports') : phase'[u] \in {"added", "active"}
      <4>1. \A u \in Range(transports') : u \in Range(transports) /\ u # t /\ u \in Trans
        <5>1. Range(transports) \subseteq Trans
          BY DEF IInv, TypeInv, Range
        <5> QED BY <2>1, <5>1
      <4> QED BY <1>2, <4>1 DEF IInv, ListInv
    <3> QED BY <2>1, <3>1 DEF ListInv, SinksFollowList
  <2> QED BY <1>5, <2>2, <2>3, <2>4, <2>5 DEF IInv
<1> QED BY <1>6, <1>7 DEF remove_transport

LEMMA BeginKeeps ==
    ASSUME StreamAssumption, IInv, FilterBegin
    PROVE  IInv' /\ filter = None
<1>1. /\ filter = None /\ Visit(transports, transports, {}, FALSE, Range(transports))
      /\ UNCHANGED <<netVars, graphVars, listVars, callVars, quirks>>
      /\ transports \in Seq(Trans) /\ IsInjective(transports)
  BY DEF FilterBegin, IInv, TypeInv, ListInv
<1>2. End(transports, 0, transports)
  BY <1>1 DEF End
<1>3. \A u \in Range(transports) \ {} : \E k \in DOMAIN transports : transports[k] = u
  BY DEF Range
<1>4. transports' = transports
  BY <1>1 DEF listVars
<1>5. filter' \in Filters \cup {None} /\ FilterInv' /\ FilterSafe'
  <2>1. PICK l \in Seq(Trans) : l = transports
    BY <1>1
  <2>2. IsInjective(l) /\ End(l, 0, l) /\ Visit(l, l, {}, FALSE, Range(l))
    BY <1>1, <1>2, <2>1
  <2>3. /\ filter' \in Filters \cup {None}
        /\ filter' # None => Fits(filter', l) /\ filter'.dead = None
    <3>1. PICK v \in SUBSET Trans, m \in BOOLEAN, s \in SUBSET Range(l) : v = {} /\ m = FALSE /\ s = Range(l)
      OBVIOUS
    <3>2. PICK b, todo : b = 0 /\ todo = l
      OBVIOUS
    <3>3. \A u \in s \ v : \E k \in DOMAIN todo : todo[k] = u
      BY <3>1, <3>2 DEF Range
    <3>4. Visit(l, todo, v, m, s) /\ End(l, b, todo) /\ IsInjective(l)
      BY <2>2, <3>1, <3>2
    <3> QED BY <3>3, <3>4, VisitIs
  <2>4. filter' # None => Fits(filter', transports')
    BY <1>4, <2>1, <2>3
  <2> QED BY <2>3, <2>4 DEF FilterInv, FilterSafe
<1>6. Grows /\ Moves
  BY <1>1 DEF Grows, Moves, callVars
<1>7. TypeInv'
  BY <1>1, <1>5 DEF IInv, TypeInv, netVars, graphVars, listVars, callVars
<1>8. NetInv' /\ SocketInv' /\ AddressInv'
  BY <1>1, <1>6, NetStill DEF IInv
<1>9. ProbeInv' /\ EarlyInv'
  BY <1>1, <1>6, ProbeStill, EarlyStill DEF IInv, graphVars
<1>10. KnownInv'
  BY <1>1, <1>6, KnownStill DEF IInv, netVars, graphVars, callVars
<1>11. ListInv'
  BY <1>1, ListStill DEF IInv, listVars, callVars
<1>12. CountInv'
  BY <1>1, <1>6, CountStill DEF IInv, listVars, callVars
<1>13. DestInv'
  BY <1>1, DestStill DEF IInv, callVars
<1>14. NoAbort'
  BY <1>1, <1>6, AbortStill DEF IInv
<1> QED BY <1>1, <1>5, <1>7, <1>8, <1>9, <1>10, <1>11, <1>12, <1>13, <1>14 DEF IInv

LEMMA DeadKeeps ==
    ASSUME StreamAssumption, IInv, FilterDead
    PROVE  IInv' /\ "stale_next" \in quirks'
<1>1. /\ filter' = None /\ quirks' = quirks \cup {"stale_next"}
      /\ UNCHANGED <<netVars, graphVars, listVars, callVars>>
  BY DEF FilterDead, Quirk
<1>2. Grows /\ Moves /\ ("aborted" \in quirks' => "aborted" \in quirks)
  BY <1>1 DEF Grows, Moves, callVars
<1>3. FilterInv' /\ FilterSafe'
  BY <1>1 DEF FilterInv, FilterSafe
<1>4. TypeInv'
  BY <1>1 DEF IInv, TypeInv, netVars, graphVars, listVars, callVars
<1>5. NetInv' /\ SocketInv' /\ AddressInv'
  BY <1>1, <1>2, NetStill DEF IInv
<1>6. ProbeInv' /\ EarlyInv'
  BY <1>1, <1>2, ProbeStill, EarlyStill DEF IInv, graphVars
<1>7. KnownInv'
  BY <1>1, <1>2, KnownStill DEF IInv, netVars, graphVars, callVars
<1>8. ListInv'
  BY <1>1, ListStill DEF IInv, TypeInv, listVars, callVars
<1>9. CountInv'
  BY <1>1, <1>2, CountStill DEF IInv, listVars, callVars
<1>10. DestInv'
  BY <1>1, DestStill DEF IInv, callVars
<1>11. NoAbort'
  BY <1>2, AbortStill DEF IInv
<1> QED BY <1>1, <1>3, <1>4, <1>5, <1>6, <1>7, <1>8, <1>9, <1>10, <1>11 DEF IInv

LEMMA NoTransports == <<>> \in Seq(Trans)
OBVIOUS

\* What the filter that returns comes to next: all of the list, or what follows
\* the next one it read.
LEMMA RestIs ==
    ASSUME StreamAssumption, IInv, filter # None, filter.dead # None => filter.moved,
           NEW l \in Seq(Trans), IsInjective(l),
           Range(transports) \ {filter.at} \subseteq Range(l), Range(l) \subseteq Range(transports),
           \A x, u : x # filter.at /\ u # filter.at /\ Ahead(transports, x, u) => Ahead(l, x, u),
           NEW todo, todo = IF filter.moved THEN l ELSE Rest(l, filter)
    PROVE  \E b : /\ End(l, b, todo)
                  /\ \A u \in (filter.stay \cap Range(l)) \ filter.visited : \E k \in DOMAIN todo : todo[k] = u
<1>1. Fits(filter, transports)
  BY DEF IInv, FilterInv
<1>2. CASE filter.moved
  <2>1. End(l, 0, todo)
    BY <1>2 DEF End
  <2>2. \A u \in Range(l) : \E k \in DOMAIN todo : todo[k] = u
    BY <1>2 DEF Range
  <2> QED BY <2>1, <2>2
<1>3. CASE ~filter.moved
  <2>1. filter.dead = None /\ filter.next # filter.at /\ filter.at \in filter.visited
    BY <1>1, <1>3 DEF Fits
  <2>2. /\ filter.next # None => filter.next \in Range(transports)
        /\ \A u \in filter.stay \ filter.visited : Ahead(transports, filter.next, u)
    BY <1>1, <1>3, <2>1 DEF Fits
  <2>3. \A u \in filter.stay \ filter.visited : Ahead(l, filter.next, u)
    BY <2>1, <2>2
  <2>4. todo = Suffix(l, filter.next)
    BY <1>3 DEF Rest
  <2>5. CASE filter.next = None
    <3>1. None \notin Range(l)
      BY DEF Range, StreamAssumption
    <3>2. todo = <<>>
      BY <2>4, <2>5, <3>1 DEF Suffix
    <3>3. End(l, Len(l), todo)
      <4>1. Len(l) \in Nat /\ todo \in Seq(Trans) /\ Len(todo) = 0
        <5>1. Len(l) \in Nat
          OBVIOUS
        <5>2. todo \in Seq(Trans)
          BY <3>2, NoTransports, Zenon
        <5>3. Len(todo) = 0
          BY <3>2
        <5> QED BY <5>1, <5>2, <5>3
      <4>2. Len(l) - Len(l) = 0 /\ Len(l) \in 0..Len(l) /\ 1..0 = {}
        BY <4>1
      <4> QED BY <4>1, <4>2 DEF End
    <3>4. \A u : ~Ahead(l, None, u)
      BY <3>1 DEF Ahead, Range
    <3> QED BY <2>3, <2>5, <3>3, <3>4
  <2>6. CASE filter.next # None
    <3>1. filter.next \in Range(l)
      BY <2>1, <2>2, <2>6
    <3>2. PICK i \in DOMAIN l : l[i] = filter.next
      BY <3>1 DEF Range
    <3>3. End(l, i - 1, todo)
      BY <2>4, <3>2, SuffixIs
    <3>4. ASSUME NEW u \in filter.stay \ filter.visited PROVE \E k \in DOMAIN todo : todo[k] = u
      <4>1. PICK j, m \in DOMAIN l : j <= m /\ l[j] = filter.next /\ l[m] = u
        BY <2>3 DEF Ahead
      <4>2. j = i
        BY <3>2, <4>1 DEF IsInjective
      <4>3. i \in 1..Len(l) /\ m \in 1..Len(l) /\ i <= m /\ Len(l) \in Nat
        BY <4>1, <4>2
      <4>4. todo \in Seq(Trans) /\ Len(todo) = Len(l) - (i - 1) /\ \A k \in 1..(Len(l) - (i - 1)) : todo[k] = l[(i - 1) + k]
        BY <3>3 DEF End
      <4> DEFINE k == m - i + 1
      <4>5. k \in 1..(Len(l) - (i - 1)) /\ (i - 1) + k = m
        BY <4>3
      <4>6. k \in DOMAIN todo /\ todo[k] = u
        BY <4>1, <4>4, <4>5
      <4> QED BY <4>6
    <3> QED BY <3>3, <3>4
  <2> QED BY <2>5, <2>6
<1> QED BY <1>2, <1>3

LEMMA ReturnKeeps ==
    ASSUME StreamAssumption, IInv, NEW remove \in BOOLEAN, FilterReturn(remove)
    PROVE  IInv' /\ (filter' = None => filter.stay \subseteq filter.visited \cup {filter.at})
<1> DEFINE gone0 == remove /\ Listed(filter.at)
<1>1. PICK t, gone : t = filter.at /\ gone = gone0
  OBVIOUS
<1>2. /\ filter # None /\ (filter.dead # None => filter.moved)
      /\ IF gone THEN ListRemove(t) ELSE UNCHANGED listVars
      /\ UNCHANGED <<netVars, graphVars, callVars, quirks>>
  BY <1>1 DEF FilterReturn
<1>3. /\ filter \in Filters /\ t \in Trans /\ filter.visited \in SUBSET Trans
      /\ transports \in Seq(Trans) /\ IsInjective(transports) /\ client = Range(transports)
      /\ Fits(filter, transports)
  BY <1>1, <1>2 DEF IInv, TypeInv, Filters, ListInv, SinksFollowList, FilterInv
<1>4. gone \in BOOLEAN /\ (gone => Listed(t))
  BY <1>1 DEF Listed
<1>5. PICK l : l = IF gone THEN RemoveFirst(transports, t) ELSE transports
  OBVIOUS
<1>6. /\ transports' = l /\ l \in Seq(Trans) /\ IsInjective(l) /\ client' = Range(l)
      /\ Range(l) = Range(transports) \ (IF gone THEN {t} ELSE {})
      /\ \A x, u : x # t /\ u # t /\ Ahead(transports, x, u) => Ahead(l, x, u)
      /\ mcast_clients' \in [Dest -> Nat] /\ CountInv'
  <2>1. CASE gone
    <3>1. Listed(t) /\ ListRemove(t) /\ l = RemoveFirst(transports, t)
      BY <1>2, <1>4, <1>5, <2>1
    <3>2. transports' = l
      BY <3>1 DEF ListRemove
    <3>3. /\ transports' \in Seq(Trans) /\ IsInjective(transports')
          /\ Range(transports') = Range(transports) \ {t} /\ client' = Range(transports')
          /\ \A x, u : x # t /\ u # t /\ Ahead(transports, x, u) => Ahead(transports', x, u)
      BY <1>3, <3>1, ListRemoveIs
    <3>4. mcast_clients' \in [Dest -> Nat] /\ CountInv'
      <4>1. phase' = phase /\ dest' = dest /\ phase[t] \in {"added", "active"}
        BY <1>2, <3>1 DEF callVars, IInv, ListInv, Listed
      <4> QED BY <1>2, <1>3, <3>1, <4>1, ListRemoveCounts
    <3> QED BY <2>1, <3>2, <3>3, <3>4
  <2>2. CASE ~gone
    <3>1. transports' = transports /\ l = transports /\ client' = client /\ mcast_clients' = mcast_clients
      BY <1>2, <1>5, <2>2 DEF listVars
    <3>2. CountInv'
      BY <1>2, <3>1, CountStill DEF IInv, callVars, Grows
    <3> QED BY <1>3, <2>2, <3>1, <3>2 DEF IInv, TypeInv
  <2> QED BY <1>4, <2>1, <2>2
<1>70. PICK stay, todo :
      /\ stay = filter.stay \ (IF gone THEN {t} ELSE {})
      /\ todo = IF filter.moved THEN l ELSE Rest(l, filter)
  OBVIOUS
<1>7. PICK moved \in BOOLEAN :
        /\ stay = filter.stay \ (IF gone THEN {t} ELSE {})
        /\ todo = IF filter.moved THEN l ELSE Rest(l, filter)
        /\ Visit(l, todo, filter.visited, moved, stay)
  <2>1. FALSE \in BOOLEAN /\ (gone /\ Moved(t)) \in BOOLEAN
    BY <1>4 DEF Moved
  <2>2. CASE filter.moved
    <3>1. Visit(l, l, filter.visited, FALSE, filter.stay \ (IF gone THEN {t} ELSE {}))
      BY <1>1, <1>5, <2>2 DEF FilterReturn
    <3> QED BY <1>70, <2>1, <2>2, <3>1
  <2>3. CASE ~filter.moved
    <3>1. Visit(l, Rest(l, filter), filter.visited, gone /\ Moved(t), filter.stay \ (IF gone THEN {t} ELSE {}))
      BY <1>1, <1>5, <2>3 DEF FilterReturn
    <3> QED BY <1>70, <2>1, <2>3, <3>1
  <2> QED BY <2>2, <2>3
<1>8. stay \in SUBSET Range(l) /\ filter.stay \subseteq stay \cup {t}
  BY <1>3, <1>6, <1>7 DEF Fits
<1>9. PICK b : /\ End(l, b, todo)
               /\ \A u \in (filter.stay \cap Range(l)) \ filter.visited : \E k \in DOMAIN todo : todo[k] = u
  <2>1. Range(transports) \ {filter.at} \subseteq Range(l) /\ Range(l) \subseteq Range(transports)
    BY <1>1, <1>6
  <2>2. \A x, u : x # filter.at /\ u # filter.at /\ Ahead(transports, x, u) => Ahead(l, x, u)
    BY <1>1, <1>6
  <2>3. todo = IF filter.moved THEN l ELSE Rest(l, filter)
    BY <1>7
  <2>4. filter # None /\ (filter.dead # None => filter.moved) /\ l \in Seq(Trans) /\ IsInjective(l)
    BY <1>2, <1>6
  <2> QED BY <2>1, <2>2, <2>3, <2>4, RestIs
<1>10. \A u \in stay \ filter.visited : \E k \in DOMAIN todo : todo[k] = u
  BY <1>7, <1>8, <1>9
<1>11. /\ filter' \in Filters \cup {None}
       /\ filter' # None => Fits(filter', l) /\ filter'.dead = None
       /\ filter' = None => \A k \in DOMAIN todo : todo[k] \in filter.visited
  <2>1. PICK visited \in SUBSET Trans : visited = filter.visited
    BY <1>3
  <2>2. Visit(l, todo, visited, moved, stay)
    BY <1>7, <2>1
  <2>3. \A u \in stay \ visited : \E k \in DOMAIN todo : todo[k] = u
    BY <1>10, <2>1
  <2>4. /\ filter' \in Filters \cup {None}
        /\ filter' # None => Fits(filter', l) /\ filter'.dead = None
        /\ filter' = None => \A k \in DOMAIN todo : todo[k] \in visited
    <3>1. l \in Seq(Trans) /\ IsInjective(l) /\ End(l, b, todo) /\ stay \in SUBSET Range(l)
      BY <1>6, <1>8, <1>9
    <3>2. PICK s \in SUBSET Range(l), m \in BOOLEAN, v \in SUBSET Trans : s = stay /\ m = moved /\ v = visited
      BY <3>1
    <3>3. Visit(l, todo, v, m, s) /\ \A u \in s \ v : \E k \in DOMAIN todo : todo[k] = u
      BY <2>2, <2>3, <3>2
    <3>4. /\ filter' \in Filters \cup {None}
          /\ filter' # None => Fits(filter', l) /\ filter'.dead = None
          /\ filter' = None => \A k \in DOMAIN todo : todo[k] \in v
      BY <3>1, <3>3, VisitIs
    <3> QED BY <3>2, <3>4
  <2> QED BY <2>1, <2>4
<1>12. filter' = None => filter.stay \subseteq filter.visited \cup {filter.at}
  BY <1>1, <1>8, <1>10, <1>11
<1>13. FilterInv' /\ FilterSafe'
  <2>1. filter' # None => Fits(filter', transports')
    BY <1>6, <1>11
  <2> QED BY <1>11, <2>1 DEF FilterInv, FilterSafe
<1>14. Grows /\ Moves /\ phase' = phase /\ dest' = dest
  BY <1>2 DEF Grows, Moves, callVars
<1>15. TypeInv'
  BY <1>2, <1>6, <1>11, <1>14 DEF IInv, TypeInv, netVars, graphVars
<1>16. NetInv' /\ SocketInv' /\ AddressInv'
  BY <1>2, <1>14, NetStill DEF IInv
<1>17. ProbeInv' /\ EarlyInv'
  BY <1>2, <1>14, ProbeStill, EarlyStill DEF IInv, graphVars
<1>18. KnownInv'
  BY <1>2, <1>14, KnownStill DEF IInv, netVars, graphVars
<1>19. ListInv'
  <2>1. Range(transports') = Range(l) /\ IsInjective(transports')
    BY <1>6
  <2> QED BY <1>6, <1>14, <2>1 DEF IInv, ListInv, SinksFollowList
<1>20. DestInv'
  BY <1>14, DestStill DEF IInv
<1>21. NoAbort'
  BY <1>2, <1>14, AbortStill DEF IInv
<1> QED BY <1>6, <1>12, <1>13, <1>15, <1>16, <1>17, <1>18, <1>19, <1>20, <1>21 DEF IInv

-----------------------------------------------------------------------------
\* The steps together.

LEMMA InitIs ==
    ASSUME StreamAssumption, Init
    PROVE  IInv
<1>1. PICK s \in Scenarios :
        /\ phase = [t \in Trans |-> IF t \in s.clients THEN "new" ELSE "absent"]
        /\ host = s.host
  BY DEF Init
<1>2. s.host \subseteq Family
  BY DEF StreamAssumption
<1>3. /\ addr = NoAddresses /\ socket = NoAddresses /\ owner = [x \in Pool |-> "free"]
      /\ sink = NoSinks /\ pending = {} /\ source = {} /\ early = {} /\ known = [k \in Udp |-> {}]
      /\ transports = <<>> /\ client = {} /\ mcast_clients = [d \in Dest |-> 0]
      /\ dest = [t \in Trans |-> None] /\ filter = None /\ quirks = {}
  BY DEF Init
<1>4. /\ \A k \in Udp : \A f \in Family : addr[k][f] = None /\ socket[k][f] = None
      /\ \A i \in Index : \A k \in Kinds : sink[i][k] = "none"
      /\ \A t \in Trans : phase[t] \in Fresh
  BY <1>1, <1>3 DEF NoAddresses, NoSinks, Fresh
<1>5. TypeInv
  <2>1. transports \in Seq(Trans)
    BY <1>3, NoTransports, Zenon
  <2>2. phase \in [Trans -> Phases]
    BY <1>1 DEF Phases, Fresh
  <2>3. /\ addr \in [Udp -> [Family -> Address \cup {None}]] /\ socket \in [Udp -> [Family -> Ports \cup {None}]]
        /\ owner \in [Pool -> {"free", "us", "other"}]
        /\ sink \in [Index -> [Kinds -> {"none", "waiting", "direct", "queued"}]]
        /\ known \in [Udp -> SUBSET Family] /\ mcast_clients \in [Dest -> Nat]
    BY <1>3 DEF NoAddresses, NoSinks
  <2> QED BY <1>1, <1>2, <1>3, <2>1, <2>2, <2>3 DEF TypeInv
<1>6. NetInv
  <2>1. Bound /\ Even /\ Apart
    BY <1>4, Kinds3 DEF Bound, Even, Apart
  <2>2. PoolBalanced
    <3> SUFFICES ASSUME NEW x \in Pool PROVE owner[x] # "us" /\ addr[x[1]][x[2]] # [port |-> x[3], pooled |-> TRUE]
      BY DEF PoolBalanced
    <3>1. x[1] \in Udp /\ x[2] \in Family /\ x[3] \in Ports
      BY Kinds3
    <3>2. [port |-> x[3], pooled |-> TRUE] # None
      <4>1. [port |-> x[3], pooled |-> TRUE] \in Address
        BY <3>1 DEF Address
      <4> QED BY <4>1 DEF StreamAssumption
    <3> QED BY <1>3, <1>4, <3>1, <3>2
  <2> QED BY <2>1, <2>2 DEF NetInv
<1>7. SocketInv /\ AddressInv
  BY <1>4 DEF SocketInv, AddressInv
<1>8. ProbeInv /\ EarlyInv
  BY <1>3, <1>4 DEF ProbeInv, EarlyInv, Present
<1>9. KnownInv
  BY <1>4, Kinds3 DEF KnownInv, Fresh
<1>10. ListInv
  <2>1. Range(transports) = {}
    BY <1>3 DEF Range
  <2>2. IsInjective(transports)
    BY <1>3 DEF IsInjective
  <2> QED BY <1>3, <2>1, <2>2 DEF ListInv, SinksFollowList
<1>11. CountInv
  <2> SUFFICES ASSUME NEW d \in Dest PROVE Cardinality(Counted(d)) <= mcast_clients[d]
    BY DEF CountInv
  <2>1. Range(transports) = {}
    BY <1>3 DEF Range
  <2>2. Counted(d) = {}
    BY <1>4, <2>1 DEF Counted, Listed, Fresh
  <2>3. Cardinality(Counted(d)) = 0
    BY <2>2, FS_EmptySet
  <2>4. mcast_clients[d] = 0
    BY <1>3
  <2> QED BY <2>3, <2>4
<1>12. DestInv
  BY <1>4 DEF DestInv, Fresh
<1>13. FilterInv /\ FilterSafe /\ NoAbort
  BY <1>3 DEF FilterInv, FilterSafe, NoAbort
<1> QED BY <1>5, <1>6, <1>7, <1>8, <1>9, <1>10, <1>11, <1>12, <1>13 DEF IInv

Visited == filter # None /\ filter' = None /\ "stale_next" \notin quirks'
           => filter.stay \subseteq filter.visited \cup {filter.at}

LEMMA ClientKeeps ==
    ASSUME StreamAssumption, IInv, NEW t \in Trans, Client(t)
    PROVE  IInv' /\ Visited
<1>1. CASE allocate_udp_sockets(t, "v4", "new", "v4")
  <2>1. PICK v : Allocated(t, "v4", "new", "v4", v)
    BY <1>1, Kinds3, AllocateIs DEF IInv
  <2> QED BY <2>1, Kinds3, AllocatedKeeps DEF Visited, Allocated
<1>2. CASE allocate_udp_sockets(t, "v6", "v4", "sockets")
  <2>1. PICK v : Allocated(t, "v6", "v4", "sockets", v)
    BY <1>2, Kinds3, AllocateIs DEF IInv
  <2> QED BY <2>1, Kinds3, AllocatedKeeps DEF Visited, Allocated
<1>3. CASE add_multicast_client_address(t)
  BY <1>3, AddDestinationKeeps DEF Visited, add_multicast_client_address
<1>4. CASE ConfigureUnicast(t)
  BY <1>4, ConfigureKeeps DEF Visited, ConfigureUnicast
<1>5. CASE complete_stream(t)
  BY <1>5, CompleteKeeps DEF Visited, complete_stream
<1>6. CASE add_transport(t)
  <2>1. filter' = filter \/ TellFilter(t)
    BY <1>6 DEF add_transport
  <2>2. filter' = None => filter = None
    BY <2>1, TellIs DEF IInv
  <2> QED BY <1>6, <2>2, AddKeeps DEF Visited
<1>7. CASE unblock_rtcp(t)
  BY <1>7, UnblockKeeps DEF Visited, unblock_rtcp
<1>8. CASE PlayFails(t)
  BY <1>8, PlayFailsKeeps DEF Visited, PlayFails
<1>9. CASE remove_transport(t)
  <2>1. filter' = filter \/ TellFilter(t)
    BY <1>9 DEF remove_transport
  <2>2. filter' = None => filter = None
    BY <2>1, TellIs DEF IInv
  <2> QED BY <1>9, <2>2, RemoveKeeps DEF Visited
<1>10. CASE EndClient(t)
  BY <1>10, EndKeeps DEF Visited, EndClient
<1> QED BY <1>1, <1>2, <1>3, <1>4, <1>5, <1>6, <1>7, <1>8, <1>9, <1>10 DEF Client

LEMMA StutterKeeps ==
    ASSUME StreamAssumption, IInv, UNCHANGED vars
    PROVE  IInv' /\ Visited
<1>1. /\ UNCHANGED <<netVars, graphVars, listVars, callVars, filter, quirks>> /\ Grows /\ Moves
  BY DEF vars, Grows, Moves, callVars
<1>2. TypeInv'
  BY <1>1 DEF IInv, TypeInv, netVars, graphVars, listVars, callVars
<1>3. NetInv' /\ SocketInv' /\ AddressInv'
  BY <1>1, NetStill DEF IInv
<1>4. ProbeInv' /\ EarlyInv'
  BY <1>1, ProbeStill, EarlyStill DEF IInv, graphVars
<1>5. KnownInv'
  BY <1>1, KnownStill DEF IInv, netVars, graphVars, callVars
<1>6. ListInv'
  BY <1>1, ListStill DEF IInv, TypeInv, listVars, callVars
<1>7. CountInv'
  BY <1>1, CountStill DEF IInv, listVars, callVars
<1>8. DestInv'
  BY <1>1, DestStill DEF IInv, callVars
<1>9. FilterInv' /\ FilterSafe'
  BY <1>1, FilterStill DEF IInv, listVars
<1>10. NoAbort'
  BY <1>1, AbortStill DEF IInv
<1> QED BY <1>1, <1>2, <1>3, <1>4, <1>5, <1>6, <1>7, <1>8, <1>9, <1>10 DEF IInv, Visited

LEMMA StepIs ==
    ASSUME StreamAssumption, IInv, [Next]_vars
    PROVE  IInv' /\ Visited
<1>1. CASE \E t \in Trans : Client(t)
  BY <1>1, ClientKeeps
<1>2. CASE \E f \in Family : get_multicast_address(f)
  <2>1. PICK f \in Family, p \in Ports : reserve_address(f, p)
    BY <1>2 DEF get_multicast_address
  <2> QED BY <2>1, ReserveKeeps DEF Visited, reserve_address
<1>3. CASE \E x \in Contended : Other(x)
  BY <1>3, OtherKeeps DEF Visited, Other
<1>4. CASE FilterBegin
  BY <1>4, BeginKeeps DEF Visited
<1>5. CASE \E b \in BOOLEAN : FilterReturn(b)
  BY <1>5, ReturnKeeps DEF Visited
<1>6. CASE FilterDead
  BY <1>6, DeadKeeps DEF Visited
<1>7. CASE join_bin
  BY <1>7, JoinKeeps DEF Visited, join_bin
<1>8. CASE leave_bin
  BY <1>8, LeaveKeeps DEF Visited, leave_bin
<1>9. CASE \E p \in pending : PlugQueues(p)
  BY <1>9, PlugKeeps DEF Visited, PlugQueues
<1>10. CASE UNCHANGED vars
  BY <1>10, StutterKeeps
<1> QED BY <1>1, <1>2, <1>3, <1>4, <1>5, <1>6, <1>7, <1>8, <1>9, <1>10 DEF Next, Filter, Media

LEMMA HeldIs ==
    ASSUME StreamAssumption, IInv
    PROVE  AddressesHeld
<1>1. TypeOK
  BY DEF IInv, TypeInv, TypeOK
<1>2. PoolBalanced
  BY DEF IInv, NetInv
<1>3. PortsAgree
  <2> SUFFICES ASSUME NEW f \in Family, NEW k \in Udp, socket[k][f] # None
               PROVE  /\ addr[k][f] # None /\ addr[k][f].port = socket[k][f]
                      /\ Own = [t \in Trans |-> None] => socket[k][f] % 2 = 0
                      /\ \A k2 \in Udp \ {k} : socket[k2][f] # None =>
                           Pair(socket[k][f]) \cap Pair(socket[k2][f]) = {}
    BY DEF PortsAgree
  <2>1. addr[k][f] # None /\ addr[k][f].port = socket[k][f]
    BY DEF IInv, NetInv, Bound
  <2>2. Own = [t \in Trans |-> None] => socket[k][f] % 2 = 0
    BY <2>1 DEF IInv, NetInv, Even, Unasked
  <2>3. \A k2 \in Udp \ {k} : socket[k2][f] # None => Pair(socket[k][f]) \cap Pair(socket[k2][f]) = {}
    BY DEF IInv, NetInv, Apart
  <2> QED BY <2>1, <2>2, <2>3
<1> QED BY <1>1, <1>2, <1>3 DEF AddressesHeld

LEMMA ServeIs ==
    ASSUME StreamAssumption, IInv
    PROVE  SinksServe
<1>1. QueuesIsolate
  <2> SUFFICES ASSUME NEW i \in Index, NEW k \in Present(i)
               PROVE  /\ sink[i][k] = "waiting" => \E p \in pending : p.index = i /\ p.new = k
                      /\ sink[i][k] = "direct" =>
                           \A k2 \in Present(i) \ {k} : \E p \in pending : p.index = i /\ p.old = k
    BY DEF QueuesIsolate
  <2>1. k \in Kinds
    BY DEF Present
  <2> QED BY <2>1 DEF IInv, ProbeInv
<1>2. SinksFollowList
  BY DEF IInv, ListInv
<1>3. Range(transports) \subseteq Trans
  BY DEF IInv, TypeInv, Range
<1>4. Reported
  <2> SUFFICES ASSUME Without({"played_again"}), NEW t \in Range(transports), Kind[t] = "mcast"
               PROVE  mcast_clients[dest[t]] > 0
    BY DEF Reported, DestinationsReported
  <2>1. t \in Trans /\ phase[t] \in {"added", "active"}
    BY <1>3 DEF IInv, ListInv
  <2>2. PICK d \in Dest : d = dest[t]
    BY <2>1 DEF IInv, DestInv
  <2>3. t \in Counted(d) /\ Counted(d) \subseteq Trans
    BY <2>1, <2>2 DEF Counted, Listed
  <2>4. IsFiniteSet(Counted(d)) /\ Cardinality(Counted(d)) \in Nat /\ Cardinality(Counted(d)) # 0
    BY <2>3, FS_Subset, FS_CardinalityType, FS_EmptySet DEF StreamAssumption
  <2>5. Cardinality(Counted(d)) <= mcast_clients[d] /\ mcast_clients[d] \in Nat
    BY DEF IInv, CountInv, TypeInv
  <2> QED BY <2>2, <2>4, <2>5
<1>5. SendsFromSocket
  <2> SUFFICES ASSUME Without({"late_family"}), NEW t \in Range(transports), Kind[t] \in Udp, 1 \in Index
               PROVE  Fam[t] \in known[Kind[t]]
    BY DEF SendsFromSocket
  <2>1. t \in Trans /\ phase[t] \in {"added", "active"} /\ Fam[t] \in Family
    BY <1>3, Kinds3 DEF IInv, ListInv
  <2>2. sink[1][Kind[t]] # "none"
    BY <2>1 DEF IInv, KnownInv
  <2>3. known[Kind[t]] = Sockets(Kind[t])
    BY <2>2 DEF IInv, KnownInv
  <2>4. socket[Kind[t]][Fam[t]] # None
    BY <2>1 DEF IInv, SocketInv, Fresh
  <2> QED BY <2>1, <2>3, <2>4 DEF Sockets
<1> QED BY <1>1, <1>2, <1>4, <1>5 DEF SinksServe, IInv

-----------------------------------------------------------------------------
(* The addresses and ports that a stream tells its clients, in any number,    *)
(* are those it holds of the pool and has bound: none is lost, none is given  *)
(* away, and the sockets of unicast and multicast never share a port          *)
(* (gst_rtsp_stream_allocate_udp_sockets, gst_rtsp_stream_get_multicast_-     *)
(* address, gst_rtsp_stream_leave_bin).                                       *)
THEOREM StreamHoldsAddresses == Spec => []AddressesHeld
<1>1. Init => IInv
  BY InitIs, StreamAssumption
<1>2. IInv /\ [Next]_vars => IInv'
  BY StepIs, StreamAssumption
<1>3. IInv => AddressesHeld
  BY HeldIs, StreamAssumption
<1> QED BY <1>1, <1>2, <1>3, PTL DEF Spec

(* The sinks send to exactly the transports of the list, from the sockets of  *)
(* the stream and to destinations it reports; a sink that shares a tee has a  *)
(* queue or is about to get one, and no assertion fails but in the ways that  *)
(* NoAbort names (gst_rtsp_stream_complete_stream, add and remove_transport,  *)
(* create_and_plug_queue_to_linked_stream_probe_cb).                          *)
THEOREM StreamSinksServe == Spec => []SinksServe
<1>1. Init => IInv
  BY InitIs, StreamAssumption
<1>2. IInv /\ [Next]_vars => IInv'
  BY StepIs, StreamAssumption
<1>3. IInv => SinksServe
  BY ServeIs, StreamAssumption
<1> QED BY <1>1, <1>2, <1>3, PTL DEF Spec

(* gst_rtsp_stream_transport_filter calls func without the lock and still     *)
(* comes to every transport that stays in the list, whatever is added or      *)
(* removed meanwhile, unless its next node is freed under it.                 *)
THEOREM StreamVisitsTransports == Spec => TransportsVisited
<1>1. Init => IInv
  BY InitIs, StreamAssumption
<1>2. IInv /\ [Next]_vars => IInv' /\ Visited
  BY StepIs, StreamAssumption
<1>3. IInv /\ [Next]_vars =>
        [filter # None /\ filter' = None /\ "stale_next" \notin quirks'
         => filter.stay \subseteq filter.visited \cup {filter.at}]_vars
  BY <1>2 DEF Visited
<1> QED BY <1>1, <1>2, <1>3, PTL DEF Spec, TransportsVisited

===============================================================================
