------------------------- MODULE StreamTransportProofs -------------------------
(* Theorems about StreamTransport: what the transports of a stream are sent. *)
EXTENDS StreamTransport, TLAPS, WellFoundedInduction, SequenceTheorems

-----------------------------------------------------------------------------
\* The inductive invariant.

Calls == [t : Trans \cup {None}, item : Item \cup {None}, nested : BOOLEAN, notify : BOOLEAN]

TypeInv ==
    /\ lock \in Thread \cup {None}
    /\ joined \in {"yes", "leaving", "no"}
    /\ transports \in Seq(Trans)
    /\ send_thread \in {"none", "running", "ended"}
    /\ backlog \in [Trans -> Seq(Item)]
    /\ first_rtp_timestamp \in [Trans -> Nat \cup {None}]
    /\ backlog_lock \in [Trans -> Thread \cup {None}]
    /\ data_seq \in [Trans -> SUBSET Channel]
    /\ broken \in [Trans -> BOOLEAN]
    /\ given \in [Trans -> Item \cup {None}]
    /\ pc \in [Thread -> {"idle", "check", "push", "drop", "clear", "pick", "pull", "append",
                           "flush"}]
    /\ call \in [Thread -> Calls]
    /\ snap \in Seq(Trans) /\ pos \in Nat \ {0} /\ idx \in Channel
    /\ sample \in Item \cup {None}
    /\ appsink \in [Channel -> Seq(Item)]
    /\ samples \in [Channel -> Nat]
    /\ clock \in Nat /\ seeks \in Nat /\ joins \in Nat
    /\ aborted \in BOOLEAN

\* A thread in a call of check_transport_backlog has a transport; with an item
\* in its hands, and within a push, it holds the lock of the backlog.
FrameInv ==
    \A x \in Thread :
        /\ pc[x] \in {"check", "push", "drop", "clear"} => call[x].t \in Trans
        /\ pc[x] = "push" => call[x].item \in Item /\ backlog_lock[call[x].t] = x
        /\ call[x].nested => call[x].t \in Trans /\ backlog_lock[call[x].t] = x
        /\ pc[x] \in {"clear", "pull", "append"} => lock = x

\* The list and its cache, and what the send thread goes through.
ListInv ==
    /\ IsInjective(transports)
    /\ tr_cache \in {Stale, transports}
    /\ joined # "yes" => transports = <<>>
    /\ pc[Sender] = "pull" => tr_cache = transports
    /\ pc[Sender] = "append" =>
         /\ sample \in Item
         /\ IsInjective(snap) /\ Range(transports) \subseteq Range(snap)
         /\ \A k \in DOMAIN snap : k >= pos => Listed(snap[k])

IInv ==
    /\ TypeInv
    /\ FrameInv
    /\ ListInv
    /\ FirstTimestamp
    /\ RemovedIsEmpty

\* As long as nobody seeks, the RTP items come in the order of their times.
Sorted(b) ==
    \A j, k \in DOMAIN b : j < k /\ IsRtp(b[j]) /\ IsRtp(b[k]) => b[j].ts <= b[k].ts

Until(b, time) == \A k \in DOMAIN b : IsRtp(b[k]) => b[k].ts <= time

\* BacklogBounded for one backlog.
Bounded(b) ==
    \A k \in DOMAIN b :
        IsRtp(b[k]) /\ k > MAX_BACKLOG_SIZE =>
            b[k].ts - get_first_backlog_timestamp(b) <= MAX_BACKLOG_DURATION

InOrder(b, times) == Sorted(b) /\ Bounded(b) /\ \A time \in times : Until(b, time)

Appending == pc[Sender] = "append" /\ IsRtp(sample)

\* The times of the RTP samples that follow those of the backlogs.
Following ==
    {clock} \cup {appsink["rtp"][k].ts : k \in DOMAIN appsink["rtp"]}
    \cup (IF Appending THEN {sample.ts} ELSE {})

OrderInv ==
    seeks = 0 =>
        /\ ~aborted /\ blocked = "no"
        /\ \A c \in Channel : \A k \in DOMAIN appsink[c] :
             appsink[c][k].ch = c /\ appsink[c][k].ts <= clock
        /\ Appending => \A time \in Following : sample.ts <= time
        /\ \A t \in Trans : InOrder(backlog[t], Following)

StreamInv == IInv /\ OrderInv

-----------------------------------------------------------------------------
\* Sequences.

(* Every set of naturals that is not empty has a least element.            *)
LEMMA LeastNatural ==
    ASSUME NEW I \in SUBSET Nat, I # {}
    PROVE  Min(I) \in I /\ \A y \in I : Min(I) <= y
<1> DEFINE R == OpToRel(<, Nat)
<1>1. IsWellFoundedOn(R, Nat)
  BY NatLessThanWellFounded
<1>2. PICK m \in I : \A y \in I : <<y, m>> \notin R
  <2> HIDE DEF R
  <2> QED BY <1>1, WFMin
<1>3. \A y \in I : ~(y < m)
  BY <1>2 DEF OpToRel
<1>4. \A y \in I : m <= y
  BY <1>3
<1> QED BY <1>4 DEF Min

NoRtp(b) == \A k \in DOMAIN b : ~IsRtp(b[k])

\* The place of the first RTP item.
FirstAt(b, k) == k \in DOMAIN b /\ IsRtp(b[k]) /\ \A j \in DOMAIN b : j < k => ~IsRtp(b[j])

(* The time of the first RTP item of a backlog.                            *)
LEMMA FirstStamp ==
    ASSUME NEW b \in Seq(Item)
    PROVE  /\ NoRtp(b) => get_first_backlog_timestamp(b) = None
           /\ ~NoRtp(b) => \E k \in DOMAIN b : FirstAt(b, k) /\ get_first_backlog_timestamp(b) = b[k].ts
           /\ \A k \in DOMAIN b : FirstAt(b, k) => get_first_backlog_timestamp(b) = b[k].ts
<1> DEFINE I == {k \in 1..Len(b) : IsRtp(b[k])}
<1>1. CASE NoRtp(b)
  BY <1>1 DEF NoRtp, FirstAt, get_first_backlog_timestamp
<1>2. CASE ~NoRtp(b)
  <2>1. DOMAIN b = 1..Len(b) /\ I \subseteq Nat
    OBVIOUS
  <2>2. I # {}
    BY <1>2, <2>1 DEF NoRtp
  <2>3. SelectInSeq(b, IsRtp) = Min(I)
    BY <2>2 DEF SelectInSeq
  <2>4. get_first_backlog_timestamp(b) = b[Min(I)].ts
    BY <1>2, <2>3 DEF get_first_backlog_timestamp, NoRtp
  <2> DEFINE m == Min(I)
  <2>5. m \in I /\ \A j \in I : m <= j
    <3> HIDE DEF I
    <3> QED BY <2>1, <2>2, LeastNatural
  <2> HIDE DEF m
  <2>6. m \in DOMAIN b /\ FirstAt(b, m)
    BY <2>1, <2>5 DEF FirstAt
  <2>7. \A k \in DOMAIN b : FirstAt(b, k) => k = m
    BY <2>1, <2>5, <2>6 DEF FirstAt
  <2> QED BY <1>2, <2>4, <2>6, <2>7 DEF m
<1> QED BY <1>1, <1>2

LEMMA AppendIs ==
    ASSUME NEW b \in Seq(Item), NEW i \in Item
    PROVE  /\ Append(b, i) \in Seq(Item)
           /\ DOMAIN Append(b, i) = DOMAIN b \cup {Len(b) + 1}
           /\ \A k \in DOMAIN b : Append(b, i)[k] = b[k] /\ k \in Nat /\ k < Len(b) + 1
           /\ Append(b, i)[Len(b) + 1] = i
           /\ Len(b) \in Nat
OBVIOUS

LEMMA TailIs ==
    ASSUME NEW b \in Seq(Item), b # <<>>
    PROVE  /\ Tail(b) \in Seq(Item) /\ Head(b) \in Item /\ Head(b) = b[1]
           /\ DOMAIN b = 1..Len(b) /\ DOMAIN Tail(b) = 1..(Len(b) - 1) /\ Len(b) \in Nat \ {0}
           /\ \A k \in DOMAIN Tail(b) : k \in Nat /\ Tail(b)[k] = b[k + 1] /\ k + 1 \in DOMAIN b
OBVIOUS

(* What backlog_push does to the time of the first RTP item.               *)
LEMMA AppendStamp ==
    ASSUME NEW b \in Seq(Item), NEW i \in Item
    PROVE  get_first_backlog_timestamp(Append(b, i)) =
             IF IsRtp(i) /\ get_first_backlog_timestamp(b) = None THEN i.ts
             ELSE get_first_backlog_timestamp(b)
<1> DEFINE c == Append(b, i)
           n == Len(b) + 1
<1>1. /\ c \in Seq(Item) /\ DOMAIN c = DOMAIN b \cup {n} /\ c[n] = i /\ n \in Nat
      /\ \A k \in DOMAIN b : c[k] = b[k] /\ k \in Nat /\ k < n
  BY AppendIs
<1> HIDE DEF c, n
<1>2. CASE NoRtp(b)
  <2>1. get_first_backlog_timestamp(b) = None
    BY <1>2, FirstStamp
  <2>2. CASE IsRtp(i)
    <3>1. FirstAt(c, n)
      BY <1>1, <1>2, <2>2 DEF FirstAt, NoRtp
    <3> QED BY <1>1, <2>1, <2>2, <3>1, FirstStamp DEF c
  <2>3. CASE ~IsRtp(i)
    <3>1. NoRtp(c)
      BY <1>1, <1>2, <2>3 DEF NoRtp
    <3> QED BY <1>1, <2>1, <2>3, <3>1, FirstStamp DEF c
  <2> QED BY <2>2, <2>3
<1>3. CASE ~NoRtp(b)
  <2>1. PICK k \in DOMAIN b : FirstAt(b, k) /\ get_first_backlog_timestamp(b) = b[k].ts
    BY <1>3, FirstStamp
  <2>2. FirstAt(c, k)
    BY <1>1, <2>1 DEF FirstAt
  <2>3. get_first_backlog_timestamp(c) = c[k].ts
    BY <1>1, <2>2, FirstStamp DEF FirstAt
  <2>4. b[k].ts # None
    <3>1. b[k] \in Item
      OBVIOUS
    <3>2. b[k].ts \in Nat
      BY <3>1 DEF Item
    <3> QED BY <3>2, StreamAssumption
  <2> QED BY <1>1, <2>1, <2>3, <2>4 DEF c
<1> QED BY <1>2, <1>3

(* Queues: what is in a thread's hand is the head of the backlog.          *)
LEMMA QueueFacts ==
    /\ \A b \in Seq(Item) : <<>> \o b = b
    /\ \A b \in Seq(Item) : SubSeq(b, 1, 0) = <<>>
    /\ \A b \in Seq(Item), i \in Item :
         /\ <<i>> \o b \in Seq(Item) /\ <<i>> \o b # <<>>
         /\ Head(<<i>> \o b) = i /\ Tail(<<i>> \o b) = b
         /\ SubSeq(<<i>> \o b, 1, 1) = <<i>>
    /\ \A b \in Seq(Item) : b # <<>> => <<Head(b)>> \o Tail(b) = b
    /\ \A h \in Seq(Item), b \in Seq(Item), i \in Item : h \o Append(b, i) = Append(h \o b, i)
<1>1. \A b \in Seq(Item) : <<>> \o b = b
  OBVIOUS
<1>2. \A b \in Seq(Item) : SubSeq(b, 1, 0) = <<>>
  OBVIOUS
<1>3. ASSUME NEW b \in Seq(Item), NEW i \in Item
      PROVE  /\ <<i>> \o b \in Seq(Item) /\ <<i>> \o b # <<>>
             /\ Head(<<i>> \o b) = i /\ Tail(<<i>> \o b) = b
             /\ SubSeq(<<i>> \o b, 1, 1) = <<i>>
  <2>1. <<i>> \o b \in Seq(Item) /\ <<i>> \o b # <<>> /\ Head(<<i>> \o b) = i
    OBVIOUS
  <2>2. Tail(<<i>> \o b) = b
    OBVIOUS
  <2>3. SubSeq(<<i>> \o b, 1, 1) = <<i>>
    <3> DEFINE q == <<i>> \o b
               u == SubSeq(q, 1, 1)
    <3>1. q \in Seq(Item) /\ Len(q) \in Nat /\ 1 <= Len(q) /\ q[1] = i
      OBVIOUS
    <3> HIDE DEF q
    <3>2. u \in Seq(Item) /\ Len(u) = 1 /\ u[1] = q[1]
      BY <3>1, SubSeqProperties
    <3> HIDE DEF u
    <3>3. u = <<i>>
      BY <3>1, <3>2
    <3> QED BY <3>3 DEF u, q
  <2> QED BY <2>1, <2>2, <2>3
<1>4. \A b \in Seq(Item) : b # <<>> => <<Head(b)>> \o Tail(b) = b
  OBVIOUS
<1>5. \A h \in Seq(Item), b \in Seq(Item), i \in Item : h \o Append(b, i) = Append(h \o b, i)
  OBVIOUS
<1> QED BY <1>1, <1>2, <1>3, <1>4, <1>5

(* A list without one of its elements.                                     *)
LEMMA RemoveAtIs ==
    ASSUME NEW s \in Seq(Trans), NEW i \in DOMAIN s, IsInjective(s)
    PROVE  /\ RemoveAt(s, i) \in Seq(Trans) /\ IsInjective(RemoveAt(s, i))
           /\ Range(RemoveAt(s, i)) = Range(s) \ {s[i]}
<1> DEFINE n == Len(s)
           a == SubSeq(s, 1, i - 1)
           b == SubSeq(s, i + 1, n)
           rest == RemoveAt(s, i)
<1>1. /\ n \in Nat /\ i \in 1..n /\ DOMAIN s = 1..n
      /\ a \in Seq(Trans) /\ Len(a) = i - 1 /\ \A k \in 1..(i - 1) : a[k] = s[k]
      /\ b \in Seq(Trans) /\ Len(b) = n - i /\ \A k \in 1..(n - i) : b[k] = s[i + k]
  <2>1. n \in Nat /\ i \in 1..n /\ DOMAIN s = 1..n
    OBVIOUS
  <2>2. a \in Seq(Trans) /\ Len(a) = i - 1 /\ \A k \in 1..(i - 1) : a[k] = s[k]
    BY <2>1, SubSeqProperties
  <2>3. b \in Seq(Trans) /\ Len(b) = n - i /\ \A k \in 1..(n - i) : b[k] = s[i + k]
    BY <2>1, SubSeqProperties
  <2> QED BY <2>1, <2>2, <2>3
<1>2. rest = a \o b
  BY DEF RemoveAt
<1> HIDE DEF n, a, b, rest
<1>3. /\ rest \in Seq(Trans) /\ DOMAIN rest = 1..(Len(a) + Len(b))
      /\ \A k \in 1..Len(a) : rest[k] = a[k]
      /\ \A k \in 1..(n - i) : rest[(i - 1) + k] = b[k]
  <2>1. /\ a \o b \in Seq(Trans) /\ DOMAIN (a \o b) = 1..(Len(a) + Len(b))
        /\ \A k \in 1..Len(a) : (a \o b)[k] = a[k]
        /\ \A k \in 1..Len(b) : (a \o b)[Len(a) + k] = b[k]
    <3>1. a \in Seq(Trans) /\ b \in Seq(Trans)
      BY <1>1
    <3> QED BY <3>1
  <2> QED BY <1>1, <1>2, <2>1
<1>4. /\ DOMAIN rest = 1..(n - 1)
      /\ \A k \in 1..(n - 1) : rest[k] = IF k < i THEN s[k] ELSE s[k + 1]
  <2>1. DOMAIN rest = 1..(n - 1)
    BY <1>1, <1>3
  <2>2. ASSUME NEW k \in 1..(n - 1), k < i PROVE rest[k] = s[k]
    BY <1>1, <1>3, <2>2
  <2>3. ASSUME NEW k \in 1..(n - 1), ~(k < i) PROVE rest[k] = s[k + 1]
    <3>1. k - (i - 1) \in 1..(n - i) /\ k = (i - 1) + (k - (i - 1)) /\ i + (k - (i - 1)) = k + 1
      BY <1>1, <2>3
    <3>2. rest[k] = b[k - (i - 1)]
      BY <1>1, <1>3, <3>1
    <3> QED BY <1>1, <3>1, <3>2
  <2> QED BY <2>1, <2>2, <2>3
<1>5. \A k \in 1..(n - 1) : k \in 1..n /\ k + 1 \in 1..n
  BY <1>1
<1>6. \A k \in 1..n : k # i => (k < i /\ k \in 1..(n - 1)) \/ (~(k - 1 < i) /\ k - 1 \in 1..(n - 1))
  BY <1>1
<1>7. IsInjective(rest)
  <2> SUFFICES ASSUME NEW j \in 1..(n - 1), NEW k \in 1..(n - 1), rest[j] = rest[k]
               PROVE  j = k
    BY <1>4 DEF IsInjective
  <2> DEFINE J == IF j < i THEN j ELSE j + 1
             K == IF k < i THEN k ELSE k + 1
  <2>1. J \in 1..n /\ K \in 1..n /\ s[J] = s[K]
    BY <1>4, <1>5
  <2>2. J = K
    BY <1>1, <2>1 DEF IsInjective
  <2> QED BY <1>1, <2>2
<1>8. Range(rest) = Range(s) \ {s[i]}
  <2>1. ASSUME NEW k \in 1..(n - 1) PROVE rest[k] \in Range(s) /\ rest[k] # s[i]
    <3> DEFINE K == IF k < i THEN k ELSE k + 1
    <3>1. K \in 1..n /\ K # i /\ rest[k] = s[K]
      BY <1>1, <1>4, <1>5
    <3> QED BY <1>1, <3>1 DEF IsInjective, Range
  <2>2. ASSUME NEW k \in 1..n, s[k] # s[i] PROVE s[k] \in Range(rest)
    <3>1. CASE k < i /\ k \in 1..(n - 1)
      BY <1>4, <3>1 DEF Range
    <3>2. CASE ~(k - 1 < i) /\ k - 1 \in 1..(n - 1)
      <4>1. rest[k - 1] = s[(k - 1) + 1] /\ (k - 1) + 1 = k
        BY <1>4, <3>2
      <4> QED BY <1>4, <3>2, <4>1 DEF Range
    <3> QED BY <1>6, <2>2, <3>1, <3>2
  <2>3. ASSUME NEW v \in Range(rest) PROVE v \in Range(s) \ {s[i]}
    <3>1. PICK k \in 1..(n - 1) : v = rest[k]
      BY <1>4 DEF Range
    <3> QED BY <2>1, <3>1
  <2>4. ASSUME NEW v \in Range(s) \ {s[i]} PROVE v \in Range(rest)
    <3>1. PICK k \in 1..n : v = s[k]
      BY <1>1 DEF Range
    <3> QED BY <2>2, <3>1
  <2> QED BY <2>3, <2>4
<1> QED BY <1>3, <1>7, <1>8 DEF rest

LEMMA RemoveFirstIs ==
    ASSUME NEW s \in Seq(Trans), IsInjective(s), NEW t \in Range(s)
    PROVE  /\ RemoveFirst(s, t) \in Seq(Trans) /\ IsInjective(RemoveFirst(s, t))
           /\ Range(RemoveFirst(s, t)) = Range(s) \ {t}
<1> DEFINE I == {k \in 1..Len(s) : s[k] = t}
<1>1. I # {} /\ I \subseteq Nat /\ I \subseteq DOMAIN s
  BY DEF Range
<1>2. RemoveFirst(s, t) = RemoveAt(s, Min(I))
  BY <1>1 DEF RemoveFirst, SelectInSeq
<1>3. Min(I) \in I
  <2> HIDE DEF I
  <2> QED BY <1>1, LeastNatural
<1> DEFINE i == Min(I)
<1>4. i \in DOMAIN s /\ s[i] = t
  BY <1>1, <1>3
<1> HIDE DEF i
<1>5. RemoveFirst(s, t) = RemoveAt(s, i)
  BY <1>2 DEF i
<1> QED BY <1>4, <1>5, RemoveAtIs

LEMMA PrependIs ==
    ASSUME NEW s \in Seq(Trans), IsInjective(s), NEW t \in Trans, t \notin Range(s)
    PROVE  /\ <<t>> \o s \in Seq(Trans) /\ IsInjective(<<t>> \o s)
           /\ Range(<<t>> \o s) = Range(s) \cup {t}
<1> DEFINE n == Len(s)
           c == <<t>> \o s
<1>1. /\ n \in Nat /\ DOMAIN s = 1..n /\ c \in Seq(Trans) /\ DOMAIN c = 1..(n + 1)
      /\ c[1] = t /\ \A k \in 1..n : c[k + 1] = s[k]
  OBVIOUS
<1> HIDE DEF n, c
<1>2. \A k \in 1..(n + 1) : k = 1 \/ (k - 1 \in 1..n /\ c[k] = s[k - 1])
  <2>1. ASSUME NEW k \in 1..(n + 1), k # 1 PROVE k - 1 \in 1..n /\ c[k] = s[k - 1]
    <3>1. k - 1 \in 1..n /\ (k - 1) + 1 = k
      BY <1>1, <2>1
    <3> QED BY <1>1, <3>1
  <2> QED BY <2>1
<1>3. \A k \in 1..n : k + 1 \in 1..(n + 1)
  BY <1>1
<1>4. IsInjective(c)
  <2> SUFFICES ASSUME NEW j \in 1..(n + 1), NEW k \in 1..(n + 1), c[j] = c[k] PROVE j = k
    BY <1>1 DEF IsInjective
  <2>1. CASE j = 1 /\ k # 1
    BY <1>1, <1>2, <2>1 DEF Range
  <2>2. CASE j # 1 /\ k = 1
    BY <1>1, <1>2, <2>2 DEF Range
  <2>3. CASE j # 1 /\ k # 1
    <3>1. j - 1 \in 1..n /\ k - 1 \in 1..n /\ s[j - 1] = s[k - 1]
      BY <1>2, <2>3
    <3>2. \A x, y \in 1..n : s[x] = s[y] => x = y
      BY <1>1 DEF IsInjective
    <3>3. j - 1 = k - 1
      BY <3>1, <3>2
    <3> QED BY <1>1, <3>3
  <2> QED BY <2>1, <2>2, <2>3
<1>5. Range(c) = Range(s) \cup {t}
  <2>1. t \in Range(c)
    <3>1. 1 \in 1..(n + 1)
      BY <1>1
    <3> QED BY <1>1, <3>1 DEF Range
  <2>2. Range(s) \subseteq Range(c)
    BY <1>1, <1>3 DEF Range
  <2>3. ASSUME NEW v \in Range(c) PROVE v \in Range(s) \cup {t}
    <3>1. PICK k \in 1..(n + 1) : v = c[k]
      BY <1>1 DEF Range
    <3>2. k = 1 \/ (k - 1 \in DOMAIN s /\ v = s[k - 1])
      BY <1>1, <1>2, <3>1
    <3> QED BY <1>1, <3>1, <3>2 DEF Range
  <2> QED BY <2>1, <2>2, <2>3
<1> QED BY <1>1, <1>4, <1>5 DEF c

-----------------------------------------------------------------------------
\* The order of the items of a backlog.

LEMMA EmptyOrder ==
    Sorted(<<>>) /\ Bounded(<<>>) /\ get_first_backlog_timestamp(<<>>) = None
    /\ \A time : Until(<<>>, time)
BY DEF Sorted, Bounded, Until, get_first_backlog_timestamp

LEMMA AppendOrder ==
    ASSUME NEW b \in Seq(Item), NEW i \in Item
    PROVE  /\ Sorted(b) /\ (IsRtp(i) => Until(b, i.ts)) => Sorted(Append(b, i))
           /\ \A time : Until(b, time) /\ (IsRtp(i) => i.ts <= time) => Until(Append(b, i), time)
<1> DEFINE c == Append(b, i)
           n == Len(b) + 1
<1>1. /\ c \in Seq(Item) /\ DOMAIN c = DOMAIN b \cup {n} /\ c[n] = i /\ n \in Nat
      /\ \A k \in DOMAIN b : c[k] = b[k] /\ k \in Nat /\ k < n
  BY AppendIs
<1> HIDE DEF c, n
<1>2. ASSUME Sorted(b), IsRtp(i) => Until(b, i.ts) PROVE Sorted(c)
  <2> SUFFICES ASSUME NEW j \in DOMAIN c, NEW k \in DOMAIN c, j < k, IsRtp(c[j]), IsRtp(c[k])
               PROVE  c[j].ts <= c[k].ts
    BY DEF Sorted
  <2>1. j \in DOMAIN b
    BY <1>1
  <2>2. CASE k \in DOMAIN b
    BY <1>1, <1>2, <2>1, <2>2 DEF Sorted
  <2>3. CASE k = n
    BY <1>1, <1>2, <2>1, <2>3 DEF Until
  <2> QED BY <1>1, <2>2, <2>3
<1>3. ASSUME NEW time, Until(b, time), IsRtp(i) => i.ts <= time PROVE Until(c, time)
  BY <1>1, <1>3 DEF Until
<1> QED BY <1>2, <1>3 DEF c

LEMMA TailOrder ==
    ASSUME NEW b \in Seq(Item), b # <<>>
    PROVE  /\ Sorted(b) => Sorted(Tail(b))
           /\ \A time : Until(b, time) => Until(Tail(b), time)
           /\ Sorted(b) /\ Bounded(b) => Bounded(Tail(b))
<1> DEFINE c == Tail(b)
           n == Len(b)
<1>1. /\ c \in Seq(Item) /\ DOMAIN b = 1..n /\ DOMAIN c = 1..(n - 1) /\ n \in Nat \ {0}
      /\ \A k \in DOMAIN c : k \in Nat /\ c[k] = b[k + 1] /\ k + 1 \in DOMAIN b
  BY TailIs
<1> HIDE DEF c, n
<1>2. Sorted(b) => Sorted(c)
  BY <1>1 DEF Sorted
<1>3. \A time : Until(b, time) => Until(c, time)
  BY <1>1 DEF Until
<1>4. ASSUME Sorted(b), Bounded(b) PROVE Bounded(c)
  <2> SUFFICES ASSUME NEW k \in DOMAIN c, IsRtp(c[k]), k > MAX_BACKLOG_SIZE
               PROVE  c[k].ts - get_first_backlog_timestamp(c) <= MAX_BACKLOG_DURATION
    BY DEF Bounded
  <2>1. PICK m \in DOMAIN c : FirstAt(c, m) /\ get_first_backlog_timestamp(c) = c[m].ts
    BY <1>1, FirstStamp DEF NoRtp
  <2>2. PICK l \in DOMAIN b : FirstAt(b, l) /\ get_first_backlog_timestamp(b) = b[l].ts
    BY <1>1, FirstStamp DEF NoRtp
  <2>3. IsRtp(b[k + 1]) /\ k + 1 > MAX_BACKLOG_SIZE /\ k + 1 \in DOMAIN b /\ c[k] = b[k + 1]
    BY <1>1, StreamAssumption
  <2>4. IsRtp(b[m + 1]) /\ m + 1 \in DOMAIN b /\ c[m] = b[m + 1]
    BY <1>1, <2>1 DEF FirstAt
  <2>5. b[k + 1].ts - b[l].ts <= MAX_BACKLOG_DURATION
    BY <1>4, <2>2, <2>3 DEF Bounded
  <2>6. l <= m + 1
    BY <1>1, <2>2, <2>4 DEF FirstAt
  <2>7. b[k + 1].ts \in Nat /\ b[l].ts \in Nat /\ b[m + 1].ts \in Nat
    <3>1. b[k + 1] \in Item /\ b[l] \in Item /\ b[m + 1] \in Item
      BY <2>2, <2>3, <2>4
    <3> QED BY <3>1 DEF Item
  <2>8. b[l].ts <= b[m + 1].ts
    <3>1. CASE l = m + 1
      BY <2>7, <3>1
    <3>2. CASE l < m + 1
      BY <1>4, <2>2, <2>4, <3>2 DEF Sorted, FirstAt
    <3> QED BY <1>1, <2>2, <2>4, <2>6, <3>1, <3>2
  <2>9. \A x, y, z, d \in Nat : x - y <= d /\ y <= z => x - z <= d
    OBVIOUS
  <2> QED BY <2>1, <2>3, <2>4, <2>5, <2>7, <2>8, <2>9, StreamAssumption
<1> QED BY <1>2, <1>3, <1>4 DEF c

LEMMA AppendBounded ==
    ASSUME NEW b \in Seq(Item), NEW i \in Item, Bounded(b),
           ~(/\ IsRtp(i) /\ get_first_backlog_timestamp(b) # None
             /\ i.ts - get_first_backlog_timestamp(b) > MAX_BACKLOG_DURATION
             /\ Len(b) + 1 > MAX_BACKLOG_SIZE)
    PROVE  Bounded(Append(b, i))
<1> DEFINE c == Append(b, i)
           n == Len(b) + 1
<1>1. /\ c \in Seq(Item) /\ DOMAIN c = DOMAIN b \cup {n} /\ c[n] = i /\ n \in Nat
      /\ \A k \in DOMAIN b : c[k] = b[k] /\ k \in Nat /\ k < n
  BY AppendIs
<1>2. get_first_backlog_timestamp(c) =
             IF IsRtp(i) /\ get_first_backlog_timestamp(b) = None THEN i.ts
             ELSE get_first_backlog_timestamp(b)
  BY AppendStamp
<1>3. \A k \in DOMAIN b : IsRtp(b[k]) => get_first_backlog_timestamp(b) \in Nat
  <2> SUFFICES ASSUME NEW k \in DOMAIN b, IsRtp(b[k])
               PROVE  get_first_backlog_timestamp(b) \in Nat
    OBVIOUS
  <2>1. PICK l \in DOMAIN b : get_first_backlog_timestamp(b) = b[l].ts
    BY FirstStamp DEF NoRtp
  <2>2. b[l] \in Item
    OBVIOUS
  <2> QED BY <2>1, <2>2 DEF Item
<1>4. i.ts \in Nat
  BY DEF Item
<1>5. get_first_backlog_timestamp(b) # None => get_first_backlog_timestamp(b) \in Nat
  BY <1>3, FirstStamp DEF NoRtp
<1> HIDE DEF c, n
<1> SUFFICES ASSUME NEW k \in DOMAIN c, IsRtp(c[k]), k > MAX_BACKLOG_SIZE
             PROVE  c[k].ts - get_first_backlog_timestamp(c) <= MAX_BACKLOG_DURATION
  BY DEF Bounded, c
<1>6. CASE k \in DOMAIN b
  <2>1. get_first_backlog_timestamp(b) # None
    BY <1>1, <1>3, <1>6, StreamAssumption
  <2> QED BY <1>1, <1>2, <1>6, <2>1 DEF Bounded
<1>7. CASE k = n
  <2>1. IsRtp(i) /\ c[k].ts = i.ts /\ Len(b) + 1 > MAX_BACKLOG_SIZE
    BY <1>1, <1>7 DEF n
  <2>2. CASE get_first_backlog_timestamp(b) = None
    BY <1>2, <1>4, <2>1, <2>2, StreamAssumption
  <2>3. CASE get_first_backlog_timestamp(b) # None
    BY <1>2, <1>4, <1>5, <2>1, <2>3, StreamAssumption
  <2> QED BY <2>2, <2>3
<1> QED BY <1>1, <1>6, <1>7

-----------------------------------------------------------------------------
\* Steps.

\* One of the actions, as Next lists them.
Step(x) == Check(x) \/ Push(x) \/ Drop(x)

LEMMA NextIs ==
    ASSUME Next
    PROVE  /\ ~aborted
           /\ \/ \E x \in Thread : Step(x)
              \/ \E t \in Trans : AddTransport(t) \/ RemoveTransport(t) \/ message_sent(t)
              \/ Send
              \/ \E c \in Channel : NewSample(c) \/ handle_new_sample(c)
              \/ SeekBlock \/ SeekFlush \/ SeekDone
              \/ LeaveStop \/ LeaveBin \/ JoinBin
BY DEF Next, Step

LEMMA ThreadFacts ==
    /\ \A t \in Trans : t \in Thread /\ t # Sender
    /\ Sender \in Thread /\ None \notin Thread /\ None \notin Trans
    /\ \A i \in Item : i.ch \in Channel /\ i.ts \in Nat
    /\ NoCall \in Calls /\ "rtp" \in Channel
BY StreamAssumption DEF Thread, Item, NoCall, Calls, Channel

\* What a thread that is not the send thread's calls return to.
LEMMA ReturnTypes ==
    ASSUME TypeInv, NEW x \in Thread, NEW s, Return(x, s)
    PROVE  /\ call' = [call EXCEPT ![x] = NoCall] /\ call' \in [Thread -> Calls]
           /\ pc' = [pc EXCEPT ![x] = IF x = Sender THEN "flush" ELSE "idle"]
           /\ pc' \in [Thread -> {"idle", "check", "push", "drop", "clear", "pick", "pull",
                                  "append", "flush"}]
           /\ pos' \in Nat \ {0}
<1>1. call' = [call EXCEPT ![x] = NoCall] /\ call' \in [Thread -> Calls]
  BY ThreadFacts DEF Return, TypeInv
<1>2. pc' = [pc EXCEPT ![x] = IF x = Sender THEN "flush" ELSE "idle"]
  BY DEF Return
<1>3. pos' = pos + 1 \/ pos' = pos
  BY DEF Return
<1> QED BY <1>1, <1>2, <1>3 DEF TypeInv

LEMMA ListTypes ==
    ASSUME TypeInv, ListInv, NEW t \in Trans, ListRemove(t)
    PROVE  transports' \in Seq(Trans)
           /\ backlog' \in [Trans -> Seq(Item)]
           /\ first_rtp_timestamp' \in [Trans -> Nat \cup {None}]
<1>1. CASE Listed(t)
  <2>1. transports' = RemoveFirst(transports, t) /\ clear_backlog(t)
    BY <1>1 DEF ListRemove
  <2>2. transports' \in Seq(Trans)
    BY <1>1, <2>1, RemoveFirstIs DEF TypeInv, ListInv, Listed
  <2> QED BY <2>1, <2>2 DEF clear_backlog, TypeInv
<1>2. CASE ~Listed(t)
  BY <1>2 DEF ListRemove, TypeInv
<1> QED BY <1>1, <1>2

LEMMA StampType ==
    ASSUME NEW b \in Seq(Item)
    PROVE  get_first_backlog_timestamp(b) \in Nat \cup {None}
<1>1. CASE NoRtp(b)
  BY <1>1, FirstStamp
<1>2. CASE ~NoRtp(b)
  <2>1. PICK k \in DOMAIN b : get_first_backlog_timestamp(b) = b[k].ts
    BY <1>2, FirstStamp
  <2>2. b[k] \in Item
    OBVIOUS
  <2> QED BY <2>1, <2>2 DEF Item
<1> QED BY <1>1, <1>2

LEMMA PopTypes ==
    ASSUME TypeInv, NEW t \in Trans, backlog[t] # <<>>, backlog_pop(t)
    PROVE  /\ backlog' \in [Trans -> Seq(Item)] /\ Head(backlog[t]) \in Item
           /\ first_rtp_timestamp' \in [Trans -> Nat \cup {None}]
<1>1. backlog[t] \in Seq(Item) /\ Tail(backlog[t]) \in Seq(Item) /\ Head(backlog[t]) \in Item
  BY TailIs DEF TypeInv
<1>2. get_first_backlog_timestamp(Tail(backlog[t])) \in Nat \cup {None}
  BY <1>1, StampType
<1> QED BY <1>1, <1>2 DEF backlog_pop, TypeInv

LEMMA StepTypes == ASSUME IInv, NEW x \in Thread, Step(x) PROVE TypeInv'
<1> DEFINE t == call[x].t
<1>0. TypeInv /\ FrameInv /\ ListInv /\ call[x] \in Calls
  BY DEF IInv, TypeInv
<1>1. pc[x] \in {"check", "push", "drop", "clear"} /\ t \in Trans
  BY <1>0 DEF Step, Check, Push, Drop, CheckNothing, CheckPop, PushQueued, PushSent, PushFails,
              DropLock, DropRemove, FrameInv
<1>2. ASSUME CheckNothing(x) PROVE TypeInv'
  <2>1. Return(x, signalled) /\ backlog_lock' = Unlock(x)
    BY <1>2 DEF CheckNothing
  <2>2. call' \in [Thread -> Calls] /\ pos' \in Nat \ {0}
        /\ pc' \in [Thread -> {"idle", "check", "push", "drop", "clear", "pick", "pull",
                                  "append", "flush"}]
    BY <1>0, <2>1, ReturnTypes
  <2> QED BY <1>0, <1>1, <1>2, <2>1, <2>2 DEF CheckNothing, TypeInv, Unlock, clientVars, pipeVars
<1>3. ASSUME CheckPop(x) PROVE TypeInv'
  <2>1. /\ backlog' \in [Trans -> Seq(Item)] /\ Head(backlog[t]) \in Item
        /\ first_rtp_timestamp' \in [Trans -> Nat \cup {None}]
    BY <1>0, <1>1, <1>3, PopTypes DEF CheckPop, Ready
  <2>2. call' = [call EXCEPT ![x].item = Head(backlog[t])]
    BY <1>3 DEF CheckPop
  <2>3. call' \in [Thread -> Calls]
    BY <1>0, <2>1, <2>2 DEF TypeInv, Calls
  <2> QED BY <1>0, <1>1, <1>3, <2>1, <2>3
          DEF CheckPop, TypeInv, streamVars, clientVars, senderVars, pipeVars
<1>4. ASSUME PushQueued(x) PROVE TypeInv'
  <2>1. Return(x, signalled) /\ backlog_lock' = Unlock(x) /\ call[x].item \in Item
    BY <1>0, <1>4 DEF PushQueued, FrameInv
  <2>2. call' \in [Thread -> Calls] /\ pos' \in Nat \ {0}
        /\ pc' \in [Thread -> {"idle", "check", "push", "drop", "clear", "pick", "pull",
                                  "append", "flush"}]
    BY <1>0, <2>1, ReturnTypes
  <2> QED BY <1>0, <1>1, <1>4, <2>1, <2>2, ThreadFacts
          DEF PushQueued, TypeInv, Unlock, pipeVars
<1>5. ASSUME PushSent(x) PROVE TypeInv'
  <2>1. call[x].item \in Item
    BY <1>0, <1>5 DEF PushSent, FrameInv
  <2>2. call' \in [Thread -> Calls]
    BY <1>0, <1>1, <1>5 DEF PushSent, TypeInv, Calls
  <2> QED BY <1>0, <1>1, <1>5, <2>1, <2>2
          DEF PushSent, TypeInv, streamVars, backlogVars, senderVars, pipeVars
<1>6. ASSUME PushFails(x) PROVE TypeInv'
  <2>1. call' \in [Thread -> Calls]
    BY <1>0, <1>1, <1>6 DEF PushFails, TypeInv, Calls
  <2> QED BY <1>0, <1>1, <1>6, <2>1
          DEF PushFails, TypeInv, Unlock, streamVars, senderVars, pipeVars
<1>7. ASSUME DropLock(x) PROVE TypeInv'
  BY <1>0, <1>7 DEF DropLock, TypeInv, backlogVars, clientVars, senderVars, pipeVars
<1>8. ASSUME DropRemove(x) PROVE TypeInv'
  <2>1. Return(x, signalled) /\ ListRemove(t)
    BY <1>8 DEF DropRemove
  <2>2. call' \in [Thread -> Calls] /\ pos' \in Nat \ {0}
        /\ pc' \in [Thread -> {"idle", "check", "push", "drop", "clear", "pick", "pull",
                                  "append", "flush"}]
    BY <1>0, <2>1, ReturnTypes
  <2>3. /\ transports' \in Seq(Trans) /\ backlog' \in [Trans -> Seq(Item)]
        /\ first_rtp_timestamp' \in [Trans -> Nat \cup {None}]
    BY <1>0, <1>1, <2>1, ListTypes
  <2> QED BY <1>0, <1>1, <1>8, <2>2, <2>3 DEF DropRemove, TypeInv, Unlock, clientVars, pipeVars
<1> QED BY <1>2, <1>3, <1>4, <1>5, <1>6, <1>7, <1>8 DEF Step, Check, Push, Drop

LEMMA ClientTypes ==
    ASSUME IInv, NEW t \in Trans, AddTransport(t) \/ RemoveTransport(t) \/ message_sent(t)
    PROVE  TypeInv'
<1>0. TypeInv /\ ListInv /\ t \in Thread
  BY ThreadFacts DEF IInv
<1>1. ASSUME AddTransport(t) PROVE TypeInv'
  <2>1. transports' \in Seq(Trans)
    BY <1>0, <1>1, PrependIs DEF AddTransport, ListAdd, TypeInv, ListInv, Listed
  <2> QED BY <1>0, <1>1, <2>1
          DEF AddTransport, TypeInv, backlogVars, clientVars, senderVars, pipeVars
<1>2. ASSUME RemoveTransport(t) PROVE TypeInv'
  <2>1. call' \in [Thread -> Calls]
    BY <1>0, <1>2 DEF RemoveTransport, TypeInv, Calls, NoCall
  <2> QED BY <1>0, <1>2, <2>1
          DEF RemoveTransport, TypeInv, streamVars, backlogVars, clientVars, senderVars, pipeVars
<1>3. ASSUME message_sent(t) PROVE TypeInv'
  <2>1. call' \in [Thread -> Calls]
    BY <1>0, <1>3 DEF message_sent, TypeInv, Calls, NoCall
  <2> QED BY <1>0, <1>3, <2>1
          DEF message_sent, TypeInv, streamVars, backlogVars, senderVars, pipeVars
<1> QED BY <1>1, <1>2, <1>3

LEMMA SendTypes == ASSUME IInv, Send PROVE TypeInv'
<1>0. TypeInv /\ ListInv /\ Sender \in Thread
  BY ThreadFacts DEF IInv
<1>1. ASSUME SendLoop PROVE TypeInv'
  BY <1>0, <1>1 DEF SendLoop, TypeInv, backlogVars, clientVars, senderVars, pipeVars
<1>2. ASSUME SendPick PROVE TypeInv'
  <2>1. pc' \in [Thread -> {"idle", "check", "push", "drop", "clear", "pick", "pull",
                               "append", "flush"}]
    <3>1. pc' = [pc EXCEPT ![Sender] = "idle"] \/ pc' = [pc EXCEPT ![Sender] = "pull"]
      BY <1>2 DEF SendPick
    <3> QED BY <1>0, <3>1 DEF TypeInv
  <2>2. lock' \in {lock, Sender} /\ idx' \in {idx, Chosen} /\ Chosen \in Channel
    BY <1>2 DEF SendPick, Chosen, Channel
  <2> QED BY <1>0, <1>2, <2>1, <2>2 DEF SendPick, TypeInv, backlogVars, clientVars, pipeVars
<1>3. ASSUME SendPull PROVE TypeInv'
  <2>1. appsink[idx] \in Seq(Item) /\ appsink[idx] # <<>> /\ tr_cache = transports
    BY <1>0, <1>3 DEF SendPull, TypeInv, ListInv
  <2>2. Head(appsink[idx]) \in Item
    BY <2>1, TailIs
  <2> QED BY <1>0, <1>3, <2>1, <2>2 DEF SendPull, TypeInv, streamVars, backlogVars, clientVars
<1>4. ASSUME SendPullNone PROVE TypeInv'
  BY <1>0, <1>4 DEF SendPullNone, TypeInv, backlogVars, clientVars, senderVars, pipeVars
<1>5. ASSUME SendAppend PROVE TypeInv'
  <2> DEFINE t == snap[pos]
  <2>1. sample \in Item /\ t \in Trans
    BY <1>0, <1>5 DEF SendAppend, TypeInv, ListInv
  <2>2. transports' \in Seq(Trans) /\ backlog' \in [Trans -> Seq(Item)]
        /\ first_rtp_timestamp' \in [Trans -> Nat \cup {None}]
    <3>1. CASE Overflows(t, sample)
      BY <1>0, <1>5, <2>1, <3>1, ListTypes DEF SendAppend
    <3>2. CASE ~Overflows(t, sample)
      <4>1. backlog_push(t, sample) /\ transports' = transports
        BY <1>5, <3>2 DEF SendAppend
      <4>2. backlog[t] \in Seq(Item) /\ Append(backlog[t], sample) \in Seq(Item)
        BY <1>0, <2>1, AppendIs DEF TypeInv
      <4> QED BY <1>0, <2>1, <4>1, <4>2, ThreadFacts DEF backlog_push, TypeInv
    <3> QED BY <3>1, <3>2
  <2>3. aborted' \in BOOLEAN
    BY <1>5 DEF SendAppend
  <2> QED BY <1>0, <1>5, <2>2, <2>3 DEF SendAppend, TypeInv, clientVars, pipeVars
<1>6. ASSUME SendUnlock PROVE TypeInv'
  BY <1>0, <1>6 DEF SendUnlock, TypeInv, backlogVars, clientVars, pipeVars
<1>7. ASSUME SendFlush PROVE TypeInv'
  <2>1. CASE pos <= Len(snap)
    <3>1. snap[pos] \in Trans
      BY <1>0, <2>1 DEF TypeInv
    <3>2. [NoCall EXCEPT !.t = snap[pos]] \in Calls
      BY <3>1 DEF Calls, NoCall
    <3>3. /\ call' = [call EXCEPT ![Sender] = [NoCall EXCEPT !.t = snap[pos]]]
          /\ pc' = [pc EXCEPT ![Sender] = "check"] /\ UNCHANGED <<snap, pos, idx>>
      BY <1>7, <2>1 DEF SendFlush
    <3> HIDE DEF Calls, NoCall
    <3> QED BY <1>0, <1>7, <3>2, <3>3
            DEF SendFlush, TypeInv, streamVars, backlogVars, clientVars, pipeVars
  <2>2. CASE ~(pos <= Len(snap))
    <3>1. /\ pc' = [pc EXCEPT ![Sender] = "idle"] /\ call' = call
          /\ snap' = <<>> /\ pos' = 1 /\ idx' = "rtp"
      BY <1>7, <2>2 DEF SendFlush
    <3> QED BY <1>0, <1>7, <3>1, ThreadFacts
            DEF SendFlush, TypeInv, streamVars, backlogVars, clientVars, pipeVars
  <2> QED BY <2>1, <2>2
<1> QED BY <1>1, <1>2, <1>3, <1>4, <1>5, <1>6, <1>7 DEF Send

PipeStep ==
    \/ \E c \in Channel : NewSample(c) \/ handle_new_sample(c)
    \/ SeekBlock \/ SeekFlush \/ SeekDone
    \/ LeaveStop \/ LeaveBin \/ JoinBin

LEMMA PipeTypes == ASSUME IInv, PipeStep PROVE TypeInv'
<1>0. TypeInv
  BY DEF IInv
<1>1. ASSUME NEW c \in Channel, NewSample(c) PROVE TypeInv'
  <2>1. [ch |-> c, n |-> samples[c] + 1, ts |-> clock] \in Item
    BY <1>0 DEF TypeInv, Item
  <2>2. appsink' \in [Channel -> Seq(Item)] /\ samples' \in [Channel -> Nat] /\ clock' \in Nat
    BY <1>0, <1>1, <2>1 DEF NewSample, TypeInv
  <2> QED BY <1>0, <1>1, <2>2 DEF NewSample, TypeInv, streamVars, backlogVars, clientVars, senderVars
<1>2. ASSUME NEW c \in Channel, handle_new_sample(c) PROVE TypeInv'
  BY <1>0, <1>2 DEF handle_new_sample, TypeInv, backlogVars, clientVars, senderVars
<1>3. ASSUME SeekBlock PROVE TypeInv'
  BY <1>0, <1>3 DEF SeekBlock, TypeInv, backlogVars, clientVars, senderVars
<1>4. ASSUME SeekFlush PROVE TypeInv'
  <2>1. clock' \in Nat
    BY <1>4, StreamAssumption DEF SeekFlush
  <2>2. appsink' \in [Channel -> Seq(Item)]
    <3>1. <<>> \in Seq(Item) /\ appsink' = [appsink EXCEPT !["rtp"] = <<>>]
      BY <1>4 DEF SeekFlush
    <3> QED BY <1>0, <3>1 DEF TypeInv
  <2> QED BY <1>0, <1>4, <2>1, <2>2 DEF SeekFlush, TypeInv, backlogVars, clientVars, senderVars
<1>5. ASSUME SeekDone PROVE TypeInv'
  BY <1>0, <1>5 DEF SeekDone, TypeInv, backlogVars, clientVars, senderVars, pipeVars
<1>6. ASSUME LeaveStop PROVE TypeInv'
  BY <1>0, <1>6 DEF LeaveStop, TypeInv, backlogVars, clientVars, senderVars, pipeVars
<1>7. ASSUME LeaveBin PROVE TypeInv'
  BY <1>0, <1>7 DEF LeaveBin, TypeInv, backlogVars, clientVars, senderVars
<1>8. ASSUME JoinBin PROVE TypeInv'
  BY <1>0, <1>8 DEF JoinBin, TypeInv, backlogVars, clientVars, senderVars
<1> QED BY <1>1, <1>2, <1>3, <1>4, <1>5, <1>6, <1>7, <1>8 DEF PipeStep

-----------------------------------------------------------------------------
\* The frames of check_transport_backlog.

(* What one frame of thread x says, of the new state.                      *)
FrameOf(x) ==
    /\ pc[x] \in {"check", "push", "drop", "clear"} => call[x].t \in Trans
    /\ pc[x] = "push" => call[x].item \in Item /\ backlog_lock[call[x].t] = x
    /\ call[x].nested => call[x].t \in Trans /\ backlog_lock[call[x].t] = x
    /\ pc[x] \in {"clear", "pull", "append"} => lock = x

(* A step of x leaves the frames of the others alone: it takes and gives   *)
(* back no lock that is another's.                                         *)
LEMMA OtherFrames ==
    ASSUME TypeInv, FrameInv, NEW x \in Thread,
           \A y \in Thread : y # x => pc'[y] = pc[y] /\ call'[y] = call[y],
           \A t \in Trans : backlog_lock'[t] = backlog_lock[t] \/ backlog_lock[t] \in {None, x},
           lock' = lock \/ lock \in {None, x}
    PROVE  \A y \in Thread : y # x => FrameOf(y)'
<1> SUFFICES ASSUME NEW y \in Thread, y # x PROVE FrameOf(y)'
  OBVIOUS
<1>1. pc'[y] = pc[y] /\ call'[y] = call[y] /\ y # None
  BY ThreadFacts
<1>2. FrameOf(y)
  BY DEF FrameInv, FrameOf
<1> QED BY <1>1, <1>2 DEF FrameOf

LEMMA FrameIs == FrameInv <=> \A x \in Thread : FrameOf(x)
BY DEF FrameInv, FrameOf

LEMMA FrameAre == FrameInv' <=> \A x \in Thread : FrameOf(x)'
BY DEF FrameInv, FrameOf

LEMMA StepFrames == ASSUME IInv, NEW x \in Thread, Step(x) PROVE FrameInv'
<1> DEFINE t == call[x].t
<1>0. TypeInv /\ FrameInv /\ FrameOf(x) /\ call[x] \in Calls
  BY DEF IInv, TypeInv, FrameInv, FrameOf
<1>1. pc[x] \in {"check", "push", "drop", "clear"} /\ t \in Trans
  BY <1>0 DEF Step, Check, Push, Drop, CheckNothing, CheckPop, PushQueued, PushSent, PushFails,
              DropLock, DropRemove, FrameOf
<1> SUFFICES /\ FrameOf(x)'
             /\ \A y \in Thread : y # x => pc'[y] = pc[y] /\ call'[y] = call[y]
             /\ \A u \in Trans : backlog_lock'[u] = backlog_lock[u] \/ backlog_lock[u] \in {None, x}
             /\ lock' = lock \/ lock \in {None, x}
  BY <1>0, OtherFrames, FrameAre
<1>2. ASSUME NEW s, Return(x, s)
      PROVE  /\ pc'[x] \in {"idle", "flush"} /\ call'[x] = NoCall
             /\ \A y \in Thread : y # x => pc'[y] = pc[y] /\ call'[y] = call[y]
             /\ FrameOf(x)'
  <2>1. /\ call' = [call EXCEPT ![x] = NoCall]
        /\ pc' = [pc EXCEPT ![x] = IF x = Sender THEN "flush" ELSE "idle"]
    BY <1>0, <1>2, ReturnTypes
  <2>2. /\ pc'[x] \in {"idle", "flush"} /\ call'[x] = NoCall
        /\ \A y \in Thread : y # x => pc'[y] = pc[y] /\ call'[y] = call[y]
    BY <1>0, <2>1 DEF TypeInv
  <2>3. ~call'[x].nested
    BY <2>2 DEF NoCall
  <2> QED BY <2>2, <2>3 DEF FrameOf
<1>3. CASE CheckNothing(x)
  <2>1. Return(x, signalled) /\ backlog_lock' = Unlock(x) /\ backlog_lock[t] \in {None, x} /\ lock' = lock
    BY <1>3 DEF CheckNothing, MayLockBacklog
  <2>2. \A u \in Trans : backlog_lock'[u] = backlog_lock[u] \/ backlog_lock[u] \in {None, x}
    BY <1>0, <2>1 DEF Unlock, TypeInv
  <2> QED BY <1>2, <2>1, <2>2
<1>4. CASE CheckPop(x)
  <2>1. /\ call' = [call EXCEPT ![x].item = Head(backlog[t])] /\ pc' = [pc EXCEPT ![x] = "push"]
        /\ backlog_lock' = [backlog_lock EXCEPT ![t] = x] /\ backlog_lock[t] \in {None, x} /\ lock' = lock
        /\ backlog[t] # <<>> /\ backlog_pop(t)
    BY <1>4 DEF CheckPop, MayLockBacklog, streamVars, Ready
  <2>2. Head(backlog[t]) \in Item
    BY <1>0, <1>1, <2>1, PopTypes
  <2>3. /\ \A y \in Thread : y # x => pc'[y] = pc[y] /\ call'[y] = call[y]
        /\ \A u \in Trans : backlog_lock'[u] = backlog_lock[u] \/ backlog_lock[u] \in {None, x}
    BY <1>0, <2>1 DEF TypeInv
  <2>4. pc'[x] = "push" /\ call'[x].t = t /\ call'[x].item = Head(backlog[t]) /\ backlog_lock'[t] = x
    BY <1>0, <1>1, <2>1 DEF TypeInv, Calls
  <2>5. FrameOf(x)'
    BY <1>1, <2>2, <2>4 DEF FrameOf
  <2> QED BY <2>1, <2>3, <2>5
<1>5. CASE PushQueued(x)
  <2>1. Return(x, signalled) /\ backlog_lock' = Unlock(x) /\ backlog_lock[t] = x /\ lock' = lock
    BY <1>0, <1>5 DEF PushQueued, FrameOf
  <2>2. \A u \in Trans : backlog_lock'[u] = backlog_lock[u] \/ backlog_lock[u] \in {None, x}
    BY <1>0, <2>1 DEF Unlock, TypeInv
  <2> QED BY <1>2, <2>1, <2>2
<1>6. CASE PushSent(x)
  <2>1. /\ call' = [call EXCEPT ![x] = [t |-> t, item |-> None, nested |-> TRUE, notify |-> TRUE]]
        /\ pc' = [pc EXCEPT ![x] = "check"] /\ backlog_lock' = backlog_lock /\ lock' = lock
        /\ backlog_lock[t] = x
    BY <1>0, <1>6 DEF PushSent, streamVars, backlogVars, FrameOf
  <2>2. \A y \in Thread : y # x => pc'[y] = pc[y] /\ call'[y] = call[y]
    BY <1>0, <2>1 DEF TypeInv
  <2>3. pc'[x] = "check" /\ call'[x].t = t
    BY <1>0, <2>1 DEF TypeInv
  <2>4. FrameOf(x)'
    BY <1>1, <2>1, <2>3 DEF FrameOf
  <2> QED BY <2>1, <2>2, <2>4
<1>7. CASE PushFails(x)
  <2>1. /\ call' = [call EXCEPT ![x].item = None] /\ pc' = [pc EXCEPT ![x] = "drop"]
        /\ backlog_lock' = (IF call[x].nested THEN backlog_lock ELSE Unlock(x)) /\ lock' = lock
        /\ backlog_lock[t] = x
    BY <1>0, <1>7 DEF PushFails, streamVars, FrameOf
  <2>2. \A y \in Thread : y # x => pc'[y] = pc[y] /\ call'[y] = call[y]
    BY <1>0, <2>1 DEF TypeInv
  <2>3. \A u \in Trans : backlog_lock'[u] = backlog_lock[u] \/ backlog_lock[u] \in {None, x}
    BY <1>0, <2>1 DEF Unlock, TypeInv
  <2>4. pc'[x] = "drop" /\ call'[x].t = t /\ call'[x].nested = call[x].nested
    BY <1>0, <2>1 DEF TypeInv, Calls
  <2>5. FrameOf(x)'
    BY <1>0, <1>1, <2>1, <2>4 DEF FrameOf
  <2> QED BY <2>1, <2>2, <2>3, <2>5
<1>8. CASE DropLock(x)
  <2>1. /\ lock = None /\ lock' = x /\ pc' = [pc EXCEPT ![x] = "clear"] /\ call' = call
        /\ backlog_lock' = backlog_lock
    BY <1>8 DEF DropLock, backlogVars
  <2>2. pc'[x] = "clear" /\ \A y \in Thread : y # x => pc'[y] = pc[y] /\ call'[y] = call[y]
    BY <1>0, <2>1 DEF TypeInv
  <2>3. FrameOf(x)'
    BY <1>0, <1>1, <2>1, <2>2 DEF FrameOf
  <2> QED BY <2>1, <2>2, <2>3
<1>9. CASE DropRemove(x)
  <2>1. /\ Return(x, signalled) /\ lock' = None /\ pc[x] = "clear"
        /\ backlog_lock' = IF call[x].nested THEN Unlock(x) ELSE backlog_lock
    BY <1>9 DEF DropRemove
  <2>2. lock = x /\ (call[x].nested => backlog_lock[t] = x)
    BY <1>0, <2>1 DEF FrameOf
  <2>3. \A u \in Trans : backlog_lock'[u] = backlog_lock[u] \/ backlog_lock[u] \in {None, x}
    BY <1>0, <2>1, <2>2 DEF Unlock, TypeInv
  <2> QED BY <1>2, <2>1, <2>2, <2>3
<1> QED BY <1>3, <1>4, <1>5, <1>6, <1>7, <1>8, <1>9 DEF Step, Check, Push, Drop

LEMMA ClientFrames ==
    ASSUME IInv, NEW t \in Trans, AddTransport(t) \/ RemoveTransport(t) \/ message_sent(t)
    PROVE  FrameInv'
<1>0. TypeInv /\ FrameInv /\ t \in Thread
  BY ThreadFacts DEF IInv
<1>1. ASSUME AddTransport(t) PROVE FrameInv'
  BY <1>0, <1>1 DEF AddTransport, backlogVars, FrameInv
<1>2. ASSUME RemoveTransport(t) \/ message_sent(t) PROVE FrameInv'
  <2>1. /\ pc' = [pc EXCEPT ![t] = "drop"] \/ pc' = [pc EXCEPT ![t] = "check"]
        /\ \/ call' = [call EXCEPT ![t] = [NoCall EXCEPT !.t = t]]
           \/ call' = [call EXCEPT ![t] = [NoCall EXCEPT !.t = t, !.notify = TRUE]]
        /\ backlog_lock' = backlog_lock /\ lock' = lock
    BY <1>2 DEF RemoveTransport, message_sent, streamVars, backlogVars
  <2>2. PICK c : call' = [call EXCEPT ![t] = c] /\ c.t = t /\ ~c.nested
    <3>1. CASE call' = [call EXCEPT ![t] = [NoCall EXCEPT !.t = t]]
      <4>1. [NoCall EXCEPT !.t = t].t = t /\ ~[NoCall EXCEPT !.t = t].nested
        BY DEF NoCall
      <4> QED BY <3>1, <4>1
    <3>2. CASE call' = [call EXCEPT ![t] = [NoCall EXCEPT !.t = t, !.notify = TRUE]]
      <4>1. /\ [NoCall EXCEPT !.t = t, !.notify = TRUE].t = t
            /\ ~[NoCall EXCEPT !.t = t, !.notify = TRUE].nested
        BY DEF NoCall
      <4> QED BY <3>2, <4>1
    <3> QED BY <2>1, <3>1, <3>2
  <2>3. /\ pc'[t] \in {"drop", "check"} /\ call'[t].t = t /\ ~call'[t].nested
        /\ \A y \in Thread : y # t => pc'[y] = pc[y] /\ call'[y] = call[y]
    BY <1>0, <2>1, <2>2 DEF TypeInv
  <2>4. FrameOf(t)'
    BY <2>3 DEF FrameOf
  <2> QED BY <1>0, <2>1, <2>3, <2>4, OtherFrames, FrameAre
<1> QED BY <1>1, <1>2

LEMMA SendFrames == ASSUME IInv, Send PROVE FrameInv'
<1>0. TypeInv /\ FrameInv /\ Sender \in Thread /\ FrameOf(Sender)
  BY ThreadFacts DEF IInv, FrameInv, FrameOf
<1>1. ASSUME lock' = lock \/ lock \in {None, Sender}, backlog_lock' = backlog_lock, call' = call,
             NEW l, pc' = [pc EXCEPT ![Sender] = l],
             l \in {"pull", "append"} => lock' = Sender,
             l \in {"idle", "pick", "pull", "append", "flush"}
      PROVE  FrameInv'
  <2>1. pc'[Sender] = l /\ \A y \in Thread : y # Sender => pc'[y] = pc[y] /\ call'[y] = call[y]
    BY <1>0, <1>1 DEF TypeInv
  <2>2. FrameOf(Sender)'
    BY <1>0, <1>1, <2>1 DEF FrameOf
  <2> QED BY <1>0, <1>1, <2>1, <2>2, OtherFrames, FrameAre
<1>2. CASE SendLoop
  <2>1. pc' = [pc EXCEPT ![Sender] = "pick"] \/ pc' = pc
    BY <1>2 DEF SendLoop
  <2>2. lock' = lock /\ backlog_lock' = backlog_lock /\ call' = call
    BY <1>2 DEF SendLoop, backlogVars
  <2>3. CASE pc' = [pc EXCEPT ![Sender] = "pick"]
    BY <1>1, <2>2, <2>3
  <2>4. CASE pc' = pc
    BY <1>0, <2>2, <2>4 DEF FrameInv
  <2> QED BY <2>1, <2>3, <2>4
<1>3. CASE SendPick
  <2>1. \/ pc' = [pc EXCEPT ![Sender] = "idle"] /\ lock' = lock
        \/ pc' = [pc EXCEPT ![Sender] = "pull"] /\ lock' = Sender
    BY <1>3 DEF SendPick
  <2>2. lock = None /\ backlog_lock' = backlog_lock /\ call' = call
    BY <1>3 DEF SendPick, backlogVars
  <2> QED BY <1>1, <2>1, <2>2
<1>4. CASE SendPull
  <2>1. /\ pc' = [pc EXCEPT ![Sender] = "append"] /\ lock' = lock /\ lock = Sender
        /\ backlog_lock' = backlog_lock /\ call' = call
    BY <1>0, <1>4 DEF SendPull, streamVars, backlogVars, FrameOf
  <2> QED BY <1>1, <2>1
<1>5. CASE SendPullNone \/ SendUnlock
  <2>1. /\ pc' = [pc EXCEPT ![Sender] = "idle"] \/ pc' = [pc EXCEPT ![Sender] = "flush"]
        /\ lock = Sender
        /\ backlog_lock' = backlog_lock /\ call' = call
    BY <1>0, <1>5 DEF SendPullNone, SendUnlock, backlogVars, FrameOf
  <2> QED BY <1>1, <2>1
<1>6. CASE SendAppend
  <2>1. pc' = pc /\ lock' = lock /\ backlog_lock' = backlog_lock /\ call' = call
    BY <1>6 DEF SendAppend
  <2> QED BY <1>0, <2>1 DEF FrameInv
<1>7. CASE SendFlush
  <2>1. lock' = lock /\ backlog_lock' = backlog_lock
    BY <1>7 DEF SendFlush, streamVars, backlogVars
  <2>2. CASE pos <= Len(snap)
    <3>1. snap[pos] \in Trans
      BY <1>0, <2>2 DEF TypeInv
    <3>2. /\ call' = [call EXCEPT ![Sender] = [NoCall EXCEPT !.t = snap[pos]]]
          /\ pc' = [pc EXCEPT ![Sender] = "check"]
      BY <1>7, <2>2 DEF SendFlush
    <3>3. /\ pc'[Sender] = "check" /\ call'[Sender].t \in Trans /\ ~call'[Sender].nested
          /\ \A y \in Thread : y # Sender => pc'[y] = pc[y] /\ call'[y] = call[y]
      BY <1>0, <3>1, <3>2 DEF TypeInv, NoCall
    <3>4. FrameOf(Sender)'
      BY <3>3 DEF FrameOf
    <3> QED BY <1>0, <2>1, <3>3, <3>4, OtherFrames, FrameAre
  <2>3. CASE ~(pos <= Len(snap))
    <3>1. call' = call /\ pc' = [pc EXCEPT ![Sender] = "idle"]
      BY <1>7, <2>3 DEF SendFlush
    <3> QED BY <1>1, <2>1, <3>1
  <2> QED BY <2>2, <2>3
<1> QED BY <1>2, <1>3, <1>4, <1>5, <1>6, <1>7 DEF Send

LEMMA PipeFrames == ASSUME IInv, PipeStep PROVE FrameInv'
<1>1. UNCHANGED <<pc, call, backlog_lock, lock>>
  BY DEF PipeStep, NewSample, handle_new_sample, SeekBlock, SeekFlush, SeekDone, LeaveStop,
         LeaveBin, JoinBin, streamVars, backlogVars
<1> QED BY <1>1 DEF IInv, FrameInv

-----------------------------------------------------------------------------
\* The list, the backlogs and their first time.

\* A step that leaves the list and what the send thread made of it alone.
LEMMA ListSame ==
    ASSUME ListInv, UNCHANGED <<transports, tr_cache, joined, sample, snap>>,
           pc'[Sender] = pc[Sender] \/ pc'[Sender] \notin {"pull", "append"},
           pc'[Sender] = "append" => pos' = pos
    PROVE  ListInv'
BY DEF ListInv, Listed

LEMMA RemoveIs ==
    ASSUME TypeInv, ListInv, NEW t \in Trans, ListRemove(t), FirstTimestamp, RemovedIsEmpty
    PROVE  /\ FirstTimestamp' /\ RemovedIsEmpty'
           /\ IsInjective(transports') /\ Range(transports') = Range(transports) \ {t}
           /\ tr_cache' \in {Stale, transports'}
           /\ \A u \in Trans : u # t => backlog'[u] = backlog[u] /\ first_rtp_timestamp'[u] = first_rtp_timestamp[u]
           /\ backlog'[t] = <<>>
<1>1. CASE Listed(t)
  <2>1. transports' = RemoveFirst(transports, t) /\ clear_backlog(t) /\ tr_cache' = Stale
    BY <1>1 DEF ListRemove
  <2>2. /\ IsInjective(transports') /\ Range(transports') = Range(transports) \ {t}
    BY <1>1, <2>1, RemoveFirstIs DEF TypeInv, ListInv, Listed
  <2>3. /\ \A u \in Trans : u # t => backlog'[u] = backlog[u] /\ first_rtp_timestamp'[u] = first_rtp_timestamp[u]
        /\ backlog'[t] = <<>> /\ first_rtp_timestamp'[t] = None
    BY <2>1 DEF clear_backlog, TypeInv
  <2>4. FirstTimestamp'
    BY <2>3, EmptyOrder DEF FirstTimestamp
  <2>5. RemovedIsEmpty'
    BY <2>2, <2>3 DEF RemovedIsEmpty, Listed
  <2> QED BY <2>1, <2>2, <2>3, <2>4, <2>5
<1>2. CASE ~Listed(t)
  <2>1. UNCHANGED <<transports, tr_cache, backlog, first_rtp_timestamp>>
    BY <1>2 DEF ListRemove
  <2>2. FirstTimestamp' /\ RemovedIsEmpty'
    BY <2>1 DEF FirstTimestamp, RemovedIsEmpty, Listed
  <2> QED BY <1>2, <2>1, <2>2 DEF ListInv, Listed, RemovedIsEmpty
<1> QED BY <1>1, <1>2

LEMMA PopIs ==
    ASSUME TypeInv, NEW t \in Trans, backlog[t] # <<>>, backlog_pop(t), transports' = transports,
           FirstTimestamp, RemovedIsEmpty
    PROVE  /\ FirstTimestamp' /\ RemovedIsEmpty' /\ backlog'[t] = Tail(backlog[t])
           /\ \A u \in Trans : u # t => backlog'[u] = backlog[u] /\ first_rtp_timestamp'[u] = first_rtp_timestamp[u]
<1>1. /\ \A u \in Trans : u # t => backlog'[u] = backlog[u] /\ first_rtp_timestamp'[u] = first_rtp_timestamp[u]
      /\ backlog'[t] = Tail(backlog[t])
      /\ first_rtp_timestamp'[t] = get_first_backlog_timestamp(Tail(backlog[t]))
  BY DEF backlog_pop, TypeInv
<1>2. FirstTimestamp'
  BY <1>1 DEF FirstTimestamp
<1>3. RemovedIsEmpty'
  BY <1>1 DEF RemovedIsEmpty, Listed
<1> QED BY <1>1, <1>2, <1>3

LEMMA PushIs ==
    ASSUME TypeInv, NEW t \in Trans, NEW i \in Item, backlog_push(t, i), transports' = transports,
           Listed(t), FirstTimestamp, RemovedIsEmpty
    PROVE  /\ FirstTimestamp' /\ RemovedIsEmpty' /\ backlog'[t] = Append(backlog[t], i)
           /\ \A u \in Trans : u # t => backlog'[u] = backlog[u] /\ first_rtp_timestamp'[u] = first_rtp_timestamp[u]
<1>1. /\ \A u \in Trans : u # t => backlog'[u] = backlog[u] /\ first_rtp_timestamp'[u] = first_rtp_timestamp[u]
      /\ backlog'[t] = Append(backlog[t], i)
      /\ first_rtp_timestamp'[t] =
           IF IsRtp(i) /\ first_rtp_timestamp[t] = None THEN i.ts ELSE first_rtp_timestamp[t]
  BY DEF backlog_push, TypeInv
<1>2. backlog[t] \in Seq(Item)
  BY DEF TypeInv
<1>3. FirstTimestamp'
  <2>1. get_first_backlog_timestamp(backlog'[t]) = first_rtp_timestamp'[t]
    BY <1>1, <1>2, AppendStamp DEF FirstTimestamp
  <2> QED BY <1>1, <2>1 DEF FirstTimestamp
<1>4. RemovedIsEmpty'
  BY <1>1 DEF RemovedIsEmpty, Listed
<1> QED BY <1>1, <1>3, <1>4

\* The part of the invariant about the list and the backlogs.
KeptInv == ListInv /\ FirstTimestamp /\ RemovedIsEmpty

LEMMA StepKept == ASSUME IInv, NEW x \in Thread, Step(x) PROVE KeptInv'
<1> DEFINE t == call[x].t
<1>0. /\ TypeInv /\ FrameInv /\ FrameOf(x) /\ ListInv /\ FirstTimestamp /\ RemovedIsEmpty
      /\ Sender \in Thread
  BY ThreadFacts DEF IInv, FrameInv, FrameOf
<1>1. pc[x] \in {"check", "push", "drop", "clear"} /\ t \in Trans
  BY <1>0 DEF Step, Check, Push, Drop, CheckNothing, CheckPop, PushQueued, PushSent, PushFails,
              DropLock, DropRemove, FrameOf
<1>2. ASSUME NEW s, Return(x, s)
      PROVE  /\ pc'[Sender] = pc[Sender] \/ pc'[Sender] \notin {"pull", "append"}
             /\ pc'[Sender] = "append" => pos' = pos
  <2>1. pc' = [pc EXCEPT ![x] = IF x = Sender THEN "flush" ELSE "idle"]
    BY <1>0, <1>2, ReturnTypes
  <2>2. x # Sender => pos' = pos
    BY <1>2 DEF Return
  <2> QED BY <1>0, <2>1, <2>2 DEF TypeInv
<1>3. ASSUME UNCHANGED <<transports, tr_cache, joined, sample, snap>>,
             pc'[Sender] = pc[Sender] \/ pc'[Sender] \notin {"pull", "append"},
             pc'[Sender] = "append" => pos' = pos,
             UNCHANGED <<backlog, first_rtp_timestamp>>
      PROVE  KeptInv'
  <2>1. ListInv'
    BY <1>0, <1>3, ListSame
  <2> QED BY <1>0, <1>3, <2>1 DEF KeptInv, FirstTimestamp, RemovedIsEmpty, Listed
<1>4. CASE CheckNothing(x) \/ PushQueued(x)
  BY <1>2, <1>3, <1>4 DEF CheckNothing, PushQueued
<1>5. CASE PushSent(x) \/ PushFails(x) \/ DropLock(x)
  <2>1. \E l \in {"check", "drop", "clear"} : pc' = [pc EXCEPT ![x] = l]
    BY <1>5 DEF PushSent, PushFails, DropLock
  <2>2. pc'[Sender] = pc[Sender] \/ pc'[Sender] \notin {"pull", "append"}
    BY <1>0, <2>1 DEF TypeInv
  <2> QED BY <1>3, <1>5, <2>2 DEF PushSent, PushFails, DropLock, streamVars, senderVars, backlogVars
<1>6. CASE CheckPop(x)
  <2>1. /\ UNCHANGED <<transports, tr_cache, joined, sample, snap, pos>>
        /\ pc' = [pc EXCEPT ![x] = "push"] /\ backlog_pop(t) /\ backlog[t] # <<>>
    BY <1>6 DEF CheckPop, Ready, streamVars, senderVars
  <2>2. pc'[Sender] = pc[Sender] \/ pc'[Sender] \notin {"pull", "append"}
    BY <1>0, <2>1 DEF TypeInv
  <2>3. ListInv'
    BY <1>0, <2>1, <2>2, ListSame
  <2>4. FirstTimestamp' /\ RemovedIsEmpty'
    BY <1>0, <1>1, <2>1, PopIs
  <2> QED BY <2>3, <2>4 DEF KeptInv
<1>7. CASE DropRemove(x)
  <2>1. /\ ListRemove(t) /\ Return(x, signalled) /\ UNCHANGED <<joined, snap, sample>>
        /\ pc[x] = "clear"
    BY <1>7 DEF DropRemove
  <2>2. /\ FirstTimestamp' /\ RemovedIsEmpty'
        /\ IsInjective(transports') /\ Range(transports') = Range(transports) \ {t}
        /\ tr_cache' \in {Stale, transports'}
    BY <1>0, <1>1, <2>1, RemoveIs
  <2>3. pc'[Sender] \notin {"pull", "append"}
    <3>1. lock = x
      BY <1>0, <2>1 DEF FrameOf
    <3>2. x # Sender => pc[Sender] \notin {"pull", "append"}
      BY <1>0, <3>1 DEF FrameInv
    <3>3. pc' = [pc EXCEPT ![x] = IF x = Sender THEN "flush" ELSE "idle"]
      BY <1>0, <2>1, ReturnTypes
    <3> QED BY <1>0, <3>2, <3>3 DEF TypeInv
  <2>4. joined' # "yes" => transports' = <<>>
    <3>1. SUFFICES ASSUME transports = <<>> PROVE transports' = <<>>
      BY <1>0, <2>1 DEF ListInv
    <3>2. ~Listed(t)
      BY <3>1 DEF Listed, Range
    <3> QED BY <2>1, <3>1, <3>2 DEF ListRemove
  <2> QED BY <2>2, <2>3, <2>4 DEF KeptInv, ListInv
<1> QED BY <1>4, <1>5, <1>6, <1>7 DEF Step, Check, Push, Drop

LEMMA ClientKept ==
    ASSUME IInv, NEW t \in Trans, AddTransport(t) \/ RemoveTransport(t) \/ message_sent(t)
    PROVE  KeptInv'
<1>0. /\ TypeInv /\ FrameInv /\ ListInv /\ FirstTimestamp /\ RemovedIsEmpty
      /\ Sender \in Thread /\ t \in Thread /\ t # Sender /\ None \notin Thread
  BY ThreadFacts DEF IInv
<1>1. ASSUME AddTransport(t) PROVE KeptInv'
  <2>1. lock = None /\ joined = "yes" /\ ListAdd(t)
        /\ UNCHANGED <<joined, sample, snap, pos, pc, backlog, first_rtp_timestamp>>
    BY <1>1 DEF AddTransport, backlogVars, senderVars
  <2>2. pc[Sender] \notin {"pull", "append"}
    BY <1>0, <2>1 DEF FrameInv
  <2>3. CASE Listed(t)
    BY <1>0, <2>1, <2>3 DEF ListAdd, KeptInv, ListInv, FirstTimestamp, RemovedIsEmpty, Listed
  <2>4. CASE ~Listed(t)
    <3>1. transports' = <<t>> \o transports /\ tr_cache' = Stale
      BY <2>1, <2>4 DEF ListAdd
    <3>2. IsInjective(transports') /\ Range(transports') = Range(transports) \cup {t}
      BY <1>0, <2>4, <3>1, PrependIs DEF TypeInv, ListInv, Listed
    <3> QED BY <1>0, <2>1, <2>2, <3>1, <3>2
            DEF KeptInv, ListInv, FirstTimestamp, RemovedIsEmpty, Listed
  <2> QED BY <2>3, <2>4
<1>2. ASSUME RemoveTransport(t) \/ message_sent(t) PROVE KeptInv'
  <2>1. /\ UNCHANGED <<transports, tr_cache, joined, sample, snap, pos>>
        /\ UNCHANGED <<backlog, first_rtp_timestamp>>
        /\ \E l \in {"drop", "check"} : pc' = [pc EXCEPT ![t] = l]
    BY <1>2 DEF RemoveTransport, message_sent, streamVars, senderVars, backlogVars
  <2>2. pc'[Sender] = pc[Sender]
    BY <1>0, <2>1 DEF TypeInv
  <2>3. ListInv'
    BY <1>0, <2>1, <2>2, ListSame
  <2> QED BY <1>0, <2>1, <2>3 DEF KeptInv, FirstTimestamp, RemovedIsEmpty, Listed
<1> QED BY <1>1, <1>2

LEMMA SendKept == ASSUME IInv, Send PROVE KeptInv'
<1>0. /\ TypeInv /\ FrameInv /\ ListInv /\ FirstTimestamp /\ RemovedIsEmpty
      /\ Sender \in Thread /\ None \notin Thread
  BY ThreadFacts DEF IInv
<1>1. ASSUME UNCHANGED <<transports, backlog, first_rtp_timestamp>>, ListInv'
      PROVE  KeptInv'
  BY <1>0, <1>1 DEF KeptInv, FirstTimestamp, RemovedIsEmpty, Listed
<1>2. CASE SendLoop
  <2>1. pc'[Sender] \notin {"pull", "append"}
    BY <1>0, <1>2 DEF SendLoop, TypeInv
  <2>2. ListInv'
    BY <1>0, <1>2, <2>1, ListSame DEF SendLoop, senderVars
  <2> QED BY <1>1, <1>2, <2>2 DEF SendLoop, backlogVars
<1>3. CASE SendPick
  <2>1. /\ UNCHANGED <<transports, joined, sample, snap, pos, backlog, first_rtp_timestamp>>
        /\ \/ tr_cache' = tr_cache /\ pc' = [pc EXCEPT ![Sender] = "idle"]
           \/ /\ tr_cache' = ensure_cached_transports
              /\ pc' = [pc EXCEPT ![Sender] = "idle"] \/ pc' = [pc EXCEPT ![Sender] = "pull"]
    BY <1>3 DEF SendPick, backlogVars
  <2>2. ensure_cached_transports = transports
    BY <1>0 DEF ensure_cached_transports, ListInv
  <2>3. pc'[Sender] \in {"idle", "pull"} /\ (pc'[Sender] = "pull" => tr_cache' = transports)
    BY <1>0, <2>1, <2>2 DEF TypeInv
  <2>4. ListInv'
    BY <1>0, <2>1, <2>2, <2>3 DEF ListInv
  <2> QED BY <1>1, <2>1, <2>4
<1>4. CASE SendPull
  <2>1. /\ UNCHANGED <<transports, tr_cache, joined, backlog, first_rtp_timestamp>>
        /\ pc[Sender] = "pull" /\ pc' = [pc EXCEPT ![Sender] = "append"]
        /\ snap' = tr_cache /\ sample' = Head(appsink[idx]) /\ appsink[idx] # <<>>
    BY <1>4 DEF SendPull, streamVars, backlogVars
  <2>2. Head(appsink[idx]) \in Item
    <3>1. appsink[idx] \in Seq(Item)
      BY <1>0 DEF TypeInv
    <3> QED BY <2>1, <3>1, TailIs
  <2>3. snap' = transports /\ pc'[Sender] = "append"
    BY <1>0, <2>1 DEF ListInv, TypeInv
  <2>4. \A k \in DOMAIN snap' : snap'[k] \in Range(transports')
    BY <2>1, <2>3 DEF Range
  <2>5. ListInv'
    BY <1>0, <2>1, <2>2, <2>3, <2>4 DEF ListInv, Listed
  <2> QED BY <1>1, <2>1, <2>5
<1>5. CASE SendPullNone \/ SendUnlock
  <2>1. /\ UNCHANGED <<transports, tr_cache, joined, backlog, first_rtp_timestamp>>
        /\ pc' = [pc EXCEPT ![Sender] = "idle"] \/ pc' = [pc EXCEPT ![Sender] = "flush"]
    BY <1>5 DEF SendPullNone, SendUnlock, backlogVars
  <2>2. pc'[Sender] \notin {"pull", "append"}
    BY <1>0, <2>1 DEF TypeInv
  <2>3. ListInv'
    BY <1>0, <2>1, <2>2 DEF ListInv
  <2> QED BY <1>1, <2>1, <2>3
<1>6. CASE SendFlush
  <2>1. /\ UNCHANGED <<transports, tr_cache, joined, backlog, first_rtp_timestamp>>
        /\ pc' = [pc EXCEPT ![Sender] = "idle"] \/ pc' = [pc EXCEPT ![Sender] = "check"]
    BY <1>6 DEF SendFlush, backlogVars, streamVars
  <2>2. pc'[Sender] \notin {"pull", "append"}
    BY <1>0, <2>1 DEF TypeInv
  <2>3. ListInv'
    BY <1>0, <2>1, <2>2 DEF ListInv
  <2> QED BY <1>1, <2>1, <2>3
<1>7. CASE SendAppend
  <2> DEFINE t == snap[pos]
  <2>1. /\ pc[Sender] = "append" /\ pos \in DOMAIN snap /\ pos' = pos + 1
        /\ UNCHANGED <<joined, sample, snap, pc>>
        /\ IF Overflows(t, sample) THEN ListRemove(t)
           ELSE backlog_push(t, sample) /\ UNCHANGED <<transports, tr_cache>>
    BY <1>0, <1>7 DEF SendAppend, TypeInv
  <2>2. /\ t \in Trans /\ sample \in Item /\ Listed(t) /\ IsInjective(snap)
        /\ Range(transports) \subseteq Range(snap)
        /\ \A k \in DOMAIN snap : k >= pos => Listed(snap[k])
        /\ pos \in Nat /\ \A k \in DOMAIN snap : k \in Nat
    BY <1>0, <2>1 DEF ListInv, TypeInv
  <2> HIDE DEF t
  <2>3. /\ FirstTimestamp' /\ RemovedIsEmpty'
        /\ IsInjective(transports') /\ tr_cache' \in {Stale, transports'}
        /\ Range(transports') \subseteq Range(transports)
        /\ \A u \in Range(transports) : u # t => u \in Range(transports')
    <3>1. CASE Overflows(t, sample)
      BY <1>0, <2>1, <2>2, <3>1, RemoveIs
    <3>2. CASE ~Overflows(t, sample)
      BY <1>0, <2>1, <2>2, <3>2, PushIs DEF ListInv
    <3> QED BY <3>1, <3>2
  <2>4. \A k \in DOMAIN snap : k >= pos + 1 => snap[k] # t
    <3> SUFFICES ASSUME NEW k \in DOMAIN snap, k >= pos + 1 PROVE snap[k] # t
      OBVIOUS
    <3>1. k # pos
      BY <2>2
    <3> QED BY <2>1, <2>2, <3>1 DEF IsInjective, t
  <2>5. \A k \in DOMAIN snap' : k >= pos' => snap'[k] \in Range(transports')
    <3> SUFFICES ASSUME NEW k \in DOMAIN snap, k >= pos + 1 PROVE snap[k] \in Range(transports')
      BY <2>1
    <3>1. k >= pos
      BY <2>2
    <3> QED BY <2>2, <2>3, <2>4, <3>1 DEF Listed
  <2>6. joined' # "yes" => transports' = <<>>
    <3>1. transports # <<>>
      BY <2>2 DEF Listed, Range
    <3> QED BY <1>0, <2>1, <3>1 DEF ListInv
  <2>7. ListInv'
    BY <1>0, <2>1, <2>2, <2>3, <2>5, <2>6 DEF ListInv, Listed
  <2> QED BY <2>3, <2>7 DEF KeptInv
<1> QED BY <1>2, <1>3, <1>4, <1>5, <1>6, <1>7 DEF Send

LEMMA PipeKept == ASSUME IInv, PipeStep PROVE KeptInv'
<1>0. /\ TypeInv /\ FrameInv /\ ListInv /\ FirstTimestamp /\ RemovedIsEmpty
      /\ Sender \in Thread /\ None \notin Thread
  BY ThreadFacts DEF IInv
<1>1. UNCHANGED <<transports, backlog, first_rtp_timestamp, pc, sample, snap, pos>>
  BY DEF PipeStep, NewSample, handle_new_sample, SeekBlock, SeekFlush, SeekDone, LeaveStop,
         LeaveBin, JoinBin, streamVars, backlogVars, senderVars
<1>2. FirstTimestamp' /\ RemovedIsEmpty'
  BY <1>0, <1>1 DEF FirstTimestamp, RemovedIsEmpty, Listed
<1>3. \/ UNCHANGED <<tr_cache, joined>>
      \/ transports = <<>> /\ tr_cache' = tr_cache
      \/ lock = None /\ joined = "leaving" /\ tr_cache' \in {Stale, <<>>}
      \/ joined' = "yes" /\ tr_cache' = tr_cache
  BY DEF PipeStep, NewSample, handle_new_sample, SeekBlock, SeekFlush, SeekDone, LeaveStop,
         LeaveBin, JoinBin, streamVars
<1>4. CASE UNCHANGED <<tr_cache, joined>>
  BY <1>0, <1>1, <1>2, <1>4, ListSame DEF KeptInv
<1>5. CASE transports = <<>> /\ tr_cache' = tr_cache
  BY <1>0, <1>1, <1>2, <1>5 DEF KeptInv, ListInv, Listed
<1>6. CASE lock = None /\ joined = "leaving" /\ tr_cache' \in {Stale, <<>>}
  <2>1. pc[Sender] \notin {"pull", "append"} /\ transports = <<>>
    BY <1>0, <1>6 DEF FrameInv, ListInv
  <2> QED BY <1>0, <1>1, <1>2, <1>6, <2>1 DEF KeptInv, ListInv
<1>7. CASE joined' = "yes" /\ tr_cache' = tr_cache
  BY <1>0, <1>1, <1>2, <1>7 DEF KeptInv, ListInv, Listed
<1> QED BY <1>3, <1>4, <1>5, <1>6, <1>7

LEMMA InitInv == Init => IInv
<1> SUFFICES ASSUME Init PROVE IInv
  OBVIOUS
<1>1. <<>> \in Seq(Item) /\ <<>> \in Seq(Trans) /\ Sender \in Thread
  BY ThreadFacts
<1>2. TypeInv
  <2>1. /\ backlog \in [Trans -> Seq(Item)] /\ appsink \in [Channel -> Seq(Item)]
        /\ first_rtp_timestamp \in [Trans -> Nat \cup {None}]
        /\ backlog_lock \in [Trans -> Thread \cup {None}]
        /\ data_seq \in [Trans -> SUBSET Channel] /\ broken \in [Trans -> BOOLEAN]
        /\ given \in [Trans -> Item \cup {None}] /\ samples \in [Channel -> Nat]
    BY <1>1 DEF Init
  <2>2. /\ pc \in [Thread -> {"idle", "check", "push", "drop", "clear", "pick", "pull",
                              "append", "flush"}]
        /\ call \in [Thread -> Calls]
    BY ThreadFacts DEF Init
  <2>3. /\ lock = None /\ joined = "yes" /\ transports = <<>> /\ send_thread = "none"
        /\ snap = <<>> /\ pos = 1 /\ idx = "rtp" /\ sample = None
        /\ clock = 0 /\ seeks = 0 /\ joins = 0 /\ aborted = FALSE
    BY DEF Init
  <2>4. /\ lock \in Thread \cup {None} /\ sample \in Item \cup {None}
        /\ transports \in Seq(Trans) /\ snap \in Seq(Trans) /\ idx \in Channel
    BY <1>1, <2>3, ThreadFacts
  <2>5. pos \in Nat \ {0} /\ clock \in Nat /\ seeks \in Nat /\ joins \in Nat
    BY <2>3
  <2>6. /\ joined \in {"yes", "leaving", "no"} /\ send_thread \in {"none", "running", "ended"}
        /\ aborted \in BOOLEAN
    BY <2>3
  <2> QED BY <2>1, <2>2, <2>4, <2>5, <2>6 DEF TypeInv
<1>3. FrameInv
  BY DEF Init, FrameInv, NoCall
<1>4. ListInv
  BY <1>1 DEF Init, ListInv, IsInjective
<1>5. FirstTimestamp /\ RemovedIsEmpty
  BY EmptyOrder DEF Init, FirstTimestamp, RemovedIsEmpty
<1> QED BY <1>2, <1>3, <1>4, <1>5 DEF IInv

LEMMA NextInv == IInv /\ [Next]_vars => IInv'
<1>1. ASSUME IInv, Next PROVE IInv'
  <2>1. TypeInv' /\ FrameInv' /\ KeptInv'
    BY <1>1, NextIs, StepTypes, StepFrames, StepKept, ClientTypes, ClientFrames, ClientKept,
       SendTypes, SendFrames, SendKept, PipeTypes, PipeFrames, PipeKept DEF PipeStep
  <2> QED BY <2>1 DEF IInv, KeptInv
<1>2. ASSUME IInv, UNCHANGED vars PROVE IInv'
  <2>1. TypeInv' /\ FrameInv'
    BY <1>2 DEF IInv, vars, streamVars, backlogVars, clientVars, senderVars, pipeVars, TypeInv,
                FrameInv
  <2>2. ListInv' /\ FirstTimestamp' /\ RemovedIsEmpty'
    BY <1>2 DEF IInv, vars, streamVars, backlogVars, clientVars, senderVars, pipeVars, ListInv,
                FirstTimestamp, RemovedIsEmpty, Listed
  <2> QED BY <2>1, <2>2 DEF IInv
<1> QED BY <1>1, <1>2

-----------------------------------------------------------------------------
\* As long as nobody seeks.

LEMMA EarlierOrder ==
    ASSUME NEW b \in Seq(Item), NEW T \in SUBSET Nat, NEW U \in SUBSET Nat, InOrder(b, T),
           \A u \in U : \E v \in T : v <= u
    PROVE  InOrder(b, U)
<1>1. ASSUME NEW u \in U PROVE Until(b, u)
  <2>1. PICK v \in T : v <= u
    OBVIOUS
  <2>2. Until(b, v)
    BY DEF InOrder
  <2>3. \A k \in DOMAIN b : b[k].ts \in Nat
    <3>1. \A k \in DOMAIN b : b[k] \in Item
      OBVIOUS
    <3> QED BY <3>1, ThreadFacts
  <2> QED BY <2>1, <2>2, <2>3 DEF Until
<1> QED BY <1>1 DEF InOrder

LEMMA PopOrder ==
    ASSUME NEW b \in Seq(Item), b # <<>>, NEW T, InOrder(b, T)
    PROVE  InOrder(Tail(b), T)
BY TailOrder DEF InOrder

LEMMA PushOrder ==
    ASSUME NEW b \in Seq(Item), NEW i \in Item, NEW T, InOrder(b, T),
           IsRtp(i) => i.ts \in T /\ \A time \in T : i.ts <= time,
           ~(/\ IsRtp(i) /\ get_first_backlog_timestamp(b) # None
             /\ i.ts - get_first_backlog_timestamp(b) > MAX_BACKLOG_DURATION
             /\ Len(b) + 1 > MAX_BACKLOG_SIZE)
    PROVE  InOrder(Append(b, i), T)
<1>1. Sorted(b) /\ Bounded(b) /\ \A time \in T : Until(b, time)
  BY DEF InOrder
<1>2. Bounded(Append(b, i))
  BY <1>1, AppendBounded
<1>3. IsRtp(i) => Until(b, i.ts)
  BY <1>1
<1>4. Sorted(Append(b, i))
  BY <1>1, <1>3, AppendOrder
<1>5. \A time \in T : Until(Append(b, i), time)
  BY <1>1, AppendOrder
<1> QED BY <1>2, <1>4, <1>5 DEF InOrder

LEMMA FollowingType == TypeInv /\ ListInv => Following \in SUBSET Nat
<1> SUFFICES ASSUME TypeInv, ListInv PROVE Following \in SUBSET Nat
  OBVIOUS
<1>1. \A k \in DOMAIN appsink["rtp"] : appsink["rtp"][k].ts \in Nat
  <2>1. appsink["rtp"] \in Seq(Item)
    BY ThreadFacts DEF TypeInv
  <2>2. \A k \in DOMAIN appsink["rtp"] : appsink["rtp"][k] \in Item
    BY <2>1
  <2> QED BY <2>2, ThreadFacts
<1>2. Appending => sample.ts \in Nat
  <2>1. Appending => sample \in Item
    BY DEF Appending, ListInv
  <2> QED BY <2>1, ThreadFacts
<1> QED BY <1>1, <1>2 DEF Following, TypeInv

LEMMA FollowingNext == TypeInv' /\ ListInv' => Following' \in SUBSET Nat
<1>1. (TypeInv /\ ListInv => Following \in SUBSET Nat)'
  BY FollowingType, PTL
<1> QED BY <1>1

\* Steps that leave the backlogs and the samples alone.
LEMMA OrderSame ==
    ASSUME OrderInv, UNCHANGED <<seeks, aborted, blocked, appsink, clock, sample>>,
           Appending' <=> Appending,
           \A t \in Trans : \A T : InOrder(backlog[t], T) => InOrder(backlog'[t], T)
    PROVE  OrderInv'
<1>1. Following' = Following
  BY DEF Following
<1> QED BY <1>1 DEF OrderInv

LEMMA SameOrder ==
    ASSUME backlog' = backlog
    PROVE  \A t \in Trans : \A T : InOrder(backlog[t], T) => InOrder(backlog'[t], T)
OBVIOUS

LEMMA EmptyInOrder == \A T : InOrder(<<>>, T)
BY EmptyOrder DEF InOrder

LEMMA StepOrder == ASSUME StreamInv, NEW x \in Thread, Step(x) PROVE OrderInv'
<1> DEFINE t == call[x].t
<1>0. /\ TypeInv /\ FrameInv /\ FrameOf(x) /\ ListInv /\ FirstTimestamp /\ RemovedIsEmpty
      /\ OrderInv /\ Sender \in Thread
  BY ThreadFacts DEF StreamInv, IInv, FrameInv, FrameOf
<1>1. pc[x] \in {"check", "push", "drop", "clear"} /\ t \in Trans
  BY <1>0 DEF Step, Check, Push, Drop, CheckNothing, CheckPop, PushQueued, PushSent, PushFails,
              DropLock, DropRemove, FrameOf
<1>2. UNCHANGED <<seeks, aborted, blocked, appsink, clock, sample>>
  BY DEF Step, Check, Push, Drop, CheckNothing, CheckPop, PushQueued, PushSent, PushFails,
         DropLock, DropRemove, streamVars, pipeVars, senderVars
<1>3. \E l \in {"check", "push", "drop", "clear", "flush", "idle"} : pc' = [pc EXCEPT ![x] = l]
  <2>1. ASSUME NEW s, Return(x, s) PROVE pc' = [pc EXCEPT ![x] = IF x = Sender THEN "flush" ELSE "idle"]
    BY <1>0, <2>1, ReturnTypes
  <2> QED BY <2>1 DEF Step, Check, Push, Drop, CheckNothing, CheckPop, PushQueued, PushSent,
                      PushFails, DropLock, DropRemove
<1>4. Appending' <=> Appending
  BY <1>0, <1>1, <1>2, <1>3 DEF Appending, TypeInv
<1>5. \A u \in Trans : \A T : InOrder(backlog[u], T) => InOrder(backlog'[u], T)
  <2>1. CASE backlog' = backlog
    BY <2>1, SameOrder
  <2>2. CASE CheckPop(x)
    <3>1. backlog[t] # <<>> /\ backlog_pop(t) /\ transports' = transports
      BY <2>2 DEF CheckPop, Ready, streamVars
    <3>2. backlog'[t] = Tail(backlog[t]) /\ \A u \in Trans : u # t => backlog'[u] = backlog[u]
      BY <1>0, <1>1, <3>1, PopIs
    <3>3. backlog[t] \in Seq(Item)
      BY <1>0, <1>1 DEF TypeInv
    <3> QED BY <3>1, <3>2, <3>3, PopOrder
  <2>3. CASE DropRemove(x)
    <3>1. backlog'[t] = <<>> /\ \A u \in Trans : u # t => backlog'[u] = backlog[u]
      BY <1>0, <1>1, <2>3, RemoveIs DEF DropRemove
    <3> QED BY <3>1, EmptyInOrder
  <2> QED BY <2>1, <2>2, <2>3
          DEF Step, Check, Push, Drop, CheckNothing, PushQueued, PushSent, PushFails, DropLock,
              backlogVars
<1> QED BY <1>0, <1>2, <1>4, <1>5, OrderSame

LEMMA ClientOrder ==
    ASSUME StreamInv, NEW t \in Trans, AddTransport(t) \/ RemoveTransport(t) \/ message_sent(t)
    PROVE  OrderInv'
<1>1. UNCHANGED <<seeks, aborted, blocked, appsink, clock, sample, backlog>>
  BY DEF AddTransport, RemoveTransport, message_sent, streamVars, backlogVars, pipeVars, senderVars
<1>2. pc' = pc \/ \E l \in {"drop", "check"} : pc' = [pc EXCEPT ![t] = l]
  BY DEF AddTransport, RemoveTransport, message_sent
<1>3. pc'[Sender] = pc[Sender]
  BY <1>2, ThreadFacts DEF StreamInv, IInv, TypeInv
<1>4. Appending' <=> Appending
  BY <1>1, <1>3 DEF Appending
<1> QED BY <1>1, <1>4, OrderSame, SameOrder DEF StreamInv

LEMMA SendOrder == ASSUME StreamInv, Send PROVE OrderInv'
<1>0. /\ TypeInv /\ FrameInv /\ ListInv /\ FirstTimestamp /\ RemovedIsEmpty
      /\ OrderInv /\ Sender \in Thread
  BY ThreadFacts DEF StreamInv, IInv
<1>1. CASE SendLoop \/ SendPick \/ SendPullNone \/ SendFlush
  <2>1. UNCHANGED <<seeks, aborted, blocked, appsink, clock, sample, backlog>>
    BY <1>1 DEF SendLoop, SendPick, SendPullNone, SendFlush, streamVars, backlogVars, pipeVars,
                senderVars
  <2>2. /\ pc' = pc \/ \E l \in {"idle", "pick", "pull", "check"} : pc' = [pc EXCEPT ![Sender] = l]
        /\ pc[Sender] \in {"idle", "pick", "pull", "flush"}
    BY <1>1 DEF SendLoop, SendPick, SendPullNone, SendFlush
  <2>3. Appending' <=> Appending
    BY <1>0, <2>1, <2>2 DEF Appending, TypeInv
  <2> QED BY <1>0, <2>1, <2>3, OrderSame, SameOrder
<1>2. CASE SendUnlock
  <2>1. /\ UNCHANGED <<seeks, aborted, blocked, appsink, clock, backlog>>
        /\ pc' = [pc EXCEPT ![Sender] = "flush"]
    BY <1>2 DEF SendUnlock, backlogVars, pipeVars
  <2>2. ~Appending'
    BY <1>0, <2>1 DEF Appending, TypeInv
  <2>3. Following' \subseteq Following
    BY <2>1, <2>2 DEF Following
  <2>4. \A t \in Trans : InOrder(backlog[t], Following) => InOrder(backlog'[t], Following')
    BY <2>1, <2>3 DEF InOrder
  <2> QED BY <1>0, <2>1, <2>2, <2>4 DEF OrderInv
<1>3. CASE SendPull
  <2>1. /\ UNCHANGED <<seeks, aborted, blocked, clock, backlog>>
        /\ pc[Sender] = "pull" /\ appsink[idx] # <<>> /\ sample' = Head(appsink[idx])
        /\ appsink' = [appsink EXCEPT ![idx] = <<>>]
    BY <1>3 DEF SendPull, streamVars, backlogVars
  <2>2. SUFFICES ASSUME seeks = 0 PROVE OrderInv'
    BY <2>1 DEF OrderInv
  <2>3. /\ appsink[idx] \in Seq(Item) /\ sample' = appsink[idx][1] /\ 1 \in DOMAIN appsink[idx]
        /\ idx \in Channel
    <3>1. appsink[idx] \in Seq(Item) /\ idx \in Channel
      BY <1>0 DEF TypeInv
    <3>2. Head(appsink[idx]) = appsink[idx][1] /\ 1 \in DOMAIN appsink[idx]
      BY <2>1, <3>1, TailIs
    <3> QED BY <2>1, <3>1, <3>2
  <2>4. sample'.ch = idx
    BY <1>0, <2>2, <2>3 DEF OrderInv
  <2>5. \A c \in Channel : appsink'[c] = IF c = idx THEN <<>> ELSE appsink[c]
    BY <1>0, <2>1 DEF TypeInv
  <2>6. Appending' => /\ idx = "rtp" /\ Following' = {clock, sample'.ts}
                      /\ sample'.ts \in Following /\ sample'.ts <= clock /\ sample'.ts \in Nat
    <3> SUFFICES ASSUME Appending'
                 PROVE  /\ idx = "rtp" /\ Following' = {clock, sample'.ts}
                        /\ sample'.ts \in Following /\ sample'.ts <= clock /\ sample'.ts \in Nat
      OBVIOUS
    <3>1. idx = "rtp"
      BY <2>4 DEF Appending, IsRtp
    <3>2. appsink'["rtp"] = <<>>
      BY <2>3, <2>5, <3>1
    <3>3. Following' = {clock, sample'.ts}
      BY <2>1, <3>2 DEF Following
    <3>4. sample'.ts <= clock
      BY <1>0, <2>2, <2>3 DEF OrderInv
    <3>5. sample'.ts \in Following
      BY <2>3, <3>1 DEF Following
    <3>6. sample'.ts \in Nat
      BY <1>0, <3>5, FollowingType
    <3> QED BY <3>1, <3>3, <3>4, <3>5, <3>6
  <2>7. Following' \subseteq Following
    <3>1. CASE Appending'
      BY <2>6, <3>1 DEF Following
    <3>2. CASE ~Appending'
      <4>1. appsink'["rtp"] = appsink["rtp"] \/ appsink'["rtp"] = <<>>
        BY <2>5, ThreadFacts
      <4> QED BY <2>1, <3>2, <4>1 DEF Following
    <3> QED BY <3>1, <3>2
  <2>8. \A t \in Trans : InOrder(backlog[t], Following) => InOrder(backlog'[t], Following')
    BY <2>1, <2>7 DEF InOrder
  <2>9. Appending' => \A time \in Following' : sample'.ts <= time
    <3> SUFFICES ASSUME Appending' PROVE \A time \in {clock, sample'.ts} : sample'.ts <= time
      BY <2>6
    <3>1. sample'.ts <= clock /\ sample'.ts \in Nat
      BY <2>6
    <3> QED BY <3>1
  <2>10. \A c \in Channel : \A k \in DOMAIN appsink'[c] :
             appsink'[c][k].ch = c /\ appsink'[c][k].ts <= clock'
    BY <1>0, <2>1, <2>2, <2>5 DEF OrderInv
  <2> QED BY <1>0, <2>1, <2>8, <2>9, <2>10 DEF OrderInv
<1>4. CASE SendAppend
  <2> DEFINE t == snap[pos]
  <2>1. /\ UNCHANGED <<seeks, blocked, appsink, clock, sample, pc>>
        /\ pc[Sender] = "append" /\ pos \in DOMAIN snap
        /\ aborted' = ~PushAsserts(t, sample)
        /\ IF Overflows(t, sample) THEN ListRemove(t)
           ELSE backlog_push(t, sample) /\ UNCHANGED <<transports, tr_cache>>
    BY <1>0, <1>4 DEF SendAppend, TypeInv, pipeVars
  <2>2. SUFFICES ASSUME seeks = 0 PROVE OrderInv'
    BY <2>1 DEF OrderInv
  <2>3. t \in Trans /\ sample \in Item /\ Listed(t) /\ backlog[t] \in Seq(Item)
    BY <1>0, <2>1 DEF ListInv, TypeInv
  <2>4. Following' = Following /\ (Appending' <=> Appending) /\ (Appending <=> IsRtp(sample))
    BY <2>1 DEF Following, Appending
  <2>5. IsRtp(sample) => sample.ts \in Following /\ \A time \in Following : sample.ts <= time
    BY <1>0, <2>2, <2>4 DEF OrderInv, Following
  <2>6. first_rtp_timestamp[t] = get_first_backlog_timestamp(backlog[t])
    BY <1>0, <2>3 DEF FirstTimestamp
  <2>7. InOrder(backlog[t], Following)
    BY <1>0, <2>2, <2>3 DEF OrderInv
  <2> HIDE DEF t
  <2>8. ~aborted'
    <3> SUFFICES ASSUME IsRtp(sample), first_rtp_timestamp[t] # None
                 PROVE  sample.ts >= first_rtp_timestamp[t]
      BY <2>1 DEF PushAsserts
    <3>1. PICK k \in DOMAIN backlog[t] : FirstAt(backlog[t], k) /\ first_rtp_timestamp[t] = backlog[t][k].ts
      BY <2>3, <2>6, FirstStamp
    <3>2. Until(backlog[t], sample.ts)
      BY <2>5, <2>7 DEF InOrder
    <3>3. backlog[t][k].ts <= sample.ts
      BY <3>1, <3>2 DEF Until, FirstAt
    <3>4. backlog[t][k].ts \in Nat /\ sample.ts \in Nat
      <4>1. backlog[t][k] \in Item
        BY <2>3
      <4> QED BY <2>3, <4>1, ThreadFacts
    <3> QED BY <3>1, <3>3, <3>4
  <2>9. \A u \in Trans : InOrder(backlog[u], Following) => InOrder(backlog'[u], Following)
    <3>1. CASE Overflows(t, sample)
      <4>1. backlog'[t] = <<>> /\ \A u \in Trans : u # t => backlog'[u] = backlog[u]
        BY <1>0, <2>1, <2>3, <3>1, RemoveIs
      <4> QED BY <4>1, EmptyInOrder
    <3>2. CASE ~Overflows(t, sample)
      <4>1. /\ backlog'[t] = Append(backlog[t], sample)
            /\ \A u \in Trans : u # t => backlog'[u] = backlog[u]
        BY <1>0, <2>1, <2>3, <3>2, PushIs
      <4>2. InOrder(Append(backlog[t], sample), Following)
        <5>1. ~(/\ IsRtp(sample) /\ get_first_backlog_timestamp(backlog[t]) # None
                /\ sample.ts - get_first_backlog_timestamp(backlog[t]) > MAX_BACKLOG_DURATION
                /\ Len(backlog[t]) + 1 > MAX_BACKLOG_SIZE)
          BY <2>6, <3>2 DEF Overflows
        <5> QED BY <2>3, <2>5, <2>7, <5>1, PushOrder
      <4> QED BY <4>1, <4>2
    <3> QED BY <3>1, <3>2
  <2> QED BY <1>0, <2>1, <2>4, <2>8, <2>9 DEF OrderInv
<1> QED BY <1>1, <1>2, <1>3, <1>4 DEF Send

LEMMA PipeOrder == ASSUME StreamInv, PipeStep PROVE OrderInv'
<1>0. /\ TypeInv /\ OrderInv /\ Sender \in Thread
  BY ThreadFacts DEF StreamInv, IInv
<1>1. UNCHANGED <<backlog, pc, sample, aborted>> /\ (Appending' <=> Appending)
  BY DEF PipeStep, NewSample, handle_new_sample, SeekBlock, SeekFlush, SeekDone, LeaveStop,
         LeaveBin, JoinBin, streamVars, backlogVars, senderVars, Appending
<1>2. CASE SeekBlock
  <2>1. seeks' = seeks + 1
    BY <1>2 DEF SeekBlock
  <2>2. seeks' # 0
    BY <1>0, <2>1 DEF TypeInv
  <2> QED BY <2>2 DEF OrderInv
<1>3. CASE SeekFlush \/ SeekDone
  <2>1. blocked # "no" /\ seeks' = seeks
    BY <1>3 DEF SeekFlush, SeekDone, pipeVars
  <2> QED BY <1>0, <2>1 DEF OrderInv
<1>4. CASE LeaveStop \/ JoinBin \/ \E c \in Channel : handle_new_sample(c)
  <2>1. UNCHANGED <<seeks, blocked, appsink, clock>>
    BY <1>4 DEF LeaveStop, JoinBin, handle_new_sample, pipeVars
  <2> QED BY <1>0, <1>1, <2>1, OrderSame, SameOrder
<1>5. CASE LeaveBin
  <2>1. UNCHANGED <<seeks, blocked, clock>> /\ appsink' = [c \in Channel |-> <<>>]
    BY <1>5 DEF LeaveBin
  <2>2. Following' \subseteq Following
    BY <1>1, <2>1, ThreadFacts DEF Following
  <2>3. \A t \in Trans : InOrder(backlog[t], Following) => InOrder(backlog'[t], Following')
    BY <1>1, <2>2 DEF InOrder
  <2> QED BY <1>0, <1>1, <2>1, <2>2, <2>3 DEF OrderInv
<1>6. ASSUME NEW c \in Channel, NewSample(c) PROVE OrderInv'
  <2> DEFINE i == [ch |-> c, n |-> samples[c] + 1, ts |-> clock]
  <2>1. /\ UNCHANGED <<seeks, blocked>> /\ appsink' = [appsink EXCEPT ![c] = <<i>>]
        /\ clock' = IF c = "rtp" THEN clock + 1 ELSE clock
    BY <1>6 DEF NewSample, streamVars
  <2>2. i.ch = c /\ i.ts = clock
    OBVIOUS
  <2> HIDE DEF i
  <2>3. SUFFICES ASSUME seeks = 0 PROVE OrderInv'
    BY <2>1 DEF OrderInv
  <2>4. \A d \in Channel : appsink'[d] = IF d = c THEN <<i>> ELSE appsink[d]
    BY <1>0, <2>1 DEF TypeInv
  <2>5. clock \in Nat /\ clock' \in Nat /\ clock <= clock'
    BY <1>0, <2>1 DEF TypeInv
  <2>6. TypeInv' /\ ListInv' /\ ListInv
    BY PipeTypes, PipeKept DEF StreamInv, KeptInv, IInv
  <2>7. Following \in SUBSET Nat /\ Following' \in SUBSET Nat
    BY <1>0, <2>6, FollowingType, FollowingNext
  <2>8. \A u \in Following' : \E v \in Following : v <= u
    <3> SUFFICES ASSUME NEW u \in Following' PROVE \E v \in Following : v <= u
      OBVIOUS
    <3>1. CASE u = clock'
      BY <2>5, <3>1 DEF Following
    <3>2. CASE Appending' /\ u = sample'.ts
      <4>1. u \in Following /\ u \in Nat
        BY <1>1, <2>7, <3>2 DEF Following
      <4> QED BY <4>1
    <3>3. CASE \E k \in DOMAIN appsink'["rtp"] : u = appsink'["rtp"][k].ts
      <4>1. CASE c = "rtp"
        <5>1. appsink'["rtp"] = <<i>>
          BY <2>4, <4>1
        <5>2. u = clock
          BY <2>2, <3>3, <5>1
        <5> QED BY <2>5, <5>2 DEF Following
      <4>2. CASE c # "rtp"
        <5>1. appsink'["rtp"] = appsink["rtp"]
          BY <2>4, <4>2, ThreadFacts
        <5>2. u \in Following /\ u \in Nat
          BY <2>7, <3>3, <5>1 DEF Following
        <5> QED BY <5>2
      <4> QED BY <4>1, <4>2
    <3> QED BY <3>1, <3>2, <3>3 DEF Following
  <2>9. \A t \in Trans : InOrder(backlog'[t], Following')
    <3> SUFFICES ASSUME NEW t \in Trans PROVE InOrder(backlog'[t], Following')
      OBVIOUS
    <3>1. backlog[t] \in Seq(Item) /\ InOrder(backlog[t], Following)
      BY <1>0, <2>3 DEF TypeInv, OrderInv
    <3> QED BY <1>1, <2>7, <2>8, <3>1, EarlierOrder
  <2>10. Appending' => \A time \in Following' : sample'.ts <= time
    <3> SUFFICES ASSUME Appending', NEW u \in Following' PROVE sample'.ts <= u
      OBVIOUS
    <3>1. PICK v \in Following : v <= u
      BY <2>8
    <3>2. sample.ts <= v /\ sample' = sample
      BY <1>0, <1>1, <2>3 DEF OrderInv
    <3>3. sample.ts \in Nat /\ u \in Nat /\ v \in Nat
      <4>1. sample.ts \in Following
        BY <1>1 DEF Following
      <4> QED BY <2>7, <4>1
    <3> QED BY <3>1, <3>2, <3>3
  <2>11. \A d \in Channel : \A k \in DOMAIN appsink'[d] :
             appsink'[d][k].ch = d /\ appsink'[d][k].ts <= clock'
    <3> SUFFICES ASSUME NEW d \in Channel, NEW k \in DOMAIN appsink'[d]
                 PROVE  appsink'[d][k].ch = d /\ appsink'[d][k].ts <= clock'
      OBVIOUS
    <3>1. CASE d = c
      BY <2>2, <2>4, <2>5, <3>1
    <3>2. CASE d # c
      <4>1. /\ appsink'[d] = appsink[d] /\ appsink[d][k].ch = d /\ appsink[d][k].ts <= clock
            /\ appsink[d][k] \in Item
        BY <1>0, <2>3, <2>4, <3>2 DEF OrderInv, TypeInv
      <4> QED BY <2>5, <4>1, ThreadFacts
    <3> QED BY <3>1, <3>2
  <2> QED BY <1>0, <1>1, <2>1, <2>9, <2>10, <2>11 DEF OrderInv
<1> QED BY <1>2, <1>3, <1>4, <1>5, <1>6 DEF PipeStep

-----------------------------------------------------------------------------
\* The refinement of Fanout.

Holds(x, t) == pc[x] = "push" /\ call[x].t = t

\* The one thread that has an item of a transport in its hands.
Hands ==
    \A t \in Trans :
        /\ \A x \in Thread : Holds(x, t) => InHand(t) = <<call[x].item>> /\ call[x].item \in Item
        /\ (\A x \in Thread : ~Holds(x, t)) => InHand(t) = <<>>

LEMMA HandsAre == FrameInv => Hands
<1> SUFFICES ASSUME FrameInv, NEW t \in Trans
             PROVE  /\ \A x \in Thread : Holds(x, t) =>
                         InHand(t) = <<call[x].item>> /\ call[x].item \in Item
                    /\ (\A x \in Thread : ~Holds(x, t)) => InHand(t) = <<>>
  BY DEF Hands
<1> DEFINE xs == {x \in Thread : pc[x] = "push" /\ call[x].t = t}
<1>1. InHand(t) = IF xs = {} THEN <<>> ELSE <<call[CHOOSE x \in xs : TRUE].item>>
  BY DEF InHand
<1>2. ASSUME NEW x \in Thread, Holds(x, t)
      PROVE  InHand(t) = <<call[x].item>> /\ call[x].item \in Item
  <2>1. x \in xs
    BY <1>2 DEF Holds
  <2>2. \A y \in xs : y = x
    BY <1>2 DEF FrameInv, Holds
  <2>3. (CHOOSE y \in xs : TRUE) = x
    BY <2>1, <2>2
  <2>4. InHand(t) = <<call[x].item>>
    BY <1>1, <2>1, <2>3
  <2> QED BY <1>2, <2>4 DEF FrameInv, Holds
<1>3. ASSUME \A x \in Thread : ~Holds(x, t) PROVE InHand(t) = <<>>
  BY <1>1, <1>3 DEF Holds
<1> QED BY <1>2, <1>3

LEMMA HandsNext == FrameInv' => Hands'
<1>1. (FrameInv => Hands)'
  BY HandsAre, PTL
<1> QED BY <1>1

\* What a hand holds does not change when the same threads hold the same.
LEMMA HandSame ==
    ASSUME NEW t \in Trans,
           \A x \in Thread : /\ Holds(x, t)' <=> Holds(x, t)
                             /\ Holds(x, t) => call'[x].item = call[x].item
    PROVE  InHand(t)' = InHand(t)
<1> DEFINE xs == {x \in Thread : pc[x] = "push" /\ call[x].t = t}
           ys == {x \in Thread : pc'[x] = "push" /\ call'[x].t = t}
<1>1. /\ InHand(t) = IF xs = {} THEN <<>> ELSE <<call[CHOOSE x \in xs : TRUE].item>>
      /\ InHand(t)' = IF ys = {} THEN <<>> ELSE <<call'[CHOOSE x \in ys : TRUE].item>>
  BY DEF InHand
<1>2. ys = xs /\ \A x \in xs : call'[x].item = call[x].item
  BY DEF Holds
<1>3. xs # {} => (CHOOSE x \in xs : TRUE) \in xs
  OBVIOUS
<1> HIDE DEF xs, ys
<1> QED BY <1>1, <1>2, <1>3

LEMMA HandType == ASSUME Hands, NEW t \in Trans
                  PROVE  InHand(t) = <<>> \/ \E i \in Item : InHand(t) = <<i>>
BY DEF Hands

LEMMA QueueIs ==
    /\ Queue = [t \in Trans |-> Queue[t]] /\ Queue' = [t \in Trans |-> Queue'[t]]
    /\ \A t \in Trans : Queue[t] = InHand(t) \o backlog[t] /\ Queue'[t] = InHand(t)' \o backlog'[t]
BY DEF Queue

LEMMA QueueSame ==
    ASSUME \A t \in Trans : Queue'[t] = Queue[t]
    PROVE  Queue' = Queue
BY QueueIs

\* A queue whose two parts stay is the same.
LEMMA QueueStays ==
    ASSUME NEW u \in Trans, InHand(u)' = InHand(u), backlog'[u] = backlog[u]
    PROVE  Queue'[u] = Queue[u]
BY QueueIs

LEMMA QueueExcept ==
    ASSUME NEW t \in Trans, \A u \in Trans : u # t => Queue'[u] = Queue[u]
    PROVE  Queue' = [Queue EXCEPT ![t] = Queue'[t]]
BY QueueIs

\* The steps of the fan-out.
LEMMA Stutters == ASSUME Queue' = Queue, given' = given PROVE [F!Next]_(F!fanoutVars)
BY DEF F!fanoutVars

LEMMA GiveStep ==
    ASSUME NEW t \in Trans, NEW i \in Item, NEW b \in Seq(Item),
           Queue[t] = <<i>> \o b, Queue'[t] = b,
           \A u \in Trans : u # t => Queue'[u] = Queue[u]
    PROVE  /\ given' = [given EXCEPT ![t] = i] => [F!Next]_(F!fanoutVars)
           /\ given' = given => [F!Next]_(F!fanoutVars)
<1>1. Queue[t] # <<>> /\ Head(Queue[t]) = i /\ Tail(Queue[t]) = b
  BY QueueFacts
<1>2. Queue' = [Queue EXCEPT ![t] = Tail(Queue[t])]
  BY <1>1, QueueExcept
<1>3. given' = [given EXCEPT ![t] = i] => F!Give(t)
  BY <1>1, <1>2 DEF F!Give
<1>4. given' = given => F!Lose(t)
  BY <1>1, <1>2 DEF F!Lose
<1> QED BY <1>3, <1>4 DEF F!Next

LEMMA PutStep ==
    ASSUME NEW t \in Trans, NEW i \in Item, NEW q \in Seq(Item), Queue[t] = q,
           Queue'[t] = Append(q, i), given' = given,
           \A u \in Trans : u # t => Queue'[u] = Queue[u]
    PROVE  [F!Next]_(F!fanoutVars)
<1>1. Append(q, i) # <<>> /\ Append(q, i)[Len(Append(q, i))] = i
  OBVIOUS
<1>2. Queue' = [Queue EXCEPT ![t] = Append(Queue[t], i)]
  BY QueueExcept
<1>3. F!Put(t)
  BY <1>1, <1>2 DEF F!Put
<1> QED BY <1>3 DEF F!Next

LEMMA ClearStep ==
    ASSUME IInv, Hands, NEW t \in Trans, InHand(t)' = InHand(t), backlog'[t] = <<>>, given' = given,
           \A u \in Trans : u # t => Queue'[u] = Queue[u]
    PROVE  [F!Next]_(F!fanoutVars)
<1>1. backlog[t] \in Seq(Item) /\ <<>> \in Seq(Item)
  BY DEF IInv, TypeInv
<1>2. Queue[t] = InHand(t) \o backlog[t] /\ Queue'[t] = InHand(t) \o <<>>
  BY QueueIs
<1>3. \E k \in 0..Len(Queue[t]) : Queue'[t] = SubSeq(Queue[t], 1, k)
  <2>1. CASE InHand(t) = <<>>
    <3>1. Queue[t] = backlog[t] /\ Queue'[t] = <<>>
      BY <1>1, <1>2, <2>1, QueueFacts
    <3>2. SubSeq(Queue[t], 1, 0) = <<>> /\ 0 \in 0..Len(Queue[t])
      BY <1>1, <3>1, QueueFacts
    <3> QED BY <3>1, <3>2
  <2>2. CASE \E i \in Item : InHand(t) = <<i>>
    <3>1. PICK i \in Item : InHand(t) = <<i>>
      BY <2>2
    <3>2. Queue[t] = <<i>> \o backlog[t] /\ Queue'[t] = <<i>>
      <4>1. <<i>> \o <<>> = <<i>>
        OBVIOUS
      <4> QED BY <1>2, <3>1, <4>1
    <3>3. SubSeq(Queue[t], 1, 1) = <<i>>
      BY <1>1, <3>2, QueueFacts
    <3>4. 1 \in 0..Len(Queue[t])
      <4>1. <<i>> \o backlog[t] \in Seq(Item) /\ <<i>> \o backlog[t] # <<>>
        BY <1>1, QueueFacts
      <4> DEFINE q == <<i>> \o backlog[t]
      <4>2. q \in Seq(Item) /\ q # <<>>
        BY <4>1
      <4> HIDE DEF q
      <4>3. 1 \in 0..Len(q)
        BY <4>2
      <4> QED BY <3>2, <4>3 DEF q
    <3> QED BY <3>2, <3>3, <3>4
  <2> QED BY <2>1, <2>2, HandType
<1>4. Queue' = [Queue EXCEPT ![t] = Queue'[t]]
  BY QueueExcept
<1>5. F!Clear(t)
  BY <1>3, <1>4 DEF F!Clear
<1> QED BY <1>5 DEF F!Next

LEMMA StepFanout == ASSUME IInv, FrameInv', NEW x \in Thread, Step(x) PROVE [F!Next]_(F!fanoutVars)
<1>0. /\ TypeInv /\ FrameInv /\ FrameOf(x) /\ ListInv /\ FirstTimestamp /\ RemovedIsEmpty
      /\ Hands /\ Hands'
  BY HandsAre, HandsNext DEF IInv, FrameInv, FrameOf
<1>t. pc[x] \in {"check", "push", "drop", "clear"} /\ call[x].t \in Trans
  BY <1>0 DEF Step, Check, Push, Drop, CheckNothing, CheckPop, PushQueued, PushSent, PushFails,
              DropLock, DropRemove, FrameOf
<1> PICK t \in Trans : t = call[x].t
  BY <1>t
<1>1. t \in Trans /\ t = call[x].t
  OBVIOUS
<1>2. \A y \in Thread : y # x => pc'[y] = pc[y] /\ call'[y] = call[y]
  <2>1. ASSUME NEW s, Return(x, s) PROVE \A y \in Thread : y # x => pc'[y] = pc[y] /\ call'[y] = call[y]
    BY <1>0, <2>1, ReturnTypes DEF TypeInv
  <2>2. CASE CheckNothing(x) \/ PushQueued(x) \/ DropRemove(x)
    BY <2>1, <2>2 DEF CheckNothing, PushQueued, DropRemove
  <2>3. CASE CheckPop(x) \/ PushSent(x) \/ PushFails(x) \/ DropLock(x)
    BY <1>0, <2>3 DEF CheckPop, PushSent, PushFails, DropLock, TypeInv
  <2> QED BY <2>2, <2>3 DEF Step, Check, Push, Drop
<1>3. ASSUME NEW s, Return(x, s) PROVE pc'[x] # "push"
  <2>1. x \in DOMAIN pc
    BY <1>0 DEF TypeInv
  <2>2. pc' = [pc EXCEPT ![x] = IF x = Sender THEN "flush" ELSE "idle"]
    BY <1>0, <1>3, ReturnTypes
  <2> QED BY <2>1, <2>2
<1>4. \A y \in Thread, u \in Trans : y # x => /\ Holds(y, u)' <=> Holds(y, u)
                                             /\ call'[y].item = call[y].item
  BY <1>2 DEF Holds
<1>5. ASSUME NEW u \in Trans, Holds(x, u)' <=> Holds(x, u), Holds(x, u) => call'[x].item = call[x].item
      PROVE  InHand(u)' = InHand(u)
  BY <1>4, <1>5, HandSame
<1>6. ASSUME NEW u \in Trans, ~Holds(x, u), ~Holds(x, u)' PROVE InHand(u)' = InHand(u)
  BY <1>5, <1>6
\* The steps of check_transport_backlog that push nothing.
<1>7. CASE CheckNothing(x) \/ DropLock(x)
  <2>1. pc'[x] # "push" /\ pc[x] # "push" /\ backlog' = backlog /\ given' = given
    <3>1. CASE CheckNothing(x)
      BY <1>3, <3>1 DEF CheckNothing, clientVars, backlogVars
    <3>2. CASE DropLock(x)
      BY <1>0, <3>2 DEF DropLock, TypeInv, clientVars, backlogVars
    <3> QED BY <1>7, <3>1, <3>2
  <2>2. \A u \in Trans : InHand(u)' = InHand(u)
    BY <1>6, <2>1 DEF Holds
  <2>3. Queue' = Queue
    <3>1. \A u \in Trans : Queue'[u] = Queue[u]
      BY <2>1, <2>2, QueueStays
    <3> QED BY <3>1, QueueSame
  <2> QED BY <2>1, <2>3, Stutters
<1>8. CASE CheckPop(x)
  <2> DEFINE b == backlog[t]
  <2>1. /\ pc[x] = "check" /\ backlog_lock[t] \in {None, x} /\ b # <<>> /\ backlog_pop(t)
        /\ call' = [call EXCEPT ![x].item = Head(b)] /\ pc' = [pc EXCEPT ![x] = "push"]
        /\ given' = given /\ transports' = transports
    BY <1>8 DEF CheckPop, MayLockBacklog, Ready, clientVars, streamVars
  <2>2. b \in Seq(Item) /\ Head(b) \in Item
    BY <1>0, <1>1, <2>1, TailIs DEF TypeInv
  <2>3. pc'[x] = "push" /\ call'[x].t = t /\ call'[x].item = Head(b)
    BY <1>0, <2>1, <2>2 DEF TypeInv, Calls
  <2>4. backlog'[t] = Tail(b) /\ \A u \in Trans : u # t => backlog'[u] = backlog[u]
    BY <1>0, <1>1, <2>1, PopIs
  <2>5. \A y \in Thread : ~Holds(y, t)
    BY <1>0, <2>1, ThreadFacts DEF Holds, FrameInv
  <2>6. InHand(t) = <<>>
    BY <1>0, <1>1, <2>5 DEF Hands
  <2>7. InHand(t)' = <<Head(b)>>
    BY <1>0, <1>1, <2>3 DEF Hands, Holds
  <2>8. \A u \in Trans : u # t => InHand(u)' = InHand(u)
    BY <1>6, <2>1, <2>3 DEF Holds
  <2>9. Queue'[t] = Queue[t]
    <3>1. Queue'[t] = <<Head(b)>> \o Tail(b)
      BY <2>4, <2>7, QueueIs
    <3>2. Queue[t] = <<>> \o b
      BY <2>6, QueueIs
    <3> HIDE DEF b
    <3> QED BY <2>1, <2>2, <3>1, <3>2, QueueFacts
  <2>10. \A u \in Trans : u # t => Queue'[u] = Queue[u]
    BY <2>4, <2>8, QueueStays
  <2>11. Queue' = Queue
    BY <2>9, <2>10, QueueSame
  <2> QED BY <2>1, <2>11, Stutters
\* The item leaves the hands of x, which goes on with something else.
<1>9. ASSUME pc[x] = "push", pc'[x] # "push", backlog' = backlog
      PROVE  /\ given' = [given EXCEPT ![t] = call[x].item] => [F!Next]_(F!fanoutVars)
             /\ given' = given => [F!Next]_(F!fanoutVars)
  <2>1. Holds(x, t) /\ backlog_lock[t] = x /\ call[x].item \in Item
    BY <1>0, <1>9 DEF Holds, FrameOf
  <2>2. InHand(t) = <<call[x].item>>
    BY <1>0, <1>1, <2>1 DEF Hands
  <2>3. \A y \in Thread : ~Holds(y, t)'
    <3>1. ASSUME NEW y \in Thread, y # x PROVE ~Holds(y, t)
      BY <1>0, <2>1, <3>1 DEF Holds, FrameInv
    <3> QED BY <1>1, <1>4, <1>9, <3>1 DEF Holds
  <2>4. InHand(t)' = <<>>
    BY <1>0, <1>1, <2>3 DEF Hands
  <2>5. \A u \in Trans : u # t => InHand(u)' = InHand(u)
    BY <1>6, <1>9 DEF Holds
  <2>6. backlog[t] \in Seq(Item)
    BY <1>0, <1>1 DEF TypeInv
  <2>7. Queue[t] = <<call[x].item>> \o backlog[t] /\ Queue'[t] = backlog[t]
    <3>1. Queue[t] = <<call[x].item>> \o backlog[t]
      BY <1>1, <2>2, QueueIs
    <3>2. Queue'[t] = <<>> \o backlog[t]
      BY <1>9, <2>4, QueueIs
    <3> QED BY <2>6, <3>1, <3>2, QueueFacts
  <2>8. \A u \in Trans : u # t => Queue'[u] = Queue[u]
    BY <1>9, <2>5, QueueStays
  <2> QED BY <1>1, <2>1, <2>6, <2>7, <2>8, GiveStep
<1>10. CASE PushQueued(x) \/ PushSent(x) \/ PushFails(x)
  <2>1. /\ pc[x] = "push" /\ pc'[x] # "push" /\ backlog' = backlog
        /\ given' = given \/ given' = [given EXCEPT ![t] = call[x].item]
    BY <1>0, <1>3, <1>10 DEF PushQueued, PushSent, PushFails, TypeInv, backlogVars
  <2> QED BY <1>9, <2>1
<1>11. CASE DropRemove(x)
  <2>1. pc'[x] # "push" /\ pc[x] # "push" /\ ListRemove(t) /\ given' = given
    BY <1>3, <1>11 DEF DropRemove, clientVars
  <2>2. \A u \in Trans : InHand(u)' = InHand(u)
    BY <1>6, <2>1 DEF Holds
  <2>3. backlog'[t] = <<>> /\ \A u \in Trans : u # t => backlog'[u] = backlog[u]
    BY <1>0, <1>1, <2>1, RemoveIs
  <2>4. \A u \in Trans : u # t => Queue'[u] = Queue[u]
    BY <2>2, <2>3, QueueStays
  <2> QED BY <1>0, <1>1, <2>1, <2>2, <2>3, <2>4, ClearStep
<1> QED BY <1>7, <1>8, <1>10, <1>11 DEF Step, Check, Push, Drop

\* Steps that leave the backlogs and what threads hold alone.
LEMMA QuietFanout ==
    ASSUME backlog' = backlog, given' = given,
           \A x \in Thread : \/ pc'[x] = pc[x] /\ call'[x] = call[x]
                             \/ pc[x] # "push" /\ pc'[x] # "push"
    PROVE  [F!Next]_(F!fanoutVars)
<1>1. \A u \in Trans : InHand(u)' = InHand(u)
  <2> SUFFICES ASSUME NEW u \in Trans PROVE InHand(u)' = InHand(u)
    OBVIOUS
  <2>1. \A x \in Thread : /\ Holds(x, u)' <=> Holds(x, u)
                          /\ Holds(x, u) => call'[x].item = call[x].item
    BY DEF Holds
  <2> QED BY <2>1, HandSame
<1>2. Queue' = Queue
  BY <1>1, QueueIs, QueueSame
<1> QED BY <1>2, Stutters

LEMMA SendFanout == ASSUME IInv, Send PROVE [F!Next]_(F!fanoutVars)
<1>0. /\ TypeInv /\ FrameInv /\ ListInv /\ FirstTimestamp /\ RemovedIsEmpty /\ Hands
      /\ Sender \in Thread
  BY ThreadFacts, HandsAre DEF IInv
<1>1. CASE SendAppend
  <2> DEFINE t == snap[pos]
  <2>1. /\ UNCHANGED <<pc, call, given, sample>> /\ pc[Sender] = "append" /\ pos \in DOMAIN snap
        /\ IF Overflows(t, sample) THEN ListRemove(t)
           ELSE backlog_push(t, sample) /\ UNCHANGED <<transports, tr_cache>>
    BY <1>0, <1>1 DEF SendAppend, TypeInv, clientVars
  <2>2. t \in Trans /\ sample \in Item /\ Listed(t) /\ backlog[t] \in Seq(Item)
    BY <1>0, <2>1 DEF ListInv, TypeInv
  <2>3. \A u \in Trans : InHand(u)' = InHand(u)
    BY <2>1, HandSame DEF Holds
  <2> HIDE DEF t
  <2>4. CASE Overflows(t, sample)
    <3>1. backlog'[t] = <<>> /\ \A u \in Trans : u # t => backlog'[u] = backlog[u]
      BY <1>0, <2>1, <2>2, <2>4, RemoveIs
    <3>2. \A u \in Trans : u # t => Queue'[u] = Queue[u]
      BY <2>3, <3>1, QueueIs
    <3> QED BY <1>0, <2>1, <2>2, <2>3, <3>1, <3>2, ClearStep
  <2>5. CASE ~Overflows(t, sample)
    <3>1. /\ backlog'[t] = Append(backlog[t], sample)
          /\ \A u \in Trans : u # t => backlog'[u] = backlog[u]
      BY <1>0, <2>1, <2>2, <2>5, PushIs
    <3>2. \A u \in Trans : u # t => Queue'[u] = Queue[u]
      BY <2>3, <3>1, QueueIs
    <3>3. InHand(t) \in Seq(Item)
      <4>1. \A i \in Item : <<i>> \in Seq(Item)
        OBVIOUS
      <4>2. <<>> \in Seq(Item)
        OBVIOUS
      <4> QED BY <1>0, <2>2, <4>1, <4>2, HandType
    <3> DEFINE q == InHand(t) \o backlog[t]
    <3>4. q \in Seq(Item) /\ Queue[t] = q /\ Queue'[t] = Append(q, sample)
      <4>1. q \in Seq(Item)
        BY <2>2, <3>3
      <4>2. InHand(t) \o Append(backlog[t], sample) = Append(q, sample)
        BY <2>2, <3>3, QueueFacts
      <4> QED BY <2>2, <2>3, <3>1, <4>1, <4>2, QueueIs
    <3> HIDE DEF q
    <3> QED BY <2>1, <2>2, <3>2, <3>4, PutStep
  <2> QED BY <2>4, <2>5
<1>2. CASE SendLoop \/ SendPick \/ SendPull \/ SendPullNone \/ SendUnlock \/ SendFlush
  <2>1. /\ backlog' = backlog /\ given' = given
        /\ pc' = pc \/ \E l \in {"idle", "pick", "pull", "append", "check", "flush"} :
                           pc' = [pc EXCEPT ![Sender] = l]
        /\ pc[Sender] # "push"
        /\ \A y \in Thread : y # Sender => call'[y] = call[y]
    BY <1>0, <1>2 DEF SendLoop, SendPick, SendPull, SendPullNone, SendUnlock, SendFlush,
                      clientVars, backlogVars, TypeInv
  <2>2. \A x \in Thread : \/ pc'[x] = pc[x] /\ call'[x] = call[x]
                          \/ pc[x] # "push" /\ pc'[x] # "push"
    BY <1>0, <2>1 DEF TypeInv
  <2> QED BY <2>1, <2>2, QuietFanout
<1> QED BY <1>1, <1>2 DEF Send

LEMMA OtherFanout ==
    ASSUME IInv,
           \/ \E t \in Trans : AddTransport(t) \/ RemoveTransport(t) \/ message_sent(t)
           \/ PipeStep
           \/ UNCHANGED vars
    PROVE  [F!Next]_(F!fanoutVars)
<1>1. CASE \E t \in Trans : RemoveTransport(t) \/ message_sent(t)
  <2>1. PICK t \in Trans : RemoveTransport(t) \/ message_sent(t)
    BY <1>1
  <2>2. /\ backlog' = backlog /\ given' = given /\ pc[t] = "idle"
        /\ \E l \in {"drop", "check"} : pc' = [pc EXCEPT ![t] = l]
        /\ \E c : call' = [call EXCEPT ![t] = c]
    BY <2>1 DEF RemoveTransport, message_sent, backlogVars, clientVars
  <2>3. \A x \in Thread : \/ pc'[x] = pc[x] /\ call'[x] = call[x]
                          \/ pc[x] # "push" /\ pc'[x] # "push"
    BY <2>2 DEF IInv, TypeInv
  <2> QED BY <2>2, <2>3, QuietFanout
<1>2. CASE UNCHANGED <<pc, call, backlog, given>>
  BY <1>2, QuietFanout
<1> QED BY <1>1, <1>2
        DEF AddTransport, PipeStep, NewSample, handle_new_sample, SeekBlock, SeekFlush, SeekDone,
            LeaveStop, LeaveBin, JoinBin, vars, backlogVars, clientVars

-----------------------------------------------------------------------------
\* Theorems.

LEMMA InitOrder == Init => OrderInv
<1> SUFFICES ASSUME Init PROVE OrderInv
  OBVIOUS
<1>1. /\ seeks = 0 /\ aborted = FALSE /\ blocked = "no" /\ backlog = [t \in Trans |-> <<>>]
      /\ appsink = [c \in Channel |-> <<>>] /\ pc = [x \in Thread |-> "idle"]
  BY DEF Init
<1>2. ~Appending
  BY <1>1, ThreadFacts DEF Appending
<1>3. \A t \in Trans : InOrder(backlog[t], Following)
  BY <1>1, EmptyInOrder
<1>4. \A c \in Channel : DOMAIN appsink[c] = {}
  BY <1>1
<1> QED BY <1>1, <1>2, <1>3, <1>4 DEF OrderInv

LEMMA NextStream == StreamInv /\ [Next]_vars => StreamInv'
<1>1. ASSUME StreamInv, Next PROVE OrderInv'
  BY <1>1, NextIs, StepOrder, ClientOrder, SendOrder, PipeOrder DEF PipeStep
<1>2. ASSUME StreamInv, UNCHANGED vars PROVE OrderInv'
  <2>1. /\ UNCHANGED <<seeks, aborted, blocked, appsink, clock, sample, backlog, pc>>
    BY <1>2 DEF vars, streamVars, backlogVars, senderVars, pipeVars
  <2>2. Appending' <=> Appending
    BY <2>1 DEF Appending
  <2> QED BY <1>2, <2>1, <2>2, OrderSame, SameOrder DEF StreamInv
<1> QED BY <1>1, <1>2, NextInv DEF StreamInv

LEMMA InvKept == StreamInv => SamplesKept
<1> SUFFICES ASSUME StreamInv PROVE SamplesKept
  OBVIOUS
<1>1. TypeInv /\ FrameInv /\ ListInv /\ FirstTimestamp /\ RemovedIsEmpty /\ OrderInv
  BY DEF StreamInv, IInv
<1>2. TypeOK
  <2>1. \A t \in Trans : \A k \in DOMAIN backlog[t] : backlog[t][k] \in Item
    <3>1. \A t \in Trans : backlog[t] \in Seq(Item)
      BY <1>1 DEF TypeInv
    <3> QED BY <3>1
  <2>2. Range(transports) \subseteq Trans
    BY <1>1 DEF TypeInv, Range
  <2> QED BY <1>1, <2>1, <2>2 DEF TypeOK, TypeInv, ListInv
<1>3. OneInHand
  BY <1>1 DEF OneInHand, FrameInv
<1>4. BacklogBounded
  <2> SUFFICES ASSUME seeks = 0, NEW t \in Trans, NEW k \in 1..Len(backlog[t]),
                      IsRtp(backlog[t][k]), k > MAX_BACKLOG_SIZE
               PROVE  backlog[t][k].ts - first_rtp_timestamp[t] <= MAX_BACKLOG_DURATION
    BY DEF BacklogBounded
  <2>1. Bounded(backlog[t]) /\ k \in DOMAIN backlog[t]
    BY <1>1 DEF OrderInv, InOrder, TypeInv
  <2> QED BY <1>1, <2>1 DEF Bounded, FirstTimestamp
<1>5. SampleForAll
  BY <1>1 DEF SampleForAll, ListInv
<1>6. OnlySeekAborts
  BY <1>1 DEF OnlySeekAborts, OrderInv
<1> QED BY <1>1, <1>2, <1>3, <1>4, <1>5, <1>6 DEF SamplesKept

(* A sample that is taken from an appsink is kept for each transport that  *)
(* plays; a backlog knows the time of its first RTP item, is empty when its *)
(* transport left, and, as long as nobody seeks, stays within its bounds    *)
(* and asserts nothing false.                                               *)
THEOREM SamplesAreKept == Spec => []SamplesKept
<1>1. Init => StreamInv
  BY InitInv, InitOrder DEF StreamInv
<1> QED BY <1>1, NextStream, InvKept, PTL DEF Spec

LEMMA InitFanout == Init => F!Init
<1> SUFFICES ASSUME Init PROVE F!Init
  OBVIOUS
<1>1. \A t \in Trans : Queue[t] = <<>>
  <2>1. FrameInv
    BY InitInv DEF IInv
  <2>2. \A x \in Thread : pc[x] # "push"
    BY DEF Init
  <2>3. \A t \in Trans : InHand(t) = <<>> /\ backlog[t] = <<>>
    BY <2>1, <2>2, HandsAre DEF Hands, Holds, Init
  <2>4. <<>> \o <<>> = <<>>
    OBVIOUS
  <2> QED BY <2>3, <2>4, QueueIs
<1>2. Queue = [t \in Trans |-> <<>>]
  BY <1>1, QueueIs
<1> QED BY <1>2 DEF F!Init, Init

(* The stream implements the fan-out: whichever thread runs               *)
(* check_transport_backlog, each transport is sent what was queued for it  *)
(* in order, and nothing twice or after it was cleared.                    *)
THEOREM StreamIsFanout == Spec => FanoutSpec
<1>1. IInv /\ IInv' /\ [Next]_vars => [F!Next]_(F!fanoutVars)
  <2>1. ASSUME IInv, FrameInv', Next PROVE [F!Next]_(F!fanoutVars)
    BY <2>1, NextIs, StepFanout, SendFanout, OtherFanout DEF PipeStep
  <2>2. ASSUME IInv, UNCHANGED vars PROVE [F!Next]_(F!fanoutVars)
    BY <2>2, OtherFanout
  <2> QED BY <2>1, <2>2 DEF IInv
<1> QED BY InitInv, InitFanout, NextInv, <1>1, PTL DEF Spec, FanoutSpec, F!Spec
=============================================================================
