----------------------------- MODULE PoolsProofs -----------------------------
(* Theorems about ThreadPool, whose threads are stopped by their last user, *)
(* and about AddressPool, whose ranges are split, held and merged.          *)
EXTENDS ThreadPool, AddressPool, TLAPS, FiniteSetTheorems, SequenceTheorems, WellFoundedInduction

-----------------------------------------------------------------------------
\* The thread pool: the inductive invariant.

\* A thread is alive until its last user stops it; those who use it own it or
\* are about to.
Attaching(t) == \E u \in Users : pc[u] = "attach" /\ thread[u] = t
Alive(t) == loop[t] \in {"pushed", "running"} /\ ~idle[t] /\ ~Attaching(t)
Using(t) == {u \in Users : has[u] = t \/ (pc[u] = "ref" /\ thread[u] = t)}
Stopping(t) == {u \in Users : thread[u] = t /\ pc[u] \in {"attach", "unref"}}

\* Where a caller is says what it has; one caller has the lock over steps.
CallInv ==
    \A u \in Users :
        /\ pc[u] # "idle" => has[u] = None
        /\ thread[u] # None <=> pc[u] \in {"ref", "attach", "unref"}
        /\ pc[u] \in {"retry", "ref"} => lock = u
        /\ pc[u] \in {"lock", "retry", "ref"} => type[u] = "client"

\* One caller attaches the source that quits a loop, once, while it runs.
QuitInv ==
    \A t \in Threads :
        /\ idle[t] => loop[t] \in {"pushed", "running"}
        /\ \A u \in Users : pc[u] = "attach" /\ thread[u] = t =>
               /\ ~idle[t] /\ loop[t] \in {"pushed", "running"}
               /\ \A v \in Users : pc[v] = "attach" /\ thread[v] = t => v = u

\* The user count of a thread that is alive is right, and one that is not
\* alive has no users.
UseInv ==
    \A t \in Threads :
        /\ Alive(t) => reused[t] = Cardinality(Using(t)) /\ reused[t] > 0
        /\ ~Alive(t) => Using(t) = {}

\* A thread in the queue that is not alive cannot be taken for one with users,
\* and is not yet about to be freed.
Queued(t) == \E i \in DOMAIN queue : queue[i] = t

QueueInv ==
    /\ \A i, j \in DOMAIN queue : queue[i] = queue[j] => i = j
    /\ \A t \in Threads : Queued(t) =>
           /\ loop[t] \notin {"none", "left"}
           /\ ~Alive(t) => reused[t] = 0
           /\ \A u \in Users : pc[u] = "ref" => thread[u] # t

CountInv ==
    \A t \in Threads :
        refs[t] = Cardinality(InUse(t)) + Cardinality(Stopping(t))
                  + (IF idle[t] THEN 1 ELSE 0) + (IF loop[t] # "none" THEN 1 ELSE 0)

IInv == TypeOK /\ CallInv /\ QuitInv /\ UseInv /\ QueueInv /\ CountInv


-----------------------------------------------------------------------------
\* Finite sets of users and the queue.

(* Sets of users have a cardinality, and a user more or less changes it by *)
(* one.                                                                    *)
LEMMA Counting ==
    ASSUME NEW S \in SUBSET Users
    PROVE  /\ Cardinality(S) \in Nat
           /\ Cardinality(S) = 0 <=> S = {}
           /\ \A u \in Users \ S : Cardinality(S \cup {u}) = Cardinality(S) + 1
           /\ \A u \in S : Cardinality(S \ {u}) = Cardinality(S) - 1
<1>1. IsFiniteSet(S)
  BY ThreadPoolAssumption, FS_Subset
<1>2. Cardinality(S) \in Nat
  BY <1>1, FS_CardinalityType
<1>3. Cardinality(S) = 0 <=> S = {}
  BY <1>1, FS_EmptySet
<1>4. \A u \in Users \ S : Cardinality(S \cup {u}) = Cardinality(S) + 1
  BY <1>1, FS_AddElement
<1>5. \A u \in S : Cardinality(S \ {u}) = Cardinality(S) - 1
  BY <1>1, FS_RemoveElement
<1> QED BY <1>2, <1>3, <1>4, <1>5

LEMMA Counts ==
    /\ \A t : InUse(t) \in SUBSET Users /\ Using(t) \in SUBSET Users /\ Stopping(t) \in SUBSET Users
    /\ \A t : InUse(t)' \in SUBSET Users /\ Using(t)' \in SUBSET Users /\ Stopping(t)' \in SUBSET Users
BY DEF InUse, Using, Stopping

LEMMA QueueAppend ==
    ASSUME NEW q \in Seq(Threads), NEW t \in Threads
    PROVE  /\ Append(q, t) \in Seq(Threads)
           /\ DOMAIN Append(q, t) = DOMAIN q \cup {Len(q) + 1}
           /\ Len(q) + 1 \notin DOMAIN q
           /\ \A i \in DOMAIN q : Append(q, t)[i] = q[i]
           /\ Append(q, t)[Len(q) + 1] = t
<1>1. Append(q, t) \in Seq(Threads)
  OBVIOUS
<1>2. Len(Append(q, t)) = Len(q) + 1 /\ Len(q) \in Nat /\ DOMAIN q = 1..Len(q)
  OBVIOUS
<1>3. DOMAIN Append(q, t) = 1..(Len(q) + 1)
  BY <1>1, <1>2
<1>4. 1..(Len(q) + 1) = 1..Len(q) \cup {Len(q) + 1}
  BY <1>2
<1> QED BY <1>1, <1>2, <1>3, <1>4

LEMMA QueueTail ==
    ASSUME NEW q \in Seq(Threads), Len(q) > 0
    PROVE  /\ Tail(q) \in Seq(Threads)
           /\ 1 \in DOMAIN q /\ Head(q) = q[1] /\ Head(q) \in Threads
           /\ \A i \in DOMAIN Tail(q) : i + 1 \in DOMAIN q /\ i + 1 # 1 /\ Tail(q)[i] = q[i + 1]
<1>1. Tail(q) \in Seq(Threads) /\ Len(Tail(q)) = Len(q) - 1
  OBVIOUS
<1>2. 1 \in DOMAIN q /\ Head(q) = q[1] /\ Head(q) \in Threads
  OBVIOUS
<1>3. ASSUME NEW i \in DOMAIN Tail(q)
      PROVE  i + 1 \in DOMAIN q /\ i + 1 # 1 /\ Tail(q)[i] = q[i + 1]
  <2>1. i \in 1..(Len(q) - 1)
    BY <1>1
  <2> QED BY <1>1, <2>1
<1> QED BY <1>1, <1>2, <1>3

(* Removing an element of a queue without duplicates removes it for good,  *)
(* and leaves the others once.                                             *)
LEMMA QueueWithout ==
    ASSUME queue \in Seq(Threads), NEW t \in Threads,
           \A i, j \in DOMAIN queue : queue[i] = queue[j] => i = j
    PROVE  /\ WithoutThread(t) \in Seq(Threads)
           /\ \A i \in DOMAIN WithoutThread(t) :
                  /\ WithoutThread(t)[i] # t
                  /\ \E j \in DOMAIN queue : WithoutThread(t)[i] = queue[j]
           /\ \A i, j \in DOMAIN WithoutThread(t) :
                  WithoutThread(t)[i] = WithoutThread(t)[j] => i = j
           /\ Len(WithoutThread(t)) <= Len(queue)
           /\ \A j \in DOMAIN queue : queue[j] # t =>
                  \E i \in DOMAIN WithoutThread(t) : WithoutThread(t)[i] = queue[j]
<1>1. CASE t \notin ToSet(queue)
  BY <1>1 DEF WithoutThread, ToSet
<1>2. CASE t \in ToSet(queue)
  <2> DEFINE k == CHOOSE i \in DOMAIN queue : queue[i] = t
             q == RemoveAt(queue, k)
  <2>1. k \in DOMAIN queue /\ queue[k] = t
    BY <1>2 DEF ToSet
  <2>2. Len(queue) \in Nat /\ DOMAIN queue = 1..Len(queue) /\ k \in 1..Len(queue)
    BY <2>1
  <2> HIDE DEF k
  <2> DEFINE before == SubSeq(queue, 1, k - 1)
             after == SubSeq(queue, k + 1, Len(queue))
  <2>3. /\ before \in Seq(Threads)
        /\ Len(before) = k - 1
        /\ \A i \in 1..(k - 1) : before[i] = queue[i]
    <3>1. \A i \in 1..(k - 1) : queue[i] \in Threads
      BY <2>2
    <3> QED BY <2>2, <3>1, SubSeqProperties, Z3T(20)
  <2>4. /\ after \in Seq(Threads)
        /\ Len(after) = Len(queue) - k
        /\ \A i \in 1..(Len(queue) - k) : after[i] = queue[k + i]
    <3>1. \A i \in (k + 1)..Len(queue) : queue[i] \in Threads
      BY <2>2
    <3>2. /\ SubSeq(queue, k + 1, Len(queue)) \in Seq(Threads)
          /\ Len(SubSeq(queue, k + 1, Len(queue))) = IF k + 1 <= Len(queue) THEN Len(queue) - (k + 1) + 1 ELSE 0
          /\ \A i \in 1..(Len(queue) - (k + 1) + 1) : SubSeq(queue, k + 1, Len(queue))[i] = queue[(k + 1) + i - 1]
      <4>1. k + 1 \in Int /\ Len(queue) \in Int
        BY <2>2
      <4> HIDE DEF before, after
      <4> QED BY <4>1, <3>1, SubSeqProperties
    <3> HIDE DEF before
    <3>3. after \in Seq(Threads) /\ Len(after) = Len(queue) - k
      <4>1. k \in Int /\ Len(queue) \in Int /\ k <= Len(queue)
        BY <2>2
      <4>2. (IF k + 1 <= Len(queue) THEN Len(queue) - (k + 1) + 1 ELSE 0) = Len(queue) - k
        BY <4>1
      <4> QED BY <3>2, <4>2
    <3>4. ASSUME NEW i \in 1..(Len(queue) - k) PROVE after[i] = queue[k + i]
      <4>1. i \in 1..(Len(queue) - (k + 1) + 1) /\ (k + 1) + i - 1 = k + i
        BY <2>2
      <4> QED BY <3>2, <4>1
    <3> QED BY <3>3, <3>4
  <2> HIDE DEF before, after
  <2>5. q = before \o after
    BY DEF RemoveAt, before, after
  <2>6. /\ q \in Seq(Threads)
        /\ Len(q) = Len(queue) - 1
        /\ \A i \in 1..(Len(queue) - 1) : q[i] = IF i < k THEN queue[i] ELSE queue[i + 1]
    <3> HIDE DEF q
    <3>1. /\ q \in Seq(Threads)
          /\ Len(q) = Len(before) + Len(after)
          /\ \A i \in 1..(Len(before) + Len(after)) :
                 q[i] = IF i <= Len(before) THEN before[i] ELSE after[i - Len(before)]
      BY <2>3, <2>4, <2>5, ConcatProperties, ZenonT(40)
    <3>2. Len(q) = Len(queue) - 1
      BY <2>2, <2>3, <2>4, <3>1
    <3>3. ASSUME NEW i \in 1..(Len(queue) - 1), i < k PROVE q[i] = queue[i]
      <4>1. i \in 1..(k - 1) /\ i \in 1..(Len(before) + Len(after)) /\ i <= Len(before)
        BY <2>2, <2>3, <2>4, <3>3
      <4> QED BY <2>3, <3>1, <4>1
    <3>4. ASSUME NEW i \in 1..(Len(queue) - 1), ~(i < k) PROVE q[i] = queue[i + 1]
      <4>1. i - (k - 1) \in 1..(Len(queue) - k) /\ k + (i - (k - 1)) = i + 1
        BY <2>2, <3>4
      <4>2. after[i - (k - 1)] = queue[i + 1]
        BY <2>4, <4>1
      <4> QED BY <2>2, <2>3, <2>4, <3>1, <3>4, <4>2, SMTT(20)
    <3> QED BY <3>1, <3>2, <3>3, <3>4
  <2>7. DOMAIN q = 1..(Len(queue) - 1)
    BY <2>6
  <2> HIDE DEF q
  <2>8. \A i \in DOMAIN q : /\ q[i] # t
                            /\ \E j \in DOMAIN queue : q[i] = queue[j]
    BY <2>1, <2>2, <2>6, <2>7
  <2>9. ASSUME NEW i \in DOMAIN q, NEW j \in DOMAIN q, q[i] = q[j] PROVE i = j
    <3> DEFINE at(x) == IF x < k THEN x ELSE x + 1
    <3>1. \A x \in DOMAIN q : at(x) \in DOMAIN queue /\ q[x] = queue[at(x)]
      BY <2>2, <2>6, <2>7
    <3>2. at(i) = at(j)
      <4> HIDE DEF at
      <4> QED BY <2>9, <3>1
    <3> QED BY <2>2, <2>7, <3>2
  <2>10. WithoutThread(t) = q
    BY <1>2 DEF WithoutThread, q, k
  <2>11. ASSUME NEW j \in DOMAIN queue, queue[j] # t PROVE \E i \in DOMAIN q : q[i] = queue[j]
    <3>1. CASE j < k
      <4>1. j \in DOMAIN q /\ q[j] = queue[j]
        BY <2>2, <2>6, <2>7, <3>1
      <4> QED BY <4>1
    <3>2. CASE ~(j < k)
      <4>1. j - 1 \in DOMAIN q /\ q[j - 1] = queue[j]
        BY <2>1, <2>2, <2>6, <2>7, <2>11, <3>2
      <4> QED BY <4>1
    <3> QED BY <3>1, <3>2
  <2>12. Len(q) <= Len(queue)
    BY <2>2, <2>6
  <2> QED BY <2>6, <2>8, <2>9, <2>10, <2>11, <2>12
<1> QED BY <1>1, <1>2

-----------------------------------------------------------------------------
\* Every step keeps the invariant.

(* Steps that touch no thread: their callers hold none, before and after.  *)
Waiting == {"idle", "pool", "get", "lock", "retry"}

LEMMA QuietSteps ==
    ASSUME IInv, UNCHANGED <<queue, objVars, thread, has>>,
           \A u \in Users : pc'[u] = pc[u] \/ (pc[u] \in Waiting /\ pc'[u] \in Waiting)
    PROVE  QuitInv' /\ UseInv' /\ QueueInv' /\ CountInv'
<1> USE DEF Waiting, objVars
<1>1. \A t : Attaching(t)' = Attaching(t)
  BY DEF Attaching
<1>2. \A t : /\ Using(t)' = Using(t)
             /\ InUse(t)' = InUse(t)
             /\ Stopping(t)' = Stopping(t)
  BY DEF Using, InUse, Stopping
<1>3. \A t : Alive(t)' = Alive(t)
  BY <1>1 DEF Alive
<1>4. QuitInv'
  BY DEF IInv, QuitInv
<1>5. UseInv'
  BY <1>2, <1>3 DEF IInv, UseInv
<1>6. QueueInv'
  BY <1>3 DEF IInv, QueueInv, Queued
<1>7. CountInv'
  BY <1>2 DEF IInv, CountInv
<1> QED BY <1>4, <1>5, <1>6, <1>7

LEMMA InitIInv == Init => IInv
<1> SUFFICES ASSUME Init PROVE IInv
  OBVIOUS
<1>1. TypeOK
  <2>1. queue \in Seq(Threads)
    BY DEF Init
  <2>2. 0 \in Nat
    OBVIOUS
  <2> QED BY <2>1, <2>2 DEF Init, TypeOK
<1>2. CallInv /\ QuitInv
  BY DEF Init, CallInv, QuitInv
<1>3. \A t \in Threads : Using(t) = {} /\ InUse(t) = {} /\ Stopping(t) = {} /\ ~Alive(t)
  BY ThreadPoolAssumption DEF Init, Using, InUse, Stopping, Alive
<1>4. UseInv
  BY <1>3 DEF UseInv
<1>5. QueueInv
  BY DEF Init, QueueInv, Queued
<1>6. CountInv
  <2>1. Cardinality({}) = 0
    BY FS_EmptySet
  <2>2. \A t \in Threads : Cardinality(InUse(t)) = 0 /\ Cardinality(Stopping(t)) = 0
    BY <1>3, <2>1
  <2> QED BY <2>2 DEF Init, CountInv
<1> QED BY <1>1, <1>2, <1>4, <1>5, <1>6 DEF IInv

LEMMA QuietInv ==
    ASSUME IInv,
           \/ \E m \in MaxThreads : set_max_threads(m)
           \/ \E u \in Users : \/ \E ty \in Type : get_thread(u, ty)
                               \/ PoolExchange(u)
                               \/ GetNone(u)
                               \/ GetClient(u)
                               \/ GetLock(u)
                               \/ ThreadError(u)
           \/ cleanup
    PROVE  IInv'
<1> USE DEF Goto, userVars, objVars, histVars
<1>0. TypeOK /\ CallInv
  BY DEF IInv
<1>1. ASSUME NEW m \in MaxThreads, set_max_threads(m) PROVE IInv'
  <2>1. TypeOK' /\ CallInv'
    BY <1>0, <1>1 DEF set_max_threads, TypeOK, CallInv
  <2>2. QuitInv' /\ UseInv' /\ QueueInv' /\ CountInv'
    BY <1>1, QuietSteps DEF set_max_threads
  <2> QED BY <2>1, <2>2 DEF IInv
<1>2. ASSUME NEW u \in Users, NEW ty \in Type, get_thread(u, ty) PROVE IInv'
  <2>1. TypeOK' /\ CallInv'
    BY <1>0, <1>2, ThreadPoolAssumption DEF get_thread, TypeOK, CallInv
  <2>2. QuitInv' /\ UseInv' /\ QueueInv' /\ CountInv'
    BY <1>0, <1>2, QuietSteps DEF get_thread, Waiting, TypeOK
  <2> QED BY <2>1, <2>2 DEF IInv
<1>3. ASSUME NEW u \in Users, PoolExchange(u) PROVE IInv'
  <2>1. TypeOK' /\ CallInv'
    BY <1>0, <1>3 DEF PoolExchange, TypeOK, CallInv
  <2>2. QuitInv' /\ UseInv' /\ QueueInv' /\ CountInv'
    BY <1>0, <1>3, QuietSteps DEF PoolExchange, Waiting, TypeOK
  <2> QED BY <2>1, <2>2 DEF IInv
<1>4. ASSUME NEW u \in Users, GetNone(u) \/ GetClient(u) PROVE IInv'
  <2>1. TypeOK' /\ CallInv'
    BY <1>0, <1>4, ZenonT(40) DEF GetNone, GetClient, TypeOK, CallInv
  <2>2. QuitInv' /\ UseInv' /\ QueueInv' /\ CountInv'
    BY <1>0, <1>4, QuietSteps DEF GetNone, GetClient, Waiting, TypeOK
  <2> QED BY <2>1, <2>2 DEF IInv
<1>5. ASSUME NEW u \in Users, GetLock(u) PROVE IInv'
  <2>1. TypeOK' /\ CallInv'
    BY <1>0, <1>5, ThreadPoolAssumption DEF GetLock, TypeOK, CallInv
  <2>2. QuitInv' /\ UseInv' /\ QueueInv' /\ CountInv'
    BY <1>0, <1>5, QuietSteps DEF GetLock, Waiting, TypeOK
  <2> QED BY <2>1, <2>2 DEF IInv
<1>6. ASSUME NEW u \in Users, ThreadError(u) PROVE IInv'
  <2>1. TypeOK' /\ CallInv'
    BY <1>0, <1>6 DEF ThreadError, CanMake, TypeOK, CallInv
  <2>2. QuitInv' /\ UseInv' /\ QueueInv' /\ CountInv'
    BY <1>0, <1>6, QuietSteps DEF ThreadError, CanMake, Waiting, TypeOK
  <2> QED BY <2>1, <2>2 DEF IInv
<1>7. ASSUME cleanup PROVE IInv'
  <2>1. TypeOK' /\ CallInv'
    BY <1>0, <1>7 DEF cleanup, TypeOK, CallInv
  <2>2. QuitInv' /\ UseInv' /\ QueueInv' /\ CountInv'
    BY <1>7, QuietSteps DEF cleanup
  <2> QED BY <2>1, <2>2 DEF IInv
<1> QED BY <1>1, <1>2, <1>3, <1>4, <1>5, <1>6, <1>7

(* The thread at the head of the queue: if it has users it is alive and    *)
(* gets one more; if it has none the call keeps it out of the queue.       *)
LEMMA RecycleInv == ASSUME IInv, NEW u \in Users, Recycle(u) PROVE IInv'
<1> USE DEF Goto
<1>0. TypeOK /\ CallInv /\ QuitInv /\ UseInv /\ QueueInv /\ CountInv
  BY DEF IInv
<1>a. /\ Len(queue) > 0
      /\ Tail(queue) \in Seq(Threads)
      /\ 1 \in DOMAIN queue /\ Head(queue) = queue[1] /\ Head(queue) \in Threads
      /\ \A i \in DOMAIN Tail(queue) : i + 1 \in DOMAIN queue /\ i + 1 # 1 /\ Tail(queue)[i] = queue[i + 1]
  <2>1. queue \in Seq(Threads) /\ max_threads \in Int
    BY <1>0, ThreadPoolAssumption DEF TypeOK
  <2>2. Len(queue) > 0
    BY <2>1 DEF Recycle, MustRecycle
  <2> QED BY <2>1, <2>2, QueueTail
<1>b. PICK h \in Threads : h = Head(queue)
  BY <1>a
<1>1. /\ Len(queue) > 0
      /\ Tail(queue) \in Seq(Threads)
      /\ 1 \in DOMAIN queue /\ h = queue[1] /\ h \in Threads
      /\ \A i \in DOMAIN Tail(queue) : i + 1 \in DOMAIN queue /\ i + 1 # 1 /\ Tail(queue)[i] = queue[i + 1]
  BY <1>a, <1>b
<1>2. /\ pc[u] = "retry" /\ lock = u /\ has[u] = None /\ thread[u] = None /\ type[u] = "client"
      /\ queue' = Tail(queue)
      /\ reused' = [reused EXCEPT ![h] = @ + 1]
      /\ UNCHANGED <<max_threads, lock, pool, refs, idle, loop, type, has, start_failed, limit>>
  BY <1>0, <1>b DEF Recycle, CallInv, histVars
<1>3. ~Queued(h)' /\ Queued(h) /\ \A t \in Threads : Queued(t)' => Queued(t)
  BY <1>0, <1>1, <1>2 DEF QueueInv, Queued
<1>4. \A i, j \in DOMAIN queue' : queue'[i] = queue'[j] => i = j
  <2>1. \A i \in DOMAIN Tail(queue) : i \in Int
    BY <1>1
  <2> QED BY <1>0, <1>1, <1>2, <2>1 DEF QueueInv
<1>5. CASE reused[h] > 0
  <2>1. thread' = [thread EXCEPT ![u] = h] /\ pc' = [pc EXCEPT ![u] = "ref"]
    BY <1>5, <1>b DEF Recycle, Reusable
  <2>2. Alive(h)
    BY <1>0, <1>3, <1>5 DEF QueueInv
  <2>3. \A t : Attaching(t)' = Attaching(t)
    BY <1>0, <1>2, <2>1 DEF Attaching, TypeOK
  <2>4. \A t : Alive(t)' = Alive(t)
    BY <1>2, <2>3 DEF Alive
  <2>5. \A t : InUse(t)' = InUse(t) /\ Stopping(t)' = Stopping(t)
    BY <1>0, <1>2, <2>1 DEF InUse, Stopping, TypeOK
  <2>6. \A t \in Threads \ {h} : Using(t)' = Using(t)
    BY <1>0, <1>2, <2>1 DEF Using, TypeOK
  <2>7. u \notin Using(h) /\ Using(h)' = Using(h) \cup {u}
    <3>1. u \notin Using(h)
      BY <1>1, <1>2, ThreadPoolAssumption DEF Using
    <3>2. pc'[u] = "ref" /\ thread'[u] = h
      BY <1>0, <2>1 DEF TypeOK
    <3>3. \A v \in Users \ {u} : pc'[v] = pc[v] /\ thread'[v] = thread[v]
      BY <1>0, <2>1 DEF TypeOK
    <3>4. Using(h)' = {v \in Users : has[v] = h \/ (pc'[v] = "ref" /\ thread'[v] = h)}
      BY <1>2 DEF Using
    <3> QED BY <3>1, <3>2, <3>3, <3>4 DEF Using
  <2>8. TypeOK'
    BY <1>0, <1>1, <1>2, <2>1 DEF TypeOK
  <2>9. CallInv'
    BY <1>0, <1>1, <1>2, <2>1, ThreadPoolAssumption DEF CallInv, TypeOK
  <2>10. QuitInv'
    BY <1>0, <1>2, <2>1 DEF QuitInv, TypeOK
  <2>11. UseInv'
    <3>1. reused'[h] = Cardinality(Using(h)') /\ reused'[h] > 0
      <4>1. Using(h) \in SUBSET Users /\ u \in Users \ Using(h)
        BY <2>7, Counts
      <4>2. Cardinality(Using(h)') = Cardinality(Using(h)) + 1 /\ Cardinality(Using(h)) \in Nat
        BY <2>7, <4>1, Counting
      <4>3. reused'[h] = reused[h] + 1 /\ reused[h] = Cardinality(Using(h))
        BY <1>0, <1>1, <1>2, <2>2 DEF UseInv, TypeOK
      <4> QED BY <4>2, <4>3
    <3>2. \A t \in Threads \ {h} : reused'[t] = reused[t]
      BY <1>0, <1>2 DEF TypeOK
    <3> QED BY <1>0, <1>1, <2>2, <2>4, <2>6, <3>1, <3>2 DEF UseInv
  <2>12. QueueInv'
    BY <1>0, <1>1, <1>2, <1>3, <1>4, <2>1, <2>4 DEF QueueInv, TypeOK, CallInv
  <2>13. CountInv'
    BY <1>0, <1>2, <2>5 DEF CountInv
  <2> QED BY <2>8, <2>9, <2>10, <2>11, <2>12, <2>13 DEF IInv
<1>6. CASE ~(reused[h] > 0)
  <2>1. UNCHANGED <<thread, pc>>
    BY <1>6, <1>b DEF Recycle, Reusable
  <2>2. ~Alive(h)
    BY <1>0, <1>1, <1>6 DEF UseInv
  <2>3. \A t : /\ Attaching(t)' = Attaching(t)
               /\ InUse(t)' = InUse(t)
               /\ Stopping(t)' = Stopping(t)
               /\ Using(t)' = Using(t)
    BY <1>2, <2>1 DEF Attaching, InUse, Stopping, Using
  <2>4. \A t : Alive(t)' = Alive(t)
    BY <1>2, <2>3 DEF Alive
  <2>5. TypeOK' /\ CallInv' /\ QuitInv'
    BY <1>0, <1>1, <1>2, <2>1 DEF TypeOK, CallInv, QuitInv
  <2>6. UseInv'
    BY <1>0, <1>1, <1>2, <2>2, <2>3, <2>4 DEF UseInv, TypeOK
  <2>7. QueueInv'
    BY <1>0, <1>1, <1>2, <1>3, <1>4, <2>1, <2>4 DEF QueueInv, TypeOK
  <2>8. CountInv'
    BY <1>0, <1>2, <2>3 DEF CountInv
  <2> QED BY <2>5, <2>6, <2>7, <2>8 DEF IInv
<1> QED BY <1>5, <1>6

(* The reference that RecycleRef takes makes its caller an owner, of a      *)
(* thread that is alive and was out of the queue.                          *)
LEMMA RecycleRefInv == ASSUME IInv, NEW u \in Users, RecycleRef(u) PROVE IInv'
<1> USE DEF Goto, Unlocked
<1>0. TypeOK /\ CallInv /\ QuitInv /\ UseInv /\ QueueInv /\ CountInv
  BY DEF IInv
<1>1. PICK t \in Threads : t = thread[u]
  BY <1>0 DEF RecycleRef, CallInv, TypeOK
<1>2. /\ pc[u] = "ref" /\ thread[u] = t /\ lock = u /\ has[u] = None
      /\ refs' = [refs EXCEPT ![t] = @ + 1]
      /\ queue' = Append(queue, t)
      /\ lock' = None
      /\ has' = [has EXCEPT ![u] = t]
      /\ thread' = [thread EXCEPT ![u] = None]
      /\ pc' = [pc EXCEPT ![u] = "idle"]
      /\ UNCHANGED <<max_threads, pool, reused, idle, loop, type, start_failed, limit>>
  BY <1>0, <1>1 DEF RecycleRef, CallInv, histVars
<1>3. /\ has'[u] = t /\ thread'[u] = None /\ pc'[u] = "idle"
      /\ \A v \in Users \ {u} : has'[v] = has[v] /\ thread'[v] = thread[v] /\ pc'[v] = pc[v]
      /\ \A v \in Users \ {u} : pc[v] \notin {"retry", "ref"}
  BY <1>0, <1>2 DEF TypeOK, CallInv
<1>4. Alive(t)
  BY <1>0, <1>2 DEF UseInv, Using
<1>5. \A x \in Threads : Attaching(x)' = Attaching(x)
  BY <1>2, <1>3 DEF Attaching
<1>6. \A x \in Threads : Alive(x)' = Alive(x)
  BY <1>2, <1>5 DEF Alive
<1>7. \A x \in Threads : Using(x)' = Using(x) /\ Stopping(x)' = Stopping(x)
  BY <1>2, <1>3, ThreadPoolAssumption DEF Using, Stopping
<1>8. \A x \in Threads \ {t} : InUse(x)' = InUse(x)
  BY <1>2, <1>3, ThreadPoolAssumption DEF InUse
<1>9. u \notin InUse(t) /\ InUse(t)' = InUse(t) \cup {u}
  BY <1>2, <1>3, ThreadPoolAssumption DEF InUse
<1>10. TypeOK'
  <2>1. queue' \in Seq(Threads)
    BY <1>0, <1>2 DEF TypeOK
  <2> QED BY <1>0, <1>2, <2>1 DEF TypeOK
<1>11. CallInv'
  BY <1>0, <1>2, <1>3, ThreadPoolAssumption DEF CallInv
<1>12. QuitInv'
  BY <1>0, <1>2, <1>3 DEF QuitInv
<1>13. UseInv'
  BY <1>0, <1>2, <1>6, <1>7 DEF UseInv
<1>14. QueueInv'
  <2>1. queue \in Seq(Threads)
    BY <1>0 DEF TypeOK
  <2>2. /\ DOMAIN queue' = DOMAIN queue \cup {Len(queue) + 1}
        /\ Len(queue) + 1 \notin DOMAIN queue
        /\ \A i \in DOMAIN queue : queue'[i] = queue[i]
        /\ queue'[Len(queue) + 1] = t
    BY <1>2, <2>1, QueueAppend
  <2>3. ~Queued(t) /\ \A x \in Threads : Queued(x)' <=> Queued(x) \/ x = t
    BY <1>0, <1>2, <2>2 DEF QueueInv, Queued
  <2>4. \A i, j \in DOMAIN queue' : queue'[i] = queue'[j] => i = j
    BY <1>0, <2>2, <2>3 DEF QueueInv, Queued
  <2>5. loop'[t] \notin {"none", "left"}
    BY <1>2, <1>4 DEF Alive
  <2> QED BY <1>0, <1>2, <1>3, <1>4, <1>6, <2>3, <2>4, <2>5 DEF QueueInv
<1>15. CountInv'
  <2>1. refs'[t] = refs[t] + 1 /\ refs[t] \in Nat /\ \A x \in Threads \ {t} : refs'[x] = refs[x]
    BY <1>0, <1>2 DEF TypeOK
  <2>2. /\ Cardinality(InUse(t)') = Cardinality(InUse(t)) + 1
        /\ Cardinality(InUse(t)) \in Nat /\ Cardinality(Stopping(t)) \in Nat
    BY <1>9, Counting, Counts
  <2>3. refs'[t] = Cardinality(InUse(t)') + Cardinality(Stopping(t)')
                   + (IF idle'[t] THEN 1 ELSE 0) + (IF loop'[t] # "none" THEN 1 ELSE 0)
    BY <1>0, <1>2, <1>7, <2>1, <2>2 DEF CountInv
  <2>4. \A x \in Threads \ {t} :
           refs'[x] = Cardinality(InUse(x)') + Cardinality(Stopping(x)')
                      + (IF idle'[x] THEN 1 ELSE 0) + (IF loop'[x] # "none" THEN 1 ELSE 0)
    BY <1>0, <1>2, <1>7, <1>8, <2>1 DEF CountInv
  <2> QED BY <2>3, <2>4 DEF CountInv
<1> QED BY <1>10, <1>11, <1>12, <1>13, <1>14, <1>15 DEF IInv

(* An object that is made again has no owner left, and is in no queue.     *)
LEMMA MakeThreadInv ==
    ASSUME IInv, NEW u \in Users, NEW t \in Threads, make_thread(u, t) PROVE IInv'
<1> USE DEF Goto, MakeRefs
<1>0. TypeOK /\ CallInv /\ QuitInv /\ UseInv /\ QueueInv /\ CountInv
  BY DEF IInv
<1>1. /\ loop[t] = "none" /\ refs[t] = 0
      /\ loop' = [loop EXCEPT ![t] = "pushed"]
      /\ reused' = [reused EXCEPT ![t] = 1]
      /\ refs' = [refs EXCEPT ![t] = 2]
      /\ has' = [has EXCEPT ![u] = t]
      /\ pc' = [pc EXCEPT ![u] = "idle"]
      /\ UNCHANGED <<max_threads, pool, idle, type, thread, start_failed>>
  BY DEF make_thread
<1>2. /\ pc[u] \in {"retry", "get"} /\ has[u] = None /\ thread[u] = None
      /\ pc[u] = "retry" => type[u] = "client" /\ lock = u
      /\ type[u] = "client" => pc[u] = "retry"
  BY <1>0 DEF make_thread, CanMake, CallInv
<1>3. /\ has'[u] = t /\ pc'[u] = "idle"
      /\ \A v \in Users \ {u} : has'[v] = has[v] /\ pc'[v] = pc[v]
  BY <1>0, <1>1 DEF TypeOK
<1>4. InUse(t) = {} /\ Stopping(t) = {} /\ ~idle[t]
  <2>1. /\ Cardinality(InUse(t)) \in Nat /\ Cardinality(Stopping(t)) \in Nat
        /\ Cardinality(InUse(t)) = 0 <=> InUse(t) = {}
        /\ Cardinality(Stopping(t)) = 0 <=> Stopping(t) = {}
    BY Counting, Counts
  <2>2. ~idle[t]
    BY <1>0, <1>1 DEF QuitInv
  <2> QED BY <1>0, <1>1, <2>1, <2>2 DEF CountInv
<1>5. ~Alive(t) /\ Using(t) = {}
  BY <1>0, <1>1 DEF UseInv, Alive
<1>6. \A x \in Threads : Attaching(x)' = Attaching(x)
  BY <1>1, <1>2, <1>3 DEF Attaching
<1>7. /\ \A x \in Threads \ {t} : loop'[x] = loop[x] /\ reused'[x] = reused[x] /\ refs'[x] = refs[x]
      /\ loop'[t] = "pushed" /\ reused'[t] = 1 /\ refs'[t] = 2
  BY <1>0, <1>1 DEF TypeOK
<1>8. \A x \in Threads \ {t} : Alive(x)' = Alive(x)
  BY <1>1, <1>6, <1>7 DEF Alive
<1>9. Alive(t)'
  BY <1>1, <1>3, <1>4, <1>6, <1>7 DEF Alive, Attaching, Stopping
<1>10. \A x \in Threads \ {t} : InUse(x)' = InUse(x) /\ Using(x)' = Using(x)
  BY <1>1, <1>2, <1>3, ThreadPoolAssumption DEF InUse, Using
<1>11. InUse(t)' = {u} /\ Using(t)' = {u}
  <2>1. \A v \in Users \ {u} : has[v] # t /\ ~(pc[v] = "ref" /\ thread[v] = t)
    BY <1>5 DEF Using
  <2>2. InUse(t)' = {v \in Users : has'[v] = t}
    BY DEF InUse
  <2>3. Using(t)' = {v \in Users : has'[v] = t \/ (pc'[v] = "ref" /\ thread[v] = t)}
    BY <1>1 DEF Using
  <2> QED BY <1>3, <2>1, <2>2, <2>3
<1>12. \A x \in Threads : Stopping(x)' = Stopping(x)
  BY <1>1, <1>2, <1>3 DEF Stopping
<1>13. ASSUME type[u] = "client" PROVE TypeOK' /\ CallInv' /\ QueueInv'
  <2>1. queue' = Append(queue, t) /\ lock' = None /\ limit' \in Nat \cup {Unlimited}
    <3>1. limit' = LimitWith(max_threads) /\ max_threads \in Int /\ limit \in Nat \cup {Unlimited}
      BY <1>0, <1>13, ThreadPoolAssumption DEF make_thread, TypeOK
    <3>2. limit' \in Nat \cup {Unlimited}
      BY <3>1 DEF LimitWith
    <3> QED BY <1>13, <3>2 DEF make_thread
  <2>2. lock = u /\ \A v \in Users \ {u} : pc[v] \notin {"retry", "ref"}
    BY <1>0, <1>2, <1>13 DEF CallInv
  <2>3. queue \in Seq(Threads)
    BY <1>0 DEF TypeOK
  <2>4. /\ queue' \in Seq(Threads)
        /\ DOMAIN queue' = DOMAIN queue \cup {Len(queue) + 1}
        /\ Len(queue) + 1 \notin DOMAIN queue
        /\ \A i \in DOMAIN queue : queue'[i] = queue[i]
        /\ queue'[Len(queue) + 1] = t
    BY <2>1, <2>3, QueueAppend
  <2>5. ~Queued(t) /\ \A x \in Threads : Queued(x)' <=> Queued(x) \/ x = t
    BY <1>0, <1>1, <2>4 DEF QueueInv, Queued
  <2>6. TypeOK'
    BY <1>0, <1>1, <2>1, <2>4 DEF TypeOK
  <2>7. CallInv'
    BY <1>0, <1>1, <1>2, <1>3, <2>1, <2>2 DEF CallInv
  <2>8. QueueInv'
    <3>1. \A v \in Users : pc'[v] # "ref"
      BY <1>3, <2>2
    <3>2. loop'[t] \notin {"none", "left"}
      BY <1>7
    <3>3. \A i, j \in DOMAIN queue' : queue'[i] = queue'[j] => i = j
      BY <1>0, <2>4, <2>5 DEF QueueInv, Queued
    <3>4. \A x \in Threads \ {t} : Queued(x)' =>
             /\ loop'[x] \notin {"none", "left"}
             /\ ~Alive(x)' => reused'[x] = 0
      BY <1>0, <1>7, <1>8, <2>5 DEF QueueInv
    <3> QED BY <1>9, <3>1, <3>2, <3>3, <3>4 DEF QueueInv
  <2> QED BY <2>6, <2>7, <2>8
<1>14. ASSUME type[u] # "client" PROVE TypeOK' /\ CallInv' /\ QueueInv'
  <2>1. queue' = queue /\ lock' = lock /\ limit' = limit
    BY <1>14 DEF make_thread
  <2>2. TypeOK'
    BY <1>0, <1>1, <2>1 DEF TypeOK
  <2>3. CallInv'
    BY <1>0, <1>1, <1>2, <1>3, <2>1 DEF CallInv
  <2>4. ~Queued(t) /\ \A x \in Threads : Queued(x)' = Queued(x)
    BY <1>0, <1>1, <2>1 DEF QueueInv, Queued
  <2>5. QueueInv'
    BY <1>0, <1>1, <1>3, <1>7, <1>8, <2>1, <2>4 DEF QueueInv
  <2> QED BY <2>2, <2>3, <2>5
<1>15. QuitInv'
  BY <1>0, <1>1, <1>2, <1>3, <1>4, <1>7 DEF QuitInv
<1>16. Cardinality({u}) = 1 /\ Cardinality({}) = 0
  BY FS_Singleton, FS_EmptySet
<1>17. UseInv'
  BY <1>0, <1>7, <1>8, <1>9, <1>10, <1>11, <1>16 DEF UseInv
<1>18. CountInv'
  <2>1. /\ Cardinality(InUse(t)') = 1 /\ Cardinality(Stopping(t)') = 0
    BY <1>4, <1>11, <1>12, <1>16
  <2>2. idle'[t] = FALSE /\ loop'[t] = "pushed"
    BY <1>0, <1>1, <1>4, <1>7 DEF TypeOK
  <2>3. \A x \in Threads \ {t} :
           refs'[x] = Cardinality(InUse(x)') + Cardinality(Stopping(x)')
                      + (IF idle'[x] THEN 1 ELSE 0) + (IF loop'[x] # "none" THEN 1 ELSE 0)
    BY <1>0, <1>1, <1>7, <1>10, <1>12 DEF CountInv
  <2> QED BY <1>7, <2>1, <2>2, <2>3 DEF CountInv
<1>19. TypeOK' /\ CallInv' /\ QueueInv'
  BY <1>13, <1>14
<1> QED BY <1>15, <1>17, <1>18, <1>19 DEF IInv

(* The last user leaves a thread that is alive to its idle source; any      *)
(* other takes itself off the user count.                                  *)
LEMMA ThreadStopInv == ASSUME IInv, NEW u \in Users, thread_stop(u) PROVE IInv'
<1> USE DEF Goto
<1>0. TypeOK /\ CallInv /\ QuitInv /\ UseInv /\ QueueInv /\ CountInv
  BY DEF IInv
<1>1. PICK t \in Threads : t = has[u]
  BY <1>0 DEF thread_stop, TypeOK
<1> DEFINE l == IF LastUser(t) THEN "attach" ELSE "unref"
<1>2. /\ pc[u] = "idle" /\ has[u] = t /\ thread[u] = None
      /\ thread' = [thread EXCEPT ![u] = t]
      /\ has' = [has EXCEPT ![u] = None]
      /\ reused' = [reused EXCEPT ![t] = @ - 1]
      /\ pc' = [pc EXCEPT ![u] = l]
      /\ UNCHANGED <<max_threads, queue, lock, pool, refs, idle, loop, type, start_failed, limit>>
  BY <1>0, <1>1 DEF thread_stop, CallInv, histVars
<1>3. /\ has'[u] = None /\ thread'[u] = t /\ pc'[u] = l
      /\ \A v \in Users \ {u} : has'[v] = has[v] /\ thread'[v] = thread[v] /\ pc'[v] = pc[v]
  BY <1>0, <1>2 DEF TypeOK
<1>4. Alive(t) /\ ~Attaching(t)
  BY <1>0, <1>2 DEF UseInv, Using, Alive
<1>5. /\ reused[t] = Cardinality(Using(t)) /\ reused[t] \in Nat /\ reused[t] > 0
      /\ reused'[t] = reused[t] - 1
      /\ \A x \in Threads \ {t} : reused'[x] = reused[x]
  BY <1>0, <1>2, <1>4 DEF UseInv, TypeOK
<1>6. l \in {"attach", "unref"} /\ (l = "attach" <=> reused[t] = 1)
  BY DEF LastUser
<1> HIDE DEF l
<1>7. \A x \in Threads \ {t} : /\ Attaching(x)' = Attaching(x)
                                /\ Using(x)' = Using(x)
                                /\ InUse(x)' = InUse(x)
                                /\ Stopping(x)' = Stopping(x)
  BY <1>2, <1>3, ThreadPoolAssumption DEF Attaching, Using, InUse, Stopping
<1>8. u \in Using(t) /\ Using(t)' = Using(t) \ {u}
  BY <1>2, <1>3, <1>6, ThreadPoolAssumption DEF Using
<1>9. u \in InUse(t) /\ InUse(t)' = InUse(t) \ {u}
  BY <1>2, <1>3, ThreadPoolAssumption DEF InUse
<1>10. u \notin Stopping(t) /\ Stopping(t)' = Stopping(t) \cup {u}
  BY <1>2, <1>3, <1>6 DEF Stopping
<1>11. Attaching(t)' <=> l = "attach"
  BY <1>3, <1>4, <1>6 DEF Attaching
<1>12. \A x \in Threads \ {t} : Alive(x)' = Alive(x)
  BY <1>2, <1>7 DEF Alive
<1>13. Alive(t)' <=> reused[t] # 1
  BY <1>2, <1>4, <1>6, <1>11 DEF Alive
<1>14. TypeOK'
  <2>1. reused' \in [Threads -> Nat]
    BY <1>0, <1>2, <1>5 DEF TypeOK
  <2>2. pc' \in [Users -> {"idle", "pool", "get", "lock", "retry", "ref", "stop", "attach", "unref"}]
    BY <1>0, <1>2, <1>6 DEF TypeOK
  <2> QED BY <1>0, <1>2, <2>1, <2>2 DEF TypeOK
<1>15. CallInv'
  BY <1>0, <1>2, <1>3, <1>6, ThreadPoolAssumption DEF CallInv
<1>16. QuitInv'
  BY <1>0, <1>2, <1>3, <1>4 DEF QuitInv, Alive, Attaching
<1>17. UseInv'
  <2>1. /\ Cardinality(Using(t)') = Cardinality(Using(t)) - 1
        /\ Cardinality(Using(t)') = 0 <=> Using(t)' = {}
    BY <1>8, Counting, Counts
  <2> QED BY <1>0, <1>5, <1>7, <1>12, <1>13, <2>1 DEF UseInv
<1>18. QueueInv'
  <2>1. \A x \in Threads : Queued(x)' = Queued(x)
    BY <1>2 DEF Queued
  <2>2. ~Alive(t)' => reused'[t] = 0
    BY <1>5, <1>13
  <2>3. \A v \in Users : pc'[v] = "ref" => pc[v] = "ref" /\ thread'[v] = thread[v]
    BY <1>3, <1>6
  <2> QED BY <1>0, <1>2, <1>5, <1>12, <2>1, <2>2, <2>3 DEF QueueInv
<1>19. CountInv'
  <2>1. /\ Cardinality(InUse(t)') = Cardinality(InUse(t)) - 1
        /\ Cardinality(Stopping(t)') = Cardinality(Stopping(t)) + 1
        /\ Cardinality(InUse(t)) \in Nat /\ Cardinality(Stopping(t)) \in Nat
    BY <1>9, <1>10, Counting, Counts
  <2>2. refs'[t] = Cardinality(InUse(t)') + Cardinality(Stopping(t)')
                   + (IF idle'[t] THEN 1 ELSE 0) + (IF loop'[t] # "none" THEN 1 ELSE 0)
    BY <1>0, <1>2, <2>1 DEF CountInv
  <2>3. \A x \in Threads \ {t} :
           refs'[x] = Cardinality(InUse(x)') + Cardinality(Stopping(x)')
                      + (IF idle'[x] THEN 1 ELSE 0) + (IF loop'[x] # "none" THEN 1 ELSE 0)
    BY <1>0, <1>2, <1>7 DEF CountInv
  <2> QED BY <2>2, <2>3 DEF CountInv
<1> QED BY <1>14, <1>15, <1>16, <1>17, <1>18, <1>19 DEF IInv

(* The idle source gets the reference of the last user.                    *)
LEMMA StopAttachInv == ASSUME IInv, NEW u \in Users, StopAttach(u) PROVE IInv'
<1> USE DEF Goto
<1>0. TypeOK /\ CallInv /\ QuitInv /\ UseInv /\ QueueInv /\ CountInv
  BY DEF IInv
<1>1. PICK t \in Threads : t = thread[u]
  BY <1>0 DEF StopAttach, CallInv, TypeOK
<1>2. /\ pc[u] = "attach" /\ thread[u] = t /\ has[u] = None
      /\ idle' = [idle EXCEPT ![t] = TRUE]
      /\ thread' = [thread EXCEPT ![u] = None]
      /\ pc' = [pc EXCEPT ![u] = "idle"]
      /\ UNCHANGED <<max_threads, queue, lock, pool, reused, refs, loop, type, has, start_failed, limit>>
  BY <1>0, <1>1 DEF StopAttach, CallInv, histVars
<1>3. /\ thread'[u] = None /\ pc'[u] = "idle"
      /\ \A v \in Users \ {u} : thread'[v] = thread[v] /\ pc'[v] = pc[v]
      /\ idle'[t] = TRUE
      /\ \A x \in Threads \ {t} : idle'[x] = idle[x]
  BY <1>0, <1>2 DEF TypeOK
<1>4. /\ idle[t] = FALSE /\ loop[t] \in {"pushed", "running"}
      /\ \A v \in Users : pc[v] = "attach" /\ thread[v] = t => v = u
  BY <1>0, <1>2 DEF QuitInv, TypeOK
<1>5. \A x \in Threads \ {t} : Attaching(x)' = Attaching(x) /\ Stopping(x)' = Stopping(x)
  BY <1>2, <1>3, ThreadPoolAssumption DEF Attaching, Stopping
<1>6. \A x \in Threads : Using(x)' = Using(x) /\ InUse(x)' = InUse(x)
  BY <1>2, <1>3, ThreadPoolAssumption DEF Using, InUse
<1>7. u \in Stopping(t) /\ Stopping(t)' = Stopping(t) \ {u}
  BY <1>2, <1>3, ThreadPoolAssumption DEF Stopping
<1>8. ~Alive(t) /\ ~Alive(t)' /\ \A x \in Threads \ {t} : Alive(x)' = Alive(x)
  BY <1>2, <1>3, <1>5 DEF Alive, Attaching
<1>9. TypeOK'
  BY <1>0, <1>2 DEF TypeOK
<1>10. CallInv'
  BY <1>0, <1>2, <1>3, ThreadPoolAssumption DEF CallInv
<1>11. QuitInv'
  BY <1>0, <1>2, <1>3, <1>4, ThreadPoolAssumption DEF QuitInv
<1>12. UseInv'
  BY <1>0, <1>2, <1>6, <1>8 DEF UseInv
<1>13. QueueInv'
  <2>1. \A x \in Threads : Queued(x)' = Queued(x)
    BY <1>2 DEF Queued
  <2>2. \A v \in Users : pc'[v] = "ref" => pc[v] = "ref" /\ thread'[v] = thread[v]
    BY <1>3
  <2> QED BY <1>0, <1>2, <1>8, <2>1, <2>2 DEF QueueInv
<1>14. CountInv'
  <2>1. /\ Cardinality(Stopping(t)') = Cardinality(Stopping(t)) - 1
        /\ Cardinality(InUse(t)) \in Nat /\ Cardinality(Stopping(t)) \in Nat
    BY <1>7, Counting, Counts
  <2>2. refs'[t] = Cardinality(InUse(t)') + Cardinality(Stopping(t)')
                   + (IF idle'[t] THEN 1 ELSE 0) + (IF loop'[t] # "none" THEN 1 ELSE 0)
    BY <1>0, <1>2, <1>3, <1>4, <1>6, <2>1 DEF CountInv
  <2>3. \A x \in Threads \ {t} :
           refs'[x] = Cardinality(InUse(x)') + Cardinality(Stopping(x)')
                      + (IF idle'[x] THEN 1 ELSE 0) + (IF loop'[x] # "none" THEN 1 ELSE 0)
    BY <1>0, <1>2, <1>3, <1>5, <1>6 DEF CountInv
  <2> QED BY <2>2, <2>3 DEF CountInv
<1> QED BY <1>9, <1>10, <1>11, <1>12, <1>13, <1>14 DEF IInv

(* Dropping a reference that is not the last one leaves the user count     *)
(* alone; the last one finds a thread that is neither alive nor queued.    *)
LEMMA StopUnrefInv == ASSUME IInv, NEW u \in Users, StopUnref(u) PROVE IInv'
<1> USE DEF Goto
<1>0. TypeOK /\ CallInv /\ QuitInv /\ UseInv /\ QueueInv /\ CountInv
  BY DEF IInv
<1>1. PICK t \in Threads : t = thread[u]
  BY <1>0 DEF StopUnref, CallInv, TypeOK
<1>2. /\ pc[u] = "unref" /\ thread[u] = t /\ has[u] = None
      /\ refs' = [refs EXCEPT ![t] = @ - 1]
      /\ reused' = [reused EXCEPT ![t] = IF refs[t] = 1 THEN 0 ELSE @]
      /\ thread' = [thread EXCEPT ![u] = None]
      /\ pc' = [pc EXCEPT ![u] = "idle"]
      /\ UNCHANGED <<max_threads, queue, lock, pool, idle, loop, type, has, start_failed, limit>>
  BY <1>0, <1>1 DEF StopUnref, Unref, CallInv, histVars
<1>3. /\ thread'[u] = None /\ pc'[u] = "idle"
      /\ \A v \in Users \ {u} : thread'[v] = thread[v] /\ pc'[v] = pc[v]
      /\ refs'[t] = refs[t] - 1
      /\ \A x \in Threads \ {t} : refs'[x] = refs[x] /\ reused'[x] = reused[x]
      /\ refs[t] # 1 => reused'[t] = reused[t]
      /\ refs[t] = 1 => reused'[t] = 0
  BY <1>0, <1>2 DEF TypeOK
<1>4. u \in Stopping(t) /\ Stopping(t)' = Stopping(t) \ {u}
  BY <1>2, <1>3, ThreadPoolAssumption DEF Stopping
<1>5. /\ Cardinality(Stopping(t)') = Cardinality(Stopping(t)) - 1
      /\ Cardinality(Stopping(t)') \in Nat
      /\ Cardinality(InUse(t)) \in Nat /\ Cardinality(Stopping(t)) \in Nat
  BY <1>4, Counting, Counts
<1>6. /\ refs[t] \in Nat /\ refs[t] >= 1
      /\ refs[t] = 1 => loop[t] = "none"
  BY <1>0, <1>5, SMTT(20) DEF CountInv, TypeOK
<1>7. /\ \A x \in Threads : Attaching(x)' = Attaching(x) /\ Using(x)' = Using(x) /\ InUse(x)' = InUse(x)
      /\ \A x \in Threads \ {t} : Stopping(x)' = Stopping(x)
  BY <1>2, <1>3, ThreadPoolAssumption DEF Attaching, Using, InUse, Stopping
<1>8. \A x \in Threads : Alive(x)' = Alive(x)
  BY <1>2, <1>7 DEF Alive
<1>9. refs[t] = 1 => ~Alive(t) /\ ~Queued(t)
  BY <1>0, <1>6 DEF Alive, QueueInv
<1>10. TypeOK'
  <2>1. refs' \in [Threads -> Nat] /\ reused' \in [Threads -> Nat]
    BY <1>0, <1>2, <1>6 DEF TypeOK
  <2> QED BY <1>0, <1>2, <2>1 DEF TypeOK
<1>11. CallInv'
  BY <1>0, <1>2, <1>3, ThreadPoolAssumption DEF CallInv
<1>12. QuitInv'
  BY <1>0, <1>2, <1>3 DEF QuitInv
<1>13. UseInv'
  BY <1>0, <1>3, <1>7, <1>8, <1>9 DEF UseInv
<1>14. QueueInv'
  <2>1. \A x \in Threads : Queued(x)' = Queued(x)
    BY <1>2 DEF Queued
  <2>2. \A v \in Users : pc'[v] = "ref" => pc[v] = "ref" /\ thread'[v] = thread[v]
    BY <1>3
  <2> QED BY <1>0, <1>2, <1>3, <1>8, <1>9, <2>1, <2>2 DEF QueueInv
<1>15. CountInv'
  <2>1. refs'[t] = Cardinality(InUse(t)') + Cardinality(Stopping(t)')
                   + (IF idle'[t] THEN 1 ELSE 0) + (IF loop'[t] # "none" THEN 1 ELSE 0)
    BY <1>0, <1>2, <1>3, <1>5, <1>7 DEF CountInv
  <2>2. \A x \in Threads \ {t} :
           refs'[x] = Cardinality(InUse(x)') + Cardinality(Stopping(x)')
                      + (IF idle'[x] THEN 1 ELSE 0) + (IF loop'[x] # "none" THEN 1 ELSE 0)
    BY <1>0, <1>2, <1>3, <1>7 DEF CountInv
  <2> QED BY <2>1, <2>2 DEF CountInv
<1> QED BY <1>10, <1>11, <1>12, <1>13, <1>14, <1>15 DEF IInv

(* The steps of do_loop change no user.                                    *)
LEMMA LoopSets ==
    ASSUME UNCHANGED userVars
    PROVE  \A x : /\ Attaching(x)' = Attaching(x) /\ Using(x)' = Using(x)
                  /\ InUse(x)' = InUse(x) /\ Stopping(x)' = Stopping(x)
BY DEF userVars, Attaching, Using, InUse, Stopping

LEMMA LoopEnterInv == ASSUME IInv, NEW t \in Threads, LoopEnter(t) PROVE IInv'
<1>0. TypeOK /\ CallInv /\ QuitInv /\ UseInv /\ QueueInv /\ CountInv
  BY DEF IInv
<1>1. /\ loop[t] = "pushed" /\ loop'[t] = "running"
      /\ \A x \in Threads \ {t} : loop'[x] = loop[x]
      /\ UNCHANGED <<max_threads, queue, lock, pool, reused, refs, idle, userVars, start_failed, limit>>
  BY <1>0 DEF LoopEnter, TypeOK, histVars
<1>2. \A x \in Threads : Alive(x)' = Alive(x)
  BY <1>1, LoopSets DEF Alive
<1>3. TypeOK' /\ CallInv'
  BY <1>0 DEF LoopEnter, userVars, histVars, TypeOK, CallInv
<1>4. QuitInv'
  BY <1>0, <1>1 DEF QuitInv, userVars
<1>5. UseInv'
  BY <1>0, <1>1, <1>2, LoopSets DEF UseInv
<1>6. QueueInv'
  BY <1>0, <1>1, <1>2 DEF QueueInv, Queued, userVars
<1>7. CountInv'
  BY <1>0, <1>1, LoopSets DEF CountInv
<1> QED BY <1>3, <1>4, <1>5, <1>6, <1>7 DEF IInv

(* The loop quits with the reference of the idle source: do_loop has one.  *)
LEMMA QuitLoopInv == ASSUME IInv, NEW t \in Threads, do_quit(t) PROVE IInv'
<1>0. TypeOK /\ CallInv /\ QuitInv /\ UseInv /\ QueueInv /\ CountInv
  BY DEF IInv
<1>1. /\ loop[t] = "running" /\ loop'[t] = "quit" /\ idle[t] /\ idle'[t] = FALSE
      /\ refs'[t] = refs[t] - 1
      /\ \A x \in Threads \ {t} : loop'[x] = loop[x] /\ idle'[x] = idle[x] /\ refs'[x] = refs[x]
      /\ UNCHANGED <<max_threads, queue, lock, pool, userVars, start_failed, limit>>
  BY <1>0 DEF do_quit, Unref, TypeOK, histVars
<1>2. /\ Cardinality(InUse(t)) \in Nat /\ Cardinality(Stopping(t)) \in Nat
      /\ refs[t] = Cardinality(InUse(t)) + Cardinality(Stopping(t)) + 1 + 1
  BY <1>0, <1>1, Counting, Counts DEF CountInv
<1>3. reused' = reused
  <2>1. refs[t] # 1
    BY <1>2
  <2>2. reused' = [reused EXCEPT ![t] = reused[t]]
    BY <2>1 DEF do_quit, Unref
  <2> QED BY <1>0, <2>2 DEF TypeOK
<1>4. ~Alive(t) /\ ~Alive(t)' /\ \A x \in Threads \ {t} : Alive(x)' = Alive(x)
  BY <1>1, LoopSets DEF Alive
<1>5. TypeOK' /\ CallInv'
  <2>1. refs' = [refs EXCEPT ![t] = @ - 1] /\ idle' = [idle EXCEPT ![t] = FALSE]
        /\ loop' = [loop EXCEPT ![t] = "quit"]
    BY DEF do_quit, Unref
  <2>2. refs' \in [Threads -> Nat]
    BY <1>0, <1>2, <2>1 DEF TypeOK
  <2>3. idle' \in [Threads -> BOOLEAN] /\ loop' \in [Threads -> {"none", "pushed", "running", "quit", "left"}]
    BY <1>0, <2>1 DEF TypeOK
  <2> QED BY <1>0, <1>1, <1>3, <2>2, <2>3 DEF TypeOK, CallInv, userVars
<1>6. QuitInv'
  BY <1>0, <1>1 DEF QuitInv, userVars
<1>7. UseInv'
  BY <1>0, <1>1, <1>3, <1>4, LoopSets DEF UseInv
<1>8. QueueInv'
  BY <1>0, <1>1, <1>3, <1>4 DEF QueueInv, Queued, userVars
<1>9. CountInv'
  <2>1. refs'[t] = Cardinality(InUse(t)') + Cardinality(Stopping(t)')
                   + (IF idle'[t] THEN 1 ELSE 0) + (IF loop'[t] # "none" THEN 1 ELSE 0)
    BY <1>1, <1>2, LoopSets
  <2> QED BY <1>0, <1>1, <2>1, LoopSets DEF CountInv
<1> QED BY <1>5, <1>6, <1>7, <1>8, <1>9 DEF IInv

(* The thread that left its loop leaves the queue too.                     *)
LEMMA LoopLeaveInv == ASSUME IInv, NEW t \in Threads, LoopLeave(t) PROVE IInv'
<1>0. TypeOK /\ CallInv /\ QuitInv /\ UseInv /\ QueueInv /\ CountInv
  BY DEF IInv
<1>1. /\ loop[t] = "quit" /\ loop'[t] = "left"
      /\ \A x \in Threads \ {t} : loop'[x] = loop[x]
      /\ queue' = WithoutThread(t)
      /\ UNCHANGED <<max_threads, lock, pool, reused, refs, idle, userVars, start_failed, limit>>
  BY <1>0 DEF LoopLeave, TypeOK, histVars
<1>2. /\ queue' \in Seq(Threads)
      /\ ~Queued(t)' /\ \A x \in Threads : Queued(x)' => Queued(x)
      /\ \A i, j \in DOMAIN queue' : queue'[i] = queue'[j] => i = j
  <2>1. /\ queue \in Seq(Threads)
        /\ \A i, j \in DOMAIN queue : queue[i] = queue[j] => i = j
    BY <1>0 DEF TypeOK, QueueInv
  <2>2. /\ queue' \in Seq(Threads)
        /\ \A i \in DOMAIN queue' : queue'[i] # t /\ \E j \in DOMAIN queue : queue'[i] = queue[j]
        /\ \A i, j \in DOMAIN queue' : queue'[i] = queue'[j] => i = j
    BY <1>1, <2>1, QueueWithout
  <2> QED BY <2>2 DEF Queued
<1>3. \A x \in Threads : Alive(x)' = Alive(x)
  BY <1>1, LoopSets DEF Alive
<1>4. TypeOK' /\ CallInv'
  BY <1>0, <1>2 DEF LoopLeave, userVars, histVars, TypeOK, CallInv
<1>5. QuitInv'
  BY <1>0, <1>1 DEF QuitInv, userVars
<1>6. UseInv'
  BY <1>0, <1>1, <1>3, LoopSets DEF UseInv
<1>7. QueueInv'
  BY <1>0, <1>1, <1>2, <1>3 DEF QueueInv, userVars
<1>8. CountInv'
  BY <1>0, <1>1, LoopSets DEF CountInv
<1> QED BY <1>4, <1>5, <1>6, <1>7, <1>8 DEF IInv

LEMMA LoopUnrefInv == ASSUME IInv, NEW t \in Threads, LoopUnref(t) PROVE IInv'
<1>0. TypeOK /\ CallInv /\ QuitInv /\ UseInv /\ QueueInv /\ CountInv
  BY DEF IInv
<1>1. /\ loop[t] = "left" /\ loop'[t] = "none"
      /\ refs'[t] = refs[t] - 1
      /\ \A x \in Threads \ {t} : loop'[x] = loop[x] /\ refs'[x] = refs[x] /\ reused'[x] = reused[x]
      /\ UNCHANGED <<max_threads, queue, lock, pool, idle, userVars, start_failed, limit>>
  BY <1>0 DEF LoopUnref, Unref, TypeOK, histVars
<1>2. /\ Cardinality(InUse(t)) \in Nat /\ Cardinality(Stopping(t)) \in Nat
      /\ refs[t] = Cardinality(InUse(t)) + Cardinality(Stopping(t)) + (IF idle[t] THEN 1 ELSE 0) + 1
  BY <1>0, <1>1, Counting, Counts DEF CountInv
<1>3. ~Alive(t) /\ ~Alive(t)' /\ ~Queued(t) /\ ~idle[t]
  BY <1>0, <1>1 DEF Alive, QueueInv, QuitInv
<1>4. \A x \in Threads \ {t} : Alive(x)' = Alive(x)
  BY <1>1, LoopSets DEF Alive
<1>5. TypeOK' /\ CallInv'
  <2>1. refs' = [refs EXCEPT ![t] = @ - 1] /\ loop' = [loop EXCEPT ![t] = "none"]
        /\ reused' = [reused EXCEPT ![t] = IF refs[t] = 1 THEN 0 ELSE @]
    BY DEF LoopUnref, Unref
  <2>2. refs[t] - 1 \in Nat
    BY <1>2, <1>3
  <2>3. refs' \in [Threads -> Nat] /\ reused' \in [Threads -> Nat]
    BY <1>0, <2>1, <2>2 DEF TypeOK
  <2>4. loop' \in [Threads -> {"none", "pushed", "running", "quit", "left"}]
    BY <1>0, <2>1 DEF TypeOK
  <2> QED BY <1>0, <1>1, <2>3, <2>4 DEF TypeOK, CallInv, userVars
<1>6. QuitInv'
  <2>1. \A v \in Users : ~(pc[v] = "attach" /\ thread[v] = t)
    BY <1>0, <1>1 DEF QuitInv
  <2> QED BY <1>0, <1>1, <1>3, <2>1 DEF QuitInv, userVars
<1>7. UseInv'
  BY <1>0, <1>1, <1>3, <1>4, LoopSets DEF UseInv
<1>8. QueueInv'
  BY <1>0, <1>1, <1>3, <1>4 DEF QueueInv, Queued, userVars
<1>9. CountInv'
  <2>1. refs'[t] = Cardinality(InUse(t)') + Cardinality(Stopping(t)')
                   + (IF idle'[t] THEN 1 ELSE 0) + (IF loop'[t] # "none" THEN 1 ELSE 0)
    BY <1>1, <1>2, LoopSets
  <2> QED BY <1>0, <1>1, <2>1, LoopSets DEF CountInv
<1> QED BY <1>5, <1>6, <1>7, <1>8, <1>9 DEF IInv

LEMMA NextIInv == IInv /\ [Next]_vars => IInv'
<1> SUFFICES ASSUME IInv, [Next]_vars PROVE IInv'
  OBVIOUS
<1>1. CASE UNCHANGED vars
  <2>1. QuitInv' /\ UseInv' /\ QueueInv' /\ CountInv'
    BY <1>1, QuietSteps DEF vars, userVars
  <2>2. TypeOK' /\ CallInv'
    BY <1>1 DEF IInv, vars, objVars, userVars, histVars, TypeOK, CallInv
  <2> QED BY <2>1, <2>2 DEF IInv
<1>2. ASSUME NEW u \in Users,
             GetNext(u) \/ GetLock(u) \/ thread_stop(u) \/ StopNext(u) \/ \E ty \in Type : get_thread(u, ty)
      PROVE  IInv'
  BY <1>2, QuietInv, RecycleInv, RecycleRefInv, MakeThreadInv, ThreadStopInv,
     StopAttachInv, StopUnrefInv DEF GetNext, StopNext
<1>3. ASSUME NEW t \in Threads, LoopNext(t) \/ LoopLeave(t) PROVE IInv'
  BY <1>3, LoopEnterInv, QuitLoopInv, LoopLeaveInv, LoopUnrefInv DEF LoopNext
<1>4. CASE cleanup \/ \E m \in MaxThreads : set_max_threads(m)
  BY <1>4, QuietInv
<1> QED BY <1>1, <1>2, <1>3, <1>4 DEF Next

-----------------------------------------------------------------------------
\* What follows for the pool.

(* The user count of a thread that is alive is the number of callers that  *)
(* own it or are being given it, and no caller has one that is not alive:  *)
(* gst_rtsp_thread_reuse and the stop of the last user never both succeed. *)
THEOREM UsersAreCounted == Spec => []IInv
<1> QED BY InitIInv, NextIInv, PTL DEF Spec

(* A thread that get_thread handed out runs its loop until its owner calls *)
(* stop, its references are those of its owners, and the queue names each  *)
(* thread that was not freed at most once.                                 *)
THEOREM ThreadsAreTracked == Spec => []ThreadsTracked
<1>1. IInv => ThreadsTracked
  <2> SUFFICES ASSUME IInv PROVE ThreadsTracked
    OBVIOUS
  <2>1. UsedIsLooping
    <3> SUFFICES ASSUME NEW u \in Users, has[u] # None PROVE Looping(has[u])
      BY DEF UsedIsLooping
    <3>1. has[u] \in Threads
      BY DEF IInv, TypeOK
    <3>2. Alive(has[u])
      BY <3>1 DEF IInv, UseInv, Using
    <3> QED BY <3>2 DEF Alive, Looping
  <2>2. RefsBalance
    <3>1. ASSUME NEW t \in Threads
          PROVE  Stopping(t) = {u \in Users : thread[u] = t /\ pc[u] \in {"attach", "unref"}}
      BY DEF Stopping
    <3> QED BY <3>1 DEF IInv, CountInv, RefsBalance
  <2>3. QueueIsLive
    <3>1. \A i \in DOMAIN queue : queue[i] \in Threads
      BY DEF IInv, TypeOK
    <3> QED BY <3>1 DEF IInv, QueueInv, Queued, QueueIsLive, IsInjective
  <2> QED BY <2>1, <2>2, <2>3 DEF IInv, ThreadsTracked
<1> QED BY <1>1, UsersAreCounted, PTL

(* A sequence has no more elements than its length.                        *)
LEMMA QueueElements ==
    ASSUME NEW q \in Seq(Threads)
    PROVE  IsFiniteSet(ToSet(q)) /\ Cardinality(ToSet(q)) <= Len(q) /\ Cardinality(ToSet(q)) \in Nat
<1>1. Len(q) \in Nat /\ DOMAIN q = 1..Len(q)
  OBVIOUS
<1>2. q \in Surjection(1..Len(q), ToSet(q))
  <2>1. q \in [1..Len(q) -> ToSet(q)]
    BY <1>1 DEF ToSet
  <2> QED BY <1>1, <2>1 DEF Surjection, ToSet
<1>3. IsFiniteSet(1..Len(q))
  BY <1>1, FS_Interval
<1>4. IsFiniteSet(ToSet(q))
  BY <1>2, <1>3, FS_Surjection
<1>5. Cardinality(ToSet(q)) <= Len(q)
  BY <1>1, <1>2, FS_SurjCardinalityBound DEF ExistsSurjection
<1> QED BY <1>4, <1>5, FS_CardinalityType

\* What counts a client thread: its place in the queue, or the caller that took
\* it out and holds the lock.
Recycling == {u \in Users : pc[u] = "ref"}

LimitInv ==
    /\ limit \in Nat \cup {Unlimited}
    /\ \A u \in Users : has[u] # None /\ type[u] = "client" =>
           has[u] \in ToSet(queue) \/ \E v \in Users : pc[v] = "ref" /\ thread[v] = has[u]
    /\ limit # Unlimited => Len(queue) + (IF Recycling = {} THEN 0 ELSE 1) <= limit

(* Steps that leave the queue, the threads of users and the caller that     *)
(* recycles alone.                                                          *)
LEMMA QuietLimit ==
    ASSUME LimitInv, UNCHANGED <<queue, limit>>,
           \A u \in Users : (pc'[u] = "ref") <=> (pc[u] = "ref"),
           \A u \in Users : pc[u] = "ref" => thread'[u] = thread[u],
           \A u \in Users : has'[u] # None => has'[u] = has[u] /\ type'[u] = type[u]
    PROVE  LimitInv'
<1>1. Recycling' = Recycling
  BY DEF Recycling
<1>3. ASSUME NEW u \in Users, has'[u] # None, type'[u] = "client"
      PROVE  has'[u] \in ToSet(queue') \/ \E v \in Users : pc'[v] = "ref" /\ thread'[v] = has'[u]
  <2>1. has'[u] = has[u] /\ has[u] # None /\ type[u] = "client"
    BY <1>3
  <2> QED BY <2>1 DEF LimitInv
<1>4. limit' \in Nat \cup {Unlimited}
  BY DEF LimitInv
<1>5. limit' # Unlimited => Len(queue') + (IF Recycling' = {} THEN 0 ELSE 1) <= limit'
  BY <1>1 DEF LimitInv
<1> QED BY <1>3, <1>4, <1>5 DEF LimitInv

LEMMA InitLimit == Init => LimitInv
<1> SUFFICES ASSUME Init PROVE LimitInv
  OBVIOUS
<1>1. Recycling = {} /\ Len(queue) = 0 /\ limit = 0
  BY DEF Init, Recycling
<1>2. \A u \in Users : has[u] = None
  BY DEF Init
<1> QED BY <1>1, <1>2 DEF LimitInv

(* The caller that recycles has the lock.                                   *)
LEMMA OneRecycles ==
    ASSUME CallInv, NEW u \in Users, lock = u
    PROVE  \A v \in Users \ {u} : pc[v] \notin {"retry", "ref"}
BY DEF CallInv

LEMMA RecycleLimit ==
    ASSUME IInv, LimitInv, NEW u \in Users, Recycle(u) PROVE LimitInv'
<1> USE DEF Goto
<1>0. TypeOK /\ CallInv /\ UseInv /\ QueueInv
  BY DEF IInv
<1>1. queue \in Seq(Threads) /\ Len(queue) > 0 /\ Len(queue) \in Nat
  BY <1>0, ThreadPoolAssumption DEF TypeOK, Recycle, MustRecycle
<1>2. PICK h \in Threads : h = Head(queue) /\ h = queue[1]
  BY <1>1
<1>3. /\ pc[u] = "retry" /\ lock = u /\ queue' = Tail(queue)
      /\ UNCHANGED <<type, has, limit>>
  BY <1>0 DEF Recycle, CallInv, histVars
<1>4. Recycling = {}
  BY <1>0, <1>3, OneRecycles DEF Recycling
<1>5. Len(queue') = Len(queue) - 1
  BY <1>1, <1>3
<1>6. \A t \in ToSet(queue) : t # h => t \in ToSet(queue')
  <2> SUFFICES ASSUME NEW i \in DOMAIN queue, queue[i] # h
               PROVE  \E k \in DOMAIN queue' : queue'[k] = queue[i]
    BY DEF ToSet
  <2>1. i \in 1..Len(queue) /\ i # 1
    BY <1>1, <1>2
  <2>2. i - 1 \in DOMAIN queue' /\ queue'[i - 1] = queue[i]
    BY <1>1, <1>3, <2>1
  <2> QED BY <2>2
<1>7. limit' \in Nat \cup {Unlimited}
      /\ \A v \in Users : has[v] # None /\ type[v] = "client" => has[v] \in ToSet(queue)
  BY <1>3, <1>4 DEF LimitInv, Recycling
<1>8. CASE reused[h] > 0
  <2>1. pc'[u] = "ref" /\ thread'[u] = h
    BY <1>0, <1>2, <1>8 DEF Recycle, Reusable, TypeOK
  <2>2. limit' # Unlimited => Len(queue') + 1 <= limit'
    BY <1>1, <1>3, <1>4, <1>5, <1>7 DEF LimitInv
  <2>3. Recycling' # {}
    BY <2>1 DEF Recycling
  <2>4. \A v \in Users : has'[v] # None /\ type'[v] = "client" =>
           has'[v] \in ToSet(queue') \/ \E w \in Users : pc'[w] = "ref" /\ thread'[w] = has'[v]
    <3> SUFFICES ASSUME NEW v \in Users, has[v] # None, type[v] = "client"
                 PROVE  has[v] \in ToSet(queue') \/ \E w \in Users : pc'[w] = "ref" /\ thread'[w] = has[v]
      BY <1>3
    <3>1. has[v] \in ToSet(queue)
      BY <1>7
    <3>2. CASE has[v] = h
      BY <2>1, <3>2
    <3>3. CASE has[v] # h
      BY <1>6, <3>1, <3>3
    <3> QED BY <3>2, <3>3
  <2> QED BY <1>7, <2>2, <2>3, <2>4 DEF LimitInv
<1>9. CASE ~(reused[h] > 0)
  <2>1. UNCHANGED <<thread, pc>>
    BY <1>2, <1>9 DEF Recycle, Reusable
  <2>2. Recycling' = {}
    BY <1>4, <2>1 DEF Recycling
  <2>3. Using(h) = {}
    BY <1>0, <1>9 DEF UseInv
  <2>4. \A v \in Users : has[v] # h
    BY <2>3 DEF Using
  <2>5. \A v \in Users : has'[v] # None /\ type'[v] = "client" => has'[v] \in ToSet(queue')
    <3> SUFFICES ASSUME NEW v \in Users, has[v] # None, type[v] = "client"
                 PROVE  has[v] \in ToSet(queue')
      BY <1>3
    <3> QED BY <1>6, <1>7, <2>4
  <2>6. limit' # Unlimited => Len(queue') <= limit'
    BY <1>1, <1>3, <1>4, <1>5, <1>7 DEF LimitInv
  <2> QED BY <1>5, <1>1, <1>7, <2>2, <2>5, <2>6 DEF LimitInv
<1> QED BY <1>8, <1>9

(* A place at the tail of the queue for the thread of the caller.           *)
LEMMA AppendLimit ==
    ASSUME LimitInv, TypeOK, NEW u \in Users, NEW t \in Threads,
           queue' = Append(queue, t), has' = [has EXCEPT ![u] = t], type' = type,
           \A v \in Users : pc'[v] # "ref",
           \A v \in Users : pc[v] = "ref" => thread[v] = t,
           limit' \in Nat \cup {Unlimited},
           limit' # Unlimited => Len(queue) + 1 <= limit'
    PROVE  LimitInv'
<1>1. queue \in Seq(Threads) /\ Len(queue) \in Nat
  BY DEF TypeOK
<1>2. t \in ToSet(queue') /\ \A x \in ToSet(queue) : x \in ToSet(queue')
  <2>1. /\ DOMAIN queue' = DOMAIN queue \cup {Len(queue) + 1}
        /\ \A i \in DOMAIN queue : queue'[i] = queue[i]
        /\ queue'[Len(queue) + 1] = t
    BY <1>1, QueueAppend
  <2> QED BY <2>1 DEF ToSet
<1>3. Recycling' = {}
  BY DEF Recycling
<1>4. Len(queue') = Len(queue) + 1
  BY <1>1
<1>5. ASSUME NEW v \in Users, has'[v] # None, type'[v] = "client"
      PROVE  has'[v] \in ToSet(queue')
  <2>1. CASE v = u
    <3>1. has'[v] = t
      BY <2>1 DEF TypeOK
    <3> QED BY <1>2, <3>1
  <2>2. CASE v # u
    <3>1. has'[v] = has[v] /\ has[v] # None /\ type[v] = "client"
      BY <1>5, <2>2 DEF TypeOK
    <3>2. CASE has[v] \in ToSet(queue)
      BY <1>2, <3>1, <3>2
    <3>3. CASE has[v] \notin ToSet(queue)
      <4>1. has[v] = t
        BY <3>1, <3>3 DEF LimitInv
      <4> QED BY <1>2, <3>1, <4>1
    <3> QED BY <3>2, <3>3
  <2> QED BY <2>1, <2>2
<1> QED BY <1>3, <1>4, <1>5 DEF LimitInv

LEMMA RecycleRefLimit ==
    ASSUME IInv, LimitInv, NEW u \in Users, RecycleRef(u) PROVE LimitInv'
<1>0. TypeOK /\ CallInv
  BY DEF IInv
<1>1. PICK t \in Threads : t = thread[u]
  BY <1>0 DEF RecycleRef, CallInv, TypeOK
<1>2. /\ pc[u] = "ref" /\ lock = u
      /\ queue' = Append(queue, t) /\ has' = [has EXCEPT ![u] = t]
      /\ pc' = [pc EXCEPT ![u] = "idle"]
      /\ UNCHANGED <<type, limit>>
  BY <1>0, <1>1 DEF RecycleRef, CallInv, histVars, Goto
<1>3. \A v \in Users \ {u} : pc[v] # "ref"
  BY <1>0, <1>2, OneRecycles
<1>4. /\ \A v \in Users : pc'[v] # "ref"
      /\ \A v \in Users : pc[v] = "ref" => thread[v] = t
  BY <1>0, <1>1, <1>2, <1>3 DEF TypeOK
<1>5. Recycling # {}
  BY <1>2 DEF Recycling
<1>6. /\ limit' \in Nat \cup {Unlimited}
      /\ limit' # Unlimited => Len(queue) + 1 <= limit'
  BY <1>2, <1>5 DEF LimitInv
<1> QED BY <1>0, <1>2, <1>4, <1>6, AppendLimit

(* A new client thread is made with less than max-threads in the queue, and *)
(* under the lock, so that nobody recycles.                                 *)
LEMMA MakeLimit ==
    ASSUME IInv, LimitInv, NEW u \in Users, NEW t \in Threads, make_thread(u, t)
    PROVE  LimitInv'
<1> USE DEF Goto
<1>0. TypeOK /\ CallInv
  BY DEF IInv
<1>1. /\ has' = [has EXCEPT ![u] = t] /\ pc' = [pc EXCEPT ![u] = "idle"]
      /\ type' = type /\ thread' = thread
      /\ pc[u] \in {"retry", "get"}
  BY DEF make_thread, CanMake
<1>2. CASE type[u] = "client"
  <2>1. /\ queue' = Append(queue, t) /\ limit' = LimitWith(max_threads)
        /\ pc[u] = "retry" /\ lock = u /\ ~MustRecycle
    BY <1>0, <1>2 DEF make_thread, CanMake, CallInv
  <2>2. \A v \in Users : pc[v] # "ref" /\ pc'[v] # "ref"
    BY <1>0, <1>1, <2>1, OneRecycles DEF TypeOK
  <2>3. /\ max_threads \in Int /\ limit \in Nat \cup {Unlimited} /\ Len(queue) \in Nat
        /\ max_threads > 0 => Len(queue) < max_threads
    BY <1>0, <2>1, ThreadPoolAssumption DEF TypeOK, MustRecycle
  <2>4. /\ limit' \in Nat \cup {Unlimited}
        /\ limit' # Unlimited => Len(queue) + 1 <= limit'
    BY <2>1, <2>3 DEF LimitWith, Unlimited
  <2> QED BY <1>0, <1>1, <2>1, <2>2, <2>4, AppendLimit
<1>3. CASE type[u] # "client"
  <2>1. UNCHANGED <<queue, limit>>
    BY <1>3 DEF make_thread
  <2>2. \A v \in Users : (pc'[v] = "ref") <=> (pc[v] = "ref")
    BY <1>0, <1>1 DEF TypeOK
  <2>3. Recycling' = Recycling 
    BY <2>1, <2>2 DEF Recycling
  <2>4. ASSUME NEW v \in Users, has'[v] # None, type'[v] = "client"
        PROVE  has'[v] \in ToSet(queue') \/ \E w \in Users : pc'[w] = "ref" /\ thread'[w] = has'[v]
    <3>1. v # u /\ has'[v] = has[v] /\ type[v] = "client"
      BY <1>0, <1>1, <1>3, <2>4 DEF TypeOK
    <3>2. has[v] \in ToSet(queue) \/ \E w \in Users : pc[w] = "ref" /\ thread[w] = has[v]
      BY <2>4, <3>1 DEF LimitInv
    <3> QED BY <1>1, <2>1, <2>2, <3>1, <3>2
  <2> QED BY <2>1, <2>3, <2>4 DEF LimitInv
<1> QED BY <1>2, <1>3

(* A thread that left its main loop is nobody's: it can leave the queue.    *)
LEMMA LeaveLimit ==
    ASSUME IInv, LimitInv, NEW t \in Threads, LoopLeave(t) PROVE LimitInv'
<1>0. TypeOK /\ UseInv /\ QueueInv
  BY DEF IInv
<1>1. /\ loop[t] = "quit" /\ queue' = WithoutThread(t)
      /\ UNCHANGED <<pc, type, thread, has, limit>>
  BY DEF LoopLeave, userVars, histVars
<1>2. /\ queue \in Seq(Threads)
      /\ \A i, j \in DOMAIN queue : queue[i] = queue[j] => i = j
  BY <1>0 DEF TypeOK, QueueInv
<1>3. /\ queue' \in Seq(Threads) /\ Len(queue') <= Len(queue)
      /\ \A j \in DOMAIN queue : queue[j] # t => \E i \in DOMAIN queue' : queue'[i] = queue[j]
  BY <1>1, <1>2, QueueWithout
<1>4. \A x \in ToSet(queue) : x # t => x \in ToSet(queue')
  BY <1>3 DEF ToSet
<1>5. \A v \in Users : has[v] # t
  <2>1. Using(t) = {}
    BY <1>0, <1>1 DEF UseInv, Alive
  <2> QED BY <2>1 DEF Using
<1>6. Recycling' = Recycling
  BY <1>1 DEF Recycling
<1>7. ASSUME NEW v \in Users, has[v] # None, type[v] = "client"
      PROVE  has[v] \in ToSet(queue') \/ \E w \in Users : pc[w] = "ref" /\ thread[w] = has[v]
  BY <1>4, <1>5, <1>7 DEF LimitInv
<1>8. Len(queue') \in Nat /\ Len(queue) \in Nat
  BY <1>2, <1>3
<1>9. limit' # Unlimited => Len(queue') + (IF Recycling' = {} THEN 0 ELSE 1) <= limit'
  BY <1>1, <1>3, <1>6, <1>8 DEF LimitInv
<1>10. \A v \in Users : has'[v] # None /\ type'[v] = "client" =>
         has'[v] \in ToSet(queue') \/ \E w \in Users : pc'[w] = "ref" /\ thread'[w] = has'[v]
  BY <1>1, <1>7
<1> QED BY <1>1, <1>9, <1>10 DEF LimitInv

LEMMA NextLimit == IInv /\ LimitInv /\ [Next]_vars => LimitInv'
<1> SUFFICES ASSUME IInv, LimitInv, [Next]_vars PROVE LimitInv'
  OBVIOUS
<1> USE DEF Goto, userVars, objVars, histVars
<1>0. TypeOK /\ CallInv
  BY DEF IInv
<1>1. CASE UNCHANGED vars
  BY <1>1, QuietLimit DEF vars
<1>2. CASE cleanup \/ \E m \in MaxThreads : set_max_threads(m)
  BY <1>2, QuietLimit DEF cleanup, set_max_threads
<1>3. ASSUME NEW u \in Users,
             \/ \E ty \in Type : get_thread(u, ty)
             \/ PoolExchange(u) \/ GetNone(u) \/ GetClient(u) \/ GetLock(u) \/ ThreadError(u)
      PROVE  LimitInv'
  <2>1. /\ UNCHANGED <<queue, limit, thread, has>> /\ pc[u] # "ref"
        /\ \A v \in Users : has[v] # None => type'[v] = type[v]
    BY <1>0, <1>3 DEF get_thread, PoolExchange, GetNone, GetClient, GetLock, ThreadError, CanMake, TypeOK
  <2>2. PICK l : pc' = [pc EXCEPT ![u] = l] /\ l # "ref"
    BY <1>3 DEF get_thread, PoolExchange, GetNone, GetClient, GetLock, ThreadError
  <2>3. \A v \in Users : (pc'[v] = "ref") <=> (pc[v] = "ref")
    BY <1>0, <2>1, <2>2 DEF TypeOK
  <2> QED BY <2>1, <2>3, QuietLimit
<1>4. ASSUME NEW u \in Users, thread_stop(u) \/ StopAttach(u) \/ StopUnref(u)
      PROVE  LimitInv'
  <2>1. /\ UNCHANGED <<queue, limit, type>> /\ pc[u] # "ref"
        /\ \A v \in Users : has'[v] # None => has'[v] = has[v]
        /\ \A v \in Users \ {u} : thread'[v] = thread[v]
    BY <1>0, <1>4 DEF thread_stop, StopAttach, StopUnref, TypeOK
  <2>2. PICK l : pc' = [pc EXCEPT ![u] = l] /\ l # "ref"
    BY <1>4 DEF thread_stop, StopAttach, StopUnref
  <2>3. \A v \in Users : (pc'[v] = "ref") <=> (pc[v] = "ref")
    BY <1>0, <2>1, <2>2 DEF TypeOK
  <2> QED BY <2>1, <2>3, QuietLimit
<1>5. ASSUME NEW t \in Threads, LoopNext(t) PROVE LimitInv'
  <2>1. UNCHANGED <<queue, limit, pc, type, thread, has>>
    BY <1>5 DEF LoopNext, LoopEnter, do_quit, LoopUnref
  <2> QED BY <2>1, QuietLimit
<1> QED BY <1>1, <1>2, <1>3, <1>4, <1>5, RecycleLimit, RecycleRefLimit, MakeLimit, LeaveLimit
        DEF Next, GetNext, StopNext

(* The clients never use more threads than the greatest max-threads that    *)
(* one of them was made under: each is counted by its place in the queue or *)
(* by the caller that took it out and is about to own it.                   *)
THEOREM MaxThreadsIsRespected == Spec => []MaxThreadsRespected
<1>1. IInv /\ LimitInv => MaxThreadsRespected
  <2> SUFFICES ASSUME IInv, LimitInv, limit # Unlimited PROVE Cardinality(ClientThreads) <= limit
    BY DEF MaxThreadsRespected
  <2>0. TypeOK /\ CallInv /\ queue \in Seq(Threads) /\ limit \in Nat /\ Len(queue) \in Nat
    BY DEF IInv, TypeOK, LimitInv
  <2>1. /\ IsFiniteSet(ToSet(queue)) /\ Cardinality(ToSet(queue)) <= Len(queue)
        /\ Cardinality(ToSet(queue)) \in Nat
    BY <2>0, QueueElements
  <2>2. \A x \in ClientThreads : x \in ToSet(queue) \/ \E v \in Recycling : thread[v] = x
    <3> SUFFICES ASSUME NEW u \in Users, type[u] = "client", has[u] # None
                 PROVE  has[u] \in ToSet(queue) \/ \E v \in Recycling : thread[v] = has[u]
      BY DEF ClientThreads
    <3> QED BY DEF LimitInv, Recycling
  <2>3. CASE Recycling = {}
    <3>1. ClientThreads \subseteq ToSet(queue)
      BY <2>2, <2>3
    <3>2. /\ IsFiniteSet(ClientThreads)
          /\ Cardinality(ClientThreads) <= Cardinality(ToSet(queue))
      BY <2>1, <3>1, FS_Subset
    <3>3. Cardinality(ClientThreads) \in Nat /\ Len(queue) <= limit
      BY <2>0, <2>3, <3>2, FS_CardinalityType DEF LimitInv
    <3> QED BY <2>0, <2>1, <3>2, <3>3
  <2>4. CASE Recycling # {}
    <3>1. PICK u \in Users : u \in Recycling
      BY <2>4 DEF Recycling
    <3>2. \A v \in Recycling : v = u
      BY <2>0, <3>1 DEF Recycling, CallInv
    <3> DEFINE S == ToSet(queue) \cup {thread[u]}
    <3>3. ClientThreads \subseteq S
      BY <2>2, <3>2
    <3>4. IsFiniteSet(S) /\ Cardinality(S) <= Cardinality(ToSet(queue)) + 1 /\ Cardinality(S) \in Nat
      <4>1. CASE thread[u] \in ToSet(queue)
        <5>1. S = ToSet(queue)
          BY <4>1
        <5>2. PICK k \in Nat : k = Cardinality(ToSet(queue))
          BY <2>1
        <5> HIDE DEF S
        <5> QED BY <2>1, <5>1, <5>2
      <4>2. CASE thread[u] \notin ToSet(queue)
        <5>1. IsFiniteSet(S) /\ Cardinality(S) = Cardinality(ToSet(queue)) + 1
          BY <2>1, <4>2, FS_AddElement
        <5> QED BY <2>1, <5>1
      <4> QED BY <4>1, <4>2
    <3> HIDE DEF S
    <3>5. /\ IsFiniteSet(ClientThreads)
          /\ Cardinality(ClientThreads) <= Cardinality(S)
      BY <3>3, <3>4, FS_Subset
    <3>6. Cardinality(ClientThreads) \in Nat /\ Len(queue) + 1 <= limit
      BY <2>0, <2>4, <3>5, FS_CardinalityType DEF LimitInv
    <3> QED BY <2>0, <2>1, <3>4, <3>5, <3>6
  <2> QED BY <2>3, <2>4
<1> QED BY <1>1, InitIInv, NextIInv, InitLimit, NextLimit, PTL DEF Spec

-----------------------------------------------------------------------------
\* The address pool: sequences of ranges.

Cover(s) == UNION {Points(s[i]) : i \in DOMAIN s}

Apart(s) == \A i, j \in DOMAIN s : i # j => Points(s[i]) \cap Points(s[j]) = {}

(* Every set of naturals that is not empty has a least element.            *)
LEMMA LeastNatural ==
    ASSUME NEW I \in SUBSET Nat, I # {}
    PROVE  Min(I) \in I /\ \A y \in I : Min(I) <= y
<1> DEFINE R == OpToRel(<, Nat)
<1>1. IsWellFoundedOn(R, Nat)
  BY NatLessThanWellFounded
<1>2. PICK m \in I : \A y \in I : <<y, m>> \notin R
  <2> HIDE DEF R
  <2> QED BY <1>1, WFMin
<1>3. \A y \in I : ~(y < m)
  BY <1>2 DEF OpToRel
<1>4. \A y \in I : m <= y
  BY <1>3
<1> QED BY <1>4 DEF Min

(* What a concatenation of ranges covers, and when its ranges are disjoint.*)
LEMMA CoverConcat ==
    ASSUME NEW s \in Seq(AddrRange), NEW u \in Seq(AddrRange)
    PROVE  /\ s \o u \in Seq(AddrRange)
           /\ Cover(s \o u) = Cover(s) \cup Cover(u)
           /\ Apart(s \o u) <=> Apart(s) /\ Apart(u) /\ Cover(s) \cap Cover(u) = {}
<1> DEFINE n == Len(s)
           m == Len(u)
           c == s \o u
<1>1. /\ n \in Nat /\ m \in Nat /\ DOMAIN s = 1..n /\ DOMAIN u = 1..m
      /\ c \in Seq(AddrRange) /\ DOMAIN c = 1..(n + m)
      /\ \A i \in 1..n : c[i] = s[i]
      /\ \A i \in 1..m : c[n + i] = u[i]
  OBVIOUS
<1> HIDE DEF n, m, c
<1>2. \A i \in 1..(n + m) : i \in 1..n \/ \E j \in 1..m : i = n + j
  <2>1. ASSUME NEW i \in 1..(n + m), i \notin 1..n PROVE i - n \in 1..m /\ i = n + (i - n)
    BY <1>1, <2>1
  <2> QED BY <2>1
<1>3. \A i \in 1..n : i \in 1..(n + m)
  BY <1>1
<1>4. \A i \in 1..m : n + i \in 1..(n + m)
  BY <1>1
<1>5. Cover(c) = Cover(s) \cup Cover(u)
  <2>1. ASSUME NEW p \in Cover(c) PROVE p \in Cover(s) \cup Cover(u)
    <3>1. PICK i \in 1..(n + m) : p \in Points(c[i])
      BY <1>1 DEF Cover
    <3>2. CASE i \in 1..n
      BY <1>1, <3>1, <3>2 DEF Cover
    <3>3. CASE i \notin 1..n
      <4>1. PICK j \in 1..m : i = n + j
        BY <1>2, <3>3
      <4> QED BY <1>1, <3>1, <4>1 DEF Cover
    <3> QED BY <3>2, <3>3
  <2>2. ASSUME NEW p \in Cover(s) PROVE p \in Cover(c)
    BY <1>1, <1>3 DEF Cover
  <2>3. ASSUME NEW p \in Cover(u) PROVE p \in Cover(c)
    BY <1>1, <1>4 DEF Cover
  <2> QED BY <2>1, <2>2, <2>3
<1>6. ASSUME Apart(c) PROVE Apart(s) /\ Apart(u) /\ Cover(s) \cap Cover(u) = {}
  <2>1. Apart(s)
    BY <1>1, <1>3, <1>6 DEF Apart
  <2>2. Apart(u)
    <3> SUFFICES ASSUME NEW i \in 1..m, NEW j \in 1..m, i # j
                 PROVE  Points(u[i]) \cap Points(u[j]) = {}
      BY <1>1 DEF Apart
    <3>1. n + i # n + j /\ n + i \in 1..(n + m) /\ n + j \in 1..(n + m)
      BY <1>1
    <3> QED BY <1>1, <1>6, <3>1 DEF Apart
  <2>3. ASSUME NEW i \in 1..n, NEW j \in 1..m PROVE Points(s[i]) \cap Points(u[j]) = {}
    <3>1. i # n + j /\ i \in 1..(n + m) /\ n + j \in 1..(n + m)
      BY <1>1
    <3> QED BY <1>1, <1>6, <3>1 DEF Apart
  <2>4. Cover(s) \cap Cover(u) = {}
    BY <1>1, <2>3 DEF Cover
  <2> QED BY <2>1, <2>2, <2>4
<1>7. ASSUME Apart(s), Apart(u), Cover(s) \cap Cover(u) = {} PROVE Apart(c)
  <2>1. \A i \in 1..n, j \in 1..m : Points(s[i]) \cap Points(u[j]) = {}
    BY <1>1, <1>7 DEF Cover
  <2>2. \A i, j \in 1..n : i # j => Points(s[i]) \cap Points(s[j]) = {}
    BY <1>1, <1>7 DEF Apart
  <2>3. \A i, j \in 1..m : i # j => Points(u[i]) \cap Points(u[j]) = {}
    BY <1>1, <1>7 DEF Apart
  <2> SUFFICES ASSUME NEW i \in 1..(n + m), NEW j \in 1..(n + m), i # j
               PROVE  Points(c[i]) \cap Points(c[j]) = {}
    BY <1>1 DEF Apart
  <2>4. CASE i \in 1..n /\ j \in 1..n
    BY <1>1, <2>2, <2>4
  <2>5. CASE i \in 1..n /\ j \notin 1..n
    BY <1>1, <1>2, <2>1, <2>5
  <2>6. CASE i \notin 1..n /\ j \in 1..n
    BY <1>1, <1>2, <2>1, <2>6
  <2>7. CASE i \notin 1..n /\ j \notin 1..n
    <3>1. PICK k \in 1..m : i = n + k
      BY <1>2, <2>7
    <3>2. PICK l \in 1..m : j = n + l
      BY <1>2, <2>7
    <3>3. k # l
      BY <3>1, <3>2
    <3> QED BY <1>1, <2>3, <3>1, <3>2, <3>3
  <2> QED BY <2>4, <2>5, <2>6, <2>7
<1> QED BY <1>1, <1>5, <1>6, <1>7 DEF c

LEMMA CoverSmall ==
    /\ Cover(<<>>) = {} /\ Apart(<<>>)
    /\ \A r : Cover(<<r>>) = Points(r) /\ Apart(<<r>>)
BY DEF Cover, Apart

(* A range taken out of the list: the list loses what it covers.           *)
LEMMA CoverRemove ==
    ASSUME NEW s \in Seq(AddrRange), NEW i \in DOMAIN s
    PROVE  LET rest == RemoveAt(s, i)
           IN  /\ rest \in Seq(AddrRange)
               /\ Cover(s) = Cover(rest) \cup Points(s[i])
               /\ Apart(s) => Apart(rest) /\ Cover(rest) \cap Points(s[i]) = {}
               /\ \A k \in DOMAIN rest : \E j \in DOMAIN s : rest[k] = s[j]
<1> DEFINE n == Len(s)
           a == SubSeq(s, 1, i - 1)
           b == SubSeq(s, i + 1, n)
           rest == RemoveAt(s, i)
<1>1. /\ n \in Nat /\ i \in 1..n /\ DOMAIN s = 1..n
      /\ a \in Seq(AddrRange) /\ DOMAIN a = 1..(i - 1) /\ \A k \in 1..(i - 1) : a[k] = s[k]
      /\ b \in Seq(AddrRange) /\ DOMAIN b = 1..(n - i) /\ \A k \in 1..(n - i) : b[k] = s[i + k]
  <2>1. n \in Nat /\ i \in 1..n /\ DOMAIN s = 1..n
    OBVIOUS
  <2>2. a \in Seq(AddrRange) /\ Len(a) = i - 1 /\ \A k \in 1..(i - 1) : a[k] = s[k]
    BY <2>1, SubSeqProperties, SMTT(20)
  <2>3. b \in Seq(AddrRange) /\ Len(b) = n - i /\ \A k \in 1..(n - i) : b[k] = s[i + k]
    BY <2>1, SubSeqProperties, SMTT(20)
  <2> QED BY <2>1, <2>2, <2>3, SMTT(20)
<1>2. rest = a \o b
  BY DEF RemoveAt
<1> HIDE DEF n, a, b, rest
<1>3. \A k \in 1..n : k \in 1..(i - 1) \/ k = i \/ k - i \in 1..(n - i)
  BY <1>1
<1>4. Cover(s) = Cover(a) \cup Cover(b) \cup Points(s[i])
  <2>1. ASSUME NEW k \in 1..n
        PROVE  Points(s[k]) \subseteq Cover(a) \cup Cover(b) \cup Points(s[i])
    <3>1. CASE k \in 1..(i - 1)
      BY <1>1, <3>1 DEF Cover
    <3>2. CASE k - i \in 1..(n - i)
      <4>1. b[k - i] = s[k]
        <5>1. b[k - i] = s[i + (k - i)] /\ i + (k - i) = k
          BY <1>1, <3>2
        <5> QED BY <5>1
      <4> QED BY <1>1, <3>2, <4>1 DEF Cover
    <3> QED BY <1>3, <3>1, <3>2
  <2>2. \A k \in 1..(i - 1) : k \in 1..n
    BY <1>1
  <2>3. \A k \in 1..(n - i) : i + k \in 1..n
    BY <1>1
  <2>4. Cover(a) \subseteq Cover(s)
    BY <1>1, <2>2 DEF Cover
  <2>5. Cover(b) \subseteq Cover(s)
    BY <1>1, <2>3 DEF Cover
  <2>6. Points(s[i]) \subseteq Cover(s)
    BY DEF Cover
  <2>7. Cover(s) \subseteq Cover(a) \cup Cover(b) \cup Points(s[i])
    BY <1>1, <2>1 DEF Cover
  <2> QED BY <2>4, <2>5, <2>6, <2>7
<1>5. ASSUME Apart(s)
      PROVE  /\ Apart(a) /\ Apart(b) /\ Cover(a) \cap Cover(b) = {}
             /\ (Cover(a) \cup Cover(b)) \cap Points(s[i]) = {}
  <2>1. \A k, l \in 1..n : k # l => Points(s[k]) \cap Points(s[l]) = {}
    BY <1>1, <1>5 DEF Apart
  <2>2. Apart(a)
    <3>1. \A k, l \in 1..(i - 1) : k # l => Points(s[k]) \cap Points(s[l]) = {}
      BY <1>1, <2>1
    <3> QED BY <1>1, <3>1 DEF Apart
  <2>3. Apart(b)
    <3>1. \A k, l \in 1..(n - i) : k # l => Points(s[i + k]) \cap Points(s[i + l]) = {}
      <4> SUFFICES ASSUME NEW k \in 1..(n - i), NEW l \in 1..(n - i), k # l
                   PROVE  Points(s[i + k]) \cap Points(s[i + l]) = {}
        OBVIOUS
      <4>1. i + k \in 1..n /\ i + l \in 1..n /\ i + k # i + l
        BY <1>1
      <4> QED BY <2>1, <4>1
    <3> QED BY <1>1, <3>1 DEF Apart
  <2>4. \A k \in 1..(i - 1), l \in 1..(n - i) : Points(a[k]) \cap Points(b[l]) = {}
    <3> SUFFICES ASSUME NEW k \in 1..(i - 1), NEW l \in 1..(n - i)
                 PROVE  Points(s[k]) \cap Points(s[i + l]) = {}
      BY <1>1
    <3>1. k \in 1..n /\ i + l \in 1..n /\ k # i + l
      BY <1>1
    <3> QED BY <2>1, <3>1
  <2>5. Cover(a) \cap Cover(b) = {}
    BY <1>1, <2>4 DEF Cover
  <2>6. \A k \in 1..(i - 1) : Points(a[k]) \cap Points(s[i]) = {}
    <3>1. \A k \in 1..(i - 1) : k \in 1..n /\ k # i
      BY <1>1
    <3> QED BY <1>1, <2>1, <3>1
  <2>7. \A k \in 1..(n - i) : Points(b[k]) \cap Points(s[i]) = {}
    <3>1. \A k \in 1..(n - i) : i + k \in 1..n /\ i + k # i
      BY <1>1
    <3> QED BY <1>1, <2>1, <3>1
  <2>8. Cover(a) \cap Points(s[i]) = {} /\ Cover(b) \cap Points(s[i]) = {}
    BY <1>1, <2>6, <2>7 DEF Cover
  <2> QED BY <2>2, <2>3, <2>5, <2>8
<1>6. \A k \in DOMAIN rest : \E j \in DOMAIN s : rest[k] = s[j]
  <2>1. /\ DOMAIN (a \o b) = 1..((i - 1) + (n - i))
        /\ \A k \in 1..(i - 1) : (a \o b)[k] = a[k]
        /\ \A k \in 1..(n - i) : (a \o b)[(i - 1) + k] = b[k]
    <3>1. Len(a) = i - 1 /\ Len(b) = n - i
      BY <1>1
    <3>2. /\ DOMAIN (a \o b) = 1..(Len(a) + Len(b))
          /\ \A k \in 1..Len(a) : (a \o b)[k] = a[k]
          /\ \A k \in 1..Len(b) : (a \o b)[Len(a) + k] = b[k]
      BY <1>1
    <3> QED BY <3>1, <3>2
  <2>2. ASSUME NEW k \in 1..((i - 1) + (n - i)) PROVE \E j \in 1..n : rest[k] = s[j]
    <3>1. CASE k \in 1..(i - 1)
      BY <1>1, <1>2, <2>1, <3>1
    <3>2. CASE k \notin 1..(i - 1)
      <4>1. k - (i - 1) \in 1..(n - i) /\ k = (i - 1) + (k - (i - 1)) /\ k + 1 \in 1..n
        BY <1>1, <3>2
      <4>2. rest[k] = b[k - (i - 1)]
        BY <1>2, <2>1, <4>1
      <4>3. b[k - (i - 1)] = s[i + (k - (i - 1))] /\ i + (k - (i - 1)) = k + 1
        BY <1>1, <4>1
      <4> QED BY <4>1, <4>2, <4>3
    <3> QED BY <3>1, <3>2
  <2> QED BY <1>1, <1>2, <2>1, <2>2
<1>7. /\ a \o b \in Seq(AddrRange)
      /\ Cover(a \o b) = Cover(a) \cup Cover(b)
      /\ Apart(a \o b) <=> Apart(a) /\ Apart(b) /\ Cover(a) \cap Cover(b) = {}
  BY <1>1, CoverConcat
<1> QED BY <1>2, <1>4, <1>5, <1>6, <1>7 DEF rest

-----------------------------------------------------------------------------
\* Ranges, and the split of a range.

OneKind(r) == \A a \in r.min .. r.max : <<r.size, a>> \in Multicast <=> r.ttl # 0

\* Addresses of as many bytes as their size says, all of the kind of the ttl.
Good(r) ==
    /\ r \in AddrRange
    /\ r.min <= r.max /\ r.max < BYTE ^ r.size
    /\ r.min_port <= r.max_port
    /\ OneKind(r)

\* A block of a range.
Part(r, a, b, p, q) == [r EXCEPT !.min = a, !.max = b, !.min_port = p, !.max_port = q]

When(b, x) == IF b THEN <<x>> ELSE <<>>

LEMMA PowerPositive ==
    ASSUME NEW size \in {SIZE4, SIZE6}, NEW k \in 0 .. size
    PROVE  BYTE ^ k \in Nat \ {0}
<1>1. \A n \in Nat : BYTE ^ n \in Int
  BY AddressPoolAssumption
<1>2. k \in 0 .. SIZE4 + SIZE6 /\ k \in Nat
  BY AddressPoolAssumption
<1> QED BY <1>1, <1>2, PowersAssumption

\* The loop of inc_address: what turn i leaves, as a function of the turns.
Turns(a, count, m) ==
    {f \in [0 .. m -> [low : Nat, carry : Nat, rest : Nat]] :
       /\ f[0] = [low |-> 0, carry |-> count, rest |-> a]
       /\ \A i \in 1 .. m : f[i] = AddByte(f[i - 1], i - 1)}

LEMMA Division ==
    ASSUME NEW n \in Nat, NEW d \in Nat \ {0}
    PROVE  /\ n % d \in Nat /\ n \div d \in Nat /\ n % d <= d - 1
           /\ n = d * (n \div d) + (n % d)
OBVIOUS

(* What a turn does: the bytes so far, what is carried and the bytes that   *)
(* are left still add up to the address and the count.                      *)
LEMMA TurnAdds ==
    ASSUME NEW x \in [low : Nat, carry : Nat, rest : Nat], NEW i \in Nat,
           NEW p \in Nat \ {0}, p = BYTE ^ i, x.low < p
    PROVE  /\ AddByte(x, i) \in [low : Nat, carry : Nat, rest : Nat]
           /\ AddByte(x, i).low < BYTE * p
           /\ AddByte(x, i).low + (AddByte(x, i).carry + AddByte(x, i).rest) * (BYTE * p)
              = x.low + (x.carry + x.rest) * p
<1> DEFINE b == x.rest % BYTE
           s == x.carry + b
           l == s % BYTE
           c == s \div BYTE
           r == x.rest \div BYTE
<1>1. BYTE \in Nat \ {0, 1} /\ x.low \in Nat /\ x.carry \in Nat /\ x.rest \in Nat
  BY AddressPoolAssumption
<1>2. /\ b \in Nat /\ r \in Nat /\ x.rest = BYTE * r + b
  BY <1>1, Division
<1>3. /\ s \in Nat /\ l \in Nat /\ c \in Nat /\ l <= BYTE - 1 /\ s = BYTE * c + l
  <2> HIDE DEF b
  <2>1. s \in Nat
    BY <1>1, <1>2
  <2> HIDE DEF s
  <2> QED BY <1>1, <2>1, Division
<1>4. AddByte(x, i) = [low |-> x.low + l * p, carry |-> c, rest |-> r]
  BY DEF AddByte, Turn
<1>5. s = x.carry + b
  OBVIOUS
<1> HIDE DEF b, s, l, c, r
<1> DEFINE q == l * p
<1>6. q \in Nat /\ q <= (BYTE - 1) * p
  BY <1>1, <1>3
<1>7. (BYTE - 1) * p = BYTE * p - p
  BY <1>1
<1>8. BYTE * p \in Nat
  BY <1>1
<1>9. x.low + q < BYTE * p
  <2> HIDE DEF q
  <2>1. PICK w \in Nat : w = BYTE * p
    BY <1>8
  <2> QED BY <1>1, <1>6, <1>7, <2>1
<1>10. q + (c + r) * (BYTE * p) = (x.carry + x.rest) * p
  <2>1. q + (c + r) * (BYTE * p) = (l + BYTE * c + BYTE * r) * p
    BY <1>1, <1>2, <1>3
  <2>2. l + BYTE * c + BYTE * r = x.carry + x.rest
    <3>1. PICK bc \in Nat, br \in Nat : bc = BYTE * c /\ br = BYTE * r
      BY <1>1, <1>2, <1>3
    <3> QED BY <1>1, <1>2, <1>3, <1>5, <3>1
  <2> QED BY <2>1, <2>2
<1>11. x.low + q + (c + r) * (BYTE * p) = x.low + (x.carry + x.rest) * p
  <2> DEFINE y == (c + r) * (BYTE * p)
             z == (x.carry + x.rest) * p
  <2>1. y \in Int /\ z \in Int
    BY <1>1, <1>2, <1>3, <1>8
  <2>2. q + y = z
    BY <1>10
  <2> HIDE DEF q, y, z
  <2>3. x.low + q + y = x.low + z
    BY <1>1, <1>6, <2>1, <2>2
  <2> QED BY <2>3 DEF y, z
<1> QED BY <1>1, <1>2, <1>3, <1>4, <1>6, <1>9, <1>11

(* The turns exist, and each keeps the sum: the least one that did not       *)
(* would follow one that does.                                               *)
LEMMA TurnsExist ==
    ASSUME NEW size \in {SIZE4, SIZE6}, NEW a \in Nat, NEW count \in Nat
    PROVE  \A m \in 0 .. size : \E f \in Turns(a, count, m) :
             /\ f[m].low < BYTE ^ m
             /\ f[m].low + (f[m].carry + f[m].rest) * BYTE ^ m = a + count
<1> DEFINE Summed(f, m) == /\ f[m].low < BYTE ^ m
                          /\ f[m].low + (f[m].carry + f[m].rest) * BYTE ^ m = a + count
           Bad == {m \in 0 .. size : ~\E f \in Turns(a, count, m) : Summed(f, m)}
<1>0. size \in Nat
  BY AddressPoolAssumption
<1> SUFFICES ASSUME Bad # {} PROVE FALSE
  OBVIOUS
<1>1. Bad \in SUBSET Nat
  OBVIOUS
<1>2. PICK m \in Bad : \A y \in Bad : m <= y
  BY <1>1, LeastNatural
<1>3. m \in 0 .. size
  OBVIOUS
<1>4. m # 0
  <2> DEFINE x == [low |-> 0, carry |-> count, rest |-> a]
             f == [i \in 0 .. 0 |-> x]
  <2>1. f \in Turns(a, count, 0)
    BY DEF Turns
  <2>2. 0 + (count + a) * BYTE ^ 0 = a + count /\ 0 < BYTE ^ 0
    BY PowersAssumption
  <2>3. Summed(f, 0)
    BY <2>2
  <2> QED BY <2>1, <2>3
<1>5. m - 1 \in 0 .. size /\ m - 1 \notin Bad /\ m - 1 \in Nat /\ m \in Nat
  BY <1>0, <1>2, <1>3, <1>4
<1>6. PICK f \in Turns(a, count, m - 1) : Summed(f, m - 1)
  BY <1>5
<1> DEFINE x == f[m - 1]
           p == BYTE ^ (m - 1)
           g == [i \in 0 .. m |-> IF i = m THEN AddByte(x, m - 1) ELSE f[i]]
<1>7. x \in [low : Nat, carry : Nat, rest : Nat]
  BY <1>5, <1>6 DEF Turns
<1>8. p \in Nat \ {0}
  BY <1>5, PowerPositive
<1>9. BYTE ^ m = BYTE * p
  <2>1. m - 1 \in 0 .. SIZE4 + SIZE6 /\ m - 1 + 1 = m
    BY <1>5, AddressPoolAssumption
  <2>2. BYTE ^ (m - 1 + 1) = BYTE * BYTE ^ (m - 1)
    BY <2>1, PowersAssumption
  <2> QED BY <2>1, <2>2
<1>10. /\ x.low < p
       /\ x.low + (x.carry + x.rest) * p = a + count
  BY <1>6
<1> DEFINE y == AddByte(x, m - 1)
<1>11. /\ y \in [low : Nat, carry : Nat, rest : Nat]
       /\ y.low < BYTE * p
       /\ y.low + (y.carry + y.rest) * (BYTE * p) = x.low + (x.carry + x.rest) * p
  <2> HIDE DEF x
  <2> QED BY <1>5, <1>7, <1>8, <1>10, TurnAdds
<1>12. g \in Turns(a, count, m)
  <2>1. g \in [0 .. m -> [low : Nat, carry : Nat, rest : Nat]]
    <3> SUFFICES ASSUME NEW i \in 0 .. m PROVE g[i] \in [low : Nat, carry : Nat, rest : Nat]
      OBVIOUS
    <3>1. i # m => i \in 0 .. m - 1
      BY <1>5
    <3> QED BY <1>6, <1>11, <3>1 DEF Turns
  <2>2. g[0] = [low |-> 0, carry |-> count, rest |-> a]
    BY <1>4, <1>5, <1>6 DEF Turns
  <2>3. ASSUME NEW i \in 1 .. m PROVE g[i] = AddByte(g[i - 1], i - 1)
    <3>1. i - 1 \in 0 .. m /\ i - 1 # m
      BY <1>5
    <3>2. g[i - 1] = f[i - 1]
      BY <3>1
    <3>3. CASE i = m
      BY <1>5, <3>2, <3>3
    <3>4. CASE i # m
      <4>1. i \in 1 .. m - 1 /\ i \in 0 .. m
        BY <1>5, <3>4
      <4>2. f[i] = AddByte(f[i - 1], i - 1)
        BY <1>6, <4>1 DEF Turns
      <4> QED BY <3>2, <3>4, <4>1, <4>2
    <3> QED BY <3>3, <3>4
  <2> HIDE DEF g
  <2> QED BY <2>1, <2>2, <2>3 DEF Turns
<1>13. g[m] = y
  BY <1>5
<1>14. Summed(g, m)
  <2> HIDE DEF g, y, x, p
  <2> QED BY <1>9, <1>10, <1>11, <1>13
<1> QED BY <1>2, <1>12, <1>14

(* Counting on within a range, byte after byte, does not carry out of the   *)
(* address: the bytes are those of the sum.                                  *)
LEMMA IncAddress ==
    ASSUME NEW r, Good(r), NEW a \in Nat, NEW n \in Nat, a + n <= r.max
    PROVE  inc_address(a, r.size, n) = a + n
<1> DEFINE size == r.size
           m == BYTE ^ size
           start == [low |-> 0, carry |-> n, rest |-> a]
           step(f, i) == IF i = 0 THEN start ELSE AddByte(f[i - 1], i - 1)
           turn == CHOOSE f : f = [i \in 0 .. size |-> step(f, i)]
<1>1. size \in {SIZE4, SIZE6} /\ r.max \in Nat /\ r.max < m /\ size \in Nat
  BY AddressPoolAssumption DEF Good, AddrRange
<1>2. m \in Nat \ {0}
  <2>1. size \in 0 .. size
    BY <1>1
  <2> HIDE DEF size
  <2> QED BY <1>1, <2>1, PowerPositive
<1>3. inc_address(a, size, n) = turn[size].low
  BY DEF inc_address
<1> HIDE DEF size
<1>4. PICK f \in Turns(a, n, size) : /\ f[size].low < BYTE ^ size
                                     /\ f[size].low + (f[size].carry + f[size].rest) * BYTE ^ size = a + n
  <2>1. size \in 0 .. size
    BY <1>1
  <2> QED BY <1>1, <2>1, TurnsExist
<1>5. f = [i \in 0 .. size |-> step(f, i)]
  <2>1. f \in [0 .. size -> [low : Nat, carry : Nat, rest : Nat]]
    BY <1>4 DEF Turns
  <2>2. ASSUME NEW i \in 0 .. size PROVE f[i] = step(f, i)
    <3>1. i # 0 => i \in 1 .. size
      BY <1>1
    <3> QED BY <1>4, <3>1 DEF Turns
  <2> HIDE DEF step
  <2> QED BY <2>1, <2>2
<1>6. turn = [i \in 0 .. size |-> step(turn, i)]
  <2> HIDE DEF step
  <2> QED BY <1>5
<1> HIDE DEF turn
<1>7. \A i \in 0 .. size : turn[i] = f[i]
  <2> DEFINE Other == {i \in 0 .. size : turn[i] # f[i]}
  <2> SUFFICES ASSUME Other # {} PROVE FALSE
    OBVIOUS
  <2>1. Other \in SUBSET Nat
    OBVIOUS
  <2>2. PICK i \in Other : \A j \in Other : i <= j
    BY <2>1, LeastNatural
  <2>3. i \in 0 .. size /\ turn[i] = step(turn, i) /\ f[i] = step(f, i)
    BY <1>5, <1>6
  <2>4. i # 0
    BY <2>3, <2>2
  <2>5. i - 1 \in 0 .. size /\ ~(i <= i - 1)
    BY <1>1, <2>3, <2>4
  <2>6. turn[i - 1] = f[i - 1]
    BY <2>2, <2>5
  <2> QED BY <2>2, <2>3, <2>4, <2>6
<1>8. turn[size] = f[size]
  BY <1>1, <1>7
<1> DEFINE x == f[size]
<1>9. x.low \in Nat /\ x.carry \in Nat /\ x.rest \in Nat
  BY <1>1, <1>4 DEF Turns
<1>10. x.low + (x.carry + x.rest) * m = a + n /\ a + n < m
  BY <1>1, <1>2, <1>4
<1> HIDE DEF x, m
<1>11. x.low = a + n
  <2>1. PICK k \in Nat : k = x.carry + x.rest
    BY <1>9
  <2>2. x.low + k * m = a + n
    BY <1>10, <2>1
  <2>3. k = 0
    <3> SUFFICES ASSUME k >= 1 PROVE FALSE
      BY <2>1
    <3>1. k * m >= m /\ k * m \in Int
      BY <1>2
    <3>2. PICK z \in Int : z = k * m
      BY <3>1
    <3> QED BY <1>2, <1>9, <1>10, <2>2, <3>1, <3>2
  <2> QED BY <1>2, <1>9, <2>2, <2>3
<1> QED BY <1>3, <1>8, <1>11 DEF x, size

LEMMA PartFields ==
    ASSUME NEW r \in AddrRange, NEW a \in Nat, NEW b \in Nat, NEW p \in Nat, NEW q \in Nat
    PROVE  /\ Part(r, a, b, p, q) \in AddrRange
           /\ Part(r, a, b, p, q).size = r.size /\ Part(r, a, b, p, q).ttl = r.ttl
           /\ Part(r, a, b, p, q).min = a /\ Part(r, a, b, p, q).max = b
           /\ Part(r, a, b, p, q).min_port = p /\ Part(r, a, b, p, q).max_port = q
BY DEF Part, AddrRange

LEMMA PartGood ==
    ASSUME NEW r, Good(r), NEW a \in Nat, NEW b \in Nat, NEW p \in Nat, NEW q \in Nat,
           r.min <= a, a <= b, b <= r.max, p <= q
    PROVE  Good(Part(r, a, b, p, q))
<1>1. r \in AddrRange
  BY DEF Good
<1>2. /\ Part(r, a, b, p, q) \in AddrRange
      /\ Part(r, a, b, p, q).size = r.size /\ Part(r, a, b, p, q).ttl = r.ttl
      /\ Part(r, a, b, p, q).min = a /\ Part(r, a, b, p, q).max = b
      /\ Part(r, a, b, p, q).min_port = p /\ Part(r, a, b, p, q).max_port = q
  BY <1>1, PartFields
<1>3. r.min \in Nat /\ r.max \in Nat /\ r.max < BYTE ^ r.size /\ BYTE ^ r.size \in Int
  <2>1. \A n \in Nat : BYTE ^ n \in Int
    BY AddressPoolAssumption
  <2>2. r.size \in Nat
    BY <1>1, AddressPoolAssumption DEF AddrRange
  <2> QED BY <1>1, <2>1, <2>2 DEF Good, AddrRange
<1>4. \A x \in a .. b : x \in r.min .. r.max
  BY <1>3
<1>5. OneKind(Part(r, a, b, p, q))
  BY <1>2, <1>4 DEF OneKind, Good
<1> DEFINE m == BYTE ^ r.size
<1>6. b < m
  <2>1. m \in Int /\ r.max < m
    BY <1>3
  <2> HIDE DEF m
  <2> QED BY <1>3, <2>1
<1> QED BY <1>2, <1>5, <1>6 DEF Good

LEMMA WhenCover ==
    ASSUME NEW b \in BOOLEAN, NEW x, b => x \in AddrRange /\ Good(x)
    PROVE  /\ When(b, x) \in Seq(AddrRange)
           /\ Cover(When(b, x)) = IF b THEN Points(x) ELSE {}
           /\ Apart(When(b, x))
           /\ \A k \in DOMAIN When(b, x) : Good(When(b, x)[k])
<1>1. CASE b
  <2>1. When(b, x) = <<x>> /\ x \in AddrRange /\ Good(x)
    BY <1>1 DEF When
  <2>2. <<x>> \in Seq(AddrRange) /\ DOMAIN <<x>> = {1} /\ <<x>>[1] = x
    BY <2>1
  <2> QED BY <1>1, <2>1, <2>2, CoverSmall
<1>2. CASE ~b
  <2>1. When(b, x) = <<>>
    BY <1>2 DEF When
  <2>2. <<>> \in Seq(AddrRange) /\ DOMAIN <<>> = {}
    OBVIOUS
  <2> QED BY <1>2, <2>1, <2>2, CoverSmall
<1> QED BY <1>1, <1>2

(* The ranges of a concatenation are those of its parts.                   *)
LEMMA GoodConcat ==
    ASSUME NEW s \in Seq(AddrRange), NEW u \in Seq(AddrRange),
           \A k \in DOMAIN s : Good(s[k]), \A k \in DOMAIN u : Good(u[k])
    PROVE  \A k \in DOMAIN (s \o u) : Good((s \o u)[k])
<1> DEFINE n == Len(s)
           m == Len(u)
<1>1. /\ n \in Nat /\ m \in Nat /\ DOMAIN s = 1..n /\ DOMAIN u = 1..m
      /\ DOMAIN (s \o u) = 1..(n + m)
      /\ \A i \in 1..n : (s \o u)[i] = s[i]
      /\ \A i \in 1..m : (s \o u)[n + i] = u[i]
  OBVIOUS
<1> HIDE DEF n, m
<1> SUFFICES ASSUME NEW k \in 1..(n + m) PROVE Good((s \o u)[k])
  BY <1>1
<1>2. CASE k \in 1..n
  BY <1>1, <1>2
<1>3. CASE k \notin 1..n
  <2>1. k - n \in 1..m /\ n + (k - n) = k
    BY <1>1, <1>3
  <2>2. (s \o u)[n + (k - n)] = u[k - n]
    BY <1>1, <2>1
  <2> QED BY <1>1, <2>1, <2>2
<1> QED BY <1>2, <1>3

\* What is left of a range around the block a of its addresses and p to q of
\* its ports.
Left(r, a, p, q) ==
    When(q < r.max_port, Part(r, a, a, q + 1, r.max_port))
    \o When(r.min_port < p, Part(r, a, a, r.min_port, p - 1))
    \o When(a < r.max, Part(r, a + 1, r.max, r.min_port, r.max_port))
    \o When(r.min < a, Part(r, r.min, a - 1, r.min_port, r.max_port))

(* split_range cuts the block out, and keeps the rest.                     *)
LEMMA SplitIs ==
    ASSUME NEW r, Good(r), NEW i \in Nat, NEW j \in Nat, NEW n \in Nat \ {0},
           i <= r.max - r.min, j + n <= r.max_port - r.min_port + 1
    PROVE  LET a == r.min + i
               p == r.min_port + j
               split == split_range(r, i, j, n)
           IN  /\ split.taken = Part(r, a, a, p, p + n - 1)
               /\ split.left = Left(r, a, p, p + n - 1)
<1> DEFINE a == r.min + i
           p == r.min_port + j
           below == [r EXCEPT !.max = inc_address(r.min, r.size, i - 1)]
           r1 == [r EXCEPT !.min = inc_address(r.min, r.size, i)]
           above == [r1 EXCEPT !.min = inc_address(r1.min, r.size, 1)]
           r2 == [r1 EXCEPT !.max = r1.min]
           low == [r2 EXCEPT !.max_port = r2.min_port + j - 1]
           r3 == [r2 EXCEPT !.min_port = r2.min_port + j]
           more == r3.max_port - r3.min_port + 1 > n
           high == [r3 EXCEPT !.min_port = r3.min_port + n]
           taken == IF more THEN [r3 EXCEPT !.max_port = r3.min_port + n - 1] ELSE r3
<1>1. /\ split_range(r, i, j, n).taken = taken
      /\ split_range(r, i, j, n).left =
             When(more, high) \o When(j > 0, low) \o When(r1.min # r1.max, above) \o When(i # 0, below)
  BY DEF split_range, When
<1>2. /\ r \in AddrRange /\ r.min \in Nat /\ r.max \in Nat /\ r.min_port \in Nat /\ r.max_port \in Nat
      /\ r.min <= r.max /\ a \in Nat /\ a <= r.max /\ p \in Nat /\ p + n - 1 \in Nat
      /\ p + n - 1 <= r.max_port /\ a = r.min + i /\ p = r.min_port + j
  BY DEF Good, AddrRange
<1> HIDE DEF a, p, below, r1, above, r2, low, r3, more, high, taken
<1>3. inc_address(r.min, r.size, i) = a
  BY <1>2, IncAddress
<1>4. i # 0 => inc_address(r.min, r.size, i - 1) = a - 1
  <2>1. ASSUME i # 0 PROVE inc_address(r.min, r.size, i - 1) = a - 1
    <3>1. i - 1 \in Nat /\ r.min + (i - 1) <= r.max /\ r.min + (i - 1) = a - 1
      BY <1>2, <2>1
    <3> QED BY <1>2, <3>1, IncAddress
  <2> QED BY <2>1
<1>5. a < r.max => inc_address(a, r.size, 1) = a + 1
  <2>1. ASSUME a < r.max PROVE inc_address(a, r.size, 1) = a + 1
    <3>1. 1 \in Nat /\ a + 1 <= r.max
      BY <1>2, <2>1
    <3> QED BY <1>2, <3>1, IncAddress
  <2> QED BY <2>1
<1>6. r1 = [r EXCEPT !.min = a] /\ r1 \in AddrRange /\ r1.min = a /\ r1.max = r.max
  BY <1>2, <1>3 DEF AddrRange, r1
<1>7. /\ r2 = Part(r, a, a, r.min_port, r.max_port) /\ r2 \in AddrRange
      /\ r2.min_port = r.min_port /\ r2.max_port = r.max_port
  BY <1>2, <1>6 DEF AddrRange, Part, r2
<1>8. /\ r3 = Part(r, a, a, p, r.max_port) /\ r3 \in AddrRange
      /\ r3.min_port = p /\ r3.max_port = r.max_port
  BY <1>2, <1>7 DEF AddrRange, Part, r3
<1>9. more <=> p + n - 1 < r.max_port
  BY <1>2, <1>8 DEF more
<1>10. high = Part(r, a, a, p + n - 1 + 1, r.max_port)
  <2>1. p + n - 1 + 1 = p + n
    BY <1>2
  <2>2. high = [r3 EXCEPT !.min_port = p + n]
    BY <1>8 DEF high
  <2>3. [r3 EXCEPT !.min_port = p + n] = Part(r, a, a, p + n, r.max_port)
    BY <1>2, <1>8 DEF AddrRange, Part
  <2> QED BY <2>1, <2>2, <2>3
<1>11. taken = Part(r, a, a, p, p + n - 1)
  <2>1. CASE more
    BY <1>2, <1>8, <2>1 DEF AddrRange, Part, taken
  <2>2. CASE ~more
    BY <1>2, <1>8, <1>9, <2>2 DEF taken
  <2> QED BY <2>1, <2>2
<1>12. low = Part(r, a, a, r.min_port, p - 1)
  <2>1. low = [r2 EXCEPT !.max_port = p - 1]
    BY <1>2, <1>7 DEF low
  <2>2. [r2 EXCEPT !.max_port = p - 1] = Part(r, a, a, r.min_port, p - 1)
    BY <1>2, <1>7 DEF AddrRange, Part
  <2> QED BY <2>1, <2>2
<1>13. j > 0 <=> r.min_port < p
  BY <1>2
<1>14. r1.min # r1.max <=> a < r.max
  <2>1. \A x, y \in Nat : x <= y => (x # y <=> x < y)
    OBVIOUS
  <2>2. r1.min # r1.max <=> a # r.max
    BY <1>6
  <2> QED BY <1>2, <2>1, <2>2
<1>15. a < r.max => above = Part(r, a + 1, r.max, r.min_port, r.max_port)
  <2>1. ASSUME a < r.max PROVE above = Part(r, a + 1, r.max, r.min_port, r.max_port)
    <3>1. above = [r1 EXCEPT !.min = a + 1]
      <4>1. inc_address(r1.min, r.size, 1) = a + 1
        BY <1>5, <1>6, <2>1
      <4> QED BY <4>1 DEF above
    <3>2. [r1 EXCEPT !.min = a + 1] = Part(r, a + 1, r.max, r.min_port, r.max_port)
      BY <1>2, <1>6 DEF AddrRange, Part
    <3> QED BY <3>1, <3>2
  <2> QED BY <2>1
<1>16. i # 0 <=> r.min < a
  BY <1>2
<1>17. r.min < a => below = Part(r, r.min, a - 1, r.min_port, r.max_port)
  BY <1>2, <1>4, <1>16 DEF AddrRange, Part, below
<1>18. When(more, high) = When(p + n - 1 < r.max_port, Part(r, a, a, p + n - 1 + 1, r.max_port))
  BY <1>9, <1>10 DEF When
<1>19. When(j > 0, low) = When(r.min_port < p, Part(r, a, a, r.min_port, p - 1))
  BY <1>12, <1>13 DEF When
<1>20. When(r1.min # r1.max, above) = When(a < r.max, Part(r, a + 1, r.max, r.min_port, r.max_port))
  BY <1>14, <1>15 DEF When
<1>21. When(i # 0, below) = When(r.min < a, Part(r, r.min, a - 1, r.min_port, r.max_port))
  BY <1>16, <1>17 DEF When
<1> QED BY <1>1, <1>11, <1>18, <1>19, <1>20, <1>21 DEF Left, a, p

Block(z, a, b, p, q) == {z} \X (a .. b) \X (p .. q)

(* A rectangle of addresses and ports around a block of one address.       *)
LEMMA Rectangles ==
    ASSUME NEW z, NEW lo \in Nat, NEW hi \in Nat, NEW a \in lo .. hi,
           NEW from \in Nat, NEW to \in Nat, NEW p \in from .. to, NEW q \in p .. to
    PROVE  LET T == Block(z, a, a, p, q)
               H == Block(z, a, a, q + 1, to)
               L == Block(z, a, a, from, p - 1)
               A == Block(z, a + 1, hi, from, to)
               B == Block(z, lo, a - 1, from, to)
           IN  /\ H \cup L \cup A \cup B \cup T = Block(z, lo, hi, from, to)
               /\ H \cap L = {} /\ (H \cup L) \cap A = {} /\ (H \cup L \cup A) \cap B = {}
               /\ (H \cup L \cup A \cup B) \cap T = {}
<1> DEFINE T == Block(z, a, a, p, q)
           H == Block(z, a, a, q + 1, to)
           L == Block(z, a, a, from, p - 1)
           A == Block(z, a + 1, hi, from, to)
           B == Block(z, lo, a - 1, from, to)
           R == Block(z, lo, hi, from, to)
           All == {z} \X Int \X Int
<1>1. /\ T \subseteq All /\ H \subseteq All /\ L \subseteq All /\ A \subseteq All
      /\ B \subseteq All /\ R \subseteq All
  BY DEF Block
<1>2. \A t \in All : \E x, y \in Int : t = <<z, x, y>>
  OBVIOUS
<1>3. \A x, y \in Int :
        /\ <<z, x, y>> \in T <=> x = a /\ p <= y /\ y <= q
        /\ <<z, x, y>> \in H <=> x = a /\ q + 1 <= y /\ y <= to
        /\ <<z, x, y>> \in L <=> x = a /\ from <= y /\ y <= p - 1
        /\ <<z, x, y>> \in A <=> a + 1 <= x /\ x <= hi /\ from <= y /\ y <= to
        /\ <<z, x, y>> \in B <=> lo <= x /\ x <= a - 1 /\ from <= y /\ y <= to
        /\ <<z, x, y>> \in R <=> lo <= x /\ x <= hi /\ from <= y /\ y <= to
  BY DEF Block
<1> HIDE DEF T, H, L, A, B, R, All
<1>4. ASSUME NEW x \in Int, NEW y \in Int
      PROVE  LET t == <<z, x, y>>
             IN  /\ t \in R <=> t \in H \/ t \in L \/ t \in A \/ t \in B \/ t \in T
                 /\ ~(t \in H /\ t \in L) /\ ~(t \in H /\ t \in A) /\ ~(t \in L /\ t \in A)
                 /\ ~(t \in H /\ t \in B) /\ ~(t \in L /\ t \in B) /\ ~(t \in A /\ t \in B)
                 /\ ~(t \in H /\ t \in T) /\ ~(t \in L /\ t \in T) /\ ~(t \in A /\ t \in T)
                 /\ ~(t \in B /\ t \in T)
  <2>1. /\ lo \in Int /\ hi \in Int /\ a \in Int /\ from \in Int /\ to \in Int /\ p \in Int /\ q \in Int
        /\ lo <= a /\ a <= hi /\ from <= p /\ p <= q /\ q <= to
    OBVIOUS
  <2> QED BY <1>3, <2>1
<1>5. \A t \in All :
        /\ t \in R <=> t \in H \/ t \in L \/ t \in A \/ t \in B \/ t \in T
        /\ ~(t \in H /\ t \in L) /\ ~(t \in H /\ t \in A) /\ ~(t \in L /\ t \in A)
        /\ ~(t \in H /\ t \in B) /\ ~(t \in L /\ t \in B) /\ ~(t \in A /\ t \in B)
        /\ ~(t \in H /\ t \in T) /\ ~(t \in L /\ t \in T) /\ ~(t \in A /\ t \in T)
        /\ ~(t \in B /\ t \in T)
  BY <1>2, <1>4
<1>6. /\ H \cup L \cup A \cup B \cup T = R
      /\ H \cap L = {} /\ (H \cup L) \cap A = {} /\ (H \cup L \cup A) \cap B = {}
      /\ (H \cup L \cup A \cup B) \cap T = {}
  BY <1>1, <1>5
<1> QED BY <1>6 DEF T, H, L, A, B, R

\* A block within a range.
Within(r, a, b, p, q) ==
    /\ a \in Nat /\ b \in Nat /\ p \in Nat /\ q \in Nat
    /\ r.min <= a /\ a <= b /\ b <= r.max /\ p <= q

IsBlock(x, z, a, b, p, q) ==
    Good(x) /\ x \in AddrRange /\ Points(x) = Block(z, a, b, p, q)

LEMMA PartBlock ==
    \A r, a, b, p, q :
        Good(r) /\ Within(r, a, b, p, q) => IsBlock(Part(r, a, b, p, q), r.size, a, b, p, q)
<1> SUFFICES ASSUME NEW r, NEW a, NEW b, NEW p, NEW q, Good(r), Within(r, a, b, p, q)
             PROVE  IsBlock(Part(r, a, b, p, q), r.size, a, b, p, q)
  OBVIOUS
<1>1. Good(Part(r, a, b, p, q))
  BY PartGood DEF Within
<1>2. r \in AddrRange /\ Part(r, a, b, p, q) \in AddrRange
  BY <1>1 DEF Good
<1>3. /\ Part(r, a, b, p, q).size = r.size
      /\ Part(r, a, b, p, q).min = a /\ Part(r, a, b, p, q).max = b
      /\ Part(r, a, b, p, q).min_port = p /\ Part(r, a, b, p, q).max_port = q
  BY <1>2, PartFields DEF Within
<1>4. Points(Part(r, a, b, p, q)) = Block(r.size, a, b, p, q)
  BY <1>3 DEF Points, Block
<1> QED BY <1>1, <1>2, <1>4 DEF IsBlock

(* What is left and what is taken are a partition of the range.            *)
LEMMA LeftIs ==
    ASSUME NEW r, Good(r), NEW a \in Nat, NEW p \in Nat, NEW q \in Nat,
           r.min <= a, a <= r.max, r.min_port <= p, p <= q, q <= r.max_port
    PROVE  LET left == Left(r, a, p, q)
               taken == Part(r, a, a, p, q)
           IN  /\ Good(taken) /\ taken \in AddrRange
               /\ left \in Seq(AddrRange) /\ \A k \in DOMAIN left : Good(left[k])
               /\ Apart(left) /\ Cover(left) \cap Points(taken) = {}
               /\ Cover(left) \cup Points(taken) = Points(r)
<1> DEFINE taken == Part(r, a, a, p, q)
           high == Part(r, a, a, q + 1, r.max_port)
           low == Part(r, a, a, r.min_port, p - 1)
           above == Part(r, a + 1, r.max, r.min_port, r.max_port)
           below == Part(r, r.min, a - 1, r.min_port, r.max_port)
           h == When(q < r.max_port, high)
           l == When(r.min_port < p, low)
           u == When(a < r.max, above)
           b == When(r.min < a, below)
           T == Points(taken)
           H == Block(r.size, a, a, q + 1, r.max_port)
           L == Block(r.size, a, a, r.min_port, p - 1)
           A == Block(r.size, a + 1, r.max, r.min_port, r.max_port)
           B == Block(r.size, r.min, a - 1, r.min_port, r.max_port)
<1>1. /\ r \in AddrRange /\ r.min \in Nat /\ r.max \in Nat /\ r.min_port \in Nat /\ r.max_port \in Nat
      /\ r.min <= a /\ a <= r.max /\ r.min_port <= p /\ p <= q /\ q <= r.max_port
      /\ a \in Nat /\ p \in Nat /\ q \in Nat
  BY DEF Good, AddrRange
<1>2. /\ Good(taken) /\ taken \in AddrRange /\ T = Block(r.size, a, a, p, q)
  <2>1. Within(r, a, a, p, q)
    BY <1>1 DEF Within
  <2> QED BY <2>1, PartBlock DEF IsBlock
<1>3. h \in Seq(AddrRange) /\ Cover(h) = H /\ Apart(h) /\ \A k \in DOMAIN h : Good(h[k])
  <2>1. CASE q < r.max_port
    <3>1. Within(r, a, a, q + 1, r.max_port)
      BY <1>1, <2>1 DEF Within
    <3>2. Good(high) /\ high \in AddrRange /\ Points(high) = H
      BY <3>1, PartBlock DEF IsBlock
    <3> HIDE DEF high, H
    <3> QED BY <2>1, <3>2, WhenCover
  <2>2. CASE ~(q < r.max_port)
    <3>1. H = {}
      BY <1>1, <2>2 DEF Block
    <3> HIDE DEF high, H
    <3>2. (q < r.max_port) \in BOOLEAN
      OBVIOUS
    <3> QED BY <2>2, <3>1, <3>2, WhenCover
  <2> QED BY <2>1, <2>2
<1>4. l \in Seq(AddrRange) /\ Cover(l) = L /\ Apart(l) /\ \A k \in DOMAIN l : Good(l[k])
  <2>1. CASE r.min_port < p
    <3>1. Within(r, a, a, r.min_port, p - 1)
      BY <1>1, <2>1 DEF Within
    <3>2. Good(low) /\ low \in AddrRange /\ Points(low) = L
      BY <3>1, PartBlock DEF IsBlock
    <3> HIDE DEF low, L
    <3> QED BY <2>1, <3>2, WhenCover
  <2>2. CASE ~(r.min_port < p)
    <3>1. L = {}
      BY <1>1, <2>2 DEF Block
    <3> HIDE DEF low, L
    <3>2. (r.min_port < p) \in BOOLEAN
      OBVIOUS
    <3> QED BY <2>2, <3>1, <3>2, WhenCover
  <2> QED BY <2>1, <2>2
<1>5. u \in Seq(AddrRange) /\ Cover(u) = A /\ Apart(u) /\ \A k \in DOMAIN u : Good(u[k])
  <2>1. CASE a < r.max
    <3>1. Within(r, a + 1, r.max, r.min_port, r.max_port)
      BY <1>1, <2>1 DEF Within
    <3>2. Good(above) /\ above \in AddrRange /\ Points(above) = A
      BY <3>1, PartBlock DEF IsBlock
    <3> HIDE DEF above, A
    <3> QED BY <2>1, <3>2, WhenCover
  <2>2. CASE ~(a < r.max)
    <3>1. A = {}
      BY <1>1, <2>2 DEF Block
    <3> HIDE DEF above, A
    <3>2. (a < r.max) \in BOOLEAN
      OBVIOUS
    <3> QED BY <2>2, <3>1, <3>2, WhenCover
  <2> QED BY <2>1, <2>2
<1>6. b \in Seq(AddrRange) /\ Cover(b) = B /\ Apart(b) /\ \A k \in DOMAIN b : Good(b[k])
  <2>1. CASE r.min < a
    <3>1. Within(r, r.min, a - 1, r.min_port, r.max_port)
      BY <1>1, <2>1 DEF Within
    <3>2. Good(below) /\ below \in AddrRange /\ Points(below) = B
      BY <3>1, PartBlock DEF IsBlock
    <3> HIDE DEF below, B
    <3> QED BY <2>1, <3>2, WhenCover
  <2>2. CASE ~(r.min < a)
    <3>1. B = {}
      BY <1>1, <2>2 DEF Block
    <3> HIDE DEF below, B
    <3>2. (r.min < a) \in BOOLEAN
      OBVIOUS
    <3> QED BY <2>2, <3>1, <3>2, WhenCover
  <2> QED BY <2>1, <2>2
<1>7. /\ H \cup L \cup A \cup B \cup T = Points(r)
      /\ H \cap L = {} /\ (H \cup L) \cap A = {} /\ (H \cup L \cup A) \cap B = {}
      /\ (H \cup L \cup A \cup B) \cap T = {}
  <2>1. Points(r) = Block(r.size, r.min, r.max, r.min_port, r.max_port)
    BY DEF Points, Block
  <2>2. a \in r.min .. r.max /\ p \in r.min_port .. r.max_port /\ q \in p .. r.max_port
    BY <1>1
  <2>3. LET TT == Block(r.size, a, a, p, q)
        IN  /\ H \cup L \cup A \cup B \cup TT = Block(r.size, r.min, r.max, r.min_port, r.max_port)
            /\ H \cap L = {} /\ (H \cup L) \cap A = {} /\ (H \cup L \cup A) \cap B = {}
            /\ (H \cup L \cup A \cup B) \cap TT = {}
    BY <1>1, <2>2, Rectangles, ZenonT(40)
  <2> QED BY <1>2, <2>1, <2>3
<1>8. Left(r, a, p, q) = h \o l \o u \o b
  BY DEF Left
<1> HIDE DEF taken, h, l, u, b, T, H, L, A, B, Left
<1>9. /\ h \o l \in Seq(AddrRange) /\ Cover(h \o l) = H \cup L /\ Apart(h \o l)
      /\ \A k \in DOMAIN (h \o l) : Good((h \o l)[k])
  BY <1>3, <1>4, <1>7, CoverConcat, GoodConcat
<1>10. /\ h \o l \o u \in Seq(AddrRange) /\ Cover(h \o l \o u) = H \cup L \cup A /\ Apart(h \o l \o u)
       /\ \A k \in DOMAIN (h \o l \o u) : Good((h \o l \o u)[k])
  <2> DEFINE c == h \o l
  <2> HIDE DEF c
  <2>1. c \in Seq(AddrRange) /\ Cover(c) = H \cup L /\ Apart(c) /\ \A k \in DOMAIN c : Good(c[k])
    BY <1>9 DEF c
  <2>2. c \o u \in Seq(AddrRange) /\ Cover(c \o u) = H \cup L \cup A /\ Apart(c \o u)
        /\ \A k \in DOMAIN (c \o u) : Good((c \o u)[k])
    BY <1>5, <1>7, <2>1, CoverConcat, GoodConcat
  <2> QED BY <2>2 DEF c
<1>11. /\ h \o l \o u \o b \in Seq(AddrRange) /\ Cover(h \o l \o u \o b) = H \cup L \cup A \cup B
       /\ Apart(h \o l \o u \o b)
       /\ \A k \in DOMAIN (h \o l \o u \o b) : Good((h \o l \o u \o b)[k])
  <2> DEFINE c == h \o l \o u
  <2> HIDE DEF c
  <2>1. c \in Seq(AddrRange) /\ Cover(c) = H \cup L \cup A /\ Apart(c) /\ \A k \in DOMAIN c : Good(c[k])
    BY <1>10 DEF c
  <2>2. c \o b \in Seq(AddrRange) /\ Cover(c \o b) = H \cup L \cup A \cup B /\ Apart(c \o b)
        /\ \A k \in DOMAIN (c \o b) : Good((c \o b)[k])
    BY <1>6, <1>7, <2>1, CoverConcat, GoodConcat
  <2> QED BY <2>2 DEF c
<1> QED BY <1>2, <1>7, <1>8, <1>11 DEF taken, T

-----------------------------------------------------------------------------
\* The partition.

RangesInv ==
    /\ addresses \in Seq(AddrRange) /\ allocated \in Seq(AddrRange)
    /\ \A i \in DOMAIN addresses : Good(addresses[i])
    /\ \A i \in DOMAIN allocated : Good(allocated[i])
    /\ Apart(addresses) /\ Apart(allocated) /\ Cover(addresses) \cap Cover(allocated) = {}
    /\ owned = Cover(addresses) \cup Cover(allocated)
    /\ has_unicast_addresses \in BOOLEAN /\ clearing \in BOOLEAN /\ added \in Nat

\* A range the application adds is multicast or unicast as a whole: add_range
\* compares its first and its last address with the ttl.
OfferedOneKind == \A r \in Offered : valid_range(r) => OneKind(r)

(* The invariant says what the run checks.                                 *)
LEMMA InvTracks == RangesInv => RangesTracked
<1> SUFFICES ASSUME RangesInv PROVE RangesTracked
  OBVIOUS
<1>1. addresses \in Seq(AddrRange) /\ allocated \in Seq(AddrRange)
  BY DEF RangesInv
<1>2. /\ Everything \in Seq(AddrRange)
      /\ Cover(Everything) = Cover(allocated) \cup Cover(addresses)
      /\ Apart(Everything) <=> Apart(allocated) /\ Apart(addresses)
                                 /\ Cover(allocated) \cap Cover(addresses) = {}
  BY <1>1, CoverConcat DEF Everything
<1>3. \A i \in DOMAIN Everything : Good(Everything[i])
  BY <1>1, GoodConcat DEF Everything, RangesInv
<1>4. Disjoint
  BY <1>2 DEF Disjoint, Apart, RangesInv
<1>5. Conserved
  BY <1>2 DEF Conserved, Cover, RangesInv
<1>6. KindKept
  <2>1. ASSUME NEW r, Good(r) PROVE <<r.size, r.min>> \in Multicast <=> r.ttl # 0
    <3>1. r.min \in r.min .. r.max
      BY <2>1 DEF Good, AddrRange
    <3> QED BY <2>1, <3>1 DEF Good, OneKind
  <2> QED BY <1>3, <2>1 DEF KindKept
<1>7. RangesTypeOK
  <2>1. ASSUME NEW r, Good(r) PROVE Points(r) \subseteq {SIZE4, SIZE6} \X Nat \X Nat
    BY <2>1 DEF Good, AddrRange, Points
  <2>2. Cover(addresses) \subseteq {SIZE4, SIZE6} \X Nat \X Nat
    BY <2>1 DEF Cover, RangesInv
  <2>3. Cover(allocated) \subseteq {SIZE4, SIZE6} \X Nat \X Nat
    BY <2>1 DEF Cover, RangesInv
  <2>4. \A i \in DOMAIN addresses : addresses[i].min <= addresses[i].max
    BY DEF RangesInv, Good
  <2> QED BY <2>2, <2>3, <2>4 DEF RangesTypeOK, RangesInv
<1> QED BY <1>4, <1>5, <1>6, <1>7 DEF RangesTracked

(* A range that becomes one of the list covers what no other covers.       *)
LEMMA CoverPush ==
    ASSUME NEW r, Good(r), NEW s \in Seq(AddrRange), \A i \in DOMAIN s : Good(s[i]),
           Apart(s), Points(r) \cap Cover(s) = {}
    PROVE  /\ <<r>> \o s \in Seq(AddrRange)
           /\ \A i \in DOMAIN (<<r>> \o s) : Good((<<r>> \o s)[i])
           /\ Apart(<<r>> \o s) /\ Cover(<<r>> \o s) = Points(r) \cup Cover(s)
<1>1. r \in AddrRange
  BY DEF Good
<1> DEFINE o == <<r>>
<1>2. o \in Seq(AddrRange) /\ DOMAIN o = {1} /\ o[1] = r /\ Cover(o) = Points(r) /\ Apart(o)
  BY <1>1, CoverSmall
<1> HIDE DEF o
<1>3. \A i \in DOMAIN o : Good(o[i])
  BY <1>2
<1>4. /\ o \o s \in Seq(AddrRange) /\ Cover(o \o s) = Points(r) \cup Cover(s) /\ Apart(o \o s)
      /\ \A i \in DOMAIN (o \o s) : Good((o \o s)[i])
  BY <1>2, <1>3, CoverConcat, GoodConcat
<1> QED BY <1>4 DEF o

LEMMA InitRanges == RangesInit => RangesInv
<1> SUFFICES ASSUME RangesInit PROVE RangesInv
  OBVIOUS
<1>1. addresses = <<>> /\ allocated = <<>> /\ owned = {}
  BY DEF RangesInit
<1>2. <<>> \in Seq(AddrRange) /\ DOMAIN <<>> = {}
  OBVIOUS
<1> QED BY <1>1, <1>2, CoverSmall DEF RangesInit, RangesInv

LEMMA AddKeeps ==
    ASSUME OfferedOneKind, RangesInv, NEW r \in Offered, add_range(r)
    PROVE  RangesInv'
<1>1. /\ addresses' = <<r>> \o addresses /\ allocated' = allocated
      /\ owned' = owned \cup Points(r) /\ Points(r) \cap owned = {}
      /\ clearing' = clearing /\ has_unicast_addresses' \in BOOLEAN /\ added' = added + 1
      /\ valid_range(r)
  BY DEF add_range
<1>2. Good(r)
  <2>1. r \in AddrRange /\ r.max < BYTE ^ r.size
    BY AddressPoolAssumption
  <2> QED BY <1>1, <2>1 DEF Good, valid_range, OfferedOneKind
<1>3. /\ addresses' \in Seq(AddrRange) /\ \A i \in DOMAIN addresses' : Good(addresses'[i])
      /\ Apart(addresses') /\ Cover(addresses') = Points(r) \cup Cover(addresses)
  BY <1>1, <1>2, CoverPush DEF RangesInv
<1>4. /\ Cover(addresses') \cap Cover(allocated') = {}
      /\ owned' = Cover(addresses') \cup Cover(allocated')
      /\ allocated' \in Seq(AddrRange) /\ Apart(allocated')
      /\ \A i \in DOMAIN allocated' : Good(allocated'[i])
      /\ has_unicast_addresses' \in BOOLEAN /\ clearing' \in BOOLEAN /\ added' \in Nat
  BY <1>1, <1>3, SMTT(20) DEF RangesInv
<1> QED BY <1>3, <1>4 DEF RangesInv

\* A block to take out of a range.
Fits(r, i, j, n) ==
    /\ i \in Nat /\ i <= r.max - r.min
    /\ j \in Nat /\ n \in Nat \ {0} /\ j + n <= r.max_port - r.min_port + 1

(* The two results of split_range, for a block that fits.                  *)
LEMMA SplitFits ==
    ASSUME NEW r, Good(r), NEW i, NEW j, NEW n, Fits(r, i, j, n)
    PROVE  LET split == split_range(r, i, j, n)
           IN  /\ Good(split.taken) /\ split.taken \in AddrRange
               /\ split.taken.min = r.min + i /\ split.taken.max = r.min + i
               /\ split.taken.min_port = r.min_port + j
               /\ split.taken.max_port = r.min_port + j + n - 1
               /\ split.taken.size = r.size
               /\ split.left \in Seq(AddrRange) /\ \A k \in DOMAIN split.left : Good(split.left[k])
               /\ Apart(split.left) /\ Cover(split.left) \cap Points(split.taken) = {}
               /\ Cover(split.left) \cup Points(split.taken) = Points(r)
<1> DEFINE a == r.min + i
           p == r.min_port + j
           q == p + n - 1
<1>1. /\ r \in AddrRange /\ i \in Nat /\ j \in Nat /\ n \in Nat \ {0}
      /\ i <= r.max - r.min /\ j + n <= r.max_port - r.min_port + 1
  BY DEF Fits, Good
<1>2. /\ split_range(r, i, j, n).taken = Part(r, a, a, p, q)
      /\ split_range(r, i, j, n).left = Left(r, a, p, q)
  BY <1>1, SplitIs
<1>3. /\ a \in Nat /\ p \in Nat /\ q \in Nat
      /\ r.min <= a /\ a <= r.max /\ r.min_port <= p /\ p <= q /\ q <= r.max_port
  <2>1. r.min \in Nat /\ r.max \in Nat /\ r.min_port \in Nat /\ r.max_port \in Nat
    BY <1>1 DEF AddrRange
  <2> QED BY <1>1, <2>1
<1>4. q = r.min_port + j + n - 1 /\ a = r.min + i /\ p = r.min_port + j
  OBVIOUS
<1> HIDE DEF a, p, q
<1>5. /\ Good(Part(r, a, a, p, q)) /\ Part(r, a, a, p, q) \in AddrRange
      /\ Left(r, a, p, q) \in Seq(AddrRange)
      /\ \A k \in DOMAIN Left(r, a, p, q) : Good(Left(r, a, p, q)[k])
      /\ Apart(Left(r, a, p, q)) /\ Cover(Left(r, a, p, q)) \cap Points(Part(r, a, a, p, q)) = {}
      /\ Cover(Left(r, a, p, q)) \cup Points(Part(r, a, a, p, q)) = Points(r)
  BY <1>3, LeftIs
<1>6. /\ Part(r, a, a, p, q).min = a /\ Part(r, a, a, p, q).max = a
      /\ Part(r, a, a, p, q).min_port = p /\ Part(r, a, a, p, q).max_port = q
      /\ Part(r, a, a, p, q).size = r.size
  <2>1. r \in AddrRange
    BY <1>1
  <2> QED BY <1>3, <2>1, PartFields
<1> QED BY <1>2, <1>4, <1>5, <1>6

(* Taking a block out of a free range keeps the partition.                 *)
LEMMA TakeKeeps ==
    ASSUME RangesInv, NEW i \in DOMAIN addresses, NEW a, NEW j, NEW n,
           Fits(addresses[i], a, j, n), Take(i, a, j, n),
           UNCHANGED <<has_unicast_addresses, clearing, owned, added>>
    PROVE  RangesInv'
<1> DEFINE r == addresses[i]
           split == split_range(r, a, j, n)
           left == split.left
           taken == split.taken
           rest == RemoveAt(addresses, i)
<1>1. /\ addresses \in Seq(AddrRange) /\ allocated \in Seq(AddrRange) /\ Good(r)
      /\ Apart(addresses) /\ Apart(allocated) /\ Cover(addresses) \cap Cover(allocated) = {}
      /\ \A k \in DOMAIN allocated : Good(allocated[k])
      /\ owned = Cover(addresses) \cup Cover(allocated)
  BY DEF RangesInv
<1>2. addresses' = left \o rest /\ allocated' = <<taken>> \o allocated
  BY DEF Take
<1>3. /\ Good(taken) /\ left \in Seq(AddrRange) /\ \A k \in DOMAIN left : Good(left[k])
      /\ Apart(left) /\ Cover(left) \cap Points(taken) = {}
      /\ Cover(left) \cup Points(taken) = Points(r)
  BY <1>1, SplitFits
<1>4. /\ rest \in Seq(AddrRange) /\ Cover(addresses) = Cover(rest) \cup Points(r)
      /\ Apart(rest) /\ Cover(rest) \cap Points(r) = {}
      /\ \A k \in DOMAIN rest : \E l \in DOMAIN addresses : rest[k] = addresses[l]
  BY <1>1, CoverRemove
<1>5. \A k \in DOMAIN rest : Good(rest[k])
  BY <1>4 DEF RangesInv
<1> HIDE DEF r, split, left, taken, rest
<1>6. /\ left \o rest \in Seq(AddrRange) /\ Apart(left \o rest)
      /\ Cover(left \o rest) = Cover(left) \cup Cover(rest)
      /\ \A k \in DOMAIN (left \o rest) : Good((left \o rest)[k])
  <2>1. Cover(left) \cap Cover(rest) = {}
    BY <1>3, <1>4
  <2> QED BY <1>3, <1>4, <1>5, <2>1, CoverConcat, GoodConcat
<1>7. /\ <<taken>> \o allocated \in Seq(AddrRange) /\ Apart(<<taken>> \o allocated)
      /\ \A k \in DOMAIN (<<taken>> \o allocated) : Good((<<taken>> \o allocated)[k])
      /\ Cover(<<taken>> \o allocated) = Points(taken) \cup Cover(allocated)
  <2>1. Points(taken) \cap Cover(allocated) = {}
    BY <1>1, <1>3, <1>4
  <2> QED BY <1>1, <1>3, <2>1, CoverPush
<1>8. /\ Cover(addresses') \cap Cover(allocated') = {}
      /\ owned' = Cover(addresses') \cup Cover(allocated')
  BY <1>1, <1>2, <1>3, <1>4, <1>6, <1>7
<1> QED BY <1>2, <1>6, <1>7, <1>8 DEF RangesInv

(* The bytes that diff_address subtracts never give more than what lies    *)
(* between the addresses, and with few addresses they give just that.      *)
LEMMA DiffAddress ==
    ASSUME NEW size \in {SIZE4, SIZE6}, NEW lo \in Nat, NEW hi \in Nat, lo <= hi
    PROVE  /\ diff_address(hi, lo, size) \in 0 .. hi - lo
           /\ hi - lo < BYTE ^ 3 => diff_address(hi, lo, size) = hi - lo
<1> DEFINE Prefix(x, k) == x \div BYTE ^ (size - k)
           result(k) == Prefix(hi, k) - Prefix(lo, k)
           overflow == {k \in 0 .. size - 1 : result(k) >= BYTE ^ 3}
<1>1. diff_address(hi, lo, size) = IF overflow = {} THEN result(size) ELSE result(Min(overflow))
  BY DEF diff_address
<1>2. size \in Nat \ {0}
  BY AddressPoolAssumption
<1>3. ASSUME NEW k \in 0 .. size PROVE result(k) \in 0 .. hi - lo
  <2> DEFINE m == BYTE ^ (size - k)
  <2>1. m \in Nat \ {0}
    <3>1. size - k \in 0 .. size
      BY <1>2
    <3> QED BY <3>1, PowerPositive
  <2> HIDE DEF m
  <2>2. /\ 0 <= (hi \div m) - (lo \div m)
        /\ (hi \div m) - (lo \div m) <= hi - lo
        /\ (hi \div m) - (lo \div m) \in Int
    BY <2>1
  <2>3. result(k) = (hi \div m) - (lo \div m)
    BY DEF m
  <2> HIDE DEF result
  <2> QED BY <2>2, <2>3
<1>4. result(size) = hi - lo
  <2>1. size - size = 0 /\ BYTE ^ 0 = 1
    BY <1>2, PowersAssumption
  <2>2. BYTE ^ (size - size) = 1
    BY <2>1
  <2>3. hi \div 1 = hi /\ lo \div 1 = lo
    OBVIOUS
  <2> QED BY <2>2, <2>3
<1> HIDE DEF result
<1>5. CASE overflow = {}
  BY <1>1, <1>4, <1>5
<1>6. CASE overflow # {}
  <2>1. overflow \subseteq Nat /\ overflow \subseteq 0 .. size
    BY <1>2
  <2>2. Min(overflow) \in overflow
    BY <1>6, <2>1, LeastNatural
  <2>3. result(Min(overflow)) \in 0 .. hi - lo /\ result(Min(overflow)) >= BYTE ^ 3
    BY <1>3, <2>1, <2>2
  <2>4. BYTE ^ 3 \in Int
    BY AddressPoolAssumption
  <2>5. ~(hi - lo < BYTE ^ 3)
    BY <2>3, <2>4
  <2> QED BY <1>1, <1>6, <2>3, <2>5
<1> QED BY <1>5, <1>6

(* The range that find_address_in_ranges or acquire chooses is one of the  *)
(* list, and it suits.                                                     *)
LEMMA AcquireChooses ==
    ASSUME RangesInv, NEW flags, NEW n \in PortCounts, acquire_address(flags, n)
    PROVE  \E i \in DOMAIN addresses :
             LET j == skip_to_even(addresses[i], flags)
             IN  /\ Suits(addresses[i], flags, n)
                 /\ Fits(addresses[i], 0, j, n) /\ Take(i, 0, j, n)
                 /\ UNCHANGED <<has_unicast_addresses, clearing, owned, added>>
<1> DEFINE I == {k \in 1..Len(addresses) : Suits(addresses[k], flags, n)}
           i == IF I # {} THEN Min(I) ELSE 0
<1>1. /\ i # 0
      /\ Take(i, 0, skip_to_even(addresses[i], flags), n)
      /\ UNCHANGED <<has_unicast_addresses, clearing, owned, added>>
  BY DEF acquire_address, SelectInSeq
<1>2. i \in I
  BY <1>1, LeastNatural
<1>3. i \in DOMAIN addresses /\ Suits(addresses[i], flags, n)
  BY <1>2 DEF RangesInv
<1> HIDE DEF i
<1>4. Fits(addresses[i], 0, skip_to_even(addresses[i], flags), n)
  <2> DEFINE r == addresses[i]
             j == skip_to_even(r, flags)
  <2>1. Good(r) /\ r \in AddrRange /\ n \in Nat \ {0} /\ j \in {0, 1}
    BY <1>3, AddressPoolAssumption DEF RangesInv, Good, skip_to_even
  <2>2. r.min \in Nat /\ r.max \in Nat /\ r.min_port \in Nat /\ r.max_port \in Nat /\ r.min <= r.max
    BY <2>1 DEF Good, AddrRange
  <2>3. r.max_port - r.min_port + 1 - j >= n
    BY <1>3 DEF Suits
  <2> HIDE DEF r, j
  <2>4. Fits(r, 0, j, n)
    BY <2>1, <2>2, <2>3 DEF Fits
  <2> QED BY <2>4 DEF r, j
<1> QED BY <1>1, <1>3, <1>4

LEMMA ReserveChooses ==
    ASSUME RangesInv, NEW w \in Wanted, NEW n \in PortCounts, reserve_address(w, n)
    PROVE  \E i \in DOMAIN addresses :
             LET r == addresses[i]
                 a == diff_address(w.a, r.min, w.size)
                 j == w.port - r.min_port
             IN  /\ w.size = r.size /\ w.a \in Nat /\ r.min <= w.a /\ w.a <= r.max
                 /\ r.min_port + j = w.port
                 /\ Fits(r, a, j, n) /\ Take(i, a, j, n)
                 /\ UNCHANGED <<has_unicast_addresses, clearing, owned, added>>
<1> DEFINE I == {k \in 1..Len(addresses) :
                     /\ addresses[k].size = w.size
                     /\ addresses[k].min <= w.a /\ w.a <= addresses[k].max
                     /\ addresses[k].min_port <= w.port
                     /\ w.port + n - 1 <= addresses[k].max_port
                     /\ addresses[k].ttl = w.ttl}
           i == IF I # {} THEN Min(I) ELSE 0
<1>1. /\ find_address_in_ranges(addresses, w, n) = i
      /\ Take(i, diff_address(w.a, addresses[i].min, w.size), w.port - addresses[i].min_port, n)
      /\ UNCHANGED <<has_unicast_addresses, clearing, owned, added>>
  <2>1. find_address_in_ranges(addresses, w, n) = i
    BY DEF find_address_in_ranges, SelectInSeq
  <2> HIDE DEF i
  <2> QED BY <2>1 DEF reserve_address
<1>2. i # 0
  BY <1>1 DEF reserve_address, reserve_result
<1>3. i \in I
  <2>1. I \subseteq Nat
    OBVIOUS
  <2>2. I # {} /\ i = Min(I)
    BY <1>2
  <2> HIDE DEF I, i
  <2> QED BY <2>1, <2>2, LeastNatural
<1> DEFINE r == addresses[i]
           a == diff_address(w.a, r.min, w.size)
           j == w.port - r.min_port
<1>4. /\ i \in DOMAIN addresses /\ r.size = w.size /\ r.min <= w.a /\ w.a <= r.max
      /\ r.min_port <= w.port /\ w.port + n - 1 <= r.max_port
  <2> HIDE DEF i
  <2>1. /\ i \in 1 .. Len(addresses)
        /\ addresses[i].size = w.size
        /\ addresses[i].min <= w.a /\ w.a <= addresses[i].max
        /\ addresses[i].min_port <= w.port
        /\ w.port + n - 1 <= addresses[i].max_port
    BY <1>3
  <2>2. addresses \in Seq(AddrRange)
    BY DEF RangesInv
  <2>3. i \in DOMAIN addresses
    BY <2>1, <2>2
  <2> QED BY <2>1, <2>3
<1> HIDE DEF I, i
<1>5. /\ w.size \in {SIZE4, SIZE6} /\ w.a \in Nat /\ w.port \in Nat /\ n \in Nat \ {0}
      /\ Good(r) /\ r \in AddrRange
  BY <1>4, AddressPoolAssumption DEF RangesInv, Good
<1>6. r.min \in Nat /\ r.max \in Nat /\ r.min_port \in Nat /\ r.max_port \in Nat
  BY <1>5 DEF AddrRange
<1> HIDE DEF r
<1>7. a \in 0 .. w.a - r.min
  BY <1>4, <1>5, <1>6, DiffAddress
<1> HIDE DEF a
<1>8. Fits(r, a, j, n) /\ r.min_port + j = w.port
  BY <1>4, <1>5, <1>6, <1>7 DEF Fits
<1> QED BY <1>1, <1>4, <1>5, <1>8 DEF r, a

LEMMA ClearKeeps == ASSUME RangesInv, clear \/ clear_locked PROVE RangesInv'
<1>1. CASE clear
  BY <1>1 DEF clear, RangesInv
<1>2. CASE clear_locked
  <2>1. /\ addresses' = <<>> /\ allocated' = allocated /\ owned' = Cover(allocated)
        /\ clearing' = FALSE /\ UNCHANGED <<has_unicast_addresses, added>>
    BY <1>2 DEF clear_locked, Cover
  <2>2. <<>> \in Seq(AddrRange) /\ DOMAIN <<>> = {}
    OBVIOUS
  <2>3. /\ Cover(addresses') \cap Cover(allocated') = {}
        /\ owned' = Cover(addresses') \cup Cover(allocated') /\ Apart(addresses')
    BY <2>1, CoverSmall
  <2> QED BY <2>1, <2>2, <2>3 DEF RangesInv
<1> QED BY <1>1, <1>2

LEMMA ReleaseKeeps ==
    ASSUME RangesInv, NEW i \in DOMAIN allocated, release_address(i)
    PROVE  RangesInv'
<1> DEFINE r == allocated[i]
           rest == RemoveAt(allocated, i)
<1>1. /\ addresses \in Seq(AddrRange) /\ allocated \in Seq(AddrRange) /\ Good(r)
      /\ Apart(addresses) /\ Apart(allocated) /\ Cover(addresses) \cap Cover(allocated) = {}
      /\ \A k \in DOMAIN addresses : Good(addresses[k])
      /\ owned = Cover(addresses) \cup Cover(allocated)
  BY DEF RangesInv
<1>2. allocated' = rest /\ addresses' = <<r>> \o addresses
  BY DEF release_address
<1>3. /\ rest \in Seq(AddrRange) /\ Cover(allocated) = Cover(rest) \cup Points(r)
      /\ Apart(rest) /\ Cover(rest) \cap Points(r) = {}
      /\ \A k \in DOMAIN rest : \E l \in DOMAIN allocated : rest[k] = allocated[l]
  BY <1>1, CoverRemove
<1>4. \A k \in DOMAIN rest : Good(rest[k])
  BY <1>3 DEF RangesInv
<1> HIDE DEF r, rest
<1>5. /\ <<r>> \o addresses \in Seq(AddrRange) /\ Apart(<<r>> \o addresses)
      /\ \A k \in DOMAIN (<<r>> \o addresses) : Good((<<r>> \o addresses)[k])
      /\ Cover(<<r>> \o addresses) = Points(r) \cup Cover(addresses)
  <2>1. Points(r) \cap Cover(addresses) = {}
    BY <1>1, <1>3
  <2> QED BY <1>1, <2>1, CoverPush
<1>6. /\ Cover(addresses') \cap Cover(allocated') = {}
      /\ owned' = Cover(addresses') \cup Cover(allocated')
      /\ UNCHANGED <<has_unicast_addresses, clearing, added>>
  BY <1>1, <1>2, <1>3, <1>5 DEF release_address
<1> QED BY <1>2, <1>3, <1>4, <1>5, <1>6 DEF RangesInv

LEMMA NextRanges == OfferedOneKind => (RangesInv /\ [RangesNext]_rangeVars => RangesInv')
<1> SUFFICES ASSUME OfferedOneKind, RangesInv, [RangesNext]_rangeVars PROVE RangesInv'
  OBVIOUS
<1>1. ASSUME NEW f \in Flags, NEW n \in PortCounts, acquire_address(f, n) PROVE RangesInv'
  BY <1>1, AcquireChooses, TakeKeeps
<1>2. ASSUME NEW w \in Wanted, NEW n \in PortCounts, reserve_address(w, n) PROVE RangesInv'
  BY <1>2, ReserveChooses, TakeKeeps
<1>3. ASSUME NEW i \in 1 .. Len(allocated), release_address(i) PROVE RangesInv'
  BY <1>3, ReleaseKeeps DEF release_address
<1>4. CASE UNCHANGED rangeVars
  BY <1>4 DEF rangeVars, RangesInv
<1> QED BY <1>1, <1>2, <1>3, <1>4, AddKeeps, ClearKeeps DEF RangesNext

(* Whatever is added, acquired, reserved, released and cleared, the free   *)
(* and the taken ranges are a partition of what was added, and each keeps  *)
(* its kind, as long as no range starts and ends in one kind and has the   *)
(* other in between.                                                       *)
THEOREM RangesAreTracked == OfferedOneKind => (RangesSpec => []RangesTracked)
<1> SUFFICES ASSUME OfferedOneKind PROVE RangesSpec => []RangesTracked
  OBVIOUS
<1>1. RangesInv /\ [RangesNext]_rangeVars => RangesInv'
  BY NextRanges
<1> QED BY InitRanges, <1>1, InvTracks, PTL DEF RangesSpec

-----------------------------------------------------------------------------
\* What acquire and reserve answer with.

\* No range the application offers has as many addresses as three bytes count.
NarrowRanges == \A o \in Offered : o.max - o.min < BYTE ^ 3

\* Each range of the list lies in one the application offered.
Inherited(s) == \A k \in DOMAIN s : \E o \in Offered : Points(s[k]) \subseteq Points(o)

HeldInv == RangesInv /\ Inherited(addresses) /\ Inherited(allocated)

LEMMA InheritedCover ==
    ASSUME NEW s, NEW o \in Offered, Cover(s) \subseteq Points(o)
    PROVE  Inherited(s)
BY DEF Cover, Inherited

LEMMA InheritedConcat ==
    ASSUME NEW s \in Seq(AddrRange), NEW u \in Seq(AddrRange), Inherited(s), Inherited(u)
    PROVE  Inherited(s \o u)
<1> DEFINE n == Len(s)
           m == Len(u)
           c == s \o u
<1>1. /\ n \in Nat /\ m \in Nat /\ DOMAIN s = 1..n /\ DOMAIN u = 1..m /\ DOMAIN c = 1..(n + m)
      /\ \A i \in 1..n : c[i] = s[i]
      /\ \A i \in 1..m : c[n + i] = u[i]
  OBVIOUS
<1> HIDE DEF n, m, c
<1> SUFFICES ASSUME NEW i \in 1..(n + m) PROVE \E o \in Offered : Points(c[i]) \subseteq Points(o)
  BY <1>1 DEF Inherited, c
<1>2. CASE i \in 1..n
  BY <1>1, <1>2 DEF Inherited
<1>3. CASE i \notin 1..n
  <2>1. i - n \in 1..m /\ i = n + (i - n)
    BY <1>1, <1>3
  <2>2. c[i] = u[i - n]
    BY <1>1, <2>1
  <2> QED BY <1>1, <2>1, <2>2 DEF Inherited
<1> QED BY <1>2, <1>3

LEMMA InheritedRest ==
    ASSUME NEW s \in Seq(AddrRange), NEW i \in DOMAIN s, Inherited(s)
    PROVE  Inherited(RemoveAt(s, i)) /\ RemoveAt(s, i) \in Seq(AddrRange)
<1> DEFINE rest == RemoveAt(s, i)
<1>1. rest \in Seq(AddrRange) /\ \A k \in DOMAIN rest : \E j \in DOMAIN s : rest[k] = s[j]
  BY CoverRemove
<1> HIDE DEF rest
<1>2. Inherited(rest)
  BY <1>1 DEF Inherited
<1> QED BY <1>1, <1>2 DEF rest

LEMMA InheritedOne ==
    ASSUME NEW r \in AddrRange, NEW o \in Offered, Points(r) \subseteq Points(o)
    PROVE  Inherited(<<r>>) /\ <<r>> \in Seq(AddrRange)
BY CoverSmall, InheritedCover

(* A range that lies in another has no more addresses than that.           *)
LEMMA NarrowPart ==
    ASSUME NEW r, Good(r), NEW o \in AddrRange, Points(r) \subseteq Points(o)
    PROVE  r.max - r.min <= o.max - o.min
<1>1. /\ r.min \in Nat /\ r.max \in Nat /\ r.min <= r.max
      /\ r.min_port \in Nat /\ r.max_port \in Nat /\ r.min_port <= r.max_port
  BY DEF Good, AddrRange
<1>2. o.min \in Nat /\ o.max \in Nat
  BY DEF AddrRange
<1>3. <<r.size, r.min, r.min_port>> \in Points(r) /\ <<r.size, r.max, r.min_port>> \in Points(r)
  BY <1>1 DEF Points
<1>4. r.min \in o.min .. o.max /\ r.max \in o.min .. o.max
  BY <1>3 DEF Points
<1> QED BY <1>1, <1>2, <1>4

LEMMA TakeInherits ==
    ASSUME HeldInv, NEW i \in DOMAIN addresses, NEW a, NEW j, NEW n,
           Fits(addresses[i], a, j, n), Take(i, a, j, n)
    PROVE  Inherited(addresses') /\ Inherited(allocated')
<1> DEFINE r == addresses[i]
           split == split_range(r, a, j, n)
           left == split.left
           taken == split.taken
           rest == RemoveAt(addresses, i)
<1>1. /\ addresses \in Seq(AddrRange) /\ allocated \in Seq(AddrRange) /\ Good(r)
      /\ Inherited(addresses) /\ Inherited(allocated)
  BY DEF HeldInv, RangesInv
<1>2. addresses' = left \o rest /\ allocated' = <<taken>> \o allocated
  BY DEF Take
<1>3. PICK o \in Offered : Points(r) \subseteq Points(o)
  BY <1>1 DEF Inherited
<1>4. /\ taken \in AddrRange /\ left \in Seq(AddrRange)
      /\ Cover(left) \cup Points(taken) = Points(r)
  BY <1>1, SplitFits
<1>5. rest \in Seq(AddrRange) /\ Inherited(rest)
  BY <1>1, InheritedRest
<1> HIDE DEF r, split, left, taken, rest
<1>6. Inherited(left) /\ Inherited(<<taken>>) /\ <<taken>> \in Seq(AddrRange)
  BY <1>3, <1>4, InheritedCover, InheritedOne
<1> QED BY <1>1, <1>2, <1>4, <1>5, <1>6, InheritedConcat

LEMMA InitHeld == RangesInit => HeldInv
BY InitRanges DEF RangesInit, HeldInv, Inherited

LEMMA NextHeld == OfferedOneKind => (HeldInv /\ [RangesNext]_rangeVars => HeldInv')
<1> SUFFICES ASSUME OfferedOneKind, HeldInv, [RangesNext]_rangeVars PROVE HeldInv'
  OBVIOUS
<1>1. /\ RangesInv' /\ addresses \in Seq(AddrRange) /\ allocated \in Seq(AddrRange)
      /\ Inherited(addresses) /\ Inherited(allocated) /\ RangesInv
  BY NextRanges DEF HeldInv, RangesInv
<1> SUFFICES Inherited(addresses') /\ Inherited(allocated')
  BY <1>1 DEF HeldInv
<1>2. ASSUME NEW r \in Offered, add_range(r)
      PROVE  Inherited(addresses') /\ Inherited(allocated')
  <2>1. addresses' = <<r>> \o addresses /\ allocated' = allocated
    BY <1>2 DEF add_range
  <2>2. r \in AddrRange /\ Points(r) \subseteq Points(r)
    BY AddressPoolAssumption
  <2> QED BY <1>1, <2>1, <2>2, InheritedOne, InheritedConcat
<1>3. ASSUME clear \/ clear_locked PROVE Inherited(addresses') /\ Inherited(allocated')
  BY <1>1, <1>3 DEF clear, clear_locked, Inherited
<1>4. ASSUME NEW f \in Flags, NEW n \in PortCounts, acquire_address(f, n)
      PROVE  Inherited(addresses') /\ Inherited(allocated')
  BY <1>1, <1>4, AcquireChooses, TakeInherits
<1>5. ASSUME NEW w \in Wanted, NEW n \in PortCounts, reserve_address(w, n)
      PROVE  Inherited(addresses') /\ Inherited(allocated')
  BY <1>1, <1>5, ReserveChooses, TakeInherits
<1>6. ASSUME NEW i \in 1 .. Len(allocated), release_address(i)
      PROVE  Inherited(addresses') /\ Inherited(allocated')
  <2>1. i \in DOMAIN allocated /\ allocated[i] \in AddrRange
    BY <1>1
  <2>2. allocated' = RemoveAt(allocated, i) /\ addresses' = <<allocated[i]>> \o addresses
    BY <1>6 DEF release_address
  <2>3. PICK o \in Offered : Points(allocated[i]) \subseteq Points(o)
    BY <1>1, <2>1 DEF Inherited
  <2>4. Inherited(<<allocated[i]>>) /\ <<allocated[i]>> \in Seq(AddrRange)
    BY <2>1, <2>3, InheritedOne
  <2> QED BY <1>1, <2>1, <2>2, <2>4, InheritedRest, InheritedConcat
<1>7. CASE UNCHANGED rangeVars
  BY <1>1, <1>7 DEF rangeVars
<1> QED BY <1>2, <1>3, <1>4, <1>5, <1>6, <1>7 DEF RangesNext

LEMMA AcquireAnswer ==
    ASSUME RangesInv, NEW f \in Flags, NEW n \in PortCounts, acquire_address(f, n)
    PROVE  LET r == allocated'[1]
           IN  /\ r.min = r.max
               /\ r.max_port - r.min_port + 1 = n
               /\ "even" \in f => r.min_port % 2 = 0
               /\ "ipv4" \in f => r.size = SIZE4
               /\ "ipv6" \in f => r.size = SIZE6
               /\ "multicast" \in f => <<r.size, r.min>> \in Multicast
               /\ "unicast" \in f => <<r.size, r.min>> \notin Multicast
<1>1. PICK i \in DOMAIN addresses :
        LET j == skip_to_even(addresses[i], f)
        IN  Suits(addresses[i], f, n) /\ Fits(addresses[i], 0, j, n) /\ Take(i, 0, j, n)
  BY AcquireChooses
<1> DEFINE r == addresses[i]
           j == skip_to_even(r, f)
           taken == split_range(r, 0, j, n).taken
<1>2. /\ Good(r) /\ r \in AddrRange /\ allocated \in Seq(AddrRange)
      /\ Fits(r, 0, j, n) /\ allocated' = <<taken>> \o allocated
  BY <1>1 DEF RangesInv, Good, Take
<1>3. /\ taken \in AddrRange /\ taken.min = r.min + 0 /\ taken.max = r.min + 0
      /\ taken.min_port = r.min_port + j
      /\ taken.max_port = r.min_port + j + n - 1
  BY <1>2, SplitFits
<1>4. allocated'[1] = taken
  <2> HIDE DEF taken
  <2> QED BY <1>2, <1>3
<1>5. r.min_port \in Nat /\ n \in Nat /\ j \in Nat
  BY <1>2, AddressPoolAssumption DEF AddrRange, skip_to_even
<1>6. "even" \in f => (r.min_port + j) % 2 = 0
  <2>1. "even" \in f => j = IF r.min_port % 2 = 1 THEN 1 ELSE 0
    BY DEF skip_to_even
  <2> HIDE DEF j, r
  <2> QED BY <1>5, <2>1
<1>7. /\ taken.size = r.size /\ taken.min = r.min
      /\ <<r.size, r.min>> \in Multicast <=> r.ttl # 0
  <2>1. r.min \in Nat /\ r.max \in Nat /\ r.min <= r.max
    BY <1>2 DEF Good, AddrRange
  <2>2. taken.size = r.size
    BY <1>2, SplitFits
  <2>3. <<r.size, r.min>> \in Multicast <=> r.ttl # 0
    BY <1>2, <2>1 DEF Good, OneKind
  <2> HIDE DEF taken, r
  <2> QED BY <1>3, <2>1, <2>2, <2>3
<1>8. /\ "ipv4" \in f => r.size = SIZE4
      /\ "ipv6" \in f => r.size = SIZE6
      /\ "multicast" \in f => r.ttl # 0
      /\ "unicast" \in f => r.ttl = 0
  BY <1>1 DEF Suits
<1> HIDE DEF r, j, taken
<1>9. /\ taken.min = taken.max
      /\ taken.max_port - taken.min_port + 1 = n
      /\ "even" \in f => taken.min_port % 2 = 0
  BY <1>3, <1>5, <1>6
<1>10. /\ "ipv4" \in f => taken.size = SIZE4
       /\ "ipv6" \in f => taken.size = SIZE6
       /\ "multicast" \in f => <<taken.size, taken.min>> \in Multicast
       /\ "unicast" \in f => <<taken.size, taken.min>> \notin Multicast
  BY <1>7, <1>8
<1> QED BY <1>4, <1>9, <1>10

LEMMA ReserveAnswer ==
    ASSUME NarrowRanges, HeldInv, NEW w \in Wanted, NEW n \in PortCounts, reserve_address(w, n)
    PROVE  LET r == allocated'[1]
           IN  /\ r.min = w.a /\ r.max = w.a
               /\ r.min_port = w.port
               /\ r.max_port = w.port + n - 1
<1>1. RangesInv /\ Inherited(addresses)
  BY DEF HeldInv
<1>2. PICK i \in DOMAIN addresses :
        LET r == addresses[i]
            a == diff_address(w.a, r.min, w.size)
            j == w.port - r.min_port
        IN  /\ w.size = r.size /\ w.a \in Nat /\ r.min <= w.a /\ w.a <= r.max
            /\ r.min_port + j = w.port
            /\ Fits(r, a, j, n) /\ Take(i, a, j, n)
  BY <1>1, ReserveChooses
<1> DEFINE r == addresses[i]
           a == diff_address(w.a, r.min, w.size)
           j == w.port - r.min_port
           taken == split_range(r, a, j, n).taken
<1>3. /\ Good(r) /\ r \in AddrRange /\ allocated \in Seq(AddrRange)
      /\ Fits(r, a, j, n) /\ allocated' = <<taken>> \o allocated
  BY <1>1, <1>2 DEF RangesInv, Good, Take
<1>4. /\ taken \in AddrRange /\ taken.min = r.min + a /\ taken.max = r.min + a
      /\ taken.min_port = r.min_port + j
      /\ taken.max_port = r.min_port + j + n - 1
  BY <1>3, SplitFits
<1>5. allocated'[1] = taken
  <2> HIDE DEF taken
  <2> QED BY <1>3, <1>4
<1>6. PICK o \in Offered : Points(r) \subseteq Points(o)
  BY <1>1 DEF Inherited
<1> DEFINE b == BYTE ^ 3
<1>7. /\ o \in AddrRange /\ o.max - o.min < b /\ b \in Int
      /\ r.max - r.min <= o.max - o.min
  BY <1>3, <1>6, NarrowPart, AddressPoolAssumption DEF NarrowRanges
<1>8. r.min \in Nat /\ r.max \in Nat /\ o.min \in Nat /\ o.max \in Nat
  BY <1>3, <1>7 DEF AddrRange
<1>9. /\ w.size \in {SIZE4, SIZE6} /\ w.a \in Nat /\ r.min <= w.a /\ w.a <= r.max
      /\ r.min_port + j = w.port
  BY <1>2, AddressPoolAssumption
<1>10. w.a - r.min < b
  <2> HIDE DEF b, r
  <2> QED BY <1>7, <1>8, <1>9
<1>11. a = w.a - r.min
  <2> HIDE DEF r
  <2> QED BY <1>8, <1>9, <1>10, DiffAddress
<1> HIDE DEF r, a, j, taken, b
<1> QED BY <1>4, <1>5, <1>8, <1>9, <1>11

(* What acquire gives out is one address of the family and the kind that was *)
(* asked for, with exactly the ports, the first one even if that was.        *)
LEMMA AcquireAnswers == OfferedOneKind => (RangesSpec => AcquireFits)
<1> SUFFICES ASSUME OfferedOneKind PROVE RangesSpec => AcquireFits
  OBVIOUS
<1>1. RangesInv /\ [RangesNext]_rangeVars => RangesInv'
  BY NextRanges
<1> DEFINE Answer ==
             \A f \in Flags, n \in PortCounts :
               acquire_address(f, n) =>
                 LET r == allocated'[1]
                 IN  /\ r.min = r.max
                     /\ r.max_port - r.min_port + 1 = n
                     /\ "even" \in f => r.min_port % 2 = 0
                     /\ "ipv4" \in f => r.size = SIZE4
                     /\ "ipv6" \in f => r.size = SIZE6
                     /\ "multicast" \in f => <<r.size, r.min>> \in Multicast
                     /\ "unicast" \in f => <<r.size, r.min>> \notin Multicast
<1>2. RangesInv => Answer
  BY AcquireAnswer
<1> QED BY InitRanges, <1>1, <1>2, PTL DEF RangesSpec, AcquireFits

(* As long as no range the application adds has as many addresses as three *)
(* bytes count, the block that reserve returns with OK is the one that was *)
(* asked for; past that diff_address gives up at a byte that would be      *)
(* shifted out of its result.                                              *)
THEOREM AnswersAreExact == OfferedOneKind /\ NarrowRanges => (RangesSpec => AnswersFit)
<1> SUFFICES ASSUME OfferedOneKind, NarrowRanges PROVE RangesSpec => AnswersFit
  OBVIOUS
<1>1. HeldInv /\ [RangesNext]_rangeVars => HeldInv'
  BY NextHeld
<1> DEFINE Answer ==
             \A w \in Wanted, n \in PortCounts :
               reserve_address(w, n) =>
                 LET r == allocated'[1]
                 IN  /\ r.min = w.a /\ r.max = w.a
                     /\ r.min_port = w.port
                     /\ r.max_port = w.port + n - 1
<1>2. HeldInv => Answer
  BY ReserveAnswer
<1>3. RangesSpec => ReserveExact
  BY InitHeld, <1>1, <1>2, PTL DEF RangesSpec, ReserveExact
<1> QED BY <1>3, AcquireAnswers, PTL DEF AnswersFit
==============================================================================
