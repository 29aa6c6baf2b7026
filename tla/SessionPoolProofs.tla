-------------------------- MODULE SessionPoolProofs --------------------------
(* Theorems about SessionPool.                                             *)
EXTENDS SessionPool, TLAPS, FiniteSetTheorems

-----------------------------------------------------------------------------
\* The inductive invariant.

\* What the holder of the pool lock removed from the table and has not
\* signalled: removed, although the cookie does not say so yet.
Removing == IF lock \in Thread THEN emit[lock] ELSE {}

\* Sessions waiting for their signal are out of the table, not signalled, and
\* one thread's responsibility.
PendingInv ==
    /\ sessions \subseteq born
    /\ \A t \in Thread : emit[t] \subseteq born \ sessions
    /\ \A t, u \in Thread : t # u => emit[t] \cap emit[u] = {}
    /\ \A t \in Thread : \A s \in emit[t] : signalled[s] = 0

\* A cleanup has the lock, and what it still has to ask is in the table.
CleanupInv ==
    \A t \in Thread :
        /\ lock = t <=> pc[t] \in {"check", "deadline"}
        /\ lock = t => todo[t] \subseteq sessions
        /\ pc[t] = "deadline" => /\ cur[t] \subseteq sessions
                                 /\ cur[t] \cap todo[t] = {}

\* The cookie a filter saw is no newer than the pool's, and as long as they
\* are equal the iterator and the session given to func are in the table.
FilterInv ==
    \A t \in Thread :
        /\ fcookie[t] <= cookie
        /\ pc[t] = "func" => /\ cur[t] \cap todo[t] = {}
                             /\ cur[t] \subseteq visited[t]
        /\ pc[t] = "func" /\ fcookie[t] = cookie =>
               cur[t] \cup todo[t] \subseteq sessions \cup Removing
        /\ pc[t] = "signal" /\ fcookie[t] = cookie /\ ~changed[t] =>
               todo[t] \subseteq sessions \cup Removing

\* What a filter has not visited it still has to visit, unless it restarts.
VisitInv ==
    \A t \in Thread :
        /\ start[t] \subseteq born
        /\ pc[t] = "func" /\ fcookie[t] = cookie =>
               start[t] \cap sessions \subseteq visited[t] \cup todo[t]
        /\ pc[t] = "signal" /\ fcookie[t] = cookie /\ ~changed[t] =>
               start[t] \cap sessions \subseteq visited[t] \cup todo[t]
        /\ pc[t] = "done" => start[t] \cap sessions \subseteq visited[t]

IInv == TypeOK /\ PendingInv /\ CleanupInv /\ FilterInv /\ VisitInv /\ SignalledOnce
-----------------------------------------------------------------------------
\* Type correctness.

USE PoolAssumption, SessionAssumption DEF Thread

(* What a session is set to by touching it, or by asking for its timeout.  *)
LEMMA SessionTypes ==
    ASSUME NEW s \in SessionRecord, NEW clock \in Nat
    PROVE  /\ NewSession(clock) \in SessionRecord
           /\ Touched(s, clock) \in SessionRecord
           /\ Asked(s, clock) \in SessionRecord
BY DEF SessionRecord, NewSession, Touched, Asked

(* The iteration of filter yields sessions of the table or of the iterator *)
(* that func has not seen, and marks them visited.                         *)
LEMMA AdvanceType ==
    ASSUME TypeOK, NEW t \in Thread, NEW again \in BOOLEAN,
           NEW table \in SUBSET Session, NEW iter \in SUBSET Session,
           NEW seen \in SUBSET Session,
           Advance(t, table, iter, seen, again)
    PROVE  /\ visited' \in [Thread -> SUBSET Session]
           /\ todo' \in [Thread -> SUBSET Session]
           /\ cur' \in [Thread -> SUBSET Session]
           /\ pc' \in [Thread -> PC]
<1>1. CASE visited' = [visited EXCEPT ![t] = seen]
           /\ todo' = [todo EXCEPT ![t] = {}]
           /\ cur' = [cur EXCEPT ![t] = {}]
           /\ Goto(t, "done")
  BY <1>1 DEF TypeOK, Goto, PC
<1>2. ASSUME NEW s \in (IF again THEN table ELSE iter) \ seen,
             visited' = [visited EXCEPT ![t] = seen \cup {s}],
             todo' = [todo EXCEPT ![t] = ((IF again THEN table ELSE iter) \ seen) \ {s}],
             cur' = [cur EXCEPT ![t] = {s}],
             Goto(t, "func")
      PROVE  /\ visited' \in [Thread -> SUBSET Session]
             /\ todo' \in [Thread -> SUBSET Session]
             /\ cur' \in [Thread -> SUBSET Session]
             /\ pc' \in [Thread -> PC]
  <2>1. s \in Session
    OBVIOUS
  <2> QED BY <1>2, <2>1 DEF TypeOK, Goto, PC
<1> QED BY <1>1, <1>2 DEF Advance

LEMMA ContinueType ==
    ASSUME TypeOK, NEW t \in Thread, NEW again \in BOOLEAN, Continue(t, again)
    PROVE  /\ visited' \in [Thread -> SUBSET Session]
           /\ todo' \in [Thread -> SUBSET Session]
           /\ cur' \in [Thread -> SUBSET Session]
           /\ pc' \in [Thread -> PC]
<1>1. PICK iter \in Iterators(t) : Advance(t, sessions, iter, visited[t], again)
  BY DEF Continue
<1>2. iter \in SUBSET Session /\ sessions \in SUBSET Session /\ visited[t] \in SUBSET Session
  BY DEF Iterators, TypeOK
<1> QED BY <1>1, <1>2, AdvanceType

LEMMA VisitRefsType ==
    ASSUME NEW r \in [Session -> Int], NEW t \in Thread
    PROVE  VisitRefs(r, t) \in [Session -> Int]
BY DEF VisitRefs

LEMMA TypeInit == Init => TypeOK
BY SessionTypes DEF Init, TypeOK, PC, NewSession, SessionRecord

(* Every step keeps the types.                                             *)
LEMMA TypeNext == TypeOK /\ [Next]_vars => TypeOK'
<1> SUFFICES ASSUME TypeOK, [Next]_vars PROVE TypeOK'
  OBVIOUS
<1> USE DEF TypeOK, Goto, PC, poolVars, threadVars, filterVars
<1>0. /\ now \in Nat
      /\ \A s \in Session : /\ sess[s] \in SessionRecord
                             /\ Touched(sess[s], now) \in SessionRecord
                             /\ Asked(sess[s], now) \in SessionRecord
  <2>1. now \in Nat /\ \A s \in Session : sess[s] \in SessionRecord
    OBVIOUS
  <2> QED BY <2>1, SessionTypes
<1>1. CASE Tick
  BY <1>1 DEF Tick
<1>2. ASSUME NEW m \in MaxSessions, set_max_sessions(m) PROVE TypeOK'
  BY <1>2 DEF set_max_sessions
<1>3. ASSUME NEW t \in Thread, CreateTooMany(t) PROVE TypeOK'
  BY <1>3 DEF CreateTooMany
<1>4. ASSUME NEW t \in Thread, NEW s \in Session, CreateCollision(t, s) PROVE TypeOK'
  BY <1>4 DEF CreateCollision
<1>5. ASSUME NEW t \in Thread, NEW s \in Session, CreateSession(t, s) PROVE TypeOK'
  <2>1. NewSession(now) \in SessionRecord
    BY <1>0, SessionTypes
  <2> QED BY <1>5, <2>1 DEF CreateSession, NewRefs
<1>6. ASSUME NEW t \in Thread, NEW s \in Session, find(t, s) PROVE TypeOK'
  BY <1>0, <1>6 DEF find
<1>7. ASSUME NEW t \in Thread, NEW s \in Session, NEW new \in SessionRecord,
             UpdateSession(t, s, new)
      PROVE  TypeOK'
  BY <1>7 DEF UpdateSession
<1>8. ASSUME NEW t \in Thread, NEW s \in Session, touch(t, s) PROVE TypeOK'
  BY <1>0, <1>7, <1>8 DEF touch
<1>9. ASSUME NEW t \in Thread, NEW s \in Session, NEW n \in Timeouts, set_timeout(t, s, n)
      PROVE  TypeOK'
  <2>1. [sess[s] EXCEPT !.timeout = n] \in SessionRecord
    BY DEF SessionRecord
  <2> QED BY <1>7, <1>9, <2>1 DEF set_timeout
<1>10. ASSUME NEW t \in Thread, NEW s \in Session, prevent_expire(t, s) PROVE TypeOK'
  <2>1. [sess[s] EXCEPT !.expire_count = @ + 1] \in SessionRecord
    BY DEF SessionRecord
  <2> QED BY <1>7, <1>10, <2>1 DEF prevent_expire
<1>11. ASSUME NEW t \in Thread, NEW s \in Session, allow_expire(t, s) PROVE TypeOK'
  <2>1. [sess[s] EXCEPT !.expire_count = @ - 1] \in SessionRecord
    BY <1>11 DEF SessionRecord, allow_expire
  <2> QED BY <1>7, <1>11, <2>1 DEF allow_expire
<1>12. ASSUME NEW t \in Thread, NEW s \in Session, remove(t, s) PROVE TypeOK'
  BY <1>12 DEF remove
<1>13. ASSUME NEW t \in Thread, NEW s \in Session, EmitRemoved(t, s) PROVE TypeOK'
  BY <1>13 DEF EmitRemoved
<1>14. ASSUME NEW t \in Thread, NEW s \in Session, unref(t, s) PROVE TypeOK'
  BY <1>14 DEF unref
<1>15. ASSUME NEW t \in Thread, CleanupBegin(t) PROVE TypeOK'
  BY <1>15 DEF CleanupBegin
<1>16. ASSUME NEW t \in Thread, CleanupLock(t) PROVE TypeOK'
  BY <1>16 DEF CleanupLock, ToCheck
<1>17. ASSUME NEW t \in Thread, NEW s \in Session, CleanupCheck(t, s) PROVE TypeOK'
  BY <1>17 DEF CleanupCheck
<1>18. ASSUME NEW t \in Thread, NEW s \in Session, CleanupDeadline(t, s) PROVE TypeOK'
  BY <1>0, <1>18 DEF CleanupDeadline
<1>19. ASSUME NEW t \in Thread, CleanupUnlock(t) PROVE TypeOK'
  BY <1>19 DEF CleanupUnlock
<1>20. ASSUME NEW t \in Thread, source_prepare(t) PROVE TypeOK'
  <2>1. sess' \in [Session -> SessionRecord]
    BY <1>0, <1>20 DEF source_prepare
  <2>2. pc' \in [Thread -> PC]
    BY <1>20 DEF source_prepare
  <2> QED BY <1>20, <2>1, <2>2 DEF source_prepare
<1>21. ASSUME NEW t \in Thread, FilterBegin(t) PROVE TypeOK'
  <2>1. refs' \in [Session -> Int]
    BY <1>21, VisitRefsType DEF FilterBegin
  <2>2. Advance(t, sessions, sessions, {}, FALSE)
    BY <1>21 DEF FilterBegin
  <2>3. /\ visited' \in [Thread -> SUBSET Session] /\ todo' \in [Thread -> SUBSET Session]
        /\ cur' \in [Thread -> SUBSET Session] /\ pc' \in [Thread -> PC]
    <3> HIDE DEF TypeOK, PC
    <3>1. sessions \in SUBSET Session /\ {} \in SUBSET Session /\ FALSE \in BOOLEAN
      BY DEF TypeOK
    <3> QED BY <2>2, <3>1, AdvanceType
  <2> QED BY <1>21, <2>1, <2>3 DEF FilterBegin
<1>22. ASSUME NEW t \in Thread, FilterAll(t) PROVE TypeOK'
  BY <1>22 DEF FilterAll
<1>23. ASSUME NEW t \in Thread, NEW ref \in BOOLEAN, FilterKeep(t, ref) PROVE TypeOK'
  <2>1. PICK s \in cur[t] :
          /\ held' = IF ref THEN [held EXCEPT ![t] = @ \cup {s}] ELSE held
          /\ fcookie' = [fcookie EXCEPT ![t] = cookie]
          /\ Continue(t, PoolChanged(t))
          /\ refs' = VisitRefs(IF ref THEN [refs EXCEPT ![s] = @ + 1] ELSE refs, t)
    BY <1>23 DEF FilterKeep
  <2>2. refs' \in [Session -> Int]
    <3>1. (IF ref THEN [refs EXCEPT ![s] = @ + 1] ELSE refs) \in [Session -> Int]
      OBVIOUS
    <3> QED BY <2>1, <3>1, VisitRefsType
  <2>3. /\ visited' \in [Thread -> SUBSET Session] /\ todo' \in [Thread -> SUBSET Session]
        /\ cur' \in [Thread -> SUBSET Session] /\ pc' \in [Thread -> PC]
    BY <2>1, ContinueType DEF PoolChanged
  <2>4. held' \in [Thread -> SUBSET Session] /\ fcookie' \in [Thread -> Nat]
    BY <2>1
  <2>5. UNCHANGED <<lock, now, max_sessions, sessions, cookie, born, sess, signalled,
                    retry, at, emit, changed, start>>
    BY <1>23 DEF FilterKeep
  <2> QED BY <2>2, <2>3, <2>4, <2>5
<1>24. ASSUME NEW t \in Thread, FilterRemove(t) PROVE TypeOK'
  BY <1>24 DEF FilterRemove, PoolChanged
<1>25. ASSUME NEW t \in Thread, FilterRemoveGone(t) PROVE TypeOK'
  <2>1. refs' \in [Session -> Int]
    BY <1>25, VisitRefsType DEF FilterRemoveGone
  <2>2. /\ visited' \in [Thread -> SUBSET Session] /\ todo' \in [Thread -> SUBSET Session]
        /\ cur' \in [Thread -> SUBSET Session] /\ pc' \in [Thread -> PC]
    BY <1>25, ContinueType DEF FilterRemoveGone
  <2> QED BY <1>25, <2>1, <2>2 DEF FilterRemoveGone
<1>26. ASSUME NEW t \in Thread, FilterSignal(t) PROVE TypeOK'
  <2>1. refs' \in [Session -> Int]
    BY <1>26, VisitRefsType DEF FilterSignal
  <2>2. /\ visited' \in [Thread -> SUBSET Session] /\ todo' \in [Thread -> SUBSET Session]
        /\ cur' \in [Thread -> SUBSET Session] /\ pc' \in [Thread -> PC]
    BY <1>26, ContinueType DEF FilterSignal, PoolChanged
  <2> QED BY <1>26, <2>1, <2>2 DEF FilterSignal
<1>27. ASSUME NEW t \in Thread, FilterEnd(t) PROVE TypeOK'
  BY <1>27 DEF FilterEnd
<1>28. CASE UNCHANGED vars
  BY <1>28 DEF vars
<1> HIDE DEF TypeOK, PC, Goto, poolVars, threadVars, filterVars
<1> QED
  BY <1>1, <1>2, <1>3, <1>4, <1>5, <1>6, <1>8, <1>9, <1>10, <1>11, <1>12, <1>13, <1>14,
     <1>15, <1>16, <1>17, <1>18, <1>19, <1>20, <1>21, <1>22, <1>23, <1>24, <1>25, <1>26,
     <1>27, <1>28
  DEF Next, ClientNext, CleanupNext, EmitNext, FilterNext

(* Type correctness, for any number of sessions, threads and ticks.        *)
THEOREM TypeCorrect == Spec => []TypeOK
BY TypeInit, TypeNext, PTL DEF Spec
-----------------------------------------------------------------------------
\* The inductive invariant is inductive: steps that leave the table, the
\* pending signals and the filters alone.

Quiet ==
    /\ UNCHANGED <<lock, sessions, cookie, born, signalled, emit, filterVars>>
    /\ \A t \in Thread :
         pc'[t] # pc[t] =>
             {pc[t], pc'[t]} \cap {"check", "deadline", "func", "signal", "done"} = {}

QuietNext ==
    \/ Tick
    \/ \E m \in MaxSessions : set_max_sessions(m)
    \/ \E t \in Thread :
         \/ CreateTooMany(t) \/ CleanupBegin(t) \/ source_prepare(t) \/ FilterAll(t)
         \/ \E s \in Session :
              \/ CreateCollision(t, s) \/ find(t, s) \/ touch(t, s)
              \/ \E n \in Timeouts : set_timeout(t, s, n)
              \/ prevent_expire(t, s) \/ allow_expire(t, s) \/ unref(t, s)
    \/ UNCHANGED vars

(* The steps of the clock, of the owners of sessions, and those that only  *)
(* read the table are quiet.                                               *)
LEMMA QuietSteps ==
    ASSUME TypeOK, QuietNext
    PROVE  Quiet
<1> USE DEF TypeOK, Goto, PC, poolVars, threadVars, filterVars, Quiet
<1>1. CASE Tick
  BY <1>1 DEF Tick
<1>2. ASSUME NEW m \in MaxSessions, set_max_sessions(m) PROVE Quiet
  BY <1>2 DEF set_max_sessions
<1>3. ASSUME NEW t \in Thread,
             CreateTooMany(t) \/ CleanupBegin(t) \/ source_prepare(t) \/ FilterAll(t)
      PROVE  Quiet
  <2>1. CASE CreateTooMany(t)
    BY <2>1 DEF CreateTooMany
  <2>2. CASE CleanupBegin(t)
    BY <2>2 DEF CleanupBegin
  <2>3. CASE source_prepare(t)
    <3>1. Goto(t, "dispatch") \/ Goto(t, "poll")
      BY <2>3 DEF source_prepare
    <3> QED BY <2>3, <3>1 DEF source_prepare
  <2>4. CASE FilterAll(t)
    BY <2>4 DEF FilterAll
  <2> QED BY <1>3, <2>1, <2>2, <2>3, <2>4
<1>4. ASSUME NEW t \in Thread, NEW s \in Session,
             \/ CreateCollision(t, s) \/ find(t, s) \/ touch(t, s)
             \/ \E n \in Timeouts : set_timeout(t, s, n)
             \/ prevent_expire(t, s) \/ allow_expire(t, s) \/ unref(t, s)
      PROVE  Quiet
  <2>1. CASE CreateCollision(t, s)
    BY <2>1 DEF CreateCollision
  <2>2. CASE find(t, s)
    BY <2>2 DEF find
  <2>3. CASE unref(t, s)
    BY <2>3 DEF unref
  <2>4. CASE touch(t, s)
    BY <2>4 DEF touch, UpdateSession
  <2>5. CASE \E n \in Timeouts : set_timeout(t, s, n)
    BY <2>5 DEF set_timeout, UpdateSession
  <2>6. CASE prevent_expire(t, s)
    BY <2>6 DEF prevent_expire, UpdateSession
  <2>7. CASE allow_expire(t, s)
    BY <2>7 DEF allow_expire, UpdateSession
  <2> QED BY <1>4, <2>1, <2>2, <2>3, <2>4, <2>5, <2>6, <2>7
<1>5. CASE UNCHANGED vars
  BY <1>5 DEF vars
<1> QED
  BY <1>1, <1>2, <1>3, <1>4, <1>5 DEF QuietNext

LEMMA QuietKeepsIInv == ASSUME IInv, TypeOK', Quiet PROVE IInv'
<1> USE DEF IInv, TypeOK, Quiet, filterVars
<1>1. PendingInv'
  BY DEF PendingInv
<1>2. CleanupInv'
  BY DEF CleanupInv
<1>3. FilterInv'
  BY DEF FilterInv, Removing
<1>4. VisitInv'
  BY DEF VisitInv
<1>5. SignalledOnce'
  BY DEF SignalledOnce
<1> QED BY <1>1, <1>2, <1>3, <1>4, <1>5

-----------------------------------------------------------------------------
\* create, remove and the emission of session-removed.

LEMMA CreateKeepsIInv ==
    ASSUME IInv, TypeOK', NEW t \in Thread, NEW s \in Session, CreateSession(t, s)
    PROVE  IInv'
<1> USE DEF IInv, TypeOK, CreateSession, Goto, PC, filterVars
<1>1. PendingInv'
  BY DEF PendingInv
<1>2. CleanupInv'
  BY DEF CleanupInv
<1>3. FilterInv'
  BY DEF FilterInv
<1>4. VisitInv'
  BY DEF VisitInv, FilterInv
<1>5. SignalledOnce'
  BY DEF SignalledOnce
<1> QED BY <1>1, <1>2, <1>3, <1>4, <1>5

LEMMA RemoveKeepsIInv ==
    ASSUME IInv, TypeOK', NEW t \in Thread, NEW s \in Session, remove(t, s)
    PROVE  IInv'
<1> USE DEF IInv, TypeOK, remove, Goto, PC, filterVars
<1>1. PendingInv'
  <2>1. s \in sessions /\ signalled[s] = 0 /\ \A u \in Thread : s \notin emit[u]
    <3>1. s \in sessions
      BY DEF remove
    <3>2. signalled[s] \in Nat /\ signalled[s] <= 1 /\ signalled[s] # 1
      BY <3>1 DEF SignalledOnce
    <3>3. \A u \in Thread : s \notin emit[u]
      BY <3>1 DEF PendingInv
    <3> HIDE DEF IInv, TypeOK, remove, Goto, PC, filterVars
    <3>4. signalled[s] = 0
      BY <3>2
    <3> QED BY <3>1, <3>3, <3>4
  <2>2. emit'[t] = {s} /\ \A u \in Thread : u # t => emit'[u] = emit[u]
    OBVIOUS
  <2> QED BY <2>1, <2>2 DEF PendingInv
<1>2. CleanupInv'
  BY DEF CleanupInv
<1>3. FilterInv'
  BY DEF FilterInv
<1>4. VisitInv'
  BY DEF VisitInv, FilterInv
<1>5. SignalledOnce'
  BY DEF SignalledOnce
<1> QED BY <1>1, <1>2, <1>3, <1>4, <1>5

LEMMA EmitKeepsIInv ==
    ASSUME IInv, TypeOK', NEW t \in Thread, NEW s \in Session, EmitRemoved(t, s)
    PROVE  IInv'
<1> USE DEF IInv, TypeOK, EmitRemoved, Goto, PC, filterVars
<1>1. PendingInv'
  BY DEF PendingInv
<1>2. CleanupInv'
  BY DEF CleanupInv
<1>3. FilterInv'
  BY DEF FilterInv, CleanupInv, Removing
<1>4. VisitInv'
  BY DEF VisitInv
<1>5. SignalledOnce'
  BY DEF SignalledOnce, PendingInv
<1> QED BY <1>1, <1>2, <1>3, <1>4, <1>5

-----------------------------------------------------------------------------
\* cleanup.

LEMMA CleanupLockKeepsIInv ==
    ASSUME IInv, TypeOK', NEW t \in Thread, CleanupLock(t)
    PROVE  IInv'
<1> USE DEF IInv, TypeOK, CleanupLock, ToCheck, Goto, PC
<1>1. PendingInv'
  BY DEF PendingInv
<1>2. CleanupInv'
  BY DEF CleanupInv
<1>3. FilterInv'
  BY DEF FilterInv, Removing
<1>4. VisitInv'
  BY DEF VisitInv
<1>5. SignalledOnce'
  BY DEF SignalledOnce
<1> QED BY <1>1, <1>2, <1>3, <1>4, <1>5

LEMMA CleanupCheckKeepsIInv ==
    ASSUME IInv, TypeOK', NEW t \in Thread, NEW s \in Session, CleanupCheck(t, s)
    PROVE  IInv'
<1> USE DEF IInv, TypeOK, CleanupCheck, Goto, PC, poolVars
<1>1. PendingInv'
  BY DEF PendingInv
<1>2. CleanupInv'
  BY DEF CleanupInv
<1>3. FilterInv'
  BY DEF FilterInv, Removing
<1>4. VisitInv'
  BY DEF VisitInv
<1>5. SignalledOnce'
  BY DEF SignalledOnce
<1> QED BY <1>1, <1>2, <1>3, <1>4, <1>5

LEMMA CleanupDeadlineKeepsIInv ==
    ASSUME IInv, TypeOK', NEW t \in Thread, NEW s \in Session, CleanupDeadline(t, s)
    PROVE  IInv'
<1> USE DEF IInv, TypeOK, CleanupDeadline, Goto, PC
<1>1. PendingInv'
  <2>1. s \in sessions /\ signalled[s] = 0 /\ \A u \in Thread : s \notin emit[u]
    <3>1. s \in sessions
      BY DEF CleanupInv
    <3>2. signalled[s] \in Nat /\ signalled[s] <= 1 /\ signalled[s] # 1
      BY <3>1 DEF SignalledOnce
    <3>3. \A u \in Thread : s \notin emit[u]
      BY <3>1 DEF PendingInv
    <3> HIDE DEF IInv, TypeOK, CleanupDeadline, Goto, PC
    <3> QED BY <3>1, <3>2, <3>3
  <2>2. \/ sessions' = sessions /\ emit' = emit
        \/ /\ sessions' = sessions \ {s}
           /\ emit'[t] = emit[t] \cup {s}
           /\ \A u \in Thread : u # t => emit'[u] = emit[u]
    OBVIOUS
  <2> QED BY <2>1, <2>2, SMTT(30) DEF PendingInv
<1>2. CleanupInv'
  BY DEF CleanupInv
<1>3. FilterInv'
  BY DEF FilterInv, Removing, CleanupInv
<1>4. VisitInv'
  BY DEF VisitInv
<1>5. SignalledOnce'
  BY DEF SignalledOnce, CleanupInv, PendingInv
<1> QED BY <1>1, <1>2, <1>3, <1>4, <1>5

LEMMA CleanupUnlockKeepsIInv ==
    ASSUME IInv, TypeOK', NEW t \in Thread, CleanupUnlock(t)
    PROVE  IInv'
<1> USE DEF IInv, TypeOK, CleanupUnlock, Goto, PC, filterVars
<1>1. PendingInv'
  BY DEF PendingInv
<1>2. CleanupInv'
  BY DEF CleanupInv
<1>3. FilterInv'
  BY DEF FilterInv, Removing, CleanupInv
<1>4. VisitInv'
  BY DEF VisitInv, FilterInv
<1>5. SignalledOnce'
  BY DEF SignalledOnce
<1> QED BY <1>1, <1>2, <1>3, <1>4, <1>5

-----------------------------------------------------------------------------
\* filter.

\* What a turn still has to visit.
Left(iter, seen, again) == (IF again THEN sessions ELSE iter) \ seen

\* After a turn with `left' to visit: nothing was left and the iteration is
\* over, or func has one more session.
Turned(t, left, seen) ==
    /\ \A u \in Thread \ {t} : /\ pc'[u] = pc[u] /\ visited'[u] = visited[u]
                               /\ todo'[u] = todo[u] /\ cur'[u] = cur[u]
    /\ \/ pc'[t] = "done" /\ left = {} /\ visited'[t] = seen
       \/ /\ pc'[t] = "func"
          /\ cur'[t] \cup todo'[t] = left
          /\ cur'[t] \cap todo'[t] = {}
          /\ cur'[t] \subseteq visited'[t]
          /\ seen \cup left \subseteq visited'[t] \cup todo'[t]

(* A turn of the iteration visits what is left, one session at a time.     *)
LEMMA AdvanceResult ==
    ASSUME TypeOK, NEW t \in Thread, NEW again \in BOOLEAN,
           NEW iter \in SUBSET Session, NEW seen \in SUBSET Session,
           Advance(t, sessions, iter, seen, again)
    PROVE  Turned(t, Left(iter, seen, again), seen)
<1> DEFINE left == Left(iter, seen, again)
<1> USE DEF TypeOK, Goto
<1>1. CASE /\ left = {}
           /\ visited' = [visited EXCEPT ![t] = seen]
           /\ todo' = [todo EXCEPT ![t] = {}]
           /\ cur' = [cur EXCEPT ![t] = {}]
           /\ Goto(t, "done")
  BY <1>1 DEF Turned
<1>2. ASSUME NEW s \in left,
             visited' = [visited EXCEPT ![t] = seen \cup {s}],
             todo' = [todo EXCEPT ![t] = left \ {s}],
             cur' = [cur EXCEPT ![t] = {s}],
             Goto(t, "func")
      PROVE  /\ \A u \in Thread \ {t} : /\ pc'[u] = pc[u] /\ visited'[u] = visited[u]
                                        /\ todo'[u] = todo[u] /\ cur'[u] = cur[u]
             /\ pc'[t] = "func"
             /\ cur'[t] \cup todo'[t] = left
             /\ cur'[t] \cap todo'[t] = {}
             /\ cur'[t] \subseteq visited'[t]
             /\ seen \cup left \subseteq visited'[t] \cup todo'[t]
  <2> HIDE DEF left
  <2> QED BY <1>2
<1> QED BY <1>1, <1>2 DEF Advance, Left, Turned

(* A turn keeps the invariants when the iterator it goes on with is in the *)
(* table and covers what was not visited.                                  *)
LEMMA TurnKeepsInv ==
    ASSUME IInv, TypeOK', NEW t \in Thread, NEW again \in BOOLEAN,
           NEW iter \in SUBSET Session, NEW seen \in SUBSET Session,
           lock = NoThread, UNCHANGED <<lock, sessions, cookie, born>>,
           pc[t] \notin {"check", "deadline"},
           Advance(t, sessions, iter, seen, again),
           fcookie' = [fcookie EXCEPT ![t] = cookie],
           \A u \in Thread \ {t} : start'[u] = start[u] /\ changed'[u] = changed[u],
           start'[t] \subseteq born,
           ~again => iter \subseteq sessions /\ start'[t] \cap sessions \subseteq seen \cup iter
    PROVE  CleanupInv' /\ FilterInv' /\ VisitInv'
<1> DEFINE left == Left(iter, seen, again)
<1>1. Turned(t, left, seen)
  <2>1. TypeOK
    BY DEF IInv
  <2> QED BY <2>1, AdvanceResult
<1>2. left \subseteq sessions /\ start'[t] \cap sessions \subseteq seen \cup left
  BY DEF Left
<1>3. /\ fcookie'[t] = cookie /\ \A u \in Thread \ {t} : fcookie'[u] = fcookie[u]
      /\ cookie \in Nat /\ NoThread \notin Thread
      /\ Removing = {} /\ Removing' = {}
  BY DEF IInv, TypeOK, Removing
<1> HIDE DEF left
<1>4. CleanupInv'
  BY <1>1, <1>3 DEF IInv, CleanupInv, Turned
<1>5. FilterInv'
  <2>1. \A u \in Thread \ {t} :
           FilterInv => /\ fcookie'[u] <= cookie'
                        /\ pc'[u] = "func" => /\ cur'[u] \cap todo'[u] = {}
                                              /\ cur'[u] \subseteq visited'[u]
                        /\ pc'[u] = "func" /\ fcookie'[u] = cookie' =>
                               cur'[u] \cup todo'[u] \subseteq sessions' \cup Removing'
                        /\ pc'[u] = "signal" /\ fcookie'[u] = cookie' /\ ~changed'[u] =>
                               todo'[u] \subseteq sessions' \cup Removing'
    BY <1>1, <1>3 DEF FilterInv, Turned
  <2>2. /\ fcookie'[t] <= cookie'
        /\ pc'[t] = "func" => /\ cur'[t] \cap todo'[t] = {}
                              /\ cur'[t] \subseteq visited'[t]
        /\ pc'[t] = "func" => cur'[t] \cup todo'[t] \subseteq sessions' \cup Removing'
        /\ pc'[t] # "signal"
    BY <1>1, <1>2, <1>3 DEF Turned
  <2> QED BY <2>1, <2>2 DEF FilterInv, IInv
<1>6. VisitInv'
  <2>1. /\ pc'[t] = "func" => start'[t] \cap sessions' \subseteq visited'[t] \cup todo'[t]
        /\ pc'[t] = "done" => start'[t] \cap sessions' \subseteq visited'[t]
        /\ pc'[t] # "signal"
    BY <1>1, <1>2 DEF Turned
  <2> QED BY <1>1, <1>3, <2>1 DEF VisitInv, IInv, Turned
<1> QED BY <1>4, <1>5, <1>6

LEMMA FilterBeginKeepsIInv ==
    ASSUME IInv, TypeOK', NEW t \in Thread, FilterBegin(t)
    PROVE  IInv'
<1>1. PendingInv' /\ SignalledOnce'
  BY DEF FilterBegin, IInv, PendingInv, SignalledOnce
<1>2. CleanupInv' /\ FilterInv' /\ VisitInv'
  <2>1. /\ lock = NoThread /\ pc[t] \notin {"check", "deadline"}
        /\ UNCHANGED <<lock, sessions, cookie, born>>
        /\ fcookie' = [fcookie EXCEPT ![t] = cookie]
        /\ Advance(t, sessions, sessions, {}, FALSE)
    BY DEF FilterBegin
  <2>2. \A u \in Thread \ {t} : start'[u] = start[u] /\ changed'[u] = changed[u]
    BY DEF FilterBegin, IInv, TypeOK
  <2>3. start'[t] = sessions /\ sessions \subseteq born
    BY DEF FilterBegin, IInv, TypeOK, PendingInv
  <2>4. sessions \in SUBSET Session /\ {} \in SUBSET Session /\ FALSE \in BOOLEAN
    BY DEF IInv, TypeOK
  <2>5. start'[t] \cap sessions \subseteq {} \cup sessions
    OBVIOUS
  <2> QED BY <2>1, <2>2, <2>3, <2>4, <2>5, TurnKeepsInv
<1> QED BY <1>1, <1>2 DEF IInv

(* func returned and the lock is taken again: the turn that follows keeps  *)
(* the invariants, if it restarts whenever the pool changed.               *)
LEMMA ContinueKeepsInv ==
    ASSUME IInv, TypeOK', NEW t \in Thread, NEW again \in BOOLEAN,
           lock = NoThread, pc[t] \in {"func", "signal"},
           pc[t] = "signal" /\ changed[t] => again,
           PoolChanged(t) => again,
           UNCHANGED <<lock, sessions, cookie, born, start>>,
           fcookie' = [fcookie EXCEPT ![t] = cookie],
           \A u \in Thread \ {t} : changed'[u] = changed[u],
           Continue(t, again)
    PROVE  CleanupInv' /\ FilterInv' /\ VisitInv'
<1>1. PICK iter \in Iterators(t) : Advance(t, sessions, iter, visited[t], again)
  BY DEF Continue
<1>2. iter \in SUBSET Session /\ visited[t] \in SUBSET Session
  BY DEF Iterators, IInv, TypeOK
<1>3. ASSUME ~again
      PROVE  iter \subseteq sessions /\ start'[t] \cap sessions \subseteq visited[t] \cup iter
  <2>1. fcookie[t] = cookie /\ iter = todo[t] /\ (pc[t] = "signal" => ~changed[t])
    BY <1>1, <1>3 DEF PoolChanged, Iterators, IInv, TypeOK
  <2>2. Removing = {}
    BY DEF Removing
  <2>3. iter \subseteq sessions
    BY <2>1, <2>2 DEF IInv, FilterInv
  <2>4. start[t] \cap sessions \subseteq visited[t] \cup iter
    BY <2>1 DEF IInv, VisitInv
  <2> QED BY <2>3, <2>4
<1>4. start'[t] \subseteq born /\ \A u \in Thread \ {t} : start'[u] = start[u]
  BY DEF IInv, VisitInv
<1>5. pc[t] \notin {"check", "deadline"}
  OBVIOUS
<1> QED BY <1>1, <1>2, <1>3, <1>4, <1>5, TurnKeepsInv

LEMMA FilterKeepKeepsIInv ==
    ASSUME IInv, TypeOK', NEW t \in Thread, NEW ref \in BOOLEAN, FilterKeep(t, ref)
    PROVE  IInv'
<1>1. PendingInv' /\ SignalledOnce'
  BY DEF FilterKeep, IInv, PendingInv, SignalledOnce
<1>2. /\ lock = NoThread /\ pc[t] = "func"
      /\ UNCHANGED <<lock, sessions, cookie, born, start, changed>>
      /\ fcookie' = [fcookie EXCEPT ![t] = cookie]
      /\ Continue(t, PoolChanged(t))
  BY DEF FilterKeep
<1>3. PoolChanged(t) \in BOOLEAN
  BY DEF PoolChanged
<1>4. CleanupInv' /\ FilterInv' /\ VisitInv'
  BY <1>2, <1>3, ContinueKeepsInv
<1> QED BY <1>1, <1>4 DEF IInv

LEMMA FilterRemoveGoneKeepsIInv ==
    ASSUME IInv, TypeOK', NEW t \in Thread, FilterRemoveGone(t)
    PROVE  IInv'
<1>1. PendingInv' /\ SignalledOnce'
  BY DEF FilterRemoveGone, IInv, PendingInv, SignalledOnce
<1>2. /\ lock = NoThread /\ pc[t] = "func"
      /\ UNCHANGED <<lock, sessions, cookie, born, start, changed>>
      /\ fcookie' = [fcookie EXCEPT ![t] = cookie]
      /\ Continue(t, TRUE)
  BY DEF FilterRemoveGone
<1>3. CleanupInv' /\ FilterInv' /\ VisitInv'
  BY <1>2, ContinueKeepsInv
<1> QED BY <1>1, <1>3 DEF IInv

LEMMA FilterSignalKeepsIInv ==
    ASSUME IInv, TypeOK', NEW t \in Thread, FilterSignal(t)
    PROVE  IInv'
<1>1. PendingInv'
  BY DEF FilterSignal, ToSignal, IInv, TypeOK, PendingInv
<1>2. SignalledOnce'
  BY DEF FilterSignal, ToSignal, IInv, TypeOK, PendingInv, SignalledOnce
<1>3. /\ lock = NoThread /\ pc[t] = "signal"
      /\ UNCHANGED <<lock, sessions, cookie, born, start>>
      /\ fcookie' = [fcookie EXCEPT ![t] = cookie]
      /\ Continue(t, changed[t] \/ PoolChanged(t))
  BY DEF FilterSignal
<1>4. \A u \in Thread \ {t} : changed'[u] = changed[u]
  BY DEF FilterSignal, IInv, TypeOK
<1>5. (changed[t] \/ PoolChanged(t)) \in BOOLEAN
  OBVIOUS
<1>6. CleanupInv' /\ FilterInv' /\ VisitInv'
  BY <1>3, <1>4, <1>5, ContinueKeepsInv
<1> QED BY <1>1, <1>2, <1>6 DEF IInv

LEMMA FilterRemoveKeepsIInv ==
    ASSUME IInv, TypeOK', NEW t \in Thread, FilterRemove(t)
    PROVE  IInv'
<1>1. cur[t] \subseteq sessions /\ Removing = {} /\ Removing' = {}
  BY DEF FilterRemove, FilterRemoved, PoolChanged, IInv, TypeOK, FilterInv, Removing
<1>2. /\ emit'[t] = cur[t] /\ \A u \in Thread \ {t} : emit'[u] = emit[u]
      /\ sessions' = sessions \ cur[t]
      /\ UNCHANGED <<lock, born, signalled, visited, todo, cur, start>>
      /\ cookie' = cookie + 1 /\ fcookie'[t] = cookie + 1
      /\ \A u \in Thread \ {t} : /\ fcookie'[u] = fcookie[u] /\ changed'[u] = changed[u]
                                 /\ pc'[u] = pc[u]
      /\ pc[t] = "func" /\ pc'[t] = "signal"
      /\ changed'[t] = (fcookie[t] # cookie)
      /\ lock = NoThread
  BY DEF FilterRemove, PoolChanged, IInv, TypeOK, Goto
<1>3. PendingInv'
  <2>1. \A s \in cur[t] : signalled[s] = 0
    <3>1. \A s \in cur[t] : signalled[s] \in Nat /\ signalled[s] <= 1 /\ signalled[s] # 1
      <4>1. cur[t] \subseteq Session /\ signalled \in [Session -> Nat]
        BY DEF IInv, TypeOK
      <4> QED BY <1>1, <4>1 DEF IInv, SignalledOnce
    <3> QED BY <3>1
  <2>2. \A u \in Thread : emit[u] \cap cur[t] = {}
    BY <1>1 DEF IInv, PendingInv
  <2>3. cur[t] \subseteq born
    BY <1>1 DEF IInv, PendingInv
  <2> QED BY <1>2, <2>1, <2>2, <2>3 DEF IInv, PendingInv
<1>4. SignalledOnce'
  BY <1>2 DEF IInv, SignalledOnce
<1>5. CleanupInv'
  BY <1>2 DEF IInv, CleanupInv
<1>6. FilterInv'
  <2>1. \A u \in Thread : fcookie[u] \in Nat /\ cookie \in Nat
    BY DEF IInv, TypeOK
  <2>2. \A u \in Thread \ {t} : fcookie'[u] <= cookie' /\ fcookie'[u] # cookie'
    BY <1>2, <2>1 DEF IInv, FilterInv
  <2>3. ~changed'[t] => todo'[t] \subseteq sessions' \cup Removing'
    BY <1>1, <1>2 DEF IInv, FilterInv
  <2>4. fcookie'[t] <= cookie'
    BY <1>2, <2>1
  <2>5. \A u \in Thread \ {t} :
          pc'[u] = "func" => cur'[u] \cap todo'[u] = {} /\ cur'[u] \subseteq visited'[u]
    BY <1>2 DEF IInv, FilterInv
  <2> QED BY <1>2, <2>2, <2>3, <2>4, <2>5 DEF FilterInv
<1>7. VisitInv'
  <2>1. \A u \in Thread : fcookie[u] \in Nat /\ cookie \in Nat
    BY DEF IInv, TypeOK
  <2>2. \A u \in Thread \ {t} : fcookie'[u] # cookie'
    BY <1>2, <2>1 DEF IInv, FilterInv
  <2>3. ~changed'[t] => start'[t] \cap sessions' \subseteq visited'[t] \cup todo'[t]
    BY <1>2 DEF IInv, VisitInv
  <2> QED BY <1>2, <2>2, <2>3 DEF IInv, VisitInv
<1> QED BY <1>3, <1>4, <1>5, <1>6, <1>7 DEF IInv

LEMMA FilterEndKeepsIInv ==
    ASSUME IInv, TypeOK', NEW t \in Thread, FilterEnd(t)
    PROVE  IInv'
<1> USE DEF IInv, TypeOK, FilterEnd, Goto, PC
<1>1. PendingInv' /\ SignalledOnce'
  BY DEF PendingInv, SignalledOnce
<1>2. CleanupInv'
  BY DEF CleanupInv
<1>3. FilterInv'
  BY DEF FilterInv, Removing
<1>4. VisitInv'
  BY DEF VisitInv
<1> QED BY <1>1, <1>2, <1>3, <1>4

-----------------------------------------------------------------------------
\* The theorems.

LEMMA InitIInv == Init => IInv
BY TypeInit
   DEF IInv, Init, PendingInv, CleanupInv, FilterInv, VisitInv, SignalledOnce

LEMMA NextIInv == IInv /\ [Next]_vars => IInv'
<1> SUFFICES ASSUME IInv, [Next]_vars PROVE IInv'
  OBVIOUS
<1>0. TypeOK /\ TypeOK'
  BY TypeNext DEF IInv
<1>1. CASE QuietNext
  <2>1. Quiet
    BY <1>0, <1>1, QuietSteps
  <2> QED BY <1>0, <2>1, QuietKeepsIInv
<1>2. ASSUME NEW t \in Thread, NEW s \in Session,
             \/ CreateSession(t, s) \/ remove(t, s) \/ EmitRemoved(t, s)
             \/ CleanupCheck(t, s) \/ CleanupDeadline(t, s)
      PROVE  IInv'
  BY <1>0, <1>2, CreateKeepsIInv, RemoveKeepsIInv, EmitKeepsIInv, CleanupCheckKeepsIInv,
     CleanupDeadlineKeepsIInv
<1>3. ASSUME NEW t \in Thread, CleanupLock(t) \/ CleanupUnlock(t)
      PROVE  IInv'
  BY <1>0, <1>3, CleanupLockKeepsIInv, CleanupUnlockKeepsIInv
<1>4. ASSUME NEW t \in Thread,
             \/ FilterBegin(t)
             \/ \E ref \in BOOLEAN : FilterKeep(t, ref)
             \/ FilterRemove(t) \/ FilterRemoveGone(t) \/ FilterSignal(t) \/ FilterEnd(t)
      PROVE  IInv'
  BY <1>0, <1>4, FilterBeginKeepsIInv, FilterKeepKeepsIInv, FilterRemoveKeepsIInv,
     FilterRemoveGoneKeepsIInv, FilterSignalKeepsIInv, FilterEndKeepsIInv
<1> QED
  BY <1>1, <1>2, <1>3, <1>4
  DEF Next, QuietNext, ClientNext, CleanupNext, EmitNext, FilterNext

(* The inductive invariant.                                                *)
THEOREM InductiveInvariant == Spec => []IInv
BY InitIInv, NextIInv, PTL DEF Spec

(* session-removed is emitted at most once for a session and never while   *)
(* it is in the pool, for any number of sessions and of threads that       *)
(* remove, clean up and filter at the same time (remove, cleanup and       *)
(* filter of rtsp-session-pool.c).                                         *)
THEOREM SignalsOnce == Spec => []SignalledOnce
BY InductiveInvariant, PTL DEF IInv

LEMMA VisitAll == IInv => FilterVisitsAll
BY DEF IInv, VisitInv, FilterVisitsAll

(* A filter that ends has handed to func every session that was in the     *)
(* pool all the time, although it releases the lock for every call of func *)
(* and restarts when the cookie changed.                                   *)
THEOREM FilterIsComplete == Spec => []FilterVisitsAll
BY InductiveInvariant, VisitAll, PTL

(* A session is tracked from create to its session-removed: the state the  *)
(* run sessionpool checks, for any number of sessions and threads.         *)
THEOREM SessionsAreTracked == Spec => []SessionsTracked
<1>1. Spec => [](TypeOK /\ SignalledOnce /\ FilterVisitsAll)
  BY TypeCorrect, SignalsOnce, FilterIsComplete, PTL
<1>2. TypeOK /\ SignalledOnce /\ FilterVisitsAll => SessionsTracked
  BY DEF SessionsTracked
<1> QED BY <1>1, <1>2, PTL

(* Only create adds a session, under the lock, after it compared.          *)
LEMMA NextLimit ==
    IInv /\ [Next]_vars =>
        [sessions' \subseteq sessions
         \/ max_sessions = 0 \/ Cardinality(sessions') <= max_sessions]_vars
<1> SUFFICES ASSUME IInv, [Next]_vars
             PROVE  \/ sessions' \subseteq sessions
                    \/ max_sessions = 0
                    \/ Cardinality(sessions') <= max_sessions
  OBVIOUS
<1>1. ASSUME NEW t \in Thread, NEW s \in Session, CreateSession(t, s)
      PROVE  max_sessions = 0 \/ Cardinality(sessions') <= max_sessions
  <2>1. IsFiniteSet(sessions) /\ sessions \subseteq Session /\ max_sessions \in Nat
    BY FS_Subset DEF IInv, TypeOK
  <2>2. Cardinality(sessions) \in Nat
    BY <2>1, FS_CardinalityType
  <2>3. Cardinality(sessions \cup {s}) \in {Cardinality(sessions), Cardinality(sessions) + 1}
    <3>1. Cardinality(sessions \cup {s}) =
              IF s \in sessions THEN Cardinality(sessions) ELSE Cardinality(sessions) + 1
      BY <2>1, FS_AddElement
    <3> QED BY <3>1
  <2>4. Cardinality(sessions') = Cardinality(sessions \cup {s})
    BY <1>1 DEF CreateSession
  <2>5. max_sessions = 0 \/ ~(Cardinality(sessions) >= max_sessions)
    BY <1>1, <2>1 DEF CreateSession, too_many_sessions
  <2>6. ASSUME NEW n \in Nat, NEW m \in Nat, NEW k \in {n, n + 1}, ~(n >= m)
        PROVE  k <= m
    BY <2>6
  <2>7. max_sessions # 0 => Cardinality(sessions') <= max_sessions
    BY <2>1, <2>2, <2>3, <2>4, <2>5, <2>6
  <2> QED BY <2>7
<1>2. ASSUME NEW t \in Thread, NEW s \in Session,
             \/ remove(t, s) \/ EmitRemoved(t, s) \/ CleanupCheck(t, s)
             \/ CleanupDeadline(t, s)
      PROVE  sessions' \subseteq sessions
  BY <1>2 DEF remove, EmitRemoved, CleanupCheck, CleanupDeadline, poolVars
<1>3. ASSUME NEW t \in Thread, CleanupLock(t) \/ CleanupUnlock(t)
      PROVE  sessions' \subseteq sessions
  BY <1>3 DEF CleanupLock, CleanupUnlock
<1>4. ASSUME NEW t \in Thread,
             \/ FilterBegin(t)
             \/ \E ref \in BOOLEAN : FilterKeep(t, ref)
             \/ FilterRemove(t) \/ FilterRemoveGone(t) \/ FilterSignal(t) \/ FilterEnd(t)
      PROVE  sessions' \subseteq sessions
  BY <1>4 DEF FilterBegin, FilterKeep, FilterRemove, FilterRemoveGone, FilterSignal, FilterEnd
<1>5. CASE Quiet
  BY <1>5 DEF Quiet
<1>6. CASE QuietNext
  <2>1. TypeOK
    BY DEF IInv
  <2> QED BY <1>5, <1>6, <2>1, QuietSteps
<1> QED
  BY <1>1, <1>2, <1>3, <1>4, <1>6
  DEF Next, QuietNext, ClientNext, CleanupNext, EmitNext, FilterNext

(* The pool never grows past max-sessions, whatever the maximum and        *)
(* however many clients create sessions at once.                           *)
THEOREM LimitIsRespected == Spec => LimitRespected
BY InductiveInvariant, NextLimit, PTL DEF Spec, LimitRespected

-----------------------------------------------------------------------------
\* The reference counts.

HIDE DEF Thread

\* Outside of the steps that need them the sets of a thread are empty, and
\* what is held or visited was created.
OwnerInv ==
    \A t \in Thread :
        /\ held[t] \cup visited[t] \subseteq born
        /\ emit[t] # {} => pc[t] \in {"check", "deadline", "emit", "signal"}
        /\ visited[t] # {} => pc[t] \in {"func", "signal", "done"}

OwnedInv == IInv /\ OwnerInv /\ RefsBalance

One(b) == IF b THEN 1 ELSE 0

\* The references to a session that a step of a thread can change.
OwedBy(s, t) ==
    One(s \in sessions) + One(s \in held[t]) + One(s \in emit[t] /\ pc[t] # "signal")
    + One(s \in visited[t])

\* A step of a thread leaves what the others own.
Alone(t) ==
    \A u \in Thread \ {t} : /\ held'[u] = held[u] /\ emit'[u] = emit[u]
                            /\ visited'[u] = visited[u]
                            /\ pc'[u] = "signal" <=> pc[u] = "signal"

(* One thread more or less in a set of threads.                            *)
LEMMA CountStep ==
    ASSUME NEW t \in Thread, NEW S \in SUBSET Thread, NEW R \in SUBSET Thread,
           S \ {t} = R \ {t}
    PROVE  /\ Cardinality(S) \in Nat /\ Cardinality(R) \in Nat
           /\ Cardinality(R) - Cardinality(S) = One(t \in R) - One(t \in S)
<1>1. /\ IsFiniteSet(S) /\ IsFiniteSet(R)
  BY PoolAssumption, FS_Subset
<1>2. Cardinality(S) \in Nat /\ Cardinality(R) \in Nat
  BY <1>1, FS_CardinalityType
<1>3. /\ IsFiniteSet(S \ {t})
      /\ Cardinality(S \ {t}) = IF t \in S THEN Cardinality(S) - 1 ELSE Cardinality(S)
      /\ Cardinality(R \ {t}) = IF t \in R THEN Cardinality(R) - 1 ELSE Cardinality(R)
  BY <1>1, FS_RemoveElement
<1>4. Cardinality(S \ {t}) = Cardinality(R \ {t})
  OBVIOUS
<1> QED BY <1>2, <1>3, <1>4 DEF One

(* The count of a session changes by what the one thread that steps owns.  *)
LEMMA RefsStep ==
    ASSUME NEW t \in Thread, NEW s \in Session, Alone(t)
    PROVE  /\ RefsTo(s) \in Nat
           /\ RefsTo(s)' = RefsTo(s) + OwedBy(s, t)' - OwedBy(s, t)
<1> DEFINE H == {u \in Thread : s \in held[u]}
           E == {u \in Thread : s \in emit[u] /\ pc[u] # "signal"}
           V == {u \in Thread : s \in visited[u]}
<1>1. H \ {t} = H' \ {t} /\ E \ {t} = E' \ {t} /\ V \ {t} = V' \ {t}
  BY DEF Alone
<1>2. /\ t \in H <=> s \in held[t]
      /\ t \in E <=> s \in emit[t] /\ pc[t] # "signal"
      /\ t \in V <=> s \in visited[t]
      /\ t \in H' <=> s \in held'[t]
      /\ t \in E' <=> s \in emit'[t] /\ pc'[t] # "signal"
      /\ t \in V' <=> s \in visited'[t]
  OBVIOUS
<1>3. /\ H \in SUBSET Thread /\ H' \in SUBSET Thread
      /\ E \in SUBSET Thread /\ E' \in SUBSET Thread
      /\ V \in SUBSET Thread /\ V' \in SUBSET Thread
  OBVIOUS
<1>4. /\ RefsTo(s) = One(s \in sessions) + Cardinality(H) + Cardinality(E) + Cardinality(V)
      /\ RefsTo(s)' = One(s \in sessions') + Cardinality(H') + Cardinality(E') + Cardinality(V')
  BY DEF RefsTo, One
<1> HIDE DEF H, E, V
<1>5. /\ Cardinality(H) \in Nat /\ Cardinality(H') \in Nat
      /\ Cardinality(H') - Cardinality(H) = One(t \in H') - One(t \in H)
  BY <1>1, <1>3, CountStep
<1>6. /\ Cardinality(E) \in Nat /\ Cardinality(E') \in Nat
      /\ Cardinality(E') - Cardinality(E) = One(t \in E') - One(t \in E)
  BY <1>1, <1>3, CountStep
<1>7. /\ Cardinality(V) \in Nat /\ Cardinality(V') \in Nat
      /\ Cardinality(V') - Cardinality(V) = One(t \in V') - One(t \in V)
  BY <1>1, <1>3, CountStep
<1> QED BY <1>2, <1>4, <1>5, <1>6, <1>7 DEF OwedBy, One

(* It is enough that each step of a thread counts what it changes.         *)
LEMMA RefsKept ==
    ASSUME TypeOK, RefsBalance, NEW t \in Thread, Alone(t),
           \A s \in Session : refs'[s] = refs[s] + OwedBy(s, t)' - OwedBy(s, t)
    PROVE  RefsBalance'
<1> SUFFICES ASSUME NEW s \in Session PROVE refs'[s] = RefsTo(s)'
  BY DEF RefsBalance
<1>1. /\ RefsTo(s) \in Nat
      /\ RefsTo(s)' = RefsTo(s) + OwedBy(s, t)' - OwedBy(s, t)
  BY RefsStep
<1>2. refs[s] = RefsTo(s)
  BY DEF RefsBalance
<1>3. refs'[s] = refs[s] + OwedBy(s, t)' - OwedBy(s, t)
  OBVIOUS
<1> QED BY <1>1, <1>2, <1>3

(* The steps of a thread that touch no reference.                          *)
LEMMA NoRefsStep ==
    ASSUME OwnedInv, TypeOK', NEW t \in Thread, NEW l \in PC,
           UNCHANGED <<sessions, born, refs, held, emit, visited>>,
           pc' = pc \/ pc' = [pc EXCEPT ![t] = l],
           pc'[t] = pc[t] \/ (pc[t] \notin {"signal", "func", "done"} /\ l # "signal"
                              /\ (emit[t] # {} => l \in {"check", "deadline", "emit"}))
    PROVE  OwnerInv' /\ RefsBalance'
<1>0. TypeOK /\ OwnerInv /\ RefsBalance
  BY DEF OwnedInv, IInv
<1>1. \A u \in Thread \ {t} : pc'[u] = pc[u]
  BY <1>0 DEF TypeOK
<1>2. OwnerInv'
  BY <1>0, <1>1 DEF OwnerInv, TypeOK
<1>3. Alone(t)
  BY <1>1 DEF Alone
<1>4. \A s \in Session : OwedBy(s, t)' = OwedBy(s, t) /\ OwedBy(s, t) \in Int /\ refs[s] \in Int
  BY <1>0 DEF OwedBy, One, OwnerInv, TypeOK
<1>5. \A s \in Session : refs'[s] = refs[s] + OwedBy(s, t)' - OwedBy(s, t)
  BY <1>4
<1> QED BY <1>0, <1>2, <1>3, <1>5, RefsKept

(* The clock, the properties and the settings of a session own nothing.    *)
LEMMA NoRefsNext ==
    ASSUME OwnedInv, TypeOK',
           \/ Tick
           \/ \E m \in MaxSessions : set_max_sessions(m)
           \/ \E t \in Thread :
                \/ CreateTooMany(t) \/ CleanupBegin(t) \/ source_prepare(t)
                \/ CleanupLock(t) \/ CleanupUnlock(t)
                \/ \E s \in Session :
                     \/ CreateCollision(t, s) \/ touch(t, s)
                     \/ \E n \in Timeouts : set_timeout(t, s, n)
                     \/ prevent_expire(t, s) \/ allow_expire(t, s) \/ CleanupCheck(t, s)
           \/ UNCHANGED vars
    PROVE  OwnerInv' /\ RefsBalance'
<1> USE DEF Goto, PC, poolVars, threadVars, filterVars
<1>0. TypeOK /\ OwnerInv /\ RefsBalance
  BY DEF OwnedInv, IInv
<1>1. ASSUME UNCHANGED <<sessions, born, refs, held, emit, visited, pc>>
      PROVE  OwnerInv' /\ RefsBalance'
  BY <1>0, <1>1 DEF OwnerInv, RefsBalance, RefsTo
<1>2. CASE Tick \/ (\E m \in MaxSessions : set_max_sessions(m)) \/ UNCHANGED vars
  BY <1>1, <1>2 DEF Tick, set_max_sessions, vars
<1>3. ASSUME NEW t \in Thread, NEW s \in Session,
             \/ touch(t, s) \/ (\E n \in Timeouts : set_timeout(t, s, n))
             \/ prevent_expire(t, s) \/ allow_expire(t, s)
      PROVE  OwnerInv' /\ RefsBalance'
  BY <1>1, <1>3 DEF touch, set_timeout, prevent_expire, allow_expire, UpdateSession
<1>4. ASSUME NEW t \in Thread PROVE (emit[t] # {} => pc[t] \in {"check", "deadline", "emit", "signal"})
  BY <1>0 DEF OwnerInv
<1>5. ASSUME NEW t \in Thread,
             CreateTooMany(t) \/ CleanupBegin(t) \/ source_prepare(t)
      PROVE  OwnerInv' /\ RefsBalance'
  <2>1. PICK l \in PC : pc' = [pc EXCEPT ![t] = l] /\ l # "signal"
    BY <1>5 DEF CreateTooMany, CleanupBegin, source_prepare
  <2>2. /\ UNCHANGED <<sessions, born, refs, held, emit, visited>>
        /\ pc[t] \in {"idle", "retry", "dispatch", "poll"}
    BY <1>5 DEF CreateTooMany, CleanupBegin, source_prepare
  <2>3. emit[t] = {}
    BY <1>4, <2>2
  <2> QED BY <2>1, <2>2, <2>3, NoRefsStep
<1>6. ASSUME NEW t \in Thread, NEW s \in Session, CreateCollision(t, s)
      PROVE  OwnerInv' /\ RefsBalance'
  <2>1. PICK l \in PC : pc' = [pc EXCEPT ![t] = l] /\ l # "signal"
    BY <1>6 DEF CreateCollision
  <2>2. /\ UNCHANGED <<sessions, born, refs, held, emit, visited>>
        /\ pc[t] \in {"idle", "retry"}
    BY <1>6 DEF CreateCollision
  <2>3. emit[t] = {}
    BY <1>4, <2>2
  <2> QED BY <2>1, <2>2, <2>3, NoRefsStep
<1>7. ASSUME NEW t \in Thread, CleanupLock(t) PROVE OwnerInv' /\ RefsBalance'
  <2>1. "check" \in PC /\ pc' = [pc EXCEPT ![t] = "check"] /\ pc[t] = "cleanup"
    BY <1>7 DEF CleanupLock
  <2>2. UNCHANGED <<sessions, born, refs, held, emit, visited>>
    BY <1>7 DEF CleanupLock
  <2> QED BY <2>1, <2>2, NoRefsStep
<1>8. ASSUME NEW t \in Thread, CleanupUnlock(t) PROVE OwnerInv' /\ RefsBalance'
  <2>1. PICK l \in PC : /\ pc' = [pc EXCEPT ![t] = l] /\ l \in {"emit", "idle"}
                        /\ emit[t] # {} => l = "emit"
    BY <1>8 DEF CleanupUnlock
  <2>2. UNCHANGED <<sessions, born, refs, held, emit, visited>> /\ pc[t] = "check"
    BY <1>8 DEF CleanupUnlock
  <2> QED BY <2>1, <2>2, NoRefsStep
<1>9. ASSUME NEW t \in Thread, NEW s \in Session, CleanupCheck(t, s)
      PROVE  OwnerInv' /\ RefsBalance'
  <2>1. "deadline" \in PC /\ (pc' = pc \/ pc' = [pc EXCEPT ![t] = "deadline"]) /\ pc[t] = "check"
    BY <1>9 DEF CleanupCheck
  <2>2. UNCHANGED <<sessions, born, refs, held, emit, visited>>
    BY <1>9 DEF CleanupCheck
  <2> QED BY <2>1, <2>2, NoRefsStep
<1> QED BY <1>2, <1>3, <1>5, <1>6, <1>7, <1>8, <1>9

(* create, find, unref: what the caller of a pool function holds.          *)
LEMMA HolderSteps ==
    ASSUME OwnedInv, TypeOK', NEW t \in Thread, NEW s \in Session,
           CreateSession(t, s) \/ find(t, s) \/ unref(t, s)
    PROVE  OwnerInv' /\ RefsBalance'
<1> USE DEF Goto, PC, poolVars, threadVars, filterVars
<1>0. TypeOK /\ OwnerInv /\ RefsBalance /\ PendingInv
  BY DEF OwnedInv, IInv
<1>1. ASSUME CreateSession(t, s) PROVE OwnerInv' /\ RefsBalance'
  <2>1. /\ s \notin born /\ born' = born \cup {s} /\ sessions' = sessions \cup {s}
        /\ held'[t] = held[t] \cup {s} /\ \A u \in Thread \ {t} : held'[u] = held[u]
        /\ pc[t] \in {"idle", "retry"} /\ pc'[t] = "idle"
        /\ \A u \in Thread \ {t} : pc'[u] = pc[u]
        /\ refs'[s] = 2 /\ \A x \in Session \ {s} : refs'[x] = refs[x]
        /\ UNCHANGED <<emit, visited>>
    BY <1>0, <1>1 DEF CreateSession, NewRefs, TypeOK
  <2>2. OwnerInv'
    BY <1>0, <2>1 DEF OwnerInv
  <2>3. Alone(t)
    BY <2>1 DEF Alone
  <2>4. /\ s \notin sessions /\ s \notin visited[t] /\ s \notin held[t] /\ s \notin emit[t]
        /\ \A u \in Thread : s \notin held[u] /\ s \notin visited[u] /\ s \notin emit[u]
    BY <1>0, <2>1 DEF OwnerInv, PendingInv
  <2>5. refs[s] = 0
    <3> DEFINE H == {u \in Thread : s \in held[u]}
               E == {u \in Thread : s \in emit[u] /\ pc[u] # "signal"}
               V == {u \in Thread : s \in visited[u]}
    <3>1. H = {} /\ E = {} /\ V = {}
      BY <2>4
    <3>2. RefsTo(s) = 0 + Cardinality(H) + Cardinality(E) + Cardinality(V)
      BY <2>4 DEF RefsTo
    <3> HIDE DEF H, E, V
    <3>3. Cardinality({}) = 0
      BY FS_EmptySet
    <3>4. RefsTo(s) = 0
      BY <3>1, <3>2, <3>3
    <3> QED BY <1>0, <3>4 DEF RefsBalance
  <2>6. ASSUME NEW x \in Session PROVE refs'[x] = refs[x] + OwedBy(x, t)' - OwedBy(x, t)
    <3>1. CASE x = s
      BY <2>1, <2>4, <2>5, <3>1 DEF OwedBy, One
    <3>2. CASE x # s
      <4>1. refs'[x] = refs[x] /\ refs[x] \in Int
        BY <1>0, <2>1, <3>2 DEF TypeOK
      <4>2. OwedBy(x, t)' = OwedBy(x, t) /\ OwedBy(x, t) \in Int
        BY <2>1, <3>2 DEF OwedBy, One
      <4> QED BY <4>1, <4>2
    <3> QED BY <3>1, <3>2
  <2> QED BY <1>0, <2>2, <2>3, <2>6, RefsKept
<1>2. ASSUME find(t, s) PROVE OwnerInv' /\ RefsBalance'
  <2>1. /\ s \in sessions /\ s \notin held[t] /\ UNCHANGED <<born, sessions, emit, visited, pc>>
        /\ held'[t] = held[t] \cup {s} /\ \A u \in Thread \ {t} : held'[u] = held[u]
        /\ refs'[s] = refs[s] + 1 /\ \A x \in Session \ {s} : refs'[x] = refs[x]
    BY <1>0, <1>2 DEF find, TypeOK
  <2>2. OwnerInv'
    BY <1>0, <2>1 DEF OwnerInv, PendingInv
  <2>3. Alone(t)
    BY <2>1 DEF Alone
  <2>4. \A x \in Session : refs'[x] = refs[x] + OwedBy(x, t)' - OwedBy(x, t)
    BY <1>0, <2>1 DEF OwedBy, One, TypeOK
  <2> QED BY <1>0, <2>2, <2>3, <2>4, RefsKept
<1>3. ASSUME unref(t, s) PROVE OwnerInv' /\ RefsBalance'
  <2>1. /\ s \in held[t] /\ UNCHANGED <<born, sessions, emit, visited, pc>>
        /\ held'[t] = held[t] \ {s} /\ \A u \in Thread \ {t} : held'[u] = held[u]
        /\ refs'[s] = refs[s] - 1 /\ \A x \in Session \ {s} : refs'[x] = refs[x]
    BY <1>0, <1>3 DEF unref, TypeOK
  <2>2. OwnerInv'
    BY <1>0, <2>1 DEF OwnerInv
  <2>3. Alone(t)
    BY <2>1 DEF Alone
  <2>4. \A x \in Session : refs'[x] = refs[x] + OwedBy(x, t)' - OwedBy(x, t)
    BY <1>0, <2>1 DEF OwedBy, One, TypeOK
  <2> QED BY <1>0, <2>2, <2>3, <2>4, RefsKept
<1> QED BY <1>1, <1>2, <1>3

(* The pool's reference goes over to the pending emission, and with it.    *)
LEMMA RemoverSteps ==
    ASSUME OwnedInv, TypeOK', NEW t \in Thread, NEW s \in Session,
           remove(t, s) \/ EmitRemoved(t, s) \/ CleanupDeadline(t, s)
    PROVE  OwnerInv' /\ RefsBalance'
<1> USE DEF Goto, PC, poolVars, threadVars, filterVars
<1>0. TypeOK /\ OwnerInv /\ RefsBalance /\ PendingInv /\ CleanupInv
  BY DEF OwnedInv, IInv
<1>1. ASSUME remove(t, s) PROVE OwnerInv' /\ RefsBalance'
  <2>1. /\ s \in sessions /\ sessions' = sessions \ {s} /\ UNCHANGED <<born, held, visited, refs>>
        /\ pc[t] = "idle" /\ pc'[t] = "emit" /\ \A u \in Thread \ {t} : pc'[u] = pc[u]
        /\ emit'[t] = {s} /\ \A u \in Thread \ {t} : emit'[u] = emit[u]
    BY <1>0, <1>1 DEF remove, TypeOK
  <2>2. emit[t] = {}
    BY <1>0, <2>1 DEF OwnerInv
  <2>3. OwnerInv'
    BY <1>0, <2>1 DEF OwnerInv
  <2>4. Alone(t)
    BY <2>1 DEF Alone
  <2>5. \A x \in Session : refs'[x] = refs[x] + OwedBy(x, t)' - OwedBy(x, t)
    BY <1>0, <2>1, <2>2 DEF OwedBy, One, TypeOK
  <2> QED BY <1>0, <2>3, <2>4, <2>5, RefsKept
<1>2. ASSUME EmitRemoved(t, s) PROVE OwnerInv' /\ RefsBalance'
  <2>1. /\ s \in emit[t] /\ UNCHANGED <<sessions, born, held, visited>>
        /\ pc[t] = "emit" /\ pc'[t] \in {"idle", "emit"} /\ \A u \in Thread \ {t} : pc'[u] = pc[u]
        /\ emit[t] # {s} => pc'[t] = "emit"
        /\ emit'[t] = emit[t] \ {s} /\ \A u \in Thread \ {t} : emit'[u] = emit[u]
        /\ refs'[s] = refs[s] - 1 /\ \A x \in Session \ {s} : refs'[x] = refs[x]
    BY <1>0, <1>2 DEF EmitRemoved, TypeOK
  <2>2. OwnerInv'
    BY <1>0, <2>1 DEF OwnerInv
  <2>3. Alone(t)
    BY <2>1 DEF Alone
  <2>4. \A x \in Session : refs'[x] = refs[x] + OwedBy(x, t)' - OwedBy(x, t)
    BY <1>0, <2>1 DEF OwedBy, One, TypeOK
  <2> QED BY <1>0, <2>2, <2>3, <2>4, RefsKept
<1>3. ASSUME CleanupDeadline(t, s) PROVE OwnerInv' /\ RefsBalance'
  <2>1. /\ UNCHANGED <<born, held, visited, refs>>
        /\ pc[t] = "deadline" /\ pc'[t] = "check" /\ \A u \in Thread \ {t} : pc'[u] = pc[u]
        /\ \/ sessions' = sessions /\ emit' = emit
           \/ /\ sessions' = sessions \ {s}
              /\ emit'[t] = emit[t] \cup {s} /\ \A u \in Thread \ {t} : emit'[u] = emit[u]
    BY <1>0, <1>3 DEF CleanupDeadline, TypeOK
  <2>2. s \in sessions /\ s \notin emit[t]
    <3>1. s \in sessions
      BY <1>0, <1>3 DEF CleanupDeadline, CleanupInv
    <3> QED BY <1>0, <3>1 DEF PendingInv
  <2>3. OwnerInv'
    BY <1>0, <2>1 DEF OwnerInv
  <2>4. Alone(t)
    BY <2>1 DEF Alone
  <2>5. \A x \in Session : refs'[x] = refs[x] + OwedBy(x, t)' - OwedBy(x, t)
    <3>1. CASE sessions' = sessions /\ emit' = emit
      BY <1>0, <2>1, <3>1 DEF OwedBy, One, TypeOK
    <3>2. CASE /\ sessions' = sessions \ {s}
               /\ emit'[t] = emit[t] \cup {s}
      BY <1>0, <2>1, <2>2, <3>2 DEF OwedBy, One, TypeOK
    <3> QED BY <2>1, <3>1, <3>2
  <2> QED BY <1>0, <2>3, <2>4, <2>5, RefsKept
<1> QED BY <1>1, <1>2, <1>3

(* func is NULL: filter gives its caller a reference to every session.     *)
LEMMA FilterAllStep ==
    ASSUME OwnedInv, TypeOK', NEW t \in Thread, FilterAll(t)
    PROVE  OwnerInv' /\ RefsBalance'
<1>0. TypeOK /\ OwnerInv /\ RefsBalance /\ PendingInv
  BY DEF OwnedInv, IInv
<1>1. /\ sessions \cap held[t] = {} /\ UNCHANGED <<born, sessions, emit, visited, pc>>
      /\ held'[t] = held[t] \cup sessions /\ \A u \in Thread \ {t} : held'[u] = held[u]
      /\ \A x \in Session : refs'[x] = IF x \in sessions THEN refs[x] + 1 ELSE refs[x]
  BY <1>0 DEF FilterAll, TypeOK, filterVars
<1>2. OwnerInv'
  BY <1>0, <1>1 DEF OwnerInv, PendingInv
<1>3. Alone(t)
  BY <1>1 DEF Alone
<1>4. \A x \in Session : refs'[x] = refs[x] + OwedBy(x, t)' - OwedBy(x, t)
  BY <1>0, <1>1 DEF OwedBy, One, TypeOK
<1> QED BY <1>0, <1>2, <1>3, <1>4, RefsKept

(* A turn of the iteration adds one session to the visited table at most.  *)
LEMMA TurnVisits ==
    ASSUME TypeOK, NEW t \in Thread, NEW again \in BOOLEAN,
           NEW iter \in SUBSET Session, NEW seen \in SUBSET Session,
           Advance(t, sessions, iter, seen, again)
    PROVE  /\ \A u \in Thread \ {t} : pc'[u] = pc[u] /\ visited'[u] = visited[u]
           /\ \/ pc'[t] = "done" /\ visited'[t] = seen
              \/ pc'[t] = "func" /\ visited'[t] = seen \cup cur'[t]
<1> USE DEF TypeOK, Goto
<1> DEFINE left == (IF again THEN sessions ELSE iter) \ seen
<1>1. CASE /\ visited' = [visited EXCEPT ![t] = seen]
           /\ Goto(t, "done")
  BY <1>1
<1>2. ASSUME NEW s \in left,
             visited' = [visited EXCEPT ![t] = seen \cup {s}],
             cur' = [cur EXCEPT ![t] = {s}],
             Goto(t, "func")
      PROVE  /\ \A u \in Thread \ {t} : pc'[u] = pc[u] /\ visited'[u] = visited[u]
             /\ pc'[t] = "func" /\ visited'[t] = seen \cup cur'[t]
  <2> HIDE DEF left
  <2> QED BY <1>2
<1> QED BY <1>1, <1>2 DEF Advance

LEMMA ContinueVisits ==
    ASSUME TypeOK, NEW t \in Thread, NEW again \in BOOLEAN, Continue(t, again)
    PROVE  /\ \A u \in Thread \ {t} : pc'[u] = pc[u] /\ visited'[u] = visited[u]
           /\ \/ pc'[t] = "done" /\ visited'[t] = visited[t]
              \/ pc'[t] = "func" /\ visited'[t] = visited[t] \cup cur'[t]
<1>1. PICK iter \in Iterators(t) : Advance(t, sessions, iter, visited[t], again)
  BY DEF Continue
<1>2. iter \in SUBSET Session /\ visited[t] \in SUBSET Session
  BY DEF Iterators, TypeOK
<1> QED BY <1>1, <1>2, TurnVisits

(* What a turn gives to func was created: it is in the pool.               *)
LEMMA GivenIsBorn ==
    ASSUME IInv', NEW t \in Thread, lock' = NoThread, fcookie'[t] = cookie', pc'[t] = "func"
    PROVE  cur'[t] \subseteq born'
<1>1. Removing' = {}
  BY PoolAssumption DEF Removing
<1>2. cur'[t] \subseteq sessions'
  BY <1>1 DEF IInv, FilterInv
<1> QED BY <1>2 DEF IInv, PendingInv

(* A step of filter whose turn goes on from a visited table, while its      *)
(* caller may take a reference.                                            *)
LEMMA TurnOwns ==
    ASSUME OwnedInv, TypeOK', NEW t \in Thread, NEW ref \in SUBSET Session,
           UNCHANGED <<sessions, born>>, pc[t] \in {"idle", "func", "signal"},
           pc[t] = "idle" => visited[t] = {},
           \A u \in Thread \ {t} : pc'[u] = pc[u] /\ visited'[u] = visited[u],
           \/ pc'[t] = "done" /\ visited'[t] = visited[t]
           \/ /\ pc'[t] = "func" /\ visited'[t] = visited[t] \cup cur'[t]
              /\ cur'[t] \subseteq born,
           ref \cap held[t] = {}, ref \subseteq born,
           held'[t] = held[t] \cup ref, \A u \in Thread \ {t} : held'[u] = held[u] /\ emit'[u] = emit[u],
           emit'[t] = {},
           \A s \in Session : refs'[s] = refs[s] + One(s \in ref) + One(s \in visited'[t] \ visited[t])
    PROVE  OwnerInv' /\ RefsBalance'
<1>0. TypeOK /\ OwnerInv /\ RefsBalance
  BY DEF OwnedInv, IInv
<1>1. OwnerInv'
  BY <1>0 DEF OwnerInv
<1>2. Alone(t)
  BY DEF Alone
<1>3. \A s \in Session : s \in emit[t] => pc[t] = "signal"
  BY <1>0 DEF OwnerInv
<1>4. visited[t] \subseteq visited'[t]
  OBVIOUS
<1>5. \A s \in Session : refs'[s] = refs[s] + OwedBy(s, t)' - OwedBy(s, t)
  <2> SUFFICES ASSUME NEW s \in Session
               PROVE  refs'[s] = refs[s] + OwedBy(s, t)' - OwedBy(s, t)
    OBVIOUS
  <2>1. /\ One(s \in emit[t] /\ pc[t] # "signal") = 0
        /\ One(s \in emit'[t] /\ pc'[t] # "signal") = 0
    BY <1>3 DEF One
  <2>2. One(s \in held'[t]) = One(s \in held[t]) + One(s \in ref)
    BY DEF One
  <2>3. One(s \in visited'[t]) = One(s \in visited[t]) + One(s \in visited'[t] \ visited[t])
    BY <1>4 DEF One
  <2>4. One(s \in sessions') = One(s \in sessions)
    OBVIOUS
  <2>5. refs[s] \in Int
    BY <1>0 DEF TypeOK
  <2>6. OwedBy(s, t) = One(s \in sessions) + One(s \in held[t]) + 0 + One(s \in visited[t])
    BY <2>1 DEF OwedBy
  <2>7. OwedBy(s, t)' = One(s \in sessions) + (One(s \in held[t]) + One(s \in ref)) + 0
                        + (One(s \in visited[t]) + One(s \in visited'[t] \ visited[t]))
    BY <2>1, <2>2, <2>3, <2>4 DEF OwedBy
  <2>8. /\ One(s \in sessions) \in Int /\ One(s \in held[t]) \in Int /\ One(s \in visited[t]) \in Int
        /\ One(s \in ref) \in Int /\ One(s \in visited'[t] \ visited[t]) \in Int
    BY DEF One
  <2> QED BY <2>5, <2>6, <2>7, <2>8
<1> QED BY <1>0, <1>1, <1>2, <1>5, RefsKept

(* filter: the turns of the iteration.                                     *)
LEMMA FilterTurns ==
    ASSUME OwnedInv, IInv', NEW t \in Thread,
           \/ FilterBegin(t)
           \/ \E ref \in BOOLEAN : FilterKeep(t, ref)
           \/ FilterRemoveGone(t) \/ FilterSignal(t)
    PROVE  OwnerInv' /\ RefsBalance'
<1>0. /\ TypeOK /\ OwnerInv /\ FilterInv /\ TypeOK'
      /\ refs \in [Session -> Int] /\ visited \in [Thread -> SUBSET Session]
  BY DEF OwnedInv, IInv, TypeOK
<1>1. ASSUME FilterBegin(t) PROVE OwnerInv' /\ RefsBalance'
  <2>1. /\ lock = NoThread /\ pc[t] = "idle" /\ lock' = lock /\ fcookie'[t] = cookie'
        /\ UNCHANGED <<sessions, born, held, emit>>
        /\ Advance(t, sessions, sessions, {}, FALSE)
        /\ refs' = VisitRefs(refs, t)
    BY <1>0, <1>1 DEF FilterBegin, TypeOK
  <2>2. visited[t] = {} /\ emit[t] = {}
    BY <1>0, <2>1 DEF OwnerInv
  <2>3. /\ \A u \in Thread \ {t} : pc'[u] = pc[u] /\ visited'[u] = visited[u]
        /\ \/ pc'[t] = "done" /\ visited'[t] = {}
           \/ pc'[t] = "func" /\ visited'[t] = {} \cup cur'[t]
    <3>1. sessions \in SUBSET Session /\ {} \in SUBSET Session /\ FALSE \in BOOLEAN
      BY <1>0 DEF TypeOK
    <3> QED BY <1>0, <2>1, <3>1, TurnVisits
  <2>4. pc'[t] = "func" => cur'[t] \subseteq born
    BY <2>1, GivenIsBorn
  <2>5. \A s \in Session :
            refs'[s] = refs[s] + One(s \in {}) + One(s \in visited'[t] \ visited[t])
    BY <1>0, <2>1 DEF VisitRefs, One
  <2>6. /\ {} \in SUBSET Session /\ {} \cap held[t] = {} /\ {} \subseteq born
        /\ held'[t] = held[t] \cup {} /\ emit'[t] = {}
        /\ \A u \in Thread \ {t} : held'[u] = held[u] /\ emit'[u] = emit[u]
    BY <2>1, <2>2
  <2> QED BY <1>0, <2>1, <2>2, <2>3, <2>4, <2>5, <2>6, TurnOwns
<1>2. ASSUME NEW again \in BOOLEAN, NEW ref \in SUBSET Session, Continue(t, again),
             lock' = NoThread, fcookie'[t] = cookie', pc[t] \in {"func", "signal"},
             UNCHANGED <<sessions, born>>, emit'[t] = {},
             \A u \in Thread \ {t} : held'[u] = held[u] /\ emit'[u] = emit[u],
             ref \cap held[t] = {}, ref \subseteq born, held'[t] = held[t] \cup ref,
             \A s \in Session :
                 refs'[s] = refs[s] + One(s \in ref) + One(s \in visited'[t] \ visited[t])
      PROVE  OwnerInv' /\ RefsBalance'
  <2>1. /\ \A u \in Thread \ {t} : pc'[u] = pc[u] /\ visited'[u] = visited[u]
        /\ \/ pc'[t] = "done" /\ visited'[t] = visited[t]
           \/ pc'[t] = "func" /\ visited'[t] = visited[t] \cup cur'[t]
    BY <1>0, <1>2, ContinueVisits
  <2>2. pc'[t] = "func" => cur'[t] \subseteq born
    BY <1>2, GivenIsBorn
  <2> QED BY <1>0, <1>2, <2>1, <2>2, TurnOwns
<1>3. ASSUME FilterRemoveGone(t) \/ FilterSignal(t) PROVE OwnerInv' /\ RefsBalance'
  <2>1. /\ lock = NoThread /\ lock' = lock /\ pc[t] \in {"func", "signal"}
        /\ fcookie'[t] = cookie' /\ UNCHANGED <<sessions, born, held>>
        /\ refs' = VisitRefs(refs, t) /\ \A u \in Thread \ {t} : emit'[u] = emit[u]
        /\ (emit' = emit /\ pc[t] = "func") \/ emit'[t] = {}
    BY <1>0, <1>3 DEF FilterRemoveGone, FilterSignal, TypeOK
  <2>2. emit'[t] = {}
    BY <1>0, <2>1 DEF OwnerInv
  <2>3. PICK again \in BOOLEAN : Continue(t, again)
    <3>1. TRUE \in BOOLEAN /\ (changed[t] \/ PoolChanged(t)) \in BOOLEAN
      BY <1>0 DEF TypeOK, PoolChanged
    <3> QED BY <1>3, <3>1 DEF FilterRemoveGone, FilterSignal
  <2>4. \A s \in Session :
            refs'[s] = refs[s] + One(s \in {}) + One(s \in visited'[t] \ visited[t])
    BY <1>0, <2>1 DEF VisitRefs, One
  <2>5. {} \in SUBSET Session /\ {} \cap held[t] = {} /\ {} \subseteq born /\ held'[t] = held[t] \cup {}
        /\ \A u \in Thread \ {t} : held'[u] = held[u]
    BY <2>1
  <2> QED BY <1>2, <2>1, <2>2, <2>3, <2>4, <2>5
<1>4. ASSUME NEW ref \in BOOLEAN, FilterKeep(t, ref) PROVE OwnerInv' /\ RefsBalance'
  <2>1. PICK s \in cur[t] :
          /\ ref => s \notin held[t]
          /\ held' = IF ref THEN [held EXCEPT ![t] = @ \cup {s}] ELSE held
          /\ fcookie' = [fcookie EXCEPT ![t] = cookie]
          /\ Continue(t, PoolChanged(t))
          /\ refs' = VisitRefs(IF ref THEN [refs EXCEPT ![s] = @ + 1] ELSE refs, t)
    BY <1>4 DEF FilterKeep
  <2>2. /\ lock = NoThread /\ lock' = lock /\ pc[t] = "func" /\ cookie' = cookie
        /\ UNCHANGED <<sessions, born, emit>>
    BY <1>4 DEF FilterKeep
  <2>3. s \in Session /\ s \in born /\ emit[t] = {}
    BY <1>0, <2>2 DEF OwnerInv, FilterInv, TypeOK
  <2> DEFINE taken == IF ref THEN {s} ELSE {}
  <2>4. \A x \in Session :
            refs'[x] = refs[x] + One(x \in taken) + One(x \in visited'[t] \ visited[t])
    BY <1>0, <2>1, <2>3 DEF VisitRefs, One
  <2>5. /\ taken \in SUBSET Session /\ taken \cap held[t] = {} /\ taken \subseteq born
        /\ held'[t] = held[t] \cup taken /\ \A u \in Thread \ {t} : held'[u] = held[u]
        /\ fcookie'[t] = cookie'
    BY <1>0, <2>1, <2>2, <2>3 DEF TypeOK
  <2>6. PoolChanged(t) \in BOOLEAN
    BY DEF PoolChanged
  <2> HIDE DEF taken
  <2> QED BY <1>2, <2>1, <2>2, <2>3, <2>4, <2>5, <2>6
<1> QED BY <1>1, <1>3, <1>4

(* filter removes for func, and gives its visited table back.              *)
LEMMA FilterGivesBack ==
    ASSUME OwnedInv, TypeOK', NEW t \in Thread, FilterRemove(t) \/ FilterEnd(t)
    PROVE  OwnerInv' /\ RefsBalance'
<1>0. TypeOK /\ OwnerInv /\ RefsBalance /\ PendingInv /\ FilterInv
  BY DEF OwnedInv, IInv
<1>1. ASSUME FilterRemove(t) PROVE OwnerInv' /\ RefsBalance'
  <2>1. /\ UNCHANGED <<born, held, visited>> /\ sessions' = sessions \ cur[t]
        /\ pc[t] = "func" /\ pc'[t] = "signal" /\ \A u \in Thread \ {t} : pc'[u] = pc[u]
        /\ \A u \in Thread \ {t} : emit'[u] = emit[u]
        /\ \A s \in Session : refs'[s] = IF s \in cur[t] THEN refs[s] - 1 ELSE refs[s]
        /\ lock = NoThread
    BY <1>0, <1>1 DEF FilterRemove, Goto, TypeOK
  <2>2. cur[t] \subseteq sessions
    <3>1. Removing = {}
      BY <2>1, PoolAssumption DEF Removing
    <3>2. fcookie[t] = cookie \/ cur[t] \subseteq sessions
      BY <1>1 DEF FilterRemove, FilterRemoved, PoolChanged
    <3> QED BY <1>0, <2>1, <3>1, <3>2 DEF FilterInv
  <2>3. emit[t] = {} /\ OwnerInv'
    BY <1>0, <2>1 DEF OwnerInv
  <2>4. Alone(t)
    BY <2>1 DEF Alone
  <2>5. \A s \in Session : refs'[s] = refs[s] + OwedBy(s, t)' - OwedBy(s, t)
    BY <1>0, <2>1, <2>2, <2>3 DEF OwedBy, One, TypeOK
  <2> QED BY <1>0, <2>3, <2>4, <2>5, RefsKept
<1>2. ASSUME FilterEnd(t) PROVE OwnerInv' /\ RefsBalance'
  <2>1. /\ UNCHANGED <<born, held, sessions, emit>>
        /\ pc[t] = "done" /\ pc'[t] = "idle" /\ \A u \in Thread \ {t} : pc'[u] = pc[u]
        /\ visited'[t] = {} /\ \A u \in Thread \ {t} : visited'[u] = visited[u]
        /\ \A s \in Session : refs'[s] = IF s \in visited[t] THEN refs[s] - 1 ELSE refs[s]
    BY <1>0, <1>2 DEF FilterEnd, Goto, TypeOK
  <2>3. emit[t] = {} /\ OwnerInv'
    BY <1>0, <2>1 DEF OwnerInv
  <2>4. Alone(t)
    BY <2>1 DEF Alone
  <2>5. \A s \in Session : refs'[s] = refs[s] + OwedBy(s, t)' - OwedBy(s, t)
    BY <1>0, <2>1, <2>3 DEF OwedBy, One, TypeOK
  <2> QED BY <1>0, <2>3, <2>4, <2>5, RefsKept
<1> QED BY <1>1, <1>2

LEMMA InitOwned == Init => OwnedInv
<1> SUFFICES ASSUME Init PROVE OwnerInv /\ RefsBalance
  BY InitIInv DEF OwnedInv
<1>1. \A t \in Thread : held[t] = {} /\ emit[t] = {} /\ visited[t] = {}
  BY DEF Init
<1>2. ASSUME NEW s \in Session PROVE refs[s] = RefsTo(s)
  <2> DEFINE H == {u \in Thread : s \in held[u]}
             E == {u \in Thread : s \in emit[u] /\ pc[u] # "signal"}
             V == {u \in Thread : s \in visited[u]}
  <2>1. H = {} /\ E = {} /\ V = {}
    BY <1>1
  <2>2. RefsTo(s) = 0 + Cardinality(H) + Cardinality(E) + Cardinality(V)
    BY DEF RefsTo, Init
  <2> HIDE DEF H, E, V
  <2>3. RefsTo(s) = 0
    BY <2>1, <2>2, FS_EmptySet
  <2> QED BY <2>3 DEF Init
<1> QED BY <1>1, <1>2 DEF OwnerInv, RefsBalance

LEMMA NextOwned == OwnedInv /\ [Next]_vars => OwnedInv'
<1> SUFFICES ASSUME OwnedInv, [Next]_vars PROVE OwnerInv' /\ RefsBalance'
  <2>1. OwnedInv /\ [Next]_vars => IInv'
    BY NextIInv DEF OwnedInv
  <2> QED BY <2>1 DEF OwnedInv
<1>1. IInv' /\ TypeOK'
  BY NextIInv DEF OwnedInv, IInv
<1>2. ASSUME NEW t \in Thread, NEW s \in Session,
             \/ CreateSession(t, s) \/ find(t, s) \/ unref(t, s)
             \/ remove(t, s) \/ EmitRemoved(t, s) \/ CleanupDeadline(t, s)
      PROVE  OwnerInv' /\ RefsBalance'
  BY <1>1, <1>2, HolderSteps, RemoverSteps
<1>3. ASSUME NEW t \in Thread,
             \/ FilterAll(t) \/ FilterBegin(t) \/ (\E ref \in BOOLEAN : FilterKeep(t, ref))
             \/ FilterRemoveGone(t) \/ FilterSignal(t) \/ FilterRemove(t) \/ FilterEnd(t)
      PROVE  OwnerInv' /\ RefsBalance'
  BY <1>1, <1>3, FilterAllStep, FilterTurns, FilterGivesBack
<1>4. ASSUME NEW t \in Thread,
             \/ CreateTooMany(t) \/ CleanupBegin(t) \/ source_prepare(t)
             \/ CleanupLock(t) \/ CleanupUnlock(t)
             \/ \E s \in Session :
                  \/ CreateCollision(t, s) \/ touch(t, s)
                  \/ \E n \in Timeouts : set_timeout(t, s, n)
                  \/ prevent_expire(t, s) \/ allow_expire(t, s) \/ CleanupCheck(t, s)
      PROVE  OwnerInv' /\ RefsBalance'
  BY <1>1, <1>4, NoRefsNext
<1>5. CASE Tick \/ (\E m \in MaxSessions : set_max_sessions(m)) \/ UNCHANGED vars
  BY <1>1, <1>5, NoRefsNext
<1>6. Clients \cup Cleaners \cup Watchers \cup Filterers \subseteq Thread
  BY DEF Thread
<1> QED
  BY <1>2, <1>3, <1>4, <1>5, <1>6 DEF Next, ClientNext, CleanupNext, EmitNext, FilterNext

(* The reference count of every session is the number of references the    *)
(* pool, the callers, the pending emissions and the visited tables own.    *)
THEOREM ReferencesAreBalanced == Spec => []RefsBalance
<1>1. Spec => []OwnedInv
  BY InitOwned, NextOwned, PTL DEF Spec
<1>2. OwnedInv => RefsBalance
  BY DEF OwnedInv
<1> QED BY <1>1, <1>2, PTL

-----------------------------------------------------------------------------
\* Expiry.

Timings == {"cleanup", "check", "deadline"}

\* No clock value is newer than the clock, and a session has one of the
\* configured timeouts, and the extra time it was created with.
SettingsOK(s, clock) ==
    /\ s.last_access <= clock
    /\ s.extra = DEFAULT_EXTRA_TIMEOUT
    /\ s.timeout \in Timeouts \cup {DEFAULT_TIMEOUT}

ClockInv ==
    /\ \A t \in Thread : pc[t] \in Timings => at[t] <= now
    /\ \A s \in Session : SettingsOK(sess[s], now)

\* The extra time lasts a millisecond at least, and the longest wait for a
\* deadline, in milliseconds, is a gint.
TimeoutsFit ==
    /\ DEFAULT_EXTRA_TIMEOUT * GST_SECOND >= GST_MSECOND
    /\ \A n \in Timeouts \cup {DEFAULT_TIMEOUT} :
           (MaxTime + (n + DEFAULT_EXTRA_TIMEOUT) * GST_SECOND) \div GST_MSECOND
               < 2 ^ (GINT_BITS - 1)

(* A value that fits in a gint survives the conversion.                    *)
LEMMA GintExact ==
    ASSUME NEW x \in Nat, x < 2 ^ (GINT_BITS - 1)
    PROVE  Gint(x) = x
<1> DEFINE half == 2 ^ (GINT_BITS - 1)
<1>1. half \in Int
  <2>1. GINT_BITS - 1 \in Nat
    BY SessionAssumption
  <2>2. \A n \in Nat : 2 ^ n \in Int
    OBVIOUS
  <2> QED BY <2>1, <2>2
<1>2. x < half /\ Gint(x) = ((x + half) % (2 * half)) - half
  BY DEF Gint
<1> HIDE DEF half
<1>3. half \in Nat \ {0}
  BY <1>1, <1>2
<1>4. \A y \in Nat, h \in Nat \ {0} : y < h => ((y + h) % (2 * h)) - h = y
  OBVIOUS
<1> QED BY <1>2, <1>3, <1>4

LEMMA DivFacts ==
    ASSUME NEW a \in Nat, NEW b \in Nat, a <= b
    PROVE  /\ a \div GST_MSECOND \in Nat
           /\ a \div GST_MSECOND <= b \div GST_MSECOND
           /\ a >= GST_MSECOND => a \div GST_MSECOND > 0
<1> DEFINE m == GST_MSECOND
<1>1. m \in Nat \ {0}
  BY SessionAssumption
<1> HIDE DEF m
<1>2. /\ a \div m \in Nat
      /\ a \div m <= b \div m
      /\ a >= m => a \div m > 0
  BY <1>1
<1> QED BY <1>2 DEF m

(* The time left of a session is 0 only when nobody prevents it from       *)
(* expiring and its deadline is less than a millisecond away.              *)
LEMMA ExpiredIsLate ==
    ASSUME TimeoutsFit, NEW s \in SessionRecord, NEW clock \in 0 .. MaxTime,
           NEW seen \in Nat, seen <= clock, SettingsOK(s, clock),
           TimeLeft(s, seen, clock) = 0
    PROVE  s.expire_count = 0 /\ clock + GST_MSECOND > Deadline(s)
<1> DEFINE wait == (s.timeout + s.extra) * GST_SECOND
           asked == Asked(s, clock)
           deadline == asked.last_access + wait
           left == deadline - seen
<1>0. /\ clock \in Nat /\ MaxTime \in Nat /\ clock <= MaxTime
      /\ GST_SECOND \in Nat \ {0} /\ GST_MSECOND \in Nat \ {0}
  BY PoolAssumption, SessionAssumption
<1>1. /\ s.timeout \in Nat /\ s.extra \in Nat /\ s.last_access \in Nat /\ s.last_access <= clock
      /\ s.extra = DEFAULT_EXTRA_TIMEOUT /\ s.timeout \in Timeouts \cup {DEFAULT_TIMEOUT}
  BY DEF SessionRecord, SettingsOK
<1>2. wait \in Nat /\ wait >= GST_MSECOND
  <2>1. \A n, e \in Nat, k \in Nat \ {0} : (n + e) * k \in Nat /\ (n + e) * k >= e * k
    OBVIOUS
  <2>2. wait >= s.extra * GST_SECOND /\ wait \in Nat
    BY <1>0, <1>1, <2>1
  <2>3. s.extra * GST_SECOND >= GST_MSECOND
    BY <1>1 DEF TimeoutsFit
  <2>4. s.extra * GST_SECOND \in Nat
    BY <1>0, <1>1
  <2> HIDE DEF wait
  <2> QED BY <1>0, <2>2, <2>3, <2>4
<1>3. /\ asked.timeout = s.timeout /\ asked.extra = s.extra
      /\ asked.last_access \in Nat /\ asked.last_access <= clock
      /\ asked.last_access = IF s.expire_count # 0 THEN clock ELSE s.last_access
  BY <1>0, <1>1 DEF Asked, Touched, SessionRecord
<1>4. Deadline(asked) = deadline /\ Deadline(s) = s.last_access + wait
  BY <1>3 DEF Deadline
<1>5. deadline > seen => Gint(left \div GST_MSECOND) = 0
  BY <1>4 DEF TimeLeft
<1>6. (MaxTime + wait) \div GST_MSECOND < 2 ^ (GINT_BITS - 1)
  BY <1>1 DEF TimeoutsFit
<1> HIDE DEF wait, asked
<1>7. deadline \in Nat /\ left <= MaxTime + wait /\ MaxTime + wait \in Nat
  BY <1>0, <1>2, <1>3
<1>8. ASSUME deadline > seen PROVE left < GST_MSECOND
  <2>1. left \in Nat
    BY <1>7, <1>8
  <2> HIDE DEF left
  <2>2. /\ left \div GST_MSECOND \in Nat
        /\ left \div GST_MSECOND <= (MaxTime + wait) \div GST_MSECOND
        /\ left >= GST_MSECOND => left \div GST_MSECOND > 0
    BY <1>7, <2>1, DivFacts
  <2>3. \A b \in Nat : 2 ^ b \in Int
    OBVIOUS
  <2>4. GINT_BITS - 1 \in Nat /\ 2 ^ (GINT_BITS - 1) \in Int
    BY <2>3, SessionAssumption
  <2>5. (MaxTime + wait) \div GST_MSECOND \in Int
    BY <1>0, <1>7
  <2> DEFINE half == 2 ^ (GINT_BITS - 1)
             q == left \div GST_MSECOND
             p == (MaxTime + wait) \div GST_MSECOND
  <2>6. q < half
    <3>1. q \in Nat /\ p \in Int /\ half \in Int /\ q <= p /\ p < half
      BY <1>6, <2>2, <2>4, <2>5
    <3> HIDE DEF q, p, half
    <3> QED BY <3>1
  <2>7. left \div GST_MSECOND = 0
    <3>1. Gint(left \div GST_MSECOND) = left \div GST_MSECOND
      BY <2>2, <2>6, GintExact
    <3> QED BY <1>5, <1>8, <3>1
  <2> QED BY <1>0, <2>1, <2>2, <2>7
<1>9. deadline < seen + GST_MSECOND
  BY <1>0, <1>7, <1>8
<1>10. s.expire_count = 0
  BY <1>0, <1>2, <1>3, <1>9
<1>11. deadline = s.last_access + wait
  BY <1>3, <1>10
<1> QED BY <1>0, <1>1, <1>2, <1>4, <1>7, <1>9, <1>10, <1>11

LEMMA InitClock == Init => ClockInv
BY PoolAssumption, SessionAssumption DEF Init, ClockInv, Timings, SettingsOK, NewSession

(* Touching a session, or asking for its timeout, at the present time.     *)
LEMMA SettingsSteps ==
    ASSUME NEW s \in SessionRecord, NEW clock \in Nat, SettingsOK(s, clock)
    PROVE  /\ SettingsOK(Touched(s, clock), clock)
           /\ SettingsOK(Asked(s, clock), clock)
           /\ SettingsOK(NewSession(clock), clock)
           /\ SettingsOK(s, clock + 1)
           /\ \A n \in Timeouts : SettingsOK([s EXCEPT !.timeout = n], clock)
           /\ \A n \in Nat : SettingsOK([s EXCEPT !.expire_count = n], clock)
BY DEF SettingsOK, SessionRecord, Touched, Asked, NewSession

(* A step at the present time keeps the invariant if it keeps the clock    *)
(* values the cleanups read, and changes sessions as their owners do.      *)
LEMMA ClockKept ==
    ASSUME TypeOK, ClockInv, now' = now,
           \A t \in Thread : pc'[t] \in Timings =>
               at'[t] = now \/ (at'[t] = at[t] /\ pc[t] \in Timings),
           \A s \in Session : sess'[s] = sess[s] \/ SettingsOK(sess'[s], now)
    PROVE  ClockInv'
<1>1. now \in Nat
  BY PoolAssumption DEF TypeOK
<1> QED BY <1>1 DEF ClockInv

LEMMA NextClock == TypeOK /\ ClockInv /\ [Next]_vars => ClockInv'
<1> SUFFICES ASSUME TypeOK, ClockInv, [Next]_vars PROVE ClockInv'
  OBVIOUS
<1> USE DEF Goto, poolVars, threadVars, filterVars
<1>0. /\ now \in Nat
      /\ \A s \in Session : sess[s] \in SessionRecord /\ SettingsOK(sess[s], now)
      /\ sess = [s \in Session |-> sess[s]] /\ pc = [t \in Thread |-> pc[t]]
      /\ at = [t \in Thread |-> at[t]]
  BY PoolAssumption DEF TypeOK, ClockInv
<1> DEFINE Still == \A t \in Thread : pc'[t] \in Timings =>
                        at'[t] = now \/ (at'[t] = at[t] /\ pc[t] \in Timings)
<1>1. CASE Tick
  <2>1. now' = now + 1 /\ UNCHANGED <<pc, at, sess>>
    BY <1>1 DEF Tick
  <2>2. \A s \in Session : SettingsOK(sess[s], now + 1)
    BY <1>0, SettingsSteps
  <2>3. \A t \in Thread : pc[t] \in Timings => at[t] <= now + 1
    BY <1>0 DEF ClockInv, TypeOK
  <2> QED BY <2>1, <2>2, <2>3 DEF ClockInv
<1>2. CASE (\E m \in MaxSessions : set_max_sessions(m)) \/ UNCHANGED vars
  <2>1. UNCHANGED <<now, pc, at, sess>>
    BY <1>2 DEF set_max_sessions, vars
  <2> QED BY <2>1 DEF ClockInv
<1>3. ASSUME NEW t \in Thread, NEW s \in Session, NEW new,
             sess' = [sess EXCEPT ![s] = new], SettingsOK(new, now),
             UNCHANGED <<now, at>>, pc' = pc \/ pc' = [pc EXCEPT ![t] = "idle"]
      PROVE  ClockInv'
  <2>1. \A x \in Session : sess'[x] = sess[x] \/ SettingsOK(sess'[x], now)
    BY <1>0, <1>3
  <2>2. Still
    BY <1>0, <1>3 DEF Timings
  <2> QED BY <1>3, <2>1, <2>2, ClockKept
<1>4. ASSUME NEW t \in Thread, NEW s \in Session,
             \/ CreateSession(t, s) \/ find(t, s) \/ touch(t, s)
             \/ (\E n \in Timeouts : set_timeout(t, s, n))
             \/ prevent_expire(t, s) \/ allow_expire(t, s)
      PROVE  ClockInv'
  <2>1. sess[s] \in SessionRecord /\ SettingsOK(sess[s], now)
    BY <1>0
  <2>2. /\ SettingsOK(Touched(sess[s], now), now) /\ SettingsOK(NewSession(now), now)
        /\ \A n \in Timeouts : SettingsOK([sess[s] EXCEPT !.timeout = n], now)
        /\ \A n \in Nat : SettingsOK([sess[s] EXCEPT !.expire_count = n], now)
    BY <1>0, <2>1, SettingsSteps
  <2>3. CASE CreateSession(t, s)
    BY <1>3, <2>2, <2>3 DEF CreateSession
  <2>4. CASE find(t, s)
    <3>1. sess' = [sess EXCEPT ![s] = Touched(sess[s], now)]
      BY <1>0, <2>4 DEF find
    <3> QED BY <1>3, <2>2, <2>4, <3>1 DEF find
  <2>5. CASE touch(t, s)
    BY <1>3, <2>2, <2>5 DEF touch, UpdateSession
  <2>6. CASE \E n \in Timeouts : set_timeout(t, s, n)
    BY <1>3, <2>2, <2>6 DEF set_timeout, UpdateSession
  <2>7. ASSUME NEW n \in Nat, UpdateSession(t, s, [sess[s] EXCEPT !.expire_count = n])
        PROVE  ClockInv'
    BY <1>3, <2>2, <2>7 DEF UpdateSession
  <2>8. sess[s].expire_count \in Nat
    BY <2>1 DEF SessionRecord
  <2>9. CASE prevent_expire(t, s)
    <3>1. UpdateSession(t, s, [sess[s] EXCEPT !.expire_count = sess[s].expire_count + 1])
      BY <2>1, <2>9 DEF prevent_expire, SessionRecord
    <3> QED BY <2>7, <2>8, <3>1
  <2>10. CASE allow_expire(t, s)
    <3>1. UpdateSession(t, s, [sess[s] EXCEPT !.expire_count = sess[s].expire_count - 1])
      BY <2>1, <2>10 DEF allow_expire, SessionRecord
    <3>2. sess[s].expire_count - 1 \in Nat
      BY <2>8, <2>10 DEF allow_expire
    <3> QED BY <2>7, <3>1, <3>2
  <2> QED BY <1>4, <2>3, <2>4, <2>5, <2>6, <2>9, <2>10
<1>5. ASSUME NEW t \in Thread, NEW l \in PC, UNCHANGED <<now, at, sess>>,
             pc' = pc \/ pc' = [pc EXCEPT ![t] = l],
             l \in Timings => pc[t] \in Timings
      PROVE  ClockInv'
  <2>1. Still
    BY <1>0, <1>5
  <2> QED BY <1>5, <2>1, ClockKept
<1>6. ASSUME NEW t \in Thread, NEW s \in Session,
             \/ CreateCollision(t, s) \/ remove(t, s) \/ EmitRemoved(t, s)
             \/ CleanupCheck(t, s) \/ unref(t, s)
      PROVE  ClockInv'
  <2> USE DEF PC, Timings
  <2>1. CASE CreateCollision(t, s)
    BY <1>5, <2>1 DEF CreateCollision
  <2>2. CASE remove(t, s)
    BY <1>5, <2>2 DEF remove
  <2>3. CASE EmitRemoved(t, s)
    <3>1. PICK l \in {"idle", "emit"} : pc' = [pc EXCEPT ![t] = l]
      BY <2>3 DEF EmitRemoved
    <3> QED BY <1>5, <2>3, <3>1 DEF EmitRemoved
  <2>4. CASE CleanupCheck(t, s)
    BY <1>5, <2>4 DEF CleanupCheck
  <2>5. CASE unref(t, s)
    BY <1>5, <2>5 DEF unref
  <2> QED BY <1>6, <2>1, <2>2, <2>3, <2>4, <2>5
<1>7. ASSUME NEW t \in Thread,
             CreateTooMany(t) \/ CleanupLock(t) \/ FilterAll(t) \/ FilterRemove(t) \/ FilterEnd(t)
      PROVE  ClockInv'
  <2> USE DEF PC, Timings
  <2>1. CASE CreateTooMany(t)
    BY <1>5, <2>1 DEF CreateTooMany
  <2>2. CASE CleanupLock(t)
    BY <1>5, <2>2 DEF CleanupLock
  <2>3. CASE FilterAll(t)
    BY <1>5, <2>3 DEF FilterAll
  <2>4. CASE FilterRemove(t)
    BY <1>5, <2>4 DEF FilterRemove
  <2>5. CASE FilterEnd(t)
    BY <1>5, <2>5 DEF FilterEnd
  <2> QED BY <1>7, <2>1, <2>2, <2>3, <2>4, <2>5
<1>8. ASSUME NEW t \in Thread, CleanupBegin(t) \/ CleanupUnlock(t) PROVE ClockInv'
  <2>1. Still
    BY <1>0, <1>8 DEF CleanupBegin, CleanupUnlock, Timings
  <2>2. now' = now /\ sess' = sess
    BY <1>8 DEF CleanupBegin, CleanupUnlock
  <2> QED BY <2>1, <2>2, ClockKept
<1>9. ASSUME NEW t \in Thread, source_prepare(t) PROVE ClockInv'
  <2>1. PICK l \in {"dispatch", "poll"} : pc' = [pc EXCEPT ![t] = l]
    BY <1>9 DEF source_prepare
  <2>2. Still
    BY <1>0, <1>9, <2>1 DEF source_prepare, Timings
  <2>3. \A s \in Session : sess'[s] = sess[s] \/ SettingsOK(sess'[s], now)
    <3>1. \A s \in Session : sess'[s] \in {sess[s], Asked(sess[s], now)}
      BY <1>9 DEF source_prepare
    <3> QED BY <1>0, <3>1, SettingsSteps
  <2>4. now' = now
    BY <1>9 DEF source_prepare
  <2> QED BY <2>2, <2>3, <2>4, ClockKept
<1>10. ASSUME NEW t \in Thread, NEW s \in Session, CleanupDeadline(t, s) PROVE ClockInv'
  <2>1. /\ pc[t] = "deadline" /\ pc' = [pc EXCEPT ![t] = "check"] /\ now' = now /\ at' = at
        /\ sess' = [sess EXCEPT ![s] = Asked(sess[s], now)]
    BY <1>0, <1>10 DEF CleanupDeadline
  <2>2. Still
    BY <1>0, <2>1 DEF Timings
  <2>3. SettingsOK(Asked(sess[s], now), now)
    BY <1>0, SettingsSteps
  <2>4. \A x \in Session : sess'[x] = sess[x] \/ SettingsOK(sess'[x], now)
    BY <1>0, <2>1, <2>3
  <2> QED BY <2>1, <2>2, <2>4, ClockKept
<1>11. ASSUME NEW t \in Thread, NEW iter \in SUBSET Session, NEW seen \in SUBSET Session,
              NEW again \in BOOLEAN, Advance(t, sessions, iter, seen, again)
       PROVE  pc' = [pc EXCEPT ![t] = "done"] \/ pc' = [pc EXCEPT ![t] = "func"]
  BY <1>11 DEF Advance
<1>12. ASSUME NEW t \in Thread,
              \/ FilterBegin(t) \/ (\E ref \in BOOLEAN : FilterKeep(t, ref))
              \/ FilterRemoveGone(t) \/ FilterSignal(t)
       PROVE  ClockInv'
  <2>1. UNCHANGED <<now, at, sess>>
    BY <1>12 DEF FilterBegin, FilterKeep, FilterRemoveGone, FilterSignal
  <2>2. PICK l \in {"done", "func"} : pc' = [pc EXCEPT ![t] = l]
    BY <1>12 DEF FilterBegin, FilterKeep, FilterRemoveGone, FilterSignal, Continue, Advance
  <2> QED BY <1>5, <2>1, <2>2 DEF PC, Timings
<1>13. Clients \cup Cleaners \cup Watchers \cup Filterers \subseteq Thread
  BY DEF Thread
<1> HIDE DEF Still, Goto, poolVars, threadVars, filterVars
<1> QED
  BY <1>1, <1>2, <1>4, <1>6, <1>7, <1>8, <1>9, <1>10, <1>12, <1>13
  DEF Next, ClientNext, CleanupNext, EmitNext, FilterNext

\* The thread that leaves "deadline" is the one that asked.
Unhurried ==
    \A t \in Cleaners \cup Watchers :
         (pc[t] = "deadline" /\ pc'[t] # "deadline") =>
           \A s \in sessions \ sessions' :
             /\ sess[s].expire_count = 0
             /\ now + GST_MSECOND > Deadline(sess[s])

LEMMA NextUnhurried ==
    TimeoutsFit => (IInv /\ ClockInv /\ [Next]_vars => Unhurried)
<1> SUFFICES ASSUME TimeoutsFit, IInv, ClockInv, [Next]_vars,
                    NEW t \in Cleaners \cup Watchers,
                    pc[t] = "deadline", pc'[t] # "deadline",
                    NEW s \in sessions \ sessions'
             PROVE  /\ sess[s].expire_count = 0
                    /\ now + GST_MSECOND > Deadline(sess[s])
  BY DEF Unhurried
<1>0. TypeOK /\ t \in Thread /\ s \in Session
  BY DEF IInv, TypeOK, Thread
<1>1. PICK x \in Session : CleanupDeadline(t, x)
  <2> USE DEF Goto, poolVars, threadVars, filterVars
  <2>1. ASSUME NEW u \in Thread, NEW x \in Session, CleanupDeadline(u, x)
        PROVE  CleanupDeadline(t, x)
    <3>1. pc' = [pc EXCEPT ![u] = "check"]
      BY <2>1 DEF CleanupDeadline
    <3> QED BY <1>0, <2>1, <3>1 DEF TypeOK
  <2>2. ASSUME NEW u \in Thread,
               \/ \E x \in Session :
                    \/ remove(u, x) \/ EmitRemoved(u, x)
               \/ FilterRemove(u)
        PROVE  pc'[t] = "deadline"
    <3>1. pc[u] # "deadline" /\ \E l \in PC : pc' = [pc EXCEPT ![u] = l]
      BY <2>2 DEF remove, EmitRemoved, FilterRemove, PC
    <3> QED BY <1>0, <3>1 DEF TypeOK
  <2>3. CASE Tick \/ (\E m \in MaxSessions : set_max_sessions(m)) \/ UNCHANGED vars
    BY <2>3 DEF Tick, set_max_sessions, vars
  <2>4. ASSUME NEW u \in Thread,
               \/ CreateTooMany(u) \/ CleanupBegin(u) \/ source_prepare(u) \/ FilterAll(u)
               \/ CleanupLock(u) \/ CleanupUnlock(u)
               \/ \E x \in Session :
                    \/ CreateCollision(u, x) \/ find(u, x) \/ touch(u, x)
                    \/ \E n \in Timeouts : set_timeout(u, x, n)
                    \/ prevent_expire(u, x) \/ allow_expire(u, x) \/ unref(u, x)
                    \/ CleanupCheck(u, x)
        PROVE  sessions' = sessions
    BY <2>4 DEF CreateTooMany, CleanupBegin, source_prepare, FilterAll, CleanupLock,
                CleanupUnlock, CreateCollision, find, touch, set_timeout, prevent_expire,
                allow_expire, unref, UpdateSession, CleanupCheck
  <2>5. ASSUME NEW u \in Thread,
               \/ FilterBegin(u) \/ (\E ref \in BOOLEAN : FilterKeep(u, ref))
               \/ FilterRemoveGone(u) \/ FilterSignal(u) \/ FilterEnd(u)
        PROVE  sessions' = sessions
    BY <2>5 DEF FilterBegin, FilterKeep, FilterRemoveGone, FilterSignal, FilterEnd
  <2>6. ASSUME NEW u \in Thread, NEW x \in Session, CreateSession(u, x)
        PROVE  sessions \subseteq sessions'
    BY <2>6 DEF CreateSession
  <2>7. Clients \cup Cleaners \cup Watchers \cup Filterers \subseteq Thread
    BY DEF Thread
  <2>8. sessions' # sessions /\ ~(sessions \subseteq sessions')
    OBVIOUS
  <2> HIDE DEF Goto, poolVars, threadVars, filterVars
  <2>9. CASE UNCHANGED vars
    BY <2>3, <2>8, <2>9 DEF vars, poolVars
  <2>10. CASE Next
    BY <2>1, <2>2, <2>3, <2>4, <2>5, <2>6, <2>7, <2>8, <2>10
    DEF Next, ClientNext, CleanupNext, EmitNext, FilterNext
  <2> QED BY <2>9, <2>10
<1>2. s = x /\ TimeLeft(sess[s], at[t], now) = 0
  BY <1>1 DEF CleanupDeadline
<1>3. /\ at[t] \in Nat /\ at[t] <= now /\ now \in 0 .. MaxTime
      /\ sess[s] \in SessionRecord /\ SettingsOK(sess[s], now)
  BY <1>0 DEF TypeOK, ClockInv, Timings
<1> QED BY <1>2, <1>3, ExpiredIsLate

(* As long as timeouts fit in a gint, cleanup removes no session early,    *)
(* whatever its owners do while it reads the clock, waits for the lock and *)
(* asks.                                                                   *)
THEOREM NoSessionExpiresEarly == TimeoutsFit => (Spec => NoEarlyExpiry)
<1> SUFFICES ASSUME TimeoutsFit PROVE Spec => NoEarlyExpiry
  OBVIOUS
<1>1. IInv => TypeOK
  BY DEF IInv
<1>2. IInv /\ ClockInv /\ [Next]_vars => Unhurried
  BY NextUnhurried
<1>3. IInv /\ ClockInv /\ [Next]_vars => [Unhurried]_vars
  BY <1>2
<1> QED BY InductiveInvariant, InitClock, NextClock, <1>1, <1>3, PTL DEF Spec, NoEarlyExpiry, Unhurried
=============================================================================
