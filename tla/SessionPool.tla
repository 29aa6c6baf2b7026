----------------------------- MODULE SessionPool -----------------------------
(***************************************************************************)
(* GstRTSPSessionPool (rtsp-session-pool.c): the table of live sessions,   *)
(* shared by the client threads, the thread that cleans up expired         *)
(* sessions and the threads that iterate over the pool.                    *)
(*                                                                         *)
(* The pool lock makes each critical section one action, but for cleanup,  *)
(* which asks one session after the other for its timeout while it holds   *)
(* the lock: the sessions themselves are not protected by it.  What the    *)
(* code does outside the lock - reading the clock before a cleanup,        *)
(* calling the filter function, emitting session-removed - is an action of *)
(* its own, so other threads interleave there.                             *)
(*                                                                         *)
(* A session object is identified with its session id.  A random id may    *)
(* hit a session that is in the pool (the collision the code checks for);  *)
(* an id that was retired is not drawn again.                              *)
(***************************************************************************)
EXTENDS Session, Sequences, FiniteSets, SequencesExt

CONSTANTS
    Session,        \* session ids
    Clients,        \* threads that create, find, use and remove sessions
    Cleaners,       \* threads that call cleanup periodically
    Watchers,       \* threads that dispatch the GSource of the pool
    Filterers,      \* threads that call gst_rtsp_session_pool_filter
    MaxSessions,    \* the values max-sessions may be configured to
    Timeouts,       \* the values a session timeout may be configured to
    MaxRetry,       \* id collisions tolerated by create (100 in the code)
    MaxPrevent,     \* bound: outstanding prevent_expire calls per session
    MaxTime,        \* bound: last tick of the clock
    NoThread        \* nobody holds the pool lock

Thread == Clients \cup Cleaners \cup Watchers \cup Filterers

ASSUME PoolAssumption ==
    /\ IsFiniteSet(Session)
    /\ IsFiniteSet(Thread)
    /\ MaxSessions \subseteq Nat
    /\ Timeouts \subseteq Nat
    /\ MaxRetry \in Nat
    /\ MaxPrevent \in Nat
    /\ MaxTime \in Nat
    /\ NoThread \notin Thread

VARIABLES
    lock,           \* the thread that holds the pool lock over several steps
    now,            \* the monotonic clock
    max_sessions,
    sessions,       \* the hash table: the ids of the sessions in the pool
    cookie,         \* sessions_cookie
    born,           \* ids of the session objects that were ever created
    sess,           \* the session objects
    refs,           \* their reference counts
    signalled,      \* how often session-removed was emitted for a session
    pc,             \* what each thread is doing
    held,           \* the references each thread's caller owns
    retry,          \* create: the collisions so far
    at,             \* cleanup: the clock value read before the lock was taken
    emit,           \* remove, cleanup, filter: removed, not yet signalled
    visited,        \* filter: the visited hash table
    todo,           \* filter, cleanup: what the iterator still has to yield
    fcookie,        \* filter: the cookie at the (re)start of the iteration
    changed,        \* filter: the pool changed under the iteration
    cur,            \* filter: the session handed to func; cleanup: asked
    start           \* filter: the pool when the filter was called (history)

poolVars   == <<lock, now, max_sessions, sessions, cookie, born, sess, refs, signalled>>
filterVars == <<visited, todo, fcookie, changed, cur, start>>
threadVars == <<pc, held, retry, at, emit>>
vars       == <<poolVars, threadVars, filterVars>>

PC == {"idle", "retry", "cleanup", "check", "deadline", "emit", "poll", "dispatch",
       "func", "signal", "done"}

TypeOK ==
    /\ lock \in Thread \cup {NoThread}
    /\ now \in 0 .. MaxTime
    /\ max_sessions \in MaxSessions
    /\ sessions \subseteq Session
    /\ cookie \in Nat
    /\ born \subseteq Session
    /\ sess \in [Session -> SessionRecord]
    /\ refs \in [Session -> Int]
    /\ signalled \in [Session -> Nat]
    /\ pc \in [Thread -> PC]
    /\ held \in [Thread -> SUBSET Session]
    /\ retry \in [Thread -> Nat]
    /\ at \in [Thread -> Nat]
    /\ emit \in [Thread -> SUBSET Session]
    /\ visited \in [Thread -> SUBSET Session]
    /\ todo \in [Thread -> SUBSET Session]
    /\ fcookie \in [Thread -> Nat]
    /\ changed \in [Thread -> BOOLEAN]
    /\ cur \in [Thread -> SUBSET Session]
    /\ start \in [Thread -> SUBSET Session]

Init ==
    /\ lock = NoThread
    /\ now = 0
    /\ max_sessions \in MaxSessions
    /\ sessions = {}
    /\ cookie = 0
    /\ born = {}
    /\ sess = [s \in Session |-> NewSession(0)]
    /\ refs = [s \in Session |-> 0]
    /\ signalled = [s \in Session |-> 0]
    /\ pc = [t \in Thread |-> "idle"]
    /\ held = [t \in Thread |-> {}]
    /\ retry = [t \in Thread |-> 0]
    /\ at = [t \in Thread |-> 0]
    /\ emit = [t \in Thread |-> {}]
    /\ visited = [t \in Thread |-> {}]
    /\ todo = [t \in Thread |-> {}]
    /\ fcookie = [t \in Thread |-> 0]
    /\ changed = [t \in Thread |-> FALSE]
    /\ cur = [t \in Thread |-> {}]
    /\ start = [t \in Thread |-> {}]

Goto(t, l) == pc' = [pc EXCEPT ![t] = l]

-----------------------------------------------------------------------------
\* The clock and the properties of the pool.

Tick ==
    /\ now < MaxTime
    /\ now' = now + 1
    /\ UNCHANGED <<lock, max_sessions, sessions, cookie, born, sess, refs, signalled,
                   threadVars, filterVars>>

set_max_sessions(m) ==
    /\ lock = NoThread
    /\ max_sessions' = m
    /\ UNCHANGED <<lock, now, sessions, cookie, born, sess, refs, signalled,
                   threadVars, filterVars>>

-----------------------------------------------------------------------------
\* gst_rtsp_session_pool_create: one action per turn of the loop.

too_many_off_by_one ==
    max_sessions > 0 /\ Cardinality(sessions) > max_sessions

too_many_sessions ==
    max_sessions > 0 /\ Cardinality(sessions) >= max_sessions

CreateTooMany(t) ==
    /\ lock = NoThread
    /\ pc[t] \in {"idle", "retry"}
    /\ too_many_sessions
    /\ retry' = [retry EXCEPT ![t] = 0]
    /\ Goto(t, "idle")
    /\ UNCHANGED <<poolVars, held, at, emit, filterVars>>

CreateCollision(t, id) ==
    /\ lock = NoThread
    /\ pc[t] \in {"idle", "retry"}
    /\ ~too_many_sessions
    /\ id \in sessions
    /\ IF retry[t] + 1 > MaxRetry
       THEN /\ retry' = [retry EXCEPT ![t] = 0]
            /\ Goto(t, "idle")
       ELSE /\ retry' = [retry EXCEPT ![t] = @ + 1]
            /\ Goto(t, "retry")
    /\ UNCHANGED <<poolVars, held, at, emit, filterVars>>

\* References of a session that create just put in the pool: the caller's
\* and the additional one of the pool.
NewRefsNoPool == 1

NewRefs == 2

CreateSession(t, id) ==
    /\ lock = NoThread
    /\ pc[t] \in {"idle", "retry"}
    /\ ~too_many_sessions
    /\ id \notin born
    /\ born' = born \cup {id}
    /\ sess' = [sess EXCEPT ![id] = NewSession(now)]
    /\ refs' = [refs EXCEPT ![id] = NewRefs]
    /\ sessions' = sessions \cup {id}
    /\ cookie' = cookie + 1
    /\ held' = [held EXCEPT ![t] = @ \cup {id}]
    /\ retry' = [retry EXCEPT ![t] = 0]
    /\ Goto(t, "idle")
    /\ UNCHANGED <<lock, now, max_sessions, signalled, at, emit, filterVars>>

\* gst_rtsp_session_pool_find: takes a reference and touches the session
\* under the pool lock.
find(t, id) ==
    /\ lock = NoThread
    /\ pc[t] = "idle"
    /\ id \in sessions \ held[t]
    /\ refs' = [refs EXCEPT ![id] = @ + 1]
    /\ sess' = [sess EXCEPT ![id] = Touched(@, now)]
    /\ held' = [held EXCEPT ![t] = @ \cup {id}]
    /\ UNCHANGED <<lock, now, max_sessions, sessions, cookie, born, signalled,
                   pc, retry, at, emit, filterVars>>

\* g_object_unref by the owner of a reference.
unref(t, s) ==
    /\ pc[t] = "idle"
    /\ s \in held[t]
    /\ refs' = [refs EXCEPT ![s] = @ - 1]
    /\ held' = [held EXCEPT ![t] = @ \ {s}]
    /\ UNCHANGED <<lock, now, max_sessions, sessions, cookie, born, sess, signalled,
                   pc, retry, at, emit, filterVars>>

-----------------------------------------------------------------------------
\* What the owner of a reference does to the session itself.

UpdateSession(t, s, new) ==
    /\ pc[t] = "idle"
    /\ s \in held[t]
    /\ sess' = [sess EXCEPT ![s] = new]
    /\ UNCHANGED <<lock, now, max_sessions, sessions, cookie, born, refs, signalled,
                   threadVars, filterVars>>

touch(t, s) == UpdateSession(t, s, Touched(sess[s], now))

set_timeout(t, s, n) == UpdateSession(t, s, [sess[s] EXCEPT !.timeout = n])

prevent_expire(t, s) ==
    /\ sess[s].expire_count < MaxPrevent
    /\ UpdateSession(t, s, [sess[s] EXCEPT !.expire_count = @ + 1])

\* Called as often as prevent_expire, as its documentation requires.
allow_expire(t, s) ==
    /\ sess[s].expire_count > 0
    /\ UpdateSession(t, s, [sess[s] EXCEPT !.expire_count = @ - 1])

-----------------------------------------------------------------------------
\* gst_rtsp_session_pool_remove: when the session is found it is taken out
\* under the lock (the pool's reference becomes the function's own) and
\* signalled afterwards.  When it is not found nothing changes.

remove(t, s) ==
    /\ lock = NoThread
    /\ pc[t] = "idle"
    /\ s \in held[t]
    /\ s \in sessions
    /\ sessions' = sessions \ {s}
    /\ cookie' = cookie + 1
    /\ emit' = [emit EXCEPT ![t] = {s}]
    /\ Goto(t, "emit")
    /\ UNCHANGED <<lock, now, max_sessions, born, sess, refs, signalled,
                   held, retry, at, filterVars>>

\* The emission of session-removed, and the unref that follows it.
EmitRemoved(t, s) ==
    /\ pc[t] = "emit"
    /\ s \in emit[t]
    /\ signalled' = [signalled EXCEPT ![s] = @ + 1]
    /\ refs' = [refs EXCEPT ![s] = @ - 1]
    /\ emit' = [emit EXCEPT ![t] = @ \ {s}]
    /\ Goto(t, IF emit[t] = {s} THEN "idle" ELSE "emit")
    /\ UNCHANGED <<lock, now, max_sessions, sessions, cookie, born, sess,
                   held, retry, at, filterVars>>

-----------------------------------------------------------------------------
\* gst_rtsp_session_pool_cleanup: the clock is read before the lock is taken.

CleanupBegin(t) ==
    /\ \/ t \in Cleaners /\ pc[t] = "idle"
       \/ t \in Watchers /\ pc[t] = "dispatch"
    /\ at' = [at EXCEPT ![t] = now]
    /\ Goto(t, "cleanup")
    /\ UNCHANGED <<poolVars, held, retry, emit, filterVars>>

ToCheckFirst == IF sessions = {} THEN {} ELSE {CHOOSE s \in sessions : TRUE}

ToCheck == sessions

CleanupLock(t) ==
    /\ pc[t] = "cleanup"
    /\ lock = NoThread
    /\ lock' = t
    /\ todo' = [todo EXCEPT ![t] = ToCheck]
    /\ Goto(t, "check")
    /\ UNCHANGED <<now, max_sessions, sessions, cookie, born, sess, refs, signalled,
                   held, retry, at, emit, visited, fcookie, changed, cur, start>>

\* Whether the session has a timeout at all is read under the lock of the
\* session, which is released again.
CleanupCheck(t, s) ==
    /\ pc[t] = "check"
    /\ s \in todo[t]
    /\ todo' = [todo EXCEPT ![t] = @ \ {s}]
    /\ IF sess[s].timeout = 0
       THEN UNCHANGED <<pc, cur>>
       ELSE /\ cur' = [cur EXCEPT ![t] = {s}]
            /\ Goto(t, "deadline")
    /\ UNCHANGED <<poolVars, held, retry, at, emit, visited, fcookie, changed, start>>

\* The time left, from the timeout read again; an expired session goes.
CleanupDeadline(t, s) ==
    LET expired == TimeLeft(sess[s], at[t], now) = 0
    IN  /\ pc[t] = "deadline"
        /\ s \in cur[t]
        /\ sess' = [sess EXCEPT ![s] = Asked(@, now)]
        /\ sessions' = IF expired THEN sessions \ {s} ELSE sessions
        /\ emit' = IF expired THEN [emit EXCEPT ![t] = @ \cup {s}] ELSE emit
        /\ cur' = [cur EXCEPT ![t] = {}]
        /\ Goto(t, "check")
        /\ UNCHANGED <<lock, now, max_sessions, cookie, born, refs, signalled,
                       held, retry, at, visited, todo, fcookie, changed, start>>

CleanupUnlock(t) ==
    /\ pc[t] = "check"
    /\ todo[t] = {}
    /\ lock' = NoThread
    /\ cookie' = IF emit[t] # {} THEN cookie + 1 ELSE cookie
    /\ at' = [at EXCEPT ![t] = 0]
    /\ Goto(t, IF emit[t] # {} THEN "emit" ELSE "idle")
    /\ UNCHANGED <<now, max_sessions, sessions, born, sess, refs, signalled,
                   held, retry, emit, filterVars>>

-----------------------------------------------------------------------------
\* The GSource of gst_rtsp_session_pool_create_watch.  The iteration order
\* of the hash table is arbitrary.

\* collect_timeout: one session's contribution to the poll timeout.
collect_timeout(timeout, t) ==
    IF timeout = -1 \/ t < timeout THEN t ELSE timeout

PollTimeout(order) ==
    FoldLeft(collect_timeout, -1,
             [i \in DOMAIN order |-> next_timeout_usec(sess[order[i]], now, now)])

\* prepare, which check calls as well: dispatch when the timeout is 0, poll
\* otherwise.
source_prepare(t) ==
    /\ lock = NoThread
    /\ pc[t] \in {"idle", "poll"}
    /\ \E order \in SetToSeqs(sessions) :
         Goto(t, IF PollTimeout(order) = 0 THEN "dispatch" ELSE "poll")
    /\ sess' = [s \in Session |-> IF s \in sessions /\ sess[s].timeout # 0
                                  THEN Asked(sess[s], now) ELSE sess[s]]
    /\ UNCHANGED <<lock, now, max_sessions, sessions, cookie, born, refs, signalled,
                   held, retry, at, emit, filterVars>>

-----------------------------------------------------------------------------
\* gst_rtsp_session_pool_filter.  The lock is held except while func runs
\* and while session-removed is emitted.

\* What the hash table iterator may still yield.  Once another thread changed
\* the table under it, what it yields is undefined.
Iterators(t) == IF fcookie[t] = cookie THEN {todo[t]} ELSE SUBSET sessions

\* The loop from the top of the while with a given table and iterator: the
\* next session not yet visited goes to func, or the iteration is over.
Advance(t, table, iter, seen, again) ==
    LET left == (IF again THEN table ELSE iter) \ seen
    IN  \/ /\ left = {}
           /\ visited' = [visited EXCEPT ![t] = seen]
           /\ todo' = [todo EXCEPT ![t] = {}]
           /\ cur' = [cur EXCEPT ![t] = {}]
           /\ Goto(t, "done")
        \/ \E s \in left :
           /\ visited' = [visited EXCEPT ![t] = seen \cup {s}]
           /\ todo' = [todo EXCEPT ![t] = left \ {s}]
           /\ cur' = [cur EXCEPT ![t] = {s}]
           /\ Goto(t, "func")

\* func returned and the iteration goes on, or restarts.
Continue(t, again) ==
    \E iter \in Iterators(t) : Advance(t, sessions, iter, visited[t], again)

\* visited holds a reference to every session it contains.
VisitRefs(r, t) ==
    [s \in Session |-> IF s \in visited'[t] \ visited[t] THEN r[s] + 1 ELSE r[s]]

FilterBegin(t) ==
    /\ lock = NoThread
    /\ pc[t] = "idle"
    /\ fcookie' = [fcookie EXCEPT ![t] = cookie]
    /\ start' = [start EXCEPT ![t] = sessions]
    /\ Advance(t, sessions, sessions, {}, FALSE)
    /\ refs' = VisitRefs(refs, t)
    /\ UNCHANGED <<lock, now, max_sessions, sessions, cookie, born, sess, signalled,
                   held, retry, at, emit, changed>>

\* func is NULL: every session is returned with a reference, under the lock.
FilterAll(t) ==
    /\ lock = NoThread
    /\ pc[t] = "idle"
    /\ sessions \cap held[t] = {}
    /\ held' = [held EXCEPT ![t] = @ \cup sessions]
    /\ refs' = [s \in Session |-> IF s \in sessions THEN refs[s] + 1 ELSE refs[s]]
    /\ UNCHANGED <<lock, now, max_sessions, sessions, cookie, born, sess, signalled,
                   pc, retry, at, emit, filterVars>>

\* Whether the pool changed while the lock was released.
PoolChanged(t) == fcookie[t] # cookie

\* func returned KEEP or REF.
FilterKeep(t, ref) ==
    /\ lock = NoThread
    /\ pc[t] = "func"
    /\ \E s \in cur[t] :
         /\ ref => s \notin held[t]
         /\ held' = IF ref THEN [held EXCEPT ![t] = @ \cup {s}] ELSE held
         /\ fcookie' = [fcookie EXCEPT ![t] = cookie]
         /\ Continue(t, PoolChanged(t))
         /\ refs' = VisitRefs(IF ref THEN [refs EXCEPT ![s] = @ + 1] ELSE refs, t)
    /\ UNCHANGED <<lock, now, max_sessions, sessions, cookie, born, sess, signalled,
                   retry, at, emit, changed, start>>

\* func returned REMOVE, and the session is still in the pool: out of the
\* table under the lock, signalled without it.
FilterRemoveBlindly(t) == TRUE

FilterRemoved(t) == ~PoolChanged(t) \/ cur[t] \subseteq sessions

FilterRemove(t) ==
    /\ lock = NoThread
    /\ pc[t] = "func"
    /\ FilterRemoved(t)
    /\ sessions' = sessions \ cur[t]
    /\ cookie' = cookie + 1
    /\ fcookie' = [fcookie EXCEPT ![t] = cookie + 1]
    /\ changed' = [changed EXCEPT ![t] = PoolChanged(t)]
    /\ refs' = [s \in Session |-> IF s \in cur[t] THEN refs[s] - 1 ELSE refs[s]]
    /\ emit' = [emit EXCEPT ![t] = cur[t]]
    /\ Goto(t, "signal")
    /\ UNCHANGED <<lock, now, max_sessions, born, sess, signalled, held, retry, at,
                   visited, todo, cur, start>>

\* func returned REMOVE, but another thread removed the session meanwhile.
FilterRemoveGone(t) ==
    /\ lock = NoThread
    /\ pc[t] = "func"
    /\ ~FilterRemoved(t)
    /\ fcookie' = [fcookie EXCEPT ![t] = cookie]
    /\ Continue(t, TRUE)
    /\ refs' = VisitRefs(refs, t)
    /\ UNCHANGED <<lock, now, max_sessions, sessions, cookie, born, sess, signalled,
                   held, retry, at, emit, changed, start>>

ToSignal(t) == emit[t]

\* session-removed is emitted, the lock is taken again and the iteration
\* goes on, or restarts when the pool changed.
FilterSignal(t) ==
    /\ lock = NoThread
    /\ pc[t] = "signal"
    /\ signalled' = [s \in Session |-> IF s \in ToSignal(t) THEN signalled[s] + 1
                                       ELSE signalled[s]]
    /\ emit' = [emit EXCEPT ![t] = {}]
    /\ changed' = [changed EXCEPT ![t] = FALSE]
    /\ fcookie' = [fcookie EXCEPT ![t] = cookie]
    /\ Continue(t, changed[t] \/ PoolChanged(t))
    /\ refs' = VisitRefs(refs, t)
    /\ UNCHANGED <<lock, now, max_sessions, sessions, cookie, born, sess,
                   held, retry, at, start>>

\* The visited table is released and the result list returned.
FilterEnd(t) ==
    /\ pc[t] = "done"
    /\ refs' = [s \in Session |-> IF s \in visited[t] THEN refs[s] - 1 ELSE refs[s]]
    /\ visited' = [visited EXCEPT ![t] = {}]
    /\ start' = [start EXCEPT ![t] = {}]
    /\ Goto(t, "idle")
    /\ UNCHANGED <<lock, now, max_sessions, sessions, cookie, born, sess, signalled,
                   held, retry, at, emit, todo, fcookie, changed, cur>>

-----------------------------------------------------------------------------
ClientNext(t) ==
    \/ CreateTooMany(t)
    \/ \E s \in Session :
         \/ CreateCollision(t, s)
         \/ CreateSession(t, s)
         \/ find(t, s)
         \/ touch(t, s)
         \/ \E n \in Timeouts : set_timeout(t, s, n)
         \/ prevent_expire(t, s)
         \/ allow_expire(t, s)
         \/ remove(t, s)

CleanupNext(t) ==
    \/ CleanupBegin(t)
    \/ CleanupLock(t)
    \/ \E s \in Session : CleanupCheck(t, s) \/ CleanupDeadline(t, s)
    \/ CleanupUnlock(t)

EmitNext(t) == \E s \in Session : EmitRemoved(t, s)

FilterNext(t) ==
    \/ FilterBegin(t)
    \/ FilterAll(t)
    \/ \E ref \in BOOLEAN : FilterKeep(t, ref)
    \/ FilterRemove(t)
    \/ FilterRemoveGone(t)
    \/ FilterSignal(t)
    \/ FilterEnd(t)

Next ==
    \/ Tick
    \/ \E m \in MaxSessions : set_max_sessions(m)
    \/ \E t \in Clients : ClientNext(t)
    \/ \E t \in Cleaners \cup Watchers : CleanupNext(t)
    \/ \E t \in Watchers : source_prepare(t)
    \/ \E t \in Filterers : FilterNext(t)
    \/ \E t \in Thread : EmitNext(t) \/ \E s \in Session : unref(t, s)

Spec == Init /\ [][Next]_vars

(***************************************************************************)
(* Fairness: a cleaner is a timeout source of a running main loop, so it   *)
(* keeps calling cleanup; a thread inside a pool function finishes it,     *)
(* since func returns and a thread that waits for the pool lock gets it    *)
(* when it is released again and again.  Nothing is assumed of what        *)
(* clients do, nor of the clock.                                           *)
(***************************************************************************)
Fairness ==
    /\ \A t \in Cleaners : SF_vars(CleanupNext(t))
    /\ \A t \in Watchers : SF_vars(CleanupNext(t))
    /\ \A t \in Thread : WF_vars(EmitNext(t))
    /\ \A t \in Filterers : SF_vars(FilterNext(t) /\ pc[t] # "idle")

FairSpec == Spec /\ Fairness

-----------------------------------------------------------------------------
\* Properties.

RefsTo(s) ==
    (IF s \in sessions THEN 1 ELSE 0)
    + Cardinality({t \in Thread : s \in held[t]})
    + Cardinality({t \in Thread : s \in emit[t] /\ pc[t] # "signal"})
    + Cardinality({t \in Thread : s \in visited[t]})

(* The reference count of a session is the number of references the pool,  *)
(* the callers, the pending session-removed emissions and the visited      *)
(* tables own: no interleaving of create, find, remove, cleanup and filter *)
(* frees a session somebody still uses, or leaks one.                      *)
RefsBalance == \A s \in Session : refs[s] = RefsTo(s)

(* session-removed is emitted at most once for a session, never while it   *)
(* is in the pool, although remove, cleanup and filter race to remove it:  *)
(* clients disconnect their handler on that signal.                        *)
SignalledOnce ==
    \A s \in Session : /\ signalled[s] <= 1
                       /\ signalled[s] = 1 => s \in born \ sessions

(* A session that left the pool is eventually signalled.                   *)
RemovedIsSignalled ==
    \A s \in Session : (s \in born \ sessions) ~> (signalled[s] = 1)

(* Cleanup removes only sessions nobody prevents from expiring and that    *)
(* were idle for timeout + extra seconds, to the millisecond, although it  *)
(* compares with a clock value read before it took the lock, and owners    *)
(* use the sessions meanwhile.                                             *)
NoEarlyExpiry ==
    [][\A t \in Cleaners \cup Watchers :
         (pc[t] = "deadline" /\ pc'[t] # "deadline") =>
           \A s \in sessions \ sessions' :
             /\ sess[s].expire_count = 0
             /\ now + GST_MSECOND > Deadline(sess[s])]_vars

(* The pool never grows past the configured maximum.                       *)
LimitRespected ==
    [][sessions' \subseteq sessions
       \/ max_sessions = 0 \/ Cardinality(sessions') <= max_sessions]_vars

(* A session that has expired is eventually removed, unless it is used     *)
(* again, as long as cleanup is called periodically.                       *)
ExpiredIsRemoved ==
    \A s \in Session :
        (s \in sessions /\ is_expired_usec(sess[s], now, now))
        ~> (s \notin sessions \/ ~is_expired_usec(sess[s], now, now))

(* When filter is done, func has seen every session that was in the pool   *)
(* from the call to the end, whatever was added or removed meanwhile.      *)
FilterVisitsAll ==
    \A t \in Filterers :
        pc[t] = "done" => start[t] \cap sessions \subseteq visited[t]

(* The source of create_watch is dispatched when a session should be       *)
(* cleaned up: it does not go on polling while a session is expired,       *)
(* unless there is a session that never times out, whose -1 collect_timeout *)
(* takes for the shortest timeout.                                          *)
WatchSeesExpired ==
    [][\A t \in Watchers :
         (pc[t] = "idle" /\ pc'[t] = "poll") =>
           \/ \E s \in sessions : sess[s].timeout = 0
           \/ \A s \in sessions : ~is_expired_usec(sess[s], now, now)]_vars

(* A session is tracked from create to its session-removed: it is signalled *)
(* once, when it left the pool, and a filter that ends has seen every       *)
(* session that stayed, whatever remove, cleanup and filter do at once.     *)
SessionsTracked ==
    /\ TypeOK
    /\ SignalledOnce
    /\ FilterVisitsAll

(* An expired session goes: the watch does not go on polling over it,       *)
(* cleanup removes it unless it is used again, and what left the pool is    *)
(* signalled.                                                               *)
ExpiredGoes ==
    /\ WatchSeesExpired
    /\ ExpiredIsRemoved
    /\ RemovedIsSignalled
=============================================================================
