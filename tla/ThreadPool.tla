----------------------------- MODULE ThreadPool ------------------------------
(***************************************************************************)
(* GstRTSPThreadPool (rtsp-thread-pool.c): the main loop threads the       *)
(* server runs clients and media in.                                       *)
(*                                                                         *)
(* A thread object is shared: `reused' counts its users, `refs' its        *)
(* references, and the queue of the pool holds it without a reference.     *)
(* get_thread works under the pool lock, but stop does not take it and     *)
(* only uses the atomic counters, so the steps of stop interleave with     *)
(* those of get_thread and of the loop that is ending.                     *)
(*                                                                         *)
(* A thread identity is free again once its object was freed.              *)
(***************************************************************************)
EXTENDS Integers, Sequences, FiniteSets, SequencesExt

CONSTANTS
    Users,          \* callers of get_thread: the server, the clients
    Threads,        \* thread objects
    Type,           \* the types of thread that are asked for
    MaxThreads,     \* the values max-threads may be configured to
    MayFail,        \* whether g_thread_pool_push may fail to start a thread
    None            \* no thread, no lock owner, no GThreadPool

ASSUME ThreadPoolAssumption ==
    /\ IsFiniteSet(Users)
    /\ IsFiniteSet(Threads)
    /\ Type \subseteq {"client", "media"}
    /\ MaxThreads \subseteq Int
    /\ MayFail \in BOOLEAN
    /\ None \notin Users \cup Threads

VARIABLES
    max_threads,
    queue,          \* priv->threads
    lock,           \* the owner of priv->lock
    pool,           \* klass->pool: the caller that created it
    reused,         \* impl->reused
    refs,           \* reference count of the thread object
    idle,           \* the source that runs do_quit is attached
    loop,           \* where do_loop is
    pc,             \* what each user is doing
    type,           \* get_thread: the type asked for
    thread,         \* the thread a user is working on
    has,            \* the thread a user owns
    start_failed,   \* a client thread could not be started (history)
    limit           \* the greatest max-threads a client thread was made under,
                    \* Unlimited once one was made under none (history)

objVars  == <<reused, refs, idle, loop>>
userVars == <<pc, type, thread, has>>
histVars == <<start_failed, limit>>
vars     == <<max_threads, queue, lock, pool, objVars, userVars, histVars>>

Unlimited == -1

TypeOK ==
    /\ max_threads \in MaxThreads
    /\ queue \in Seq(Threads)
    /\ lock \in Users \cup {None}
    /\ pool \in Users \cup {None}
    /\ reused \in [Threads -> Nat]
    /\ refs \in [Threads -> Nat]
    /\ idle \in [Threads -> BOOLEAN]
    /\ loop \in [Threads -> {"none", "pushed", "running", "quit", "left"}]
    /\ pc \in [Users -> {"idle", "pool", "get", "lock", "retry", "ref",
                         "stop", "attach", "unref"}]
    /\ type \in [Users -> {"client", "media"}]
    /\ thread \in [Users -> Threads \cup {None}]
    /\ has \in [Users -> Threads \cup {None}]
    /\ start_failed \in BOOLEAN
    /\ limit \in Nat \cup {Unlimited}

Init ==
    /\ max_threads \in MaxThreads
    /\ queue = <<>>
    /\ lock = None
    /\ pool = None
    /\ reused = [t \in Threads |-> 0]
    /\ refs = [t \in Threads |-> 0]
    /\ idle = [t \in Threads |-> FALSE]
    /\ loop = [t \in Threads |-> "none"]
    /\ pc = [u \in Users |-> "idle"]
    /\ type = [u \in Users |-> "client"]
    /\ thread = [u \in Users |-> None]
    /\ has = [u \in Users |-> None]
    /\ start_failed = FALSE
    /\ limit = 0

Goto(u, l) == pc' = [pc EXCEPT ![u] = l]

\* gst_rtsp_thread_unref: the last reference frees the object.
Unref(t) ==
    /\ refs' = [refs EXCEPT ![t] = @ - 1]
    /\ reused' = [reused EXCEPT ![t] = IF refs[t] = 1 THEN 0 ELSE @]

set_max_threads(m) ==
    /\ lock = None
    /\ max_threads' = m
    /\ UNCHANGED <<queue, lock, pool, objVars, userVars, histVars>>

-----------------------------------------------------------------------------
\* gst_rtsp_thread_pool_get_thread

Getting == {u \in Users : pc[u] \in {"pool", "get", "lock", "retry", "ref"}}

\* Bound: a call only begins when a thread object is left for it.
ObjectLeft ==
    Cardinality({t \in Threads : loop[t] = "none" /\ refs[t] = 0})
    > Cardinality(Getting)

\* The caller looks at klass->pool; without one it makes one.
get_thread(u, ty) ==
    /\ pc[u] = "idle"
    /\ has[u] = None
    /\ ObjectLeft
    /\ type' = [type EXCEPT ![u] = ty]
    /\ Goto(u, IF pool = None THEN "pool" ELSE "get")
    /\ UNCHANGED <<max_threads, queue, lock, pool, objVars, thread, has, histVars>>

\* compare_and_exchange: the GThreadPool of the loser is freed.
PoolExchange(u) ==
    /\ pc[u] = "pool"
    /\ pool' = IF pool = None THEN u ELSE pool
    /\ Goto(u, "get")
    /\ UNCHANGED <<max_threads, queue, lock, objVars, type, thread, has, histVars>>

\* default_get_thread: max_threads is read before the lock is taken.
GetNone(u) ==
    /\ pc[u] = "get" /\ type[u] = "client"
    /\ max_threads = 0
    /\ Goto(u, "idle")
    /\ UNCHANGED <<max_threads, queue, lock, pool, objVars, type, thread, has, histVars>>

GetClient(u) ==
    /\ pc[u] = "get" /\ type[u] = "client"
    /\ max_threads # 0
    /\ Goto(u, "lock")
    /\ UNCHANGED <<max_threads, queue, lock, pool, objVars, type, thread, has, histVars>>

GetLock(u) ==
    /\ pc[u] = "lock"
    /\ lock = None
    /\ lock' = u
    /\ Goto(u, "retry")
    /\ UNCHANGED <<max_threads, queue, pool, objVars, type, thread, has, histVars>>

\* All threads are in use: one is recycled.
MustRecycle == max_threads > 0 /\ Len(queue) >= max_threads

ReusableAlways(t) == TRUE

\* gst_rtsp_thread_reuse succeeds when the thread still had a user.
Reusable(t) == reused[t] > 0

\* The head of the queue is popped and its user count incremented.
Recycle(u) ==
    /\ pc[u] = "retry"
    /\ MustRecycle
    /\ queue' = Tail(queue)
    /\ reused' = [reused EXCEPT ![Head(queue)] = @ + 1]
    /\ IF Reusable(Head(queue))
       THEN /\ thread' = [thread EXCEPT ![u] = Head(queue)]
            /\ Goto(u, "ref")
       ELSE UNCHANGED <<thread, pc>>
    /\ UNCHANGED <<max_threads, lock, pool, refs, idle, loop, type, has, histVars>>

\* The owner of the lock when get_thread returns a recycled thread.
Unlocked(u) == None

\* The reference of the caller; the thread goes to the tail of the queue.
RecycleRef(u) ==
    /\ pc[u] = "ref"
    /\ refs' = [refs EXCEPT ![thread[u]] = @ + 1]
    /\ queue' = Append(queue, thread[u])
    /\ lock' = Unlocked(u)
    /\ has' = [has EXCEPT ![u] = thread[u]]
    /\ thread' = [thread EXCEPT ![u] = None]
    /\ Goto(u, "idle")
    /\ UNCHANGED <<max_threads, pool, reused, idle, loop, type, histVars>>

\* A new thread has one reference for the caller and one for do_loop.
MakeRefs == 2

CanMake(u) ==
    \/ pc[u] = "retry" /\ ~MustRecycle
    \/ pc[u] = "get" /\ type[u] = "media"

\* max-threads may be 0 here: it was looked at before the lock was taken.
LimitWith(m) ==
    IF m <= 0 \/ limit = Unlimited THEN Unlimited ELSE IF m > limit THEN m ELSE limit

make_thread(u, t) ==
    /\ CanMake(u)
    /\ loop[t] = "none" /\ refs[t] = 0
    /\ loop' = [loop EXCEPT ![t] = "pushed"]
    /\ reused' = [reused EXCEPT ![t] = 1]
    /\ refs' = [refs EXCEPT ![t] = MakeRefs]
    /\ has' = [has EXCEPT ![u] = t]
    /\ IF type[u] = "client"
       THEN queue' = Append(queue, t) /\ lock' = None /\ limit' = LimitWith(max_threads)
       ELSE UNCHANGED <<queue, lock, limit>>
    /\ Goto(u, "idle")
    /\ UNCHANGED <<max_threads, pool, idle, type, thread, start_failed>>

\* thread_error: both references are dropped and NULL is returned.  The pool
\* lock, which a client thread is made under, stays locked.
ThreadError(u) ==
    /\ MayFail
    /\ CanMake(u)
    /\ start_failed' = (start_failed \/ type[u] = "client")
    /\ Goto(u, "idle")
    /\ UNCHANGED <<max_threads, queue, lock, pool, objVars, type, thread, has, limit>>

-----------------------------------------------------------------------------
\* gst_rtsp_thread_stop

LastUserNever(t) == reused[t] = 0

LastUser(t) == reused[t] = 1

thread_stop(u) ==
    /\ pc[u] = "idle"
    /\ has[u] # None
    /\ thread' = [thread EXCEPT ![u] = has[u]]
    /\ has' = [has EXCEPT ![u] = None]
    /\ reused' = [reused EXCEPT ![has[u]] = @ - 1]
    /\ Goto(u, IF LastUser(has[u]) THEN "attach" ELSE "unref")
    /\ UNCHANGED <<max_threads, queue, lock, pool, refs, idle, loop, type, histVars>>

\* The last user: the idle source takes over the reference.
StopAttach(u) ==
    /\ pc[u] = "attach"
    /\ idle' = [idle EXCEPT ![thread[u]] = TRUE]
    /\ thread' = [thread EXCEPT ![u] = None]
    /\ Goto(u, "idle")
    /\ UNCHANGED <<max_threads, queue, lock, pool, reused, refs, loop, type, has, histVars>>

StopUnref(u) ==
    /\ pc[u] = "unref"
    /\ Unref(thread[u])
    /\ thread' = [thread EXCEPT ![u] = None]
    /\ Goto(u, "idle")
    /\ UNCHANGED <<max_threads, queue, lock, pool, idle, loop, type, has, histVars>>

-----------------------------------------------------------------------------
\* do_loop, in a thread of the GThreadPool

LoopEnter(t) ==
    /\ loop[t] = "pushed"
    /\ loop' = [loop EXCEPT ![t] = "running"]
    /\ UNCHANGED <<max_threads, queue, lock, pool, reused, refs, idle, userVars, histVars>>

\* The idle source quits the loop and is destroyed with its reference.
do_quit(t) ==
    /\ loop[t] = "running"
    /\ idle[t]
    /\ loop' = [loop EXCEPT ![t] = "quit"]
    /\ idle' = [idle EXCEPT ![t] = FALSE]
    /\ Unref(t)
    /\ UNCHANGED <<max_threads, queue, lock, pool, userVars, histVars>>

WithoutHead(t) == IF queue = <<>> THEN queue ELSE Tail(queue)

\* g_queue_remove, of the first one, by the thread that left its main loop.
WithoutThread(t) ==
    IF t \in ToSet(queue) THEN RemoveAt(queue, CHOOSE i \in DOMAIN queue : queue[i] = t) ELSE queue

LoopLeave(t) ==
    /\ loop[t] = "quit"
    /\ lock = None
    /\ queue' = WithoutThread(t)
    /\ loop' = [loop EXCEPT ![t] = "left"]
    /\ UNCHANGED <<max_threads, lock, pool, reused, refs, idle, userVars, histVars>>

LoopUnref(t) ==
    /\ loop[t] = "left"
    /\ loop' = [loop EXCEPT ![t] = "none"]
    /\ Unref(t)
    /\ UNCHANGED <<max_threads, queue, lock, pool, idle, userVars, histVars>>

\* gst_rtsp_thread_pool_cleanup waits for all loops.  Test suites call it
\* when nobody asks for threads any more.
cleanup ==
    /\ pool # None
    /\ \A t \in Threads : loop[t] = "none"
    /\ \A u \in Users : pc[u] = "idle" /\ has[u] = None
    /\ pool' = None
    /\ UNCHANGED <<max_threads, queue, lock, objVars, userVars, histVars>>

-----------------------------------------------------------------------------
GetNext(u) ==
    \/ PoolExchange(u)
    \/ GetNone(u)
    \/ GetClient(u)
    \/ Recycle(u)
    \/ RecycleRef(u)
    \/ \E t \in Threads : make_thread(u, t)
    \/ ThreadError(u)

StopNext(u) == StopAttach(u) \/ StopUnref(u)

LoopNext(t) == LoopEnter(t) \/ do_quit(t) \/ LoopUnref(t)

Next ==
    \/ \E m \in MaxThreads : set_max_threads(m)
    \/ \E u \in Users : \/ \E ty \in Type : get_thread(u, ty)
                        \/ GetLock(u)
                        \/ GetNext(u)
                        \/ thread_stop(u)
                        \/ StopNext(u)
    \/ \E t \in Threads : LoopNext(t) \/ LoopLeave(t)
    \/ cleanup

Spec == Init /\ [][Next]_vars

(***************************************************************************)
(* Fairness: a call of get_thread or stop that is under way goes on, a     *)
(* pushed thread is run and its loop dispatches.  A thread that waits for  *)
(* the mutex gets it if it is released again and again.  Users are free to *)
(* keep their threads forever.                                             *)
(***************************************************************************)
Fairness ==
    /\ \A u \in Users : /\ WF_vars(GetNext(u))
                        /\ WF_vars(StopNext(u))
                        /\ SF_vars(GetLock(u))
    /\ \A t \in Threads : WF_vars(LoopNext(t)) /\ SF_vars(LoopLeave(t))

FairSpec == Spec /\ Fairness

-----------------------------------------------------------------------------
\* Properties.

InUse(t) == {u \in Users : has[u] = t}

Looping(t) == loop[t] \in {"pushed", "running"} /\ ~idle[t]

(* A thread that get_thread handed out runs its main loop, and nothing has *)
(* asked that loop to quit, until its owner calls stop: reuse and the stop *)
(* of the previous last user cannot both succeed.                          *)
UsedIsLooping == \A u \in Users : has[u] # None => Looping(has[u])

(* The reference count of a thread object is the number of owners: users,  *)
(* callers inside stop, the idle source and do_loop.                       *)
RefsBalance ==
    \A t \in Threads :
        refs[t] = Cardinality(InUse(t))
                  + Cardinality({u \in Users : /\ thread[u] = t
                                               /\ pc[u] \in {"attach", "unref"}})
                  + (IF idle[t] THEN 1 ELSE 0)
                  + (IF loop[t] # "none" THEN 1 ELSE 0)

(* The queue holds no reference, and still contains only thread objects    *)
(* that were not freed, each once: a thread that ends takes itself out.    *)
QueueIsLive ==
    /\ \A i \in DOMAIN queue : loop[queue[i]] # "none"
    /\ IsInjective(queue)

(* The clients never use more threads than max-threads allowed at some time *)
(* a thread was made for them: a thread that is recycled, that comes to an  *)
(* end or whose last user stops it while another caller takes it is counted *)
(* once, by the place it has in the queue.                                  *)
ClientThreads == {has[u] : u \in {v \in Users : type[v] = "client" /\ has[v] # None}}

MaxThreadsRespected == limit # Unlimited => Cardinality(ClientThreads) <= limit

(* A thread that nobody uses, or is about to use or to stop, ends and is  *)
(* freed, unless a client thread could not be started: the thread that     *)
(* leaves its loop then waits for ever for the pool lock.                  *)
Abandoned(t) ==
    loop[t] # "none" /\ \A u \in Users : has[u] # t /\ thread[u] # t

UnusedIsFreed ==
    \A t \in Threads :
        Abandoned(t) ~> (loop[t] = "none" \/ ~Abandoned(t) \/ start_failed)

(* A call of get_thread returns, with a thread or with NULL, whatever other *)
(* callers and ending threads do, unless a client thread could not be       *)
(* started: that error path leaves the pool locked for ever.                *)
GetThreadReturns ==
    \A u \in Users : (pc[u] = "get") ~> (pc[u] = "idle" \/ start_failed)

(* A thread object is what its users take it for: the thread they own runs  *)
(* its loop, the object has one reference for each owner, and the queue,    *)
(* which owns none, names only threads that were not freed.                 *)
ThreadsTracked ==
    /\ TypeOK
    /\ UsedIsLooping
    /\ RefsBalance
    /\ QueueIsLive

(* A thread that nobody uses ends and is freed, and get_thread returns,     *)
(* whatever the users, the loops and the limit do meanwhile.                *)
ThreadsEnd ==
    /\ UnusedIsFreed
    /\ GetThreadReturns
=============================================================================
