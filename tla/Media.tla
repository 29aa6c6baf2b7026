-------------------------------- MODULE Media --------------------------------
(***************************************************************************)
(* One shared GstRTSPMedia (rtsp-media.c), the clients that use it         *)
(* (rtsp-client.c, rtsp-session-media.c) and the thread that runs its      *)
(* start source and its bus.                                               *)
(*                                                                         *)
(* Two locks order the threads.  `glock' is gst_rtsp_media_lock, which the *)
(* request handlers hold from finding the media to the end of the request, *)
(* waits included; the end of a connection or of a session goes without    *)
(* it.  `slock' is the recursive state lock: what runs under it is one     *)
(* action, but for the places where the code releases it or waits.         *)
(***************************************************************************)
EXTENDS Integers, Sequences, FiniteSets

CONSTANTS
    Users,          \* clients of the media, each with one transport
    NoThread,
    Confs,          \* how the media may be configured
    MaxActive,      \* bound: n_active, up or down, before a PLAY
    MaxBus          \* bound: messages posted and not handled

\* The configuration of the media, and what happens to it.  dynamic: elements
\* add pads later; buffers: the pipeline posts buffering messages; faults: it
\* posts errors, is slow, or a request is refused after its handler changed
\* the media; closes: users also leave without a TEARDOWN request; replays:
\* PLAY is also sent while playing.
Configuration ==
    [reusable : BOOLEAN, eos_shutdown : BOOLEAN, live : BOOLEAN, dynamic : BOOLEAN,
     buffers : BOOLEAN, faults : BOOLEAN, closes : BOOLEAN, replays : BOOLEAN,
     suspend_mode : {"none", "pause", "reset"}]

Bus == "bus"        \* the thread that dispatches the bus of the media

\* Suspending a dynamic pipeline to NULL is a FIXME of the code.
ASSUME MediaAssumption ==
    /\ IsFiniteSet(Users) /\ Bus \notin Users
    /\ Confs \subseteq Configuration
    /\ \A c \in Confs : c.dynamic => c.suspend_mode # "reset"
    /\ MaxActive \in Nat
    /\ MaxBus \in Nat
    /\ NoThread \notin Users \cup {Bus}

VARIABLES
    conf,
    \* GstRTSPMediaPrivate
    status, prepare_count, n_active, target_state, reused,
    finishing_unprepare, buffering, blocked, expected_async_done,
    source,         \* the bus watch is attached
    \* the GstPipeline
    state,          \* its state
    coming,         \* the message it is about to post, or "no"
    bus,            \* the messages posted and not handled yet
    \* the threads
    start,          \* start_prepare sources not dispatched yet
    pad,            \* a streaming thread is in pad_added_cb
    glock, slock,
    pc,             \* where each thread is
    op,             \* the set_state or unprepare call it executes
    active,         \* users whose transport is in the list of the stream
    using           \* users with a prepare they did not undo (history)

mediaVars == <<conf, status, prepare_count, n_active, target_state, reused,
               finishing_unprepare, buffering, blocked, expected_async_done, source>>
threadVars == <<start, pad, glock, slock, pc, op, active, using>>
vars == <<mediaVars, state, coming, bus, threadVars>>

Status == {"UNPREPARED", "UNPREPARING", "PREPARING", "PREPARED", "SUSPENDED", "ERROR"}
States == {"NULL", "PAUSED", "PLAYING"}
Messages == {"blocking", "async_done", "eos"}
Thread == Users \cup {Bus}

\* Where a thread waits in gst_rtsp_media_get_status.
Waiting == {"preparing", "unsuspending", "seekfirst", "seeking", "statewait"}

TypeOK ==
    /\ conf \in Confs
    /\ status \in Status
    /\ prepare_count \in Int
    /\ n_active \in Int
    /\ target_state \in States
    /\ {reused, finishing_unprepare, buffering, blocked, expected_async_done,
        source, pad} \subseteq BOOLEAN
    /\ state \in States
    /\ coming \in Messages \cup {"no"}
    /\ bus \in Seq(Messages)
    /\ start \in Nat
    /\ glock \in Users \cup {NoThread}
    /\ slock \in Thread \cup {NoThread}
    /\ pc \in [Thread -> Waiting \cup
                 {"idle", "described", "cached", "ready", "playing", "play",
                  "unsuspend", "seek", "seekagain", "setstate", "stategot",
                  "unprepare", "nulling", "nulled"}]
    /\ op \in [Thread -> {"none", "play", "replay", "pause", "release", "finalize",
                          "unprepare"}]
    /\ active \subseteq Users
    /\ using \subseteq Users

Init ==
    /\ conf \in Confs
    /\ status = "UNPREPARED"
    /\ prepare_count = 0
    /\ n_active = 0
    /\ target_state = "NULL"
    /\ reused = FALSE
    /\ finishing_unprepare = FALSE
    /\ buffering = FALSE
    /\ blocked = FALSE
    /\ expected_async_done = FALSE
    /\ source = FALSE
    /\ state = "NULL"
    /\ coming = "no"
    /\ bus = <<>>
    /\ start = 0
    /\ pad = FALSE
    /\ glock = NoThread
    /\ slock = NoThread
    /\ pc = [t \in Thread |-> "idle"]
    /\ op = [t \in Thread |-> "none"]
    /\ active = {}
    /\ using = {}

Goto(t, l) == pc' = [pc EXCEPT ![t] = l]

\* The thread may enter the state lock.
Enter(t) == slock \in {NoThread, t}

\* The end of a request.
UnlockMedia(t) == glock' = IF glock = t THEN NoThread ELSE glock

\* gst_rtsp_media_get_status returned.
StatusKnown == status # "PREPARING"

\* Where a thread goes, and which call comes next, when a set_state or
\* unprepare returns.  The request handlers ignore the results.  The end of a
\* session media is set_state (NULL) by its owner, then set_state (NULL) and
\* unprepare by gst_rtsp_session_media_finalize.
After ==
    [play |-> <<"playing", "none">>, replay |-> <<"playing", "none">>,
     pause |-> <<"ready", "none">>, release |-> <<"setstate", "finalize">>,
     finalize |-> <<"unprepare", "unprepare">>, unprepare |-> <<"idle", "none">>,
     none |-> <<"idle", "none">>]

Return(t) ==
    /\ Goto(t, After[op[t]][1])
    /\ op' = [op EXCEPT ![t] = After[op[t]][2]]
    /\ IF After[op[t]][2] = "none" THEN UnlockMedia(t) ELSE UNCHANGED glock

-----------------------------------------------------------------------------
\* find_media and gst_rtsp_media_prepare.

\* The media may be taken from the cache of the factory; otherwise the user
\* gets another media, which is none of our business.
can_be_shared == conf.reusable \/ ~reused

CountedFirst == IF status = "UNPREPARED" THEN prepare_count + 1 ELSE prepare_count

Counted == prepare_count + 1

\* The thread waits for the media unless it is prepared already.  In ERROR
\* and UNPREPARING prepare fails and leaves everything as it was.  rtpbin is
\* installed, so klass->prepare succeeds.
prepare(u) ==
    /\ pc[u] = "idle"
    /\ glock = NoThread
    /\ can_be_shared
    /\ Enter(u)
    /\ status \in {"UNPREPARED", "PREPARING", "PREPARED", "SUSPENDED"}
    /\ glock' = u
    /\ prepare_count' = Counted
    /\ using' = using \cup {u}
    /\ Goto(u, IF status \in {"PREPARED", "SUSPENDED"} THEN "described" ELSE "preparing")
    /\ IF status = "UNPREPARED"
       THEN /\ status' = "PREPARING"
            /\ buffering' = FALSE
            /\ source' = TRUE
            /\ start' = start + 1
       ELSE UNCHANGED <<status, buffering, source, start>>
    /\ UNCHANGED <<conf, n_active, target_state, reused, finishing_unprepare, blocked,
                   expected_async_done, state, coming, bus, pad, slock, op, active>>

\* wait_preroll returned; after preroll_failed the media is unprepared.
PrepareDone(u) ==
    /\ pc[u] = "preparing"
    /\ StatusKnown
    /\ IF status = "ERROR"
       THEN /\ Goto(u, "unprepare")
            /\ op' = [op EXCEPT ![u] = "unprepare"]
       ELSE /\ Goto(u, "described")
            /\ UNCHANGED op
    /\ UNCHANGED <<mediaVars, state, coming, bus, start, pad, glock, slock, active, using>>

\* gst_rtsp_media_get_status gives up after 20 seconds.  The start source
\* was dispatched by then.
StatusTimeout(u) ==
    /\ conf.faults
    /\ pc[u] \in Waiting
    /\ status = "PREPARING"
    /\ start = 0
    /\ status' = "ERROR"
    /\ UNCHANGED <<conf, prepare_count, n_active, target_state, reused,
                   finishing_unprepare, buffering, blocked, expected_async_done,
                   source, state, coming, bus, threadVars>>

-----------------------------------------------------------------------------
\* The bus thread and the pipeline.

NotBlocked == FALSE

\* start_preroll blocks the streams before it sets the pipeline to PAUSED.
Blocks == TRUE

\* start_preroll: a live pipeline does not preroll and goes to PLAYING.
start_preroll ==
    /\ blocked' = Blocks
    /\ target_state' = "PAUSED"
    /\ state' = IF conf.live THEN "PLAYING" ELSE "PAUSED"
    /\ coming' = "blocking"

start_prepare ==
    /\ start > 0
    /\ pc[Bus] = "idle"
    /\ Enter(Bus)
    /\ start' = start - 1
    /\ IF status = "PREPARING"
       THEN /\ start_preroll
            /\ status' \in IF conf.faults THEN {"PREPARING", "ERROR"} ELSE {"PREPARING"}
       ELSE UNCHANGED <<status, blocked, target_state, state, coming>>
    /\ UNCHANGED <<conf, prepare_count, n_active, reused, finishing_unprepare, buffering,
                   expected_async_done, source, bus, pad, glock, slock, pc, op, active,
                   using>>

\* finish_unprepare up to the state change, by a thread that holds the state
\* lock `depth' times.  It releases the lock once.
finish_unprepare(t, depth) ==
    IF finishing_unprepare
    THEN /\ Return(t)
         /\ UNCHANGED <<finishing_unprepare, slock>>
    ELSE /\ finishing_unprepare' = TRUE
         /\ slock' = IF depth > 1 THEN t ELSE NoThread
         /\ Goto(t, "nulling")
         /\ UNCHANGED <<op, glock>>

\* The pipeline stops when its streaming threads do, and drops its messages.
StateNull(t) ==
    /\ pc[t] = "nulling"
    /\ ~pad
    /\ state' = "NULL"
    /\ coming' = "no"
    /\ bus' = <<>>
    /\ Goto(t, "nulled")
    /\ UNCHANGED <<mediaVars, start, pad, glock, slock, op, active, using>>

Finishing == FALSE

\* The rest of finish_unprepare.
Unprepared(t) ==
    /\ pc[t] = "nulled"
    /\ Enter(t)
    /\ blocked' = FALSE
    /\ reused' = TRUE
    /\ status' = "UNPREPARED"
    /\ source' = FALSE
    /\ finishing_unprepare' = Finishing
    /\ slock' = NoThread
    /\ Return(t)
    /\ UNCHANGED <<conf, prepare_count, n_active, target_state, buffering,
                   expected_async_done, state, coming, bus, start, pad, active, using>>

\* default_handle_message for the messages that end a wait.
handle_message ==
    /\ source
    /\ bus # <<>>
    /\ pc[Bus] = "idle"
    /\ Enter(Bus)
    /\ bus' = Tail(bus)
    /\ LET m == Head(bus)
           done == \/ m = "blocking" /\ blocked
                   \/ m = "async_done"
       IN  /\ status' = IF done /\ status = "PREPARING" THEN "PREPARED" ELSE status
           /\ expected_async_done' = IF m = "async_done" THEN FALSE ELSE expected_async_done
           /\ IF m = "eos" /\ status = "UNPREPARING"
              THEN finish_unprepare(Bus, 1)
              ELSE UNCHANGED <<finishing_unprepare, slock, pc, op, glock>>
    /\ UNCHANGED <<conf, prepare_count, n_active, target_state, reused, buffering, blocked,
                   source, state, coming, start, pad, active, using>>

ErrorMessage ==
    /\ conf.faults
    /\ source
    /\ state # "NULL"
    /\ pc[Bus] = "idle"
    /\ Enter(Bus)
    /\ status' = "ERROR"
    /\ UNCHANGED <<conf, prepare_count, n_active, target_state, reused, finishing_unprepare,
                   buffering, blocked, expected_async_done, source, state, coming, bus,
                   threadVars>>

\* A buffering message: below 100% when the pipeline was not buffering, 100%
\* when it was.
BufferingMessage ==
    /\ conf.buffers /\ ~conf.live
    /\ source
    /\ state # "NULL"
    /\ pc[Bus] = "idle"
    /\ Enter(Bus)
    /\ buffering' = ~buffering
    /\ state' = IF target_state = "PLAYING" THEN IF buffering THEN "PLAYING" ELSE "PAUSED"
                ELSE state
    /\ UNCHANGED <<conf, status, prepare_count, n_active, target_state, reused,
                   finishing_unprepare, blocked, expected_async_done, source, coming, bus,
                   threadVars>>

\* The pipeline prerolled, which takes all the pads it announced, or its sinks
\* got the EOS.
Post ==
    /\ coming # "no"
    /\ coming = "blocking" => ~pad
    /\ Len(bus) < MaxBus
    /\ bus' = Append(bus, coming)
    /\ coming' = "no"
    /\ UNCHANGED <<mediaVars, state, threadVars>>

\* A dynamic element adds a pad: a streaming thread is in pad_added_cb until
\* it had the state lock.
PadAdded ==
    /\ conf.dynamic
    /\ ~pad
    /\ state # "NULL"
    /\ pad' = TRUE
    /\ UNCHANGED <<mediaVars, state, coming, bus, start, glock, slock, pc, op, active,
                   using>>

pad_added_cb ==
    /\ pad
    /\ slock = NoThread
    /\ pad' = FALSE
    /\ UNCHANGED <<mediaVars, state, coming, bus, start, glock, slock, pc, op, active,
                   using>>

-----------------------------------------------------------------------------
\* gst_rtsp_media_suspend, and the requests that suspend.

suspends ==
    /\ prepare_count <= 1
    /\ status = "PREPARED"
    /\ n_active <= 0

\* The media prerolls to PAUSED, so an asynchronous change is still under way
\* when its message is.
default_suspend ==
    /\ status' = "SUSPENDED"
    /\ CASE conf.suspend_mode = "none" ->
              UNCHANGED <<target_state, state, coming, bus, expected_async_done>>
         [] conf.suspend_mode = "pause" ->
              /\ target_state' = "PAUSED"
              /\ state' = "PAUSED"
              /\ expected_async_done' = (expected_async_done /\ coming = "async_done")
              /\ UNCHANGED <<coming, bus>>
         [] conf.suspend_mode = "reset" ->
              /\ target_state' = "NULL"
              /\ state' = "NULL"
              /\ coming' = "no"
              /\ bus' = <<>>
              /\ expected_async_done' = FALSE

suspend ==
    IF suspends THEN default_suspend
    ELSE UNCHANGED <<status, target_state, state, coming, bus, expected_async_done>>

\* DESCRIBE ends; the media stays cached in the client.
describe(u) ==
    /\ pc[u] = "described"
    /\ Enter(u)
    /\ suspend
    /\ UnlockMedia(u)
    /\ Goto(u, "cached")
    /\ UNCHANGED <<conf, prepare_count, n_active, reused, finishing_unprepare, buffering,
                   blocked, source, start, pad, slock, op, active, using>>

\* SETUP of the cached media, or of the media just prepared: the session
\* media is only made of a media that is prepared or suspended.
setup(u) ==
    /\ \/ pc[u] = "cached" /\ glock = NoThread
       \/ pc[u] = "described"
    /\ Enter(u)
    /\ StatusKnown
    /\ suspend
    /\ glock' = NoThread
    /\ Goto(u, IF status \in {"PREPARED", "SUSPENDED"} THEN "ready" ELSE "cached")
    /\ UNCHANGED <<conf, prepare_count, n_active, reused, finishing_unprepare, buffering,
                   blocked, source, start, pad, slock, op, active, using>>

-----------------------------------------------------------------------------
\* PLAY.

Refused(u) ==
    /\ Goto(u, IF op[u] = "replay" THEN "playing" ELSE "ready")
    /\ op' = [op EXCEPT ![u] = "none"]
    /\ UnlockMedia(u)

\* gst_rtsp_media_complete_pipeline adds the transport to the stream; the streams
\* of an unprepared media are in no bin, and it fails before it adds anything.
play(u) ==
    /\ pc[u] \in IF conf.replays THEN {"ready", "playing"} ELSE {"ready"}
    /\ glock = NoThread
    /\ status # "UNPREPARED"
    /\ n_active \in 1 - MaxActive .. MaxActive - 1
    /\ glock' = u
    /\ active' = active \cup {u}
    /\ op' = [op EXCEPT ![u] = IF pc[u] = "ready" THEN "play" ELSE "replay"]
    /\ Goto(u, "play")
    /\ UNCHANGED <<mediaVars, state, coming, bus, start, pad, slock, using>>

unsuspend(u) ==
    /\ pc[u] = "play"
    /\ Enter(u)
    /\ IF status # "SUSPENDED"
       THEN /\ Goto(u, "seek")
            /\ UNCHANGED <<status, blocked, target_state, state, coming>>
       ELSE CASE conf.suspend_mode = "none" /\ blocked ->
                   /\ Goto(u, "unsuspend")
                   /\ UNCHANGED <<status, blocked, target_state, state, coming>>
              [] conf.suspend_mode = "reset" ->
                   /\ Goto(u, "unsuspending")
                   /\ start_preroll
                   /\ status' \in IF conf.faults THEN {"PREPARING", "ERROR"}
                                  ELSE {"PREPARING"}
              [] OTHER ->
                   /\ status' = "PREPARED"
                   /\ Goto(u, "seek")
                   /\ UNCHANGED <<blocked, target_state, state, coming>>
    /\ UNCHANGED <<conf, prepare_count, n_active, reused, finishing_unprepare, buffering,
                   expected_async_done, source, bus, start, pad, glock, slock, op, active,
                   using>>

\* Without a suspend mode the lock is released to ask for the status, and the
\* media is prepared whatever happened meanwhile.
Unsuspended(u) ==
    /\ pc[u] = "unsuspend"
    /\ Enter(u)
    /\ \/ /\ status' = "PREPARED"
          /\ Goto(u, "seek")
          /\ UNCHANGED <<op, glock>>
       \/ /\ status = "ERROR"
          /\ Refused(u)
          /\ UNCHANGED status
    /\ UNCHANGED <<conf, prepare_count, n_active, target_state, reused,
                   finishing_unprepare, buffering, blocked, expected_async_done, source,
                   state, coming, bus, start, pad, slock, active, using>>

\* The reset media prerolled again, or not.
UnsuspendDone(u) ==
    /\ pc[u] = "unsuspending"
    /\ StatusKnown
    /\ Enter(u)
    /\ IF status = "ERROR" THEN Refused(u)
       ELSE /\ Goto(u, "seek")
            /\ UNCHANGED <<op, glock>>
    /\ UNCHANGED <<mediaVars, state, coming, bus, start, pad, slock, active, using>>

\* setup_play_mode: after the seek, or without one, the request is refused in
\* ERROR, and for reasons that are not modelled.
PlayMode(u) ==
    /\ pc[u] \in {"seek", "seeking"}
    /\ StatusKnown
    /\ \/ /\ status # "ERROR"
          /\ Goto(u, "setstate")
          /\ UNCHANGED <<op, glock>>
       \/ /\ status = "ERROR" \/ conf.faults
          /\ Refused(u)
    /\ UNCHANGED <<mediaVars, state, coming, bus, start, pad, slock, active, using>>

\* gst_rtsp_media_seek_trickmode sends the seek event, unless it first waits
\* for an async-done that is expected already.  The event makes the pipeline
\* preroll again.
seek(u) ==
    LET first == pc[u] = "seek" /\ expected_async_done
    IN  /\ pc[u] \in {"seek", "seekagain"}
        /\ Enter(u)
        /\ pc[u] = "seek" => status = "PREPARED"
        /\ ~conf.live
        /\ status' = "PREPARING"
        /\ coming' = IF first THEN coming ELSE IF blocked THEN "blocking" ELSE "async_done"
        /\ Goto(u, IF first THEN "seekfirst" ELSE "seeking")
        /\ UNCHANGED <<conf, prepare_count, n_active, target_state, reused,
                       finishing_unprepare, buffering, blocked, expected_async_done,
                       source, state, bus, start, pad, glock, slock, op, active, using>>

SeekFirstDone(u) ==
    /\ pc[u] = "seekfirst"
    /\ StatusKnown
    /\ IF status = "ERROR" THEN Refused(u)
       ELSE /\ Goto(u, "seekagain")
            /\ UNCHANGED <<op, glock>>
    /\ UNCHANGED <<mediaVars, state, coming, bus, start, pad, slock, active, using>>

-----------------------------------------------------------------------------
\* gst_rtsp_media_unprepare, by a thread that enters the lock depth times.
\* With eos_shutdown the bus thread finishes, when the EOS has passed through
\* the pipeline; blocked streams let nothing pass.

NeverInUse == FALSE

\* Somebody else has prepared the media as well.
InUse == prepare_count > 1

unprepare(t, depth) ==
    /\ using' = using \ {t}
    /\ \/ /\ status = "UNPREPARED"
          /\ Return(t)
          /\ UNCHANGED <<status, prepare_count, target_state, state, coming,
                         finishing_unprepare, slock>>
       \/ /\ status # "UNPREPARED"
          /\ prepare_count' = prepare_count - 1
          /\ InUse \/ status = "UNPREPARING"
          /\ Return(t)
          /\ UNCHANGED <<status, target_state, state, coming, finishing_unprepare, slock>>
       \/ /\ status \notin {"UNPREPARED", "UNPREPARING"}
          /\ ~InUse
          /\ prepare_count' = prepare_count - 1
          /\ target_state' = "NULL"
          /\ status' = "UNPREPARING"
          /\ IF conf.eos_shutdown /\ status # "ERROR" /\ status # "PREPARING"
             THEN /\ state' = "PLAYING"
                  /\ coming' = IF blocked THEN coming ELSE "eos"
                  /\ Return(t)
                  /\ UNCHANGED <<finishing_unprepare, slock>>
             ELSE /\ finish_unprepare(t, depth)
                  /\ UNCHANGED <<state, coming>>

Unprepare(u) ==
    /\ pc[u] = "unprepare"
    /\ Enter(u)
    /\ unprepare(u, 1)
    /\ UNCHANGED <<conf, n_active, reused, buffering, blocked, expected_async_done, source,
                   bus, start, pad, active>>

-----------------------------------------------------------------------------
\* gst_rtsp_media_set_state.

Requested(u) ==
    CASE op[u] \in {"play", "replay"} -> "PLAYING"
      [] op[u] = "pause" -> "PAUSED"
      [] OTHER -> "NULL"

Deactivates(s) ==
    \/ s = "NULL" /\ target_state # "NULL"
    \/ s = "PAUSED" /\ target_state = "PLAYING"

\* The number of active transports after set_active on the one of u, which
\* answers TRUE when it adds a transport that is in the list already.
ActiveAfter(u, s) ==
    CASE s = "PLAYING" -> n_active + 1
      [] Deactivates(s) /\ u \in active -> n_active - 1
      [] OTHER -> n_active

do_state(u, s) ==
    \/ n_active = 0 /\ s = "PLAYING"
    \/ ActiveAfter(u, s) = 0 /\ prepare_count <= 1

\* The media is in no state to change: not_prepared or error_status.
Refuses(s) ==
    \/ status \in {"UNPREPARED", "UNPREPARING", "PREPARING"}
    \/ status = "ERROR" /\ s # "NULL"

\* media_set_pipeline_state_locked.  Unblocked sinks preroll.
SetPlaying ==
    /\ target_state' = "PLAYING"
    /\ state' = IF buffering THEN state ELSE "PLAYING"
    /\ coming' = IF blocked /\ ~conf.live THEN "async_done" ELSE coming
    /\ expected_async_done' = FALSE
    /\ UNCHANGED <<status, bus>>

Asynchronous ==
    CASE conf.live -> {FALSE}
      [] coming = "async_done" -> {TRUE}
      [] OTHER -> BOOLEAN

\* The media is suspended after the pause: nobody is active and nobody else
\* has prepared it.
SetPaused ==
    IF buffering
    THEN /\ target_state' = "PAUSED"
         /\ expected_async_done' = FALSE
         /\ UNCHANGED <<status, state, coming, bus>>
    ELSE LET resets == conf.suspend_mode = "reset" /\ status = "PREPARED"
         IN  \E async \in Asynchronous :
               /\ status' = IF status = "PREPARED" THEN "SUSPENDED" ELSE status
               /\ target_state' = IF resets THEN "NULL" ELSE "PAUSED"
               /\ state' = IF resets THEN "NULL" ELSE "PAUSED"
               /\ bus' = IF resets THEN <<>> ELSE bus
               /\ coming' = CASE resets -> "no"
                              [] async -> "async_done"
                              [] OTHER -> coming
               /\ expected_async_done' = (async /\ ~resets)

\* set_state waits when the media prepares: it is shared.
SetStateWait(u) ==
    /\ \/ pc[u] = "setstate" /\ status = "PREPARING" /\ Enter(u) /\ Goto(u, "statewait")
       \/ pc[u] = "statewait" /\ StatusKnown /\ Goto(u, "stategot")
    /\ UNCHANGED <<mediaVars, state, coming, bus, start, pad, glock, slock, op, active,
                   using>>

CanSetState(u) ==
    /\ \/ pc[u] = "setstate" /\ status # "PREPARING"
       \/ pc[u] = "stategot"
    /\ Enter(u)

SetStateRefused(u) ==
    /\ CanSetState(u)
    /\ Refuses(Requested(u))
    /\ Return(u)
    /\ UNCHANGED <<mediaVars, state, coming, bus, start, pad, slock, active, using>>

\* The transport is activated or deactivated, and the pipeline follows when it
\* is the first one or the last.
set_state(u) ==
    LET s == Requested(u)
        follows == do_state(u, s) /\ target_state # s
    IN  /\ CanSetState(u)
        /\ ~Refuses(s)
        /\ n_active' = ActiveAfter(u, s)
        /\ active' = CASE s = "PLAYING" -> active \cup {u}
                       [] Deactivates(s) -> active \ {u}
                       [] OTHER -> active
        /\ blocked' = IF s = "PLAYING" THEN FALSE ELSE blocked
        /\ CASE follows /\ s = "NULL" ->
                  /\ unprepare(u, 2)
                  /\ expected_async_done' = FALSE
                  /\ UNCHANGED bus
             [] follows /\ s # "NULL" ->
                  /\ IF s = "PLAYING" THEN SetPlaying ELSE SetPaused
                  /\ Return(u)
                  /\ UNCHANGED <<prepare_count, finishing_unprepare, slock, using>>
             [] ~follows ->
                  /\ Return(u)
                  /\ UNCHANGED <<status, prepare_count, target_state, finishing_unprepare,
                                 expected_async_done, state, coming, bus, slock, using>>
        /\ UNCHANGED <<conf, reused, buffering, source, start, pad>>

-----------------------------------------------------------------------------
\* PAUSE, TEARDOWN, and the end of a session or of a connection.

Begin(u, o, l) ==
    /\ op' = [op EXCEPT ![u] = o]
    /\ Goto(u, l)
    /\ UNCHANGED <<mediaVars, state, coming, bus, start, pad, slock, active, using>>

pause(u) ==
    /\ pc[u] = "playing"
    /\ glock = NoThread
    /\ glock' = u
    /\ Begin(u, "pause", "setstate")

teardown(u) ==
    /\ pc[u] \in {"ready", "playing"}
    /\ glock = NoThread
    /\ glock' = u
    /\ Begin(u, "release", "setstate")

\* The session of u expires: its media is finalized; or the connection closes:
\* filter_session_media sets the state first.  Neither takes the media lock.
close(u) ==
    /\ conf.closes
    /\ pc[u] \in {"ready", "playing"}
    /\ \E o \in {"release", "finalize"} : Begin(u, o, "setstate")
    /\ UNCHANGED glock

clean_cached_media(u) ==
    /\ pc[u] = "cached"
    /\ Begin(u, "unprepare", "unprepare")
    /\ UNCHANGED glock

-----------------------------------------------------------------------------
\* What a user that is inside a request or a departure does next.
Continue(u) ==
    \/ PrepareDone(u)
    \/ describe(u)
    \/ unsuspend(u)
    \/ Unsuspended(u)
    \/ UnsuspendDone(u)
    \/ PlayMode(u)
    \/ SeekFirstDone(u)
    \/ pc[u] = "seekagain" /\ seek(u)
    \/ SetStateWait(u)
    \/ SetStateRefused(u)
    \/ set_state(u)
    \/ Unprepare(u)

\* A request or a departure begins.
Request(u) ==
    \/ prepare(u)
    \/ setup(u)
    \/ play(u)
    \/ pc[u] = "seek" /\ seek(u)
    \/ pause(u)
    \/ teardown(u)
    \/ close(u)
    \/ clean_cached_media(u)

BusNext == start_prepare \/ handle_message

Next ==
    \/ \E u \in Users : Continue(u) \/ Request(u) \/ StatusTimeout(u)
    \/ \E t \in Thread : StateNull(t) \/ Unprepared(t)
    \/ BusNext
    \/ ErrorMessage
    \/ BufferingMessage
    \/ Post
    \/ PadAdded
    \/ pad_added_cb

Spec == Init /\ [][Next]_vars

(***************************************************************************)
(* Fairness: threads run, the main loop of the bus dispatches its sources, *)
(* the lock is handed on, and the pipeline prerolls or the wait times out. *)
(* Nobody has to make a request.                                           *)
(***************************************************************************)
Fairness ==
    /\ \A u \in Users : WF_vars(Continue(u)) /\ WF_vars(StatusTimeout(u))
    /\ \A t \in Thread : WF_vars(StateNull(t)) /\ WF_vars(Unprepared(t))
    /\ WF_vars(BusNext)
    /\ SF_vars(Post)
    /\ WF_vars(pad_added_cb)

FairSpec == Spec /\ Fairness

-----------------------------------------------------------------------------
\* Properties.

(* A media is prepared once for each of its users: every prepare that      *)
(* succeeded or still waits is counted, and undone once, although a        *)
(* departure unprepares the media twice, once from set_state (NULL) and    *)
(* once when the session media is freed.  (With eos_shutdown the first call *)
(* leaves the media UNPREPARING, and the second one counts again.)         *)
CountBalance == ~conf.eos_shutdown => prepare_count = Cardinality(using)

(* While a user has the media prepared nobody shuts it down, and when the  *)
(* last user left it is shut down.                                         *)
UsersPrepared ==
    /\ using # {} => status \notin {"UNPREPARED", "UNPREPARING"}
    /\ using = {} => status \in {"UNPREPARED", "UNPREPARING"} \/ finishing_unprepare

(* A client that got its PLAY answered is served as long as the pipeline   *)
(* works: its transport is in the list, the media is not suspended and the *)
(* pipeline plays, or waits for the end of buffering, whatever the other   *)
(* clients of the media do.                                                *)
PlayingKept ==
    \A u \in Users :
        (pc[u] = "playing" /\ ~conf.faults) =>
            /\ u \in active
            /\ status # "SUSPENDED"
            /\ target_state = "PLAYING"
            /\ state = (IF buffering THEN "PAUSED" ELSE "PLAYING")

(* n_active is the number of transports in the list of the stream when no  *)
(* request is under way.                                                   *)
ActiveCount ==
    (\A t \in Thread : pc[t] \in {"idle", "cached", "ready", "playing"})
        => n_active = Cardinality(active)

(* When seek returns the pipeline has prerolled again.                     *)
SeekPrerolled ==
    [][\A u \in Users :
         (pc[u] = "seeking" /\ pc'[u] = "setstate") => coming # "async_done"]_vars

(* The thread that stops the pipeline does not hold the lock a streaming   *)
(* thread waits for in pad_added_cb.                                       *)
NoShutdownDeadlock == ~(pad /\ \E t \in Thread : pc[t] = "nulling" /\ slock = t)

(* Preparing ends: the request gets its answer.                            *)
PrepareReturns ==
    \A u \in Users : (pc[u] = "preparing") ~> (pc[u] # "preparing")

(* A media that is being unprepared ends up unprepared, when that does not *)
(* take an EOS and no pad appears meanwhile.                               *)
UnprepareEnds ==
    (status = "UNPREPARING" /\ ~conf.eos_shutdown /\ ~conf.dynamic)
        ~> (status = "UNPREPARED")

(* Every prepare of a media is counted, and undone once, whatever way its   *)
(* user leaves.                                                             *)
MediaCounted ==
    /\ TypeOK
    /\ CountBalance

(* Whoever has the media prepared, or plays it, keeps it so whatever the    *)
(* other clients of the media do, and the last to leave shuts it down.      *)
ClientsServed ==
    /\ UsersPrepared
    /\ PlayingKept

(* A request that prepares the media is answered, and a media that is being *)
(* unprepared ends up unprepared.                                           *)
MediaAnswers ==
    /\ PrepareReturns
    /\ UnprepareEnds
=============================================================================
