---------------------------- MODULE StreamTransport ----------------------------
(***************************************************************************)
(* A stream that feeds clients over their RTSP connections: the send path  *)
(* of rtsp-stream.c with the backlogs of rtsp-stream-transport.c and, of   *)
(* each client (rtsp-client.c), the message its connection has in flight.  *)
(*                                                                         *)
(* The threads are the send thread of the stream, the thread of each       *)
(* client (named by its transport) and the streaming threads that fill the *)
(* appsinks.  `lock' is the mutex of the stream, `backlog_lock[t]' the     *)
(* recursive one of a transport.  A transport is appended to a backlog     *)
(* with both held, checked with the second only, and removed with both.    *)
(***************************************************************************)
EXTENDS Integers, Sequences, SequencesExt

CONSTANTS
    Trans,                  \* transports, each of a client of its own
    None, Stale,
    MAX_BACKLOG_DURATION,
    MAX_BACKLOG_SIZE,
    Unsteady,               \* bound: those that may stop, fail, or send a message at once
    Times,                  \* bound: where a seek may go
    MaxSamples,             \* bound: samples of a channel
    MaxEvents               \* bound: samples (of RTCP twice), seeks and joins, together

Channel == {"rtp", "rtcp"}
Sender == "sender"
Thread == Trans \cup {Sender}

ASSUME StreamAssumption ==
    /\ MAX_BACKLOG_DURATION \in Nat
    /\ MAX_BACKLOG_SIZE \in Nat
    /\ Times \subseteq Nat /\ Unsteady \subseteq Trans
    /\ Sender \notin Trans
    /\ None \notin Thread /\ None \notin Nat

Item == [ch : Channel, n : Nat, ts : Nat]

VARIABLES
    \* GstRTSPStreamPrivate
    lock,               \* who holds it across steps
    joined,             \* in a bin: "yes", "leaving" or "no"
    transports,         \* the list
    tr_cache,           \* Stale when tr_cache_cookie # transports_cookie
    have_buffer,
    send_thread,        \* none, running or ended
    continue_sending,
    signalled,          \* send_cookie moved since the send thread read it
    blocked,            \* a seek blocks the RTP pad: "no", "seeking" or "flushed"
    \* GstRTSPStreamTransportPrivate
    backlog, first_rtp_timestamp, backlog_lock,
    \* the client of each transport
    data_seq,           \* the channels with a message in flight
    broken,             \* its connection failed
    given,              \* the last item its connection took (history)
    \* the threads
    pc, call,           \* where each is; its check_transport_backlog
    snap, pos, idx, sample,     \* locals of send_tcp_message
    \* the pipeline
    appsink, pending, samples, clock, seeks, joins,
    aborted             \* an assertion failed

streamVars == <<lock, joined, transports, tr_cache, have_buffer, send_thread,
                continue_sending, signalled, blocked>>
clientVars == <<data_seq, broken, given>>
backlogVars == <<backlog, first_rtp_timestamp, backlog_lock>>
senderVars == <<snap, pos, idx, sample>>
pipeVars == <<appsink, pending, samples, clock, seeks, joins>>
vars == <<streamVars, backlogVars, clientVars, pc, call, senderVars, pipeVars, aborted>>

NoCall == [t |-> None, item |-> None, nested |-> FALSE, notify |-> FALSE]

Init ==
    /\ lock = None /\ joined = "yes"
    /\ transports = <<>> /\ tr_cache = <<>>
    /\ have_buffer = [c \in Channel |-> FALSE]
    /\ send_thread = "none" /\ continue_sending = TRUE /\ signalled = FALSE
    /\ blocked = "no"
    /\ backlog = [t \in Trans |-> <<>>]
    /\ first_rtp_timestamp = [t \in Trans |-> None]
    /\ backlog_lock = [t \in Trans |-> None]
    /\ data_seq = [t \in Trans |-> {}]
    /\ broken = [t \in Trans |-> FALSE]
    /\ given = [t \in Trans |-> None]
    /\ pc = [x \in Thread |-> "idle"] /\ call = [x \in Thread |-> NoCall]
    /\ snap = <<>> /\ pos = 1 /\ idx = "rtp" /\ sample = None
    /\ appsink = [c \in Channel |-> <<>>]
    /\ pending = [c \in Channel |-> FALSE]
    /\ samples = [c \in Channel |-> 0]
    /\ clock = 0 /\ seeks = 0 /\ joins = 0 /\ aborted = FALSE

-----------------------------------------------------------------------------
(* The backlog of a transport (rtsp-stream-transport.c). *)

IsRtp(i) == i.ch = "rtp"

get_first_backlog_timestamp(b) ==
    IF \E k \in DOMAIN b : IsRtp(b[k])
    THEN b[SelectInSeq(b, IsRtp)].ts
    ELSE None

\* The g_assert on the duration of the backlog.
PushAsserts(t, i) ==
    IsRtp(i) /\ first_rtp_timestamp[t] # None => i.ts >= first_rtp_timestamp[t]

\* backlog_push answers FALSE: the transport is too slow.
Overflows(t, i) ==
    /\ IsRtp(i) /\ first_rtp_timestamp[t] # None
    /\ i.ts - first_rtp_timestamp[t] > MAX_BACKLOG_DURATION
    /\ Len(backlog[t]) + 1 > MAX_BACKLOG_SIZE

backlog_push(t, i) ==
    /\ backlog' = [backlog EXCEPT ![t] = Append(@, i)]
    /\ first_rtp_timestamp' =
         [first_rtp_timestamp EXCEPT ![t] = IF IsRtp(i) /\ @ = None THEN i.ts ELSE @]

\* Mutant: the head is looked at and stays.
PeekOnly(t) == UNCHANGED <<backlog, first_rtp_timestamp>>

backlog_pop(t) ==
    /\ backlog' = [backlog EXCEPT ![t] = Tail(@)]
    /\ first_rtp_timestamp' =
         [first_rtp_timestamp EXCEPT ![t] = get_first_backlog_timestamp(Tail(backlog[t]))]

clear_backlog(t) ==
    /\ backlog' = [backlog EXCEPT ![t] = <<>>]
    /\ first_rtp_timestamp' = [first_rtp_timestamp EXCEPT ![t] = None]

check_back_pressure(t, c) == c \in data_seq[t]

-----------------------------------------------------------------------------
(* The list of transports. *)

Listed(t) == t \in Range(transports)

MayLock(x) == lock \in {None, x}
MayLockBacklog(x, t) == backlog_lock[t] \in {None, x}

\* Mutant: the cookie does not move.
ListAddCached(t) ==
    IF Listed(t)
    THEN UNCHANGED <<transports, tr_cache>>
    ELSE transports' = <<t>> \o transports /\ UNCHANGED tr_cache

\* update_transport with add: nothing happens for one that is in the list.
ListAdd(t) ==
    IF Listed(t)
    THEN UNCHANGED <<transports, tr_cache>>
    ELSE transports' = <<t>> \o transports /\ tr_cache' = Stale

\* update_transport without add, both locks held.
ListRemove(t) ==
    IF Listed(t)
    THEN /\ transports' = RemoveFirst(transports, t)
         /\ tr_cache' = Stale
         /\ clear_backlog(t)
    ELSE UNCHANGED <<transports, tr_cache, backlog, first_rtp_timestamp>>

\* PLAY: gst_rtsp_stream_add_transport.
AddTransport(t) ==
    /\ pc[t] = "idle" /\ ~broken[t] /\ joined = "yes" /\ lock = None
    /\ ListAdd(t)
    /\ UNCHANGED <<lock, joined, have_buffer, send_thread, continue_sending, signalled,
                   blocked, backlogVars, clientVars, pc, call, senderVars, pipeVars, aborted>>

\* PAUSE, TEARDOWN, the end of the client: gst_rtsp_stream_remove_transport.
RemoveTransport(t) ==
    /\ pc[t] = "idle" /\ Listed(t) /\ t \in Unsteady
    /\ pc' = [pc EXCEPT ![t] = "drop"]
    /\ call' = [call EXCEPT ![t] = [NoCall EXCEPT !.t = t]]
    /\ UNCHANGED <<streamVars, backlogVars, clientVars, senderVars, pipeVars, aborted>>

-----------------------------------------------------------------------------
(* check_transport_backlog, run by thread x for the transport of its call. *)

\* A call returns: on_message_sent signals the send thread, which goes on
\* with the next transport when it is the caller.
Return(x, s) ==
    /\ signalled' = (s \/ call[x].notify)
    /\ call' = [call EXCEPT ![x] = NoCall]
    /\ IF x = Sender
       THEN pos' = pos + 1 /\ pc' = [pc EXCEPT ![x] = "flush"]
       ELSE pc' = [pc EXCEPT ![x] = "idle"] /\ UNCHANGED pos

\* The lock of the backlog when the frames of x end.
Unlock(x) == [backlog_lock EXCEPT ![call[x].t] = None]

\* Mutant: the last item waits for another one.
ReadyLate(t) == Len(backlog[t]) > 1 /\ ~check_back_pressure(t, Head(backlog[t]).ch)
Ready(t) == backlog[t] # <<>> /\ ~check_back_pressure(t, Head(backlog[t]).ch)

CheckNothing(x) ==
    LET t == call[x].t IN
    /\ pc[x] = "check" /\ MayLockBacklog(x, t)
    /\ ~Ready(t)
    /\ backlog_lock' = Unlock(x)
    /\ Return(x, signalled)
    /\ UNCHANGED <<lock, joined, transports, tr_cache, have_buffer, send_thread,
                   continue_sending, blocked, backlog, first_rtp_timestamp, clientVars,
                   snap, idx, sample, pipeVars, aborted>>

CheckPop(x) ==
    LET t == call[x].t IN
    /\ pc[x] = "check" /\ MayLockBacklog(x, t)
    /\ Ready(t)
    /\ backlog_pop(t)
    /\ backlog_lock' = [backlog_lock EXCEPT ![t] = x]
    /\ call' = [call EXCEPT ![x].item = Head(backlog[t])]
    /\ pc' = [pc EXCEPT ![x] = "push"]
    /\ UNCHANGED <<streamVars, clientVars, senderVars, pipeVars, aborted>>

\* do_send_data: the connection queues the message and tells later.
PushQueued(x) ==
    LET t == call[x].t i == call[x].item IN
    /\ pc[x] = "push" /\ ~broken[t]
    /\ data_seq' = [data_seq EXCEPT ![t] = @ \cup {i.ch}]
    /\ given' = [given EXCEPT ![t] = i]
    /\ backlog_lock' = Unlock(x)
    /\ Return(x, signalled)
    /\ UNCHANGED <<lock, joined, transports, tr_cache, have_buffer, send_thread,
                   continue_sending, blocked, backlog, first_rtp_timestamp, broken,
                   snap, idx, sample, pipeVars, aborted>>

\* It sends the message at once: on_message_sent is called under the lock.
PushSent(x) ==
    LET t == call[x].t i == call[x].item IN
    /\ pc[x] = "push" /\ ~broken[t] /\ t \in Unsteady
    /\ given' = [given EXCEPT ![t] = i]
    /\ call' = [call EXCEPT ![x] = [t |-> t, item |-> None, nested |-> TRUE, notify |-> TRUE]]
    /\ pc' = [pc EXCEPT ![x] = "check"]
    /\ UNCHANGED <<streamVars, backlogVars, data_seq, broken, senderVars, pipeVars, aborted>>

\* It fails: the outermost frame removes the transport without the lock of
\* the backlog, one that is nested in another push with it.
PushFails(x) ==
    LET t == call[x].t IN
    /\ pc[x] = "push" /\ t \in Unsteady
    /\ broken' = [broken EXCEPT ![t] = TRUE]
    /\ backlog_lock' = IF call[x].nested THEN backlog_lock ELSE Unlock(x)
    /\ call' = [call EXCEPT ![x].item = None]
    /\ pc' = [pc EXCEPT ![x] = "drop"]
    /\ UNCHANGED <<streamVars, backlog, first_rtp_timestamp, data_seq, given, senderVars,
                   pipeVars, aborted>>

DropLock(x) ==
    /\ pc[x] = "drop" /\ lock = None
    /\ lock' = x
    /\ pc' = [pc EXCEPT ![x] = "clear"]
    /\ UNCHANGED <<joined, transports, tr_cache, have_buffer, send_thread,
                   continue_sending, signalled, blocked, backlogVars, clientVars, call,
                   senderVars, pipeVars, aborted>>

DropRemove(x) ==
    LET t == call[x].t IN
    /\ pc[x] = "clear"
    /\ Listed(t) => MayLockBacklog(x, t)
    /\ ListRemove(t)
    /\ lock' = None
    /\ backlog_lock' = IF call[x].nested THEN Unlock(x) ELSE backlog_lock
    /\ Return(x, signalled)
    /\ UNCHANGED <<joined, have_buffer, send_thread, continue_sending, blocked, clientVars,
                   snap, idx, sample, pipeVars, aborted>>

\* The connection of t has sent the message of a channel.
message_sent(t) ==
    /\ pc[t] = "idle" /\ ~broken[t]
    /\ \E c \in data_seq[t] : data_seq' = [data_seq EXCEPT ![t] = @ \ {c}]
    /\ call' = [call EXCEPT ![t] = [NoCall EXCEPT !.t = t, !.notify = TRUE]]
    /\ pc' = [pc EXCEPT ![t] = "check"]
    /\ UNCHANGED <<streamVars, backlogVars, broken, given, senderVars, pipeVars, aborted>>

-----------------------------------------------------------------------------
(* The send thread: send_func and send_tcp_message. *)

SendLoop ==
    /\ send_thread = "running" /\ pc[Sender] = "idle"
    /\ IF continue_sending
       THEN /\ signalled /\ signalled' = FALSE
            /\ pc' = [pc EXCEPT ![Sender] = "pick"]
            /\ UNCHANGED send_thread
       ELSE /\ send_thread' = "ended" /\ UNCHANGED <<signalled, pc>>
    /\ UNCHANGED <<lock, joined, transports, tr_cache, have_buffer,
                   continue_sending, blocked, backlogVars, clientVars, call, senderVars,
                   pipeVars, aborted>>

\* RTCP goes first.
Chosen == IF have_buffer["rtcp"] THEN "rtcp" ELSE "rtp"

ensure_cached_transports == IF tr_cache = Stale THEN transports ELSE tr_cache

any_transport_ready(cache, c) ==
    cache = <<>> \/ \E k \in DOMAIN cache : ~check_back_pressure(cache[k], c)

SendPick ==
    LET cache == ensure_cached_transports IN
    /\ pc[Sender] = "pick" /\ lock = None
    /\ IF ~have_buffer[Chosen]
       THEN /\ pc' = [pc EXCEPT ![Sender] = "idle"]
            /\ UNCHANGED <<lock, tr_cache, have_buffer, idx>>
       ELSE /\ tr_cache' = cache
            /\ IF any_transport_ready(cache, Chosen)
               THEN /\ have_buffer' = [have_buffer EXCEPT ![Chosen] = FALSE]
                    /\ IF joined # "no"
                       THEN /\ pc' = [pc EXCEPT ![Sender] = "pull"]
                            /\ lock' = Sender /\ idx' = Chosen
                       ELSE pc' = [pc EXCEPT ![Sender] = "idle"] /\ UNCHANGED <<lock, idx>>
               ELSE /\ pc' = [pc EXCEPT ![Sender] = "idle"]
                    /\ UNCHANGED <<lock, have_buffer, idx>>
    /\ UNCHANGED <<joined, transports, send_thread, continue_sending, signalled, blocked,
                   backlogVars, clientVars, call, snap, pos, sample, pipeVars, aborted>>

\* gst_app_sink_pull_sample waits, with the lock of the stream.
SendPull ==
    /\ pc[Sender] = "pull" /\ appsink[idx] # <<>>
    /\ sample' = Head(appsink[idx])
    /\ appsink' = [appsink EXCEPT ![idx] = <<>>]
    /\ snap' = tr_cache
    /\ pos' = 1
    /\ pc' = [pc EXCEPT ![Sender] = "append"]
    /\ UNCHANGED <<streamVars, backlogVars, clientVars, call, idx, pending, samples, clock,
                   seeks, joins, aborted>>

\* The sample is appended to the next backlog.
SendAppend ==
    /\ pc[Sender] = "append" /\ pos <= Len(snap)
    /\ LET t == snap[pos] IN
       /\ MayLockBacklog(Sender, t)
       /\ aborted' = ~PushAsserts(t, sample)
       /\ IF Overflows(t, sample)
          THEN ListRemove(t)
          ELSE backlog_push(t, sample) /\ UNCHANGED <<transports, tr_cache>>
    /\ pos' = pos + 1
    /\ UNCHANGED <<lock, joined, have_buffer, send_thread, continue_sending, signalled,
                   blocked, backlog_lock, clientVars, pc, call, snap, idx,
                   sample, pipeVars>>

SendUnlock ==
    /\ pc[Sender] = "append" /\ pos > Len(snap)
    /\ lock' = None /\ pos' = 1 /\ sample' = None
    /\ pc' = [pc EXCEPT ![Sender] = "flush"]
    /\ UNCHANGED <<joined, transports, tr_cache, have_buffer, send_thread,
                   continue_sending, signalled, blocked, backlogVars, clientVars, call,
                   snap, idx, pipeVars, aborted>>

SendFlush ==
    /\ pc[Sender] = "flush"
    /\ IF pos <= Len(snap)
       THEN /\ call' = [call EXCEPT ![Sender] = [NoCall EXCEPT !.t = snap[pos]]]
            /\ pc' = [pc EXCEPT ![Sender] = "check"]
            /\ UNCHANGED <<snap, pos, idx>>
       ELSE /\ pc' = [pc EXCEPT ![Sender] = "idle"]
            /\ snap' = <<>> /\ pos' = 1 /\ idx' = "rtp" /\ UNCHANGED call
    /\ UNCHANGED <<streamVars, backlogVars, clientVars, sample, pipeVars, aborted>>

\* There is no sample: the pipeline was stopped.
SendPullNone ==
    /\ pc[Sender] = "pull" /\ joined # "yes" /\ appsink[idx] = <<>>
    /\ lock' = None
    /\ pc' = [pc EXCEPT ![Sender] = "idle"]
    /\ UNCHANGED <<joined, transports, tr_cache, have_buffer, send_thread,
                   continue_sending, signalled, blocked, backlogVars, clientVars, call,
                   senderVars, pipeVars, aborted>>

-----------------------------------------------------------------------------
(* The pipeline, the media that seeks it, and the bin it leaves and joins. *)

MoreEvents(weight) == samples["rtp"] + 2 * samples["rtcp"] + seeks + joins + weight <= MaxEvents

\* An appsink keeps one sample and then calls handle_new_sample.
NewSample(c) ==
    /\ joined = "yes" /\ appsink[c] = <<>> /\ ~pending[c]
    /\ c = "rtp" => blocked = "no"
    /\ MoreEvents(IF c = "rtcp" THEN 2 ELSE 1)
    /\ samples[c] < MaxSamples[c]
    /\ samples' = [samples EXCEPT ![c] = @ + 1]
    /\ appsink' = [appsink EXCEPT ![c] = <<[ch |-> c, n |-> samples[c] + 1, ts |-> clock]>>]
    /\ clock' = IF c = "rtp" THEN clock + 1 ELSE clock
    /\ pending' = [pending EXCEPT ![c] = TRUE]
    /\ UNCHANGED <<streamVars, backlogVars, clientVars, pc, call, senderVars, seeks, joins,
                   aborted>>

\* The send thread is started once.
handle_new_sample(c) ==
    /\ pending[c] /\ lock = None
    /\ pending' = [pending EXCEPT ![c] = FALSE]
    /\ have_buffer' = [have_buffer EXCEPT ![c] = TRUE]
    /\ send_thread' = IF send_thread = "none" THEN "running" ELSE send_thread
    /\ signalled' = TRUE
    /\ UNCHANGED <<lock, joined, transports, tr_cache, continue_sending, blocked,
                   backlogVars, clientVars, pc, call, senderVars, appsink, samples, clock,
                   seeks, joins, aborted>>

\* A seek blocks the pad, flushes what follows it and waits for a buffer to
\* reach the pad again; have_buffer stays as it is.
SeekBlock ==
    /\ joined = "yes" /\ blocked = "no" /\ lock = None /\ MoreEvents(1) /\ seeks = 0
    /\ blocked' = "seeking" /\ seeks' = seeks + 1
    /\ UNCHANGED <<lock, joined, transports, tr_cache, have_buffer, send_thread,
                   continue_sending, signalled, backlogVars, clientVars, pc, call,
                   senderVars, appsink, pending, samples, clock, joins, aborted>>

SeekFlush ==
    /\ blocked = "seeking" /\ ~pending["rtp"]
    /\ blocked' = "flushed"
    /\ appsink' = [appsink EXCEPT !["rtp"] = <<>>]
    /\ \E time \in Times : clock' = time
    /\ UNCHANGED <<lock, joined, transports, tr_cache, have_buffer, send_thread,
                   continue_sending, signalled, backlogVars, clientVars, pc, call,
                   senderVars, pending, samples, seeks, joins, aborted>>

SeekDone ==
    /\ blocked = "flushed" /\ lock = None
    /\ blocked' = "no"
    /\ UNCHANGED <<lock, joined, transports, tr_cache, have_buffer, send_thread,
                   continue_sending, signalled, backlogVars, clientVars, pc, call,
                   senderVars, pipeVars, aborted>>

\* gst_rtsp_stream_leave_bin ends the send thread and waits for it.
LeaveStop ==
    /\ joined = "yes" /\ joins = 0 /\ transports = <<>> /\ blocked = "no"
    /\ ~(\E c \in Channel : pending[c])
    /\ joined' = "leaving"
    /\ continue_sending' = FALSE /\ signalled' = TRUE
    /\ UNCHANGED <<lock, transports, tr_cache, have_buffer, send_thread, blocked,
                   backlogVars, clientVars, pc, call, senderVars, pipeVars, aborted>>

LeaveBin ==
    /\ joined = "leaving" /\ send_thread # "running" /\ lock = None
    /\ joined' = "no" /\ tr_cache' = IF tr_cache = Stale THEN Stale ELSE <<>>
    /\ appsink' = [c \in Channel |-> <<>>]
    /\ UNCHANGED <<lock, transports, have_buffer, send_thread, continue_sending,
                   signalled, blocked, backlogVars, clientVars, pc, call, senderVars,
                   pending, samples, clock, seeks, joins, aborted>>

\* gst_rtsp_stream_join_bin for a media that is prepared again.
JoinBin ==
    /\ joined = "no" /\ MoreEvents(1) /\ lock = None
    /\ joined' = "yes" /\ joins' = joins + 1
    /\ UNCHANGED <<lock, transports, tr_cache, have_buffer, send_thread,
                   continue_sending, signalled, blocked, backlogVars, clientVars, pc, call,
                   senderVars, appsink, pending, samples, clock, seeks, aborted>>

-----------------------------------------------------------------------------
Check(x) == CheckNothing(x) \/ CheckPop(x)
Push(x) == PushQueued(x) \/ PushSent(x) \/ PushFails(x)
Drop(x) == DropLock(x) \/ DropRemove(x)
Send == SendLoop \/ SendPick \/ SendPull \/ SendPullNone \/ SendAppend \/ SendUnlock \/ SendFlush

Next ==
    /\ ~aborted
    /\ \/ \E x \in Thread : Check(x) \/ Push(x) \/ Drop(x)
       \/ \E t \in Trans : AddTransport(t) \/ RemoveTransport(t) \/ message_sent(t)
       \/ Send
       \/ \E c \in Channel : NewSample(c) \/ handle_new_sample(c)
       \/ SeekBlock \/ SeekFlush \/ SeekDone
       \/ LeaveStop \/ LeaveBin \/ JoinBin

Spec == Init /\ [][Next]_vars

\* Threads run, connections deliver or fail, the end of a connection removes
\* its transport; nobody has to seek, play or produce samples.
Fairness ==
    /\ \A x \in Thread : WF_vars(~aborted /\ (Check(x) \/ Push(x) \/ Drop(x)))
    /\ \A t \in Trans : WF_vars(~aborted /\ message_sent(t)) /\ WF_vars(~aborted /\ broken[t] /\ RemoveTransport(t))
    /\ WF_vars(~aborted /\ Send)
    /\ \A c \in Channel : WF_vars(~aborted /\ handle_new_sample(c))
    /\ WF_vars(~aborted /\ SeekFlush) /\ WF_vars(~aborted /\ SeekDone) /\ WF_vars(~aborted /\ LeaveBin)

FairSpec == Spec /\ Fairness

-----------------------------------------------------------------------------
(* Properties. *)

TypeOK ==
    /\ lock \in Thread \cup {None}
    /\ joined \in {"yes", "leaving", "no"}
    /\ IsInjective(transports) /\ Range(transports) \subseteq Trans
    /\ send_thread \in {"none", "running", "ended"}
    /\ \A t \in Trans :
         /\ \A k \in DOMAIN backlog[t] : backlog[t][k] \in Item
         /\ backlog_lock[t] \in Thread \cup {None}
         /\ given[t] \in Item \cup {None}
         /\ data_seq[t] \subseteq Channel
    /\ pc \in [Thread -> {"idle", "check", "push", "drop", "clear", "pick", "pull", "append",
                           "flush"}]

\* The item a thread popped and did not push yet.
InHand(t) ==
    LET xs == {x \in Thread : pc[x] = "push" /\ call[x].t = t}
    IN  IF xs = {} THEN <<>> ELSE <<call[CHOOSE x \in xs : TRUE].item>>

Queue == [t \in Trans |-> InHand(t) \o backlog[t]]

F == INSTANCE Fanout WITH Items <- Item, Nothing <- None, queue <- Queue

\* The refinement: each transport is a queue of the fan-out, its head the
\* item in a thread's hand; nothing is repeated, reordered, or sent after it
\* was cleared, whichever of the two threads runs check_transport_backlog.
FanoutSpec == F!Spec

\* Only one thread at a time has an item of a transport in its hands.
OneInHand ==
    \A x, y \in Thread :
        pc[x] = "push" /\ pc[y] = "push" /\ call[x].t = call[y].t => x = y

\* first_rtp_timestamp, from which backlog_push tells a slow transport, is
\* that of the first RTP item of the backlog.
FirstTimestamp ==
    \A t \in Trans : first_rtp_timestamp[t] = get_first_backlog_timestamp(backlog[t])

\* A client that does not read is dropped: a backlog of more items than
\* MAX_BACKLOG_SIZE spans no more than MAX_BACKLOG_DURATION.  After a seek the
\* timestamps may go back, and then it may span more.
BacklogBounded ==
    seeks = 0 => \A t \in Trans : \A k \in 1..Len(backlog[t]) :
        IsRtp(backlog[t][k]) /\ k > MAX_BACKLOG_SIZE =>
            backlog[t][k].ts - first_rtp_timestamp[t] <= MAX_BACKLOG_DURATION

\* A transport that is removed takes its backlog with it: when its client
\* plays again nothing of before the pause is sent (update_transport).
RemovedIsEmpty == \A t \in Trans : backlog[t] # <<>> => Listed(t)

\* Every transport that plays when a sample is pulled gets it: the cached
\* list is the list (transports_cookie).
SampleForAll ==
    pc[Sender] = "append" /\ pos = 1 => Range(transports) \subseteq Range(snap)

\* An assertion of backlog_push, that the newest item is not older than the
\* first: only a seek can make it fail.
OnlySeekAborts == aborted => seeks # 0

\* Two threads wait for each other (check_transport_backlog): x removes its transport from within a
\* push, with the lock of the backlog, for the lock of the stream, whose
\* holder waits for the backlog.
LockInversion ==
    \E x, y \in Thread :
        /\ x # y /\ pc[x] = "drop" /\ call[x].nested /\ lock = y
        /\ \/ y = Sender /\ pc[y] = "append" /\ pos <= Len(snap) /\ snap[pos] = call[x].t
           \/ pc[y] = "clear" /\ call[y].t = call[x].t
NoLockInversion == ~LockInversion

\* The send thread took the flag of a sample that a seek flushed.
PullStuck == pc[Sender] = "pull" /\ appsink[idx] = <<>>

\* What waits for a client goes to its connection or goes with the transport
\* (on_message_sent), unless the send thread stands still: in the deadlock
\* above, or before an appsink that a seek emptied.
BacklogDrains ==
    \A t \in Trans : backlog[t] # <<>> ~> backlog[t] = <<>> \/ LockInversion \/ PullStuck \/ aborted

(* A sample that was taken from the appsink is sent to, or kept for, each   *)
(* transport of the list, in order and within the bounds of the backlog, and*)
(* a transport that left has nothing kept.                                  *)
SamplesKept ==
    /\ TypeOK
    /\ OneInHand
    /\ FirstTimestamp
    /\ BacklogBounded
    /\ RemovedIsEmpty
    /\ SampleForAll
    /\ OnlySeekAborts
================================================================================
