------------------------------ MODULE ClientSink ------------------------------
(***************************************************************************)
(* rtspclientsink (gstrtspclientsink.c): an element that records the       *)
(* streams of its pads to an RTSP server.  Its state changes, in the       *)
(* thread of the application, post commands for a task thread that opens   *)
(* the connection, announces and sets up the streams, records, pauses and  *)
(* closes; messages of the streams post commands too.  There is one        *)
(* pending command: a new one takes the place of the old.                  *)
(***************************************************************************)
EXTENDS Integers, Sequences, FiniteSets

CONSTANTS
    Streams, None,
    Order,          \* protocol_masks: the lower transports, in the order they are tried
    Profiles,       \* the number of profiles that are tried for each of them
    BasePt, MaxPt,  \* 96 and 127
    MaxTries,       \* 9: how often a request is sent for its credentials
    Scenarios,      \* bound: the state changes, pads and faults of a behaviour
    MaxFaults       \* bound: how often a fault happens

ASSUME ClientSinkAssumption ==
    /\ BasePt \in Nat /\ MaxPt \in Nat /\ MaxTries \in Nat /\ MaxFaults \in Nat
    /\ Profiles \in Nat \ {0} /\ Len(Order) > 0

VARIABLES
    sc,         \* the scenario
    app,        \* the application's thread: its state change, and what is left to do
    send,       \* loop_send_cmd of the application, the task and a streaming thread
    cmd,        \* pending_cmd and busy_cmd
    task,       \* the task and its thread
    conn,       \* conninfo
    sink,       \* the other fields of the element
    contexts,   \* the list of contexts
    ctx,        \* the context of each pad
    setup,      \* the locals of setup_streams
    server,     \* whether the server records
    progress,   \* progress messages that started and did not end (history)
    quirks,     \* the departures of the code that have happened (history)
    faults      \* how many faults have happened (bound)

threadVars == <<send, cmd, task>>
streamVars == <<contexts, ctx, setup>>
pastVars == <<progress, quirks>>
vars == <<sc, app, threadVars, conn, sink, streamVars, server, pastVars, faults>>

All == {"OPEN", "RECORD", "PAUSE", "CLOSE", "WAIT", "RECONNECT", "LOOP"}
Reported == {"OPEN", "RECORD", "PAUSE", "CLOSE"}
Senders == {"app", "task", "stream"}

NoConn == [exists |-> FALSE, connected |-> FALSE, alive |-> FALSE, flushing |-> FALSE, interrupted |-> FALSE]
NewCtx == [payloader |-> FALSE, prerolled |-> FALSE, stream |-> FALSE, joined |-> FALSE,
           blocked |-> FALSE, transport |-> None, chan |-> 0, pts |-> <<>>]

Init ==
    /\ sc \in Scenarios
    /\ app = [at |-> "idle", state |-> "NULL", script |-> sc.script]
    /\ send = [s \in Senders |-> [at |-> "none", cmd |-> "WAIT", mask |-> {}, old |-> "WAIT", flushed |-> FALSE]]
    /\ cmd = [pending |-> "WAIT", busy |-> "WAIT"]
    /\ task = [exists |-> FALSE, run |-> FALSE, at |-> "idle", asleep |-> None, walk |-> <<>>,
               res |-> "ok", tries |-> 0]
    /\ conn = NoConn
    /\ sink = [state |-> "INVALID", open_error |-> FALSE, open_conn_start |-> FALSE, collected |-> FALSE,
               n_blocked |-> 0, prerolled |-> FALSE, ignore_timeout |-> FALSE, bin |-> "NULL",
               next_dyn_pt |-> BasePt, free_channel |-> 0, interleaved |-> FALSE, can_pause |-> TRUE,
               cur_protocols |-> {}]
    /\ contexts = sc.pads
    /\ ctx = [s \in Streams |-> NewCtx]
    /\ setup = [protocols |-> {}, mask |-> 1, profile |-> 1]
    /\ server = [recording |-> FALSE]
    /\ progress = [c \in Reported |-> 0]
    /\ quirks = {} /\ faults = 0

Fault(f) == f \in sc.faults /\ faults < MaxFaults /\ faults' = faults + 1
Record(q, happened) == quirks' = IF happened THEN quirks \cup {q} ELSE quirks

-----------------------------------------------------------------------------
(* Progress messages and commands. *)

Started(p, c) == IF c \in Reported THEN [p EXCEPT ![c] = @ + 1] ELSE p
Ended(p, c) == IF c \in Reported THEN [p EXCEPT ![c] = @ - 1] ELSE p
\* loop_end_cmd: COMPLETE, CANCELED or ERROR, each ends what START began.
end_cmd(c) == progress' = Ended(progress, c)

\* The object lock is kept while a sender waits for the preroll lock.
ObjectUnlocked == \A s \in Senders : send[s].at # "flush"

Broadcast(t, cond) == IF t.asleep = cond THEN [t EXCEPT !.asleep = None] ELSE t
TaskStart(t) == [t EXCEPT !.run = t.exists]

\* The second half of loop_send_cmd, under the object lock.
Pend(s, c, mask) ==
    /\ cmd' = [cmd EXCEPT !.pending = c]
    /\ IF cmd.busy \in mask
       THEN send' = [send EXCEPT ![s] = [at |-> "flush", cmd |-> c, mask |-> mask, old |-> "WAIT", flushed |-> FALSE]]
            /\ UNCHANGED task
       ELSE send' = [send EXCEPT ![s] = [at |-> "sent", cmd |-> c, mask |-> mask, old |-> "WAIT", flushed |-> FALSE]]
            /\ task' = TaskStart(task)

\* The application counts on its WAIT, and a stream posts RECONNECT after it.
ReplacesWait(s) == IF s = "stream" /\ app.at \in {"unlooping", "stopping"} THEN {"wait_replaced"} ELSE {}

\* The first half; the lock is given up to cancel the old command.
Send(s, c, mask) ==
    LET old == cmd.pending
        new == IF old = "RECONNECT" THEN old ELSE c
    IN /\ ObjectUnlocked
       /\ progress' = Started(progress, c)
       /\ quirks' = quirks
            \cup (IF old = "RECONNECT" /\ c # "RECONNECT" THEN {"became_reconnect"} ELSE {})
            \cup (IF (old = "OPEN" /\ new # "OPEN") \/ (old = "RECONNECT" /\ c = "OPEN") THEN {"open_overwritten"} ELSE {})
            \cup ReplacesWait(s)
            \cup (IF c = "OPEN" /\ cmd.busy \in {"LOOP", "RECORD"} THEN {"open_behind"} ELSE {})
       /\ IF old = "WAIT" THEN Pend(s, c, mask)
          ELSE /\ cmd' = [cmd EXCEPT !.pending = "WAIT"]
               /\ send' = [send EXCEPT ![s] = [at |-> "gap", cmd |-> new, mask |-> mask, old |-> old, flushed |-> FALSE]]
               /\ UNCHANGED task

\* What another sender put there in between is lost without a message.
SendRelock(s) ==
    /\ send[s].at = "gap" /\ ObjectUnlocked
    /\ progress' = Ended(progress, send[s].old)
    /\ quirks' = quirks
         \cup (IF cmd.pending # "WAIT" THEN {"lost_in_gap"} ELSE {}) \cup ReplacesWait(s)
         \cup (IF cmd.pending = "OPEN" THEN {"open_overwritten"} ELSE {})
    /\ Pend(s, send[s].cmd, send[s].mask)
    /\ UNCHANGED <<sc, app, conn, sink, streamVars, server, faults>>

PrerollUnlocked == task.at # "context_locked"
FlushWakes(t) == Broadcast(t, "preroll")

\* connection_flush (TRUE): without a connection nothing is marked.
SendFlush(s) ==
    /\ send[s].at = "flush" /\ PrerollUnlocked
    /\ conn' = IF conn.exists /\ ~conn.flushing THEN [conn EXCEPT !.flushing = TRUE, !.interrupted = TRUE] ELSE conn
    /\ send' = [send EXCEPT ![s].at = "sent", ![s].flushed = TRUE]
    /\ task' = TaskStart(FlushWakes(task))
    /\ UNCHANGED <<sc, app, cmd, sink, streamVars, server, pastVars, faults>>

Returned(s) == [send EXCEPT ![s].at = "none"]

-----------------------------------------------------------------------------
(* The application: change_state. *)

\* The mark of a flush outlives the connection that was flushed.
Closed(c) == [NoConn EXCEPT !.flushing = c.flushing]

\* cleanup, and the fields it resets.
Cleaned(x) == [s \in Streams |-> [x[s] EXCEPT !.stream = FALSE, !.joined = FALSE, !.blocked = FALSE,
                                              !.transport = None, !.chan = 0, !.pts = <<>>]]
Reset(k) == [k EXCEPT !.state = "INVALID", !.next_dyn_pt = BasePt, !.bin = "NULL", !.prerolled = FALSE]

\* Mutant: the streams run on.
LeftRunning(k) == k
Lowered(k) == [k EXCEPT !.bin = "READY", !.prerolled = FALSE]

Goes(from, to) == app.at = "idle" /\ app.state = from /\ app.script # <<>> /\ Head(app.script) = to
At(l) == app' = [app EXCEPT !.at = l]
Reached(st) == app' = [app EXCEPT !.at = "idle", !.state = st, !.script = Tail(@)]

start ==
    /\ Goes("NULL", "READY")
    /\ sink' = [Lowered(sink) EXCEPT !.collected = FALSE]
    /\ cmd' = [cmd EXCEPT !.pending = "WAIT"]
    /\ task' = [task EXCEPT !.exists = TRUE]
    /\ Reached("READY")
    /\ UNCHANGED <<sc, send, conn, streamVars, server, pastVars, faults>>

ReadyToPaused ==
    /\ Goes("READY", "PAUSED")
    /\ sink' = [sink EXCEPT !.cur_protocols = sc.protocols, !.ignore_timeout = FALSE, !.open_error = FALSE, !.bin = "PAUSED"]
    /\ Send("app", "OPEN", {})
    /\ At("wait_open")
    /\ UNCHANGED <<sc, conn, streamVars, server, faults>>

\* The wait for open_conn_start, which only the OPEN of the task sets.
OpenStarted ==
    /\ app.at = "wait_open" /\ send["app"].at = "sent" /\ sink.open_conn_start
    /\ sink' = [sink EXCEPT !.open_conn_start = FALSE]
    /\ send' = Returned("app") /\ Reached("PAUSED")
    /\ UNCHANGED <<sc, cmd, task, conn, streamVars, server, pastVars, faults>>

\* PAUSED_TO_PLAYING and PLAYING_TO_PAUSED make the loop wait first.
Unloop(to) ==
    /\ Goes(IF to = "PLAYING" THEN "PAUSED" ELSE "PLAYING", to)
    /\ Send("app", "WAIT", {"LOOP"}) /\ At("unlooping")
    /\ UNCHANGED <<sc, conn, sink, streamVars, server, faults>>

\* GST_RTSP_STREAM_LOCK: the lock of the task.
StreamLock == task.at = "idle"

Command ==
    /\ app.at = "unlooping" /\ send["app"].at = "sent"
    /\ send["app"].flushed => StreamLock
    /\ IF Head(app.script) = "PLAYING" THEN Send("app", "RECORD", {}) ELSE Send("app", "PAUSE", {"LOOP"})
    /\ At("commanding")
    /\ UNCHANGED <<sc, conn, sink, streamVars, server, faults>>

\* A change to READY or NULL waits for the streaming threads of the bin.
StreamsJoin == send["stream"].at = "none"

PausedToReady ==
    /\ Goes("PAUSED", "READY") /\ StreamsJoin
    /\ sink' = Lowered(sink)
    /\ Send("app", "CLOSE", {"PAUSE"}) /\ At("commanding")
    /\ UNCHANGED <<sc, conn, streamVars, server, faults>>

Commanded ==
    /\ app.at = "commanding" /\ send["app"].at = "sent"
    /\ send' = Returned("app") /\ Reached(Head(app.script))
    /\ UNCHANGED <<sc, cmd, task, conn, sink, streamVars, server, pastVars, faults>>

\* stop
Stop ==
    /\ Goes("READY", "NULL")
    /\ Send("app", "WAIT", All \ {"CLOSE"}) /\ At("stopping")
    /\ UNCHANGED <<sc, conn, sink, streamVars, server, faults>>

StopTask ==
    /\ app.at = "stopping" /\ send["app"].at = "sent" /\ ObjectUnlocked
    /\ send' = Returned("app") /\ At("stopped")
    /\ task' = [task EXCEPT !.exists = FALSE, !.run = FALSE]
    /\ UNCHANGED <<sc, cmd, conn, sink, streamVars, server, pastVars, faults>>

\* Mutant: who waits for blocked streams is not told.
StopTellsOne(t) == Broadcast(t, "preroll")
StopTells(t) == Broadcast(Broadcast(t, "block"), "preroll")

StopBroadcast ==
    /\ app.at = "stopped" /\ PrerollUnlocked
    /\ task' = StopTells(task) /\ At("joining")
    /\ UNCHANGED <<sc, send, cmd, conn, sink, streamVars, server, pastVars, faults>>

OnlyClose(c) == Closed(c)

\* The task has ended; close without a TEARDOWN.
StopClose ==
    /\ app.at = "joining" /\ StreamLock /\ StreamsJoin
    /\ conn' = OnlyClose(conn) /\ ctx' = Cleaned(ctx) /\ sink' = Reset(sink)
    /\ Reached("NULL")
    /\ UNCHANGED <<sc, threadVars, contexts, setup, server, pastVars, faults>>

Transition == start \/ ReadyToPaused \/ (\E st \in {"PLAYING", "PAUSED"} : Unloop(st)) \/ PausedToReady \/ Stop
AppGoesOn == OpenStarted \/ Command \/ Commanded \/ StopTask \/ StopBroadcast \/ StopClose

-----------------------------------------------------------------------------
(* The task. *)

Runs(at) == task.at = at /\ task.asleep = None
Goto(l) == task' = [task EXCEPT !.at = l, !.tries = 0]
Ends(res) == task' = [task EXCEPT !.at = "done", !.res = res]

Unflushed(c) == IF c.exists /\ c.flushing THEN [c EXCEPT !.flushing = FALSE, !.interrupted = FALSE] ELSE c

Entry == [OPEN |-> "open", RECORD |-> "record", PAUSE |-> "pause", CLOSE |-> "close",
          LOOP |-> "loop", RECONNECT |-> "done", WAIT |-> "done"]

Take ==
    /\ task.at = "idle" /\ task.run /\ ObjectUnlocked
    /\ cmd' = [pending |-> IF cmd.pending \in {"RECONNECT", "RECORD", "PAUSE", "LOOP", "OPEN"} THEN "LOOP" ELSE "WAIT",
               busy |-> cmd.pending]
    /\ conn' = Unflushed(conn)
    /\ task' = [task EXCEPT !.at = Entry[cmd.pending], !.res = "ok", !.tries = 0]
    /\ UNCHANGED <<sc, app, send, sink, streamVars, server, pastVars, faults>>

\* Back to sleep.
Done ==
    /\ task.at = "done" \/ (task.at = "wait" /\ send["task"].at = "sent")
    /\ ObjectUnlocked
    /\ task' = [task EXCEPT !.at = "idle", !.run = IF cmd.pending = "WAIT" /\ task.exists THEN FALSE ELSE @]
    /\ cmd' = [cmd EXCEPT !.busy = "WAIT"] /\ send' = Returned("task")
    /\ UNCHANGED <<sc, app, conn, sink, streamVars, server, pastVars, faults>>

(* A request and its answer: try_send, and send with its codes.             *)
Answer(res, code, c) == [res |-> res, code |-> code, conn |-> c]
Reconnectable == ~sink.interleaved /\ sc.udp_reconnect
Answers ==
    IF ~conn.exists THEN {Answer("ERROR", "none", conn)}
    ELSE IF conn.interrupted THEN {Answer("EINTR", "none", conn)}
    ELSE IF conn.alive THEN {Answer("ok", code, conn) : code \in {"OK"} \cup (sc.faults \cap {"refused", "method", "auth", "unsupported"})}
    ELSE IF Reconnectable /\ conn.connected
         THEN {Answer("ok", "OK", [conn EXCEPT !.alive = TRUE]), Answer("other", "none", [conn EXCEPT !.connected = FALSE])}
    ELSE {Answer("other", "none", conn)}

\* setup_auth and the loop around try_send.
Again(a) == a.code = "auth" /\ sc.credentials /\ task.tries < MaxTries
\* A code that the caller does not handle; a method that is not allowed counts as done.
Result(a) ==
    IF a.res # "ok" \/ a.code \in {"OK", "method", "none"} THEN a.res ELSE "ERROR"
Faulty(a) == IF a.code \in {"OK", "none"} THEN faults' = faults ELSE Fault(a.code)

AskAgain(a) ==
    /\ Again(a) /\ task' = [task EXCEPT !.tries = @ + 1]
    /\ UNCHANGED <<sc, app, send, cmd, conn, sink, streamVars, server, pastVars, faults>>

(* open *)
open ==
    /\ Runs("open") /\ sink' = [sink EXCEPT !.open_conn_start = TRUE, !.can_pause = TRUE]
    /\ Goto("connect")
    /\ UNCHANGED <<sc, app, send, cmd, conn, streamVars, server, pastVars, faults>>

conninfo_connect ==
    /\ Runs("connect")
    /\ \/ /\ conn' = [conn EXCEPT !.exists = TRUE, !.connected = TRUE, !.alive = conn.alive \/ ~conn.connected]
          /\ Goto("options") /\ UNCHANGED <<ctx, faults>>
       \/ /\ ~conn.connected /\ Fault("connect")
          /\ conn' = Closed(conn) /\ task' = [task EXCEPT !.at = "opened", !.res = "other"] /\ UNCHANGED ctx
    /\ UNCHANGED <<sc, app, send, cmd, sink, contexts, setup, server, pastVars>>

\* OPTIONS and parse_methods; "nosetup" is an answer without SETUP.
Options(a) ==
    /\ ~Again(a) /\ Faulty(a)
    /\ \E methods \in {"all"} \cup (sc.faults \cap {"nosetup", "nopause"}) :
         LET res == IF Result(a) = "ok" /\ methods = "nosetup" THEN "ERROR" ELSE Result(a)
         IN /\ sink' = IF res = "ok" THEN [sink EXCEPT !.can_pause = methods # "nopause"] ELSE sink
            /\ conn' = IF res = "ok" THEN a.conn ELSE Closed(a.conn)
            /\ task' = FlushWakes([task EXCEPT !.at = "opened", !.res = res])
    /\ UNCHANGED <<sc, app, send, cmd, streamVars, server, pastVars>>

options == Runs("options") /\ \E a \in Answers : AskAgain(a) \/ Options(a)

\* The end of open, in its own command or in ensure_open.
opened ==
    /\ Runs("opened") /\ end_cmd("OPEN")
    /\ sink' = [sink EXCEPT !.open_error = @ \/ task.res # "ok"]
    /\ Goto(IF cmd.busy = "PAUSE" THEN IF task.res = "ok" THEN "pausing" ELSE "paused"
            ELSE IF task.res = "ERROR" THEN "wait" ELSE "done")
    /\ UNCHANGED <<sc, app, send, cmd, conn, streamVars, server, quirks, faults>>

\* An OPEN that failed, and a loop that ended, make the task wait; what was
\* posted meanwhile is cancelled.
TaskWaits ==
    /\ Runs("wait") /\ send["task"].at = "none"
    /\ Send("task", "WAIT", IF cmd.busy = "LOOP" THEN {"LOOP"} ELSE All \ {"CLOSE"})
    /\ UNCHANGED <<sc, app, conn, sink, streamVars, server, faults>>

(* loop *)
loop ==
    /\ Runs("loop")
    /\ Goto(IF conn.exists /\ conn.connected THEN "rx" ELSE "wait")
    /\ UNCHANGED <<sc, app, send, cmd, conn, sink, streamVars, server, pastVars, faults>>

\* loop_rx: a flush ends it, and the end of the connection, unless it comes
\* back; all else is answered or ignored.
loop_rx ==
    /\ Runs("rx")
    /\ \/ conn.interrupted /\ conn' = conn /\ Goto("wait")
       \/ /\ ~conn.interrupted /\ ~conn.alive
          /\ \/ sc.udp_reconnect /\ conn' = [conn EXCEPT !.alive = TRUE] /\ UNCHANGED task
             \/ conn' = [conn EXCEPT !.connected = FALSE] /\ Goto("wait")
    /\ UNCHANGED <<sc, app, send, cmd, sink, streamVars, server, pastVars, faults>>

ServerCloses ==
    /\ conn.alive /\ Fault("eof")
    /\ conn' = [conn EXCEPT !.alive = FALSE] /\ server' = [recording |-> FALSE]
    /\ UNCHANGED <<sc, app, threadVars, sink, streamVars, pastVars>>

-----------------------------------------------------------------------------
(* record: collect_streams *)

record ==
    /\ Runs("record")
    /\ Goto(IF sink.state = "PLAYING" THEN "done" ELSE "collect")
    /\ UNCHANGED <<sc, app, send, cmd, conn, sink, streamVars, server, pastVars, faults>>

Sleep(cond) == task' = [task EXCEPT !.asleep = cond]

\* The wait for a pad does not ask whether the element is stopping, and
\* without a connection no flush is marked.
collect_streams ==
    /\ Runs("collect") /\ ObjectUnlocked
    /\ IF contexts = <<>> /\ ~conn.flushing
       THEN Sleep("preroll") /\ Record("no_pads_no_connection", ~conn.exists)
       ELSE task' = [task EXCEPT !.at = "context", !.walk = contexts] /\ UNCHANGED quirks
    /\ UNCHANGED <<sc, app, send, cmd, conn, sink, streamVars, server, progress, faults>>

NextContext ==
    /\ Runs("context")
    /\ IF task.walk = <<>> THEN Goto("bin")
       ELSE IF ctx[Head(task.walk)].stream THEN task' = [task EXCEPT !.walk = Tail(@)]
       ELSE Goto("context_locked")
    /\ UNCHANGED <<sc, app, send, cmd, conn, sink, streamVars, server, pastVars, faults>>

(* create_stream: a dynamic type that is used, and those for retransmission *)
(* and for error correction, come from next_dyn_pt.                         *)
MustChange(pt, k) == pt >= BasePt /\ pt <= k.next_dyn_pt
Types(pt, k) ==
    LET first == IF MustChange(pt, k) THEN 1 ELSE 0
        own == IF MustChange(pt, k) THEN k.next_dyn_pt ELSE pt
    IN <<own, k.next_dyn_pt + first, k.next_dyn_pt + first + 1>>
NoFreePt(pt, k) == \E i \in 2..3 : Types(pt, k)[i] > MaxPt

\* is_stopping takes the object lock while the preroll lock is held.
CollectStream ==
    /\ task.at = "context_locked" /\ ObjectUnlocked
    /\ LET s == Head(task.walk) pt == sc.pts[s] IN
       IF conn.flushing THEN Goto("bin") /\ UNCHANGED <<sink, ctx, quirks, faults>>
       ELSE IF ~ctx[s].prerolled /\ task.exists
       THEN task' = [task EXCEPT !.at = "context", !.asleep = "preroll"] /\ UNCHANGED <<sink, ctx, quirks, faults>>
       ELSE IF ~ctx[s].payloader
       THEN task' = [task EXCEPT !.at = "context", !.walk = Tail(@)] /\ UNCHANGED <<sink, ctx, quirks, faults>>
       ELSE \/ /\ ~NoFreePt(pt, sink)
               /\ ctx' = [ctx EXCEPT ![s] = [@ EXCEPT !.stream = TRUE, !.joined = TRUE, !.pts = Types(pt, sink)]]
               /\ sink' = [sink EXCEPT !.next_dyn_pt = Types(pt, sink)[3] + 1]
               /\ task' = [task EXCEPT !.at = "context", !.walk = Tail(@)]
               /\ Record("preset_ahead", pt > sink.next_dyn_pt) /\ UNCHANGED faults
            \/ /\ ~NoFreePt(pt, sink) /\ Fault("join")
               /\ ctx' = [ctx EXCEPT ![s].stream = TRUE]
               /\ sink' = [sink EXCEPT !.next_dyn_pt = Types(pt, sink)[3] + 1]
               /\ Goto("stopping") /\ Record("no_stream", TRUE)
            \/ /\ NoFreePt(pt, sink) /\ sink' = [sink EXCEPT !.next_dyn_pt = MaxPt + 1]
               /\ Goto("stopping") /\ Record("no_stream", TRUE) /\ UNCHANGED <<ctx, faults>>
    /\ UNCHANGED <<sc, app, send, cmd, conn, contexts, setup, server, progress>>

WaitPrerolled ==
    /\ Runs("bin")
    /\ IF sink.prerolled \/ ~conn.exists \/ conn.flushing
       THEN sink' = [sink EXCEPT !.collected = TRUE] /\ Goto("stopping")
       ELSE Sleep("preroll") /\ UNCHANGED sink
    /\ UNCHANGED <<sc, app, send, cmd, conn, streamVars, server, pastVars, faults>>

is_stopping == ~task.exists

Stopping ==
    /\ Runs("stopping") /\ ObjectUnlocked
    /\ IF is_stopping THEN Ends("EINTR") ELSE Goto("blocks")
    /\ UNCHANGED <<sc, app, send, cmd, conn, sink, streamVars, server, pastVars, faults>>

\* n_streams_blocked counts every message since the element was made.
WaitBlocked ==
    /\ Runs("blocks") /\ ObjectUnlocked
    /\ IF sink.n_blocked < Len(contexts) /\ ~is_stopping THEN Sleep("block")
       ELSE IF is_stopping THEN Ends("EINTR") ELSE Goto("announce")
    /\ UNCHANGED <<sc, app, send, cmd, conn, sink, streamVars, server, pastVars, faults>>

\* A failed record closes and frees the connection.
RecordFailed(a, res) ==
    /\ conn' = Closed(a.conn) /\ task' = FlushWakes([task EXCEPT !.at = "done", !.res = res])

Walk(list) == {list[i] : i \in DOMAIN list}

\* ANNOUNCE describes every context, "keymgmt" is an answer with a bad key.
Announce(a) ==
    /\ ~Again(a)
    /\ \/ Result(a) = "ok" /\ conn' = a.conn /\ Goto("setup") /\ Faulty(a)
       \/ Result(a) # "ok" /\ RecordFailed(a, Result(a)) /\ Faulty(a)
       \/ Result(a) = "ok" /\ a.code = "OK" /\ Fault("keymgmt") /\ RecordFailed(a, "ok")
    /\ quirks' = quirks \cup (IF \E s \in Walk(contexts) : ~ctx[s].stream THEN {"no_stream"} ELSE {})
                        \cup (IF a.code = "method" THEN {"refused_ok"} ELSE {})
    /\ UNCHANGED <<sc, app, send, cmd, sink, streamVars, server, progress>>

announce ==
    /\ Runs("announce")
    /\ IF ~conn.exists
       THEN /\ Ends("ERROR")
            /\ UNCHANGED <<sc, app, send, cmd, conn, sink, streamVars, server, pastVars, faults>>
       ELSE \E a \in Answers : AskAgain(a) \/ Announce(a)

-----------------------------------------------------------------------------
(* setup_streams, with the state lock held. *)

StateLocked == task.at \in {"select", "transport", "ask"}

setup_streams ==
    /\ Runs("setup")
    /\ IF sink.cur_protocols = {} \/ contexts = <<>>
       THEN RecordFailed(Answer("ok", "OK", conn), "ERROR") /\ UNCHANGED setup
       ELSE /\ setup' = [protocols |-> sink.cur_protocols, mask |-> 1, profile |-> 1]
            /\ task' = [task EXCEPT !.at = "select", !.walk = contexts] /\ UNCHANGED conn
    /\ UNCHANGED <<sc, app, send, cmd, sink, contexts, ctx, server, pastVars, faults>>

\* The caps of a stream are known once it has data.
HasCaps(s) == ctx[s].stream /\ ctx[s].blocked

\* The first protocol from mask on that is left, 0 if none is.
NextMask(from) ==
    LET left == {i \in from..Len(Order) : Order[i] \in setup.protocols}
    IN IF left = {} THEN 0 ELSE CHOOSE i \in left : \A j \in left : i <= j

Select ==
    /\ Runs("select")
    /\ IF task.walk = <<>>
       THEN /\ Goto("request") /\ sink' = [sink EXCEPT !.cur_protocols = setup.protocols]
            /\ UNCHANGED <<setup, quirks>>
       ELSE IF ~HasCaps(Head(task.walk))
       THEN /\ task' = [task EXCEPT !.walk = Tail(@)] /\ Record("skipped", TRUE)
            /\ UNCHANGED <<sink, setup>>
       ELSE /\ Goto("transport") /\ setup' = [setup EXCEPT !.mask = NextMask(1), !.profile = 1]
            /\ UNCHANGED <<sink, quirks>>
    /\ UNCHANGED <<sc, app, send, cmd, conn, contexts, ctx, server, progress, faults>>

Lower == Order[setup.mask]

\* The sockets are made and the stream is completed and unblocked before the
\* server is asked.
CompleteStream ==
    /\ Runs("transport")
    /\ \/ Goto("ask") /\ UNCHANGED <<conn, faults>>
       \/ Fault("alloc") /\ RecordFailed(Answer("ok", "OK", conn), "ERROR")
    /\ UNCHANGED <<sc, app, send, cmd, sink, streamVars, server, pastVars>>

OnlyLower(protocols, lower) == {lower}
\* Mutant: the channels of a stream are given again.
SameChannel(free) == free
NextChannel(free) == free + 2

\* The answer names the transport that was asked for.
SetUp(a) ==
    LET s == Head(task.walk) IN
    /\ a.res = "ok" /\ a.code = "OK"
    /\ ctx' = [ctx EXCEPT ![s].transport = Lower, ![s].chan = IF Lower = "TCP" THEN sink.free_channel ELSE @]
    /\ setup' = [setup EXCEPT !.protocols = OnlyLower(@, Lower)]
    /\ sink' = IF Lower = "TCP" THEN [sink EXCEPT !.interleaved = TRUE, !.free_channel = NextChannel(@)] ELSE sink
    /\ task' = [task EXCEPT !.at = "select", !.walk = Tail(@), !.tries = 0] /\ conn' = a.conn
    /\ UNCHANGED <<contexts, quirks, faults>>

\* 461: another profile, then another protocol, then no transport at all.
Unsupported(a) ==
    /\ a.code = "unsupported" /\ faults' = faults /\ conn' = a.conn
    /\ IF setup.profile < Profiles
       THEN setup' = [setup EXCEPT !.profile = @ + 1] /\ Goto("transport") /\ UNCHANGED quirks
       ELSE IF NextMask(setup.mask + 1) # 0
       THEN setup' = [setup EXCEPT !.profile = 1, !.mask = NextMask(setup.mask + 1)] /\ Goto("transport") /\ UNCHANGED quirks
       ELSE task' = [task EXCEPT !.at = "select", !.walk = Tail(@)] /\ Record("skipped", TRUE) /\ UNCHANGED setup
    /\ UNCHANGED <<sink, contexts, ctx>>

SetupRefused(a) ==
    /\ a.res # "ok" \/ a.code \notin {"OK", "unsupported"}
    /\ Faulty(a) /\ RecordFailed(a, IF a.res = "ok" THEN "ERROR" ELSE a.res)
    /\ UNCHANGED <<sink, streamVars, quirks>>

ask ==
    /\ Runs("ask")
    /\ \E a \in Answers :
         \/ AskAgain(a)
         \/ /\ ~Again(a) /\ (SetUp(a) \/ Unsupported(a) \/ SetupRefused(a))
            /\ UNCHANGED <<sc, app, send, cmd, server, progress>>

\* The application has set the streams to READY meanwhile.
LateBin == IF sink.bin \in {"NULL", "READY"} THEN {"late_bin"} ELSE {}

Request(a) ==
    /\ ~Again(a) /\ Faulty(a)
    /\ IF Result(a) = "ok"
       THEN /\ sink' = [sink EXCEPT !.state = "PLAYING", !.bin = "PLAYING"]
            /\ server' = [recording |-> a.code = "OK"]
            /\ conn' = a.conn /\ Ends("ok")
            /\ quirks' = quirks \cup (IF a.code = "method" THEN {"refused_ok"} ELSE {}) \cup LateBin
       ELSE RecordFailed(a, Result(a)) /\ UNCHANGED <<sink, server, quirks>>
    /\ UNCHANGED <<sc, app, send, cmd, streamVars, progress>>

request == Runs("request") /\ \E a \in Answers : AskAgain(a) \/ Request(a)

-----------------------------------------------------------------------------
(* pause and close *)

NotOpen == sink.state \in {"INVALID", "INIT"}

\* ensure_open: nothing but record and pause says that the element is open.
pause ==
    /\ Runs("pause")
    /\ IF NotOpen /\ sink.open_error
       THEN task' = [task EXCEPT !.at = "paused", !.res = "ERROR"] /\ UNCHANGED progress
       ELSE IF NotOpen THEN Goto("open") /\ progress' = Started(progress, "OPEN")
       ELSE Goto("pausing") /\ UNCHANGED progress
    /\ UNCHANGED <<sc, app, send, cmd, conn, sink, streamVars, server, quirks, faults>>

Paused(a) ==
    /\ ~Again(a) /\ Faulty(a) /\ conn' = a.conn
    /\ task' = [task EXCEPT !.at = "paused", !.res = Result(a)]
    /\ IF Result(a) = "ok"
       THEN /\ sink' = [sink EXCEPT !.bin = "PAUSED", !.state = "READY"]
            /\ server' = [recording |-> server.recording /\ a.code # "OK"]
            /\ quirks' = quirks \cup LateBin
       ELSE UNCHANGED <<sink, server, quirks>>
    /\ UNCHANGED <<sc, app, send, cmd, streamVars, progress>>

pausing ==
    /\ Runs("pausing")
    /\ IF ~sink.can_pause \/ sink.state = "READY"
       THEN Goto("paused") /\ UNCHANGED <<sc, app, send, cmd, conn, sink, streamVars, server, pastVars, faults>>
       ELSE IF ~conn.exists \/ ~conn.connected
       THEN /\ sink' = [sink EXCEPT !.state = "READY"] /\ Goto("paused")
            /\ UNCHANGED <<sc, app, send, cmd, conn, streamVars, server, pastVars, faults>>
       ELSE IF contexts = <<>> THEN Paused(Answer("ok", "none", conn))
       ELSE \E a \in Answers : AskAgain(a) \/ Paused(a)

paused ==
    /\ Runs("paused") /\ end_cmd("PAUSE") /\ Goto("done")
    /\ UNCHANGED <<sc, app, send, cmd, conn, sink, streamVars, server, quirks, faults>>

\* The application has set the streams to PAUSED again.
LateClose == Record("late_close", sink.bin \in {"PAUSED", "PLAYING"})

close ==
    /\ Runs("close") /\ StreamsJoin
    /\ sink' = [sink EXCEPT !.bin = "NULL", !.prerolled = FALSE]
    /\ LateClose
    /\ IF NotOpen THEN Goto("closing") /\ UNCHANGED ctx
       ELSE /\ ctx' = [s \in Streams |-> [ctx[s] EXCEPT !.transport = None, !.joined = FALSE, !.blocked = FALSE]]
            /\ Goto(IF contexts # <<>> /\ conn.exists /\ conn.connected THEN "teardown" ELSE "closing")
    /\ UNCHANGED <<sc, app, send, cmd, conn, contexts, setup, server, progress, faults>>

TornDown(a) == IF a.res = "ok" /\ a.code = "OK" THEN [recording |-> FALSE] ELSE server

Teardown(a) ==
    /\ ~Again(a) /\ Faulty(a)
    /\ conn' = a.conn /\ server' = TornDown(a)
    /\ task' = [task EXCEPT !.at = "closing", !.res = Result(a)]
    /\ UNCHANGED <<sc, app, send, cmd, sink, streamVars, pastVars>>

teardown == Runs("teardown") /\ \E a \in Answers : AskAgain(a) \/ Teardown(a)

LeaveBins(x) == Cleaned(x)

closing ==
    /\ Runs("closing") /\ StreamsJoin /\ Goto("done") /\ end_cmd("CLOSE")
    /\ conn' = Closed(conn) /\ ctx' = LeaveBins(ctx) /\ sink' = Reset(sink)
    /\ LateClose
    /\ UNCHANGED <<sc, app, send, cmd, contexts, setup, server, faults>>

-----------------------------------------------------------------------------
(* Pads, streams and their messages. *)

\* request_new_pad, of a pad that was not there; it tells nobody.
request_new_pad(s) ==
    /\ s \in sc.late /\ s \notin Walk(contexts) /\ ~sink.collected /\ ~StateLocked
    /\ contexts' = <<s>> \o contexts
    /\ UNCHANGED <<sc, app, threadVars, conn, sink, ctx, setup, server, pastVars, faults>>

\* release_pad; a pad that the task is looking at would be freed under it.
release_pad(s) ==
    /\ app.at = "idle" /\ s \in Walk(contexts) /\ ~StateLocked
    /\ IF task.at \in {"context", "context_locked"} /\ task.walk # <<>> THEN Head(task.walk) # s ELSE TRUE
    /\ Fault("release")
    /\ contexts' = SelectSeq(contexts, LAMBDA c : c # s) /\ ctx' = [ctx EXCEPT ![s] = NewCtx]
    /\ task' = [task EXCEPT !.walk = SelectSeq(@, LAMBDA c : c # s)]
    /\ UNCHANGED <<sc, app, send, cmd, conn, sink, setup, server, pastVars>>

\* The caps event of a pad, and the probe that blocks its payloader.
setup_payloader(s) ==
    /\ s \in Walk(contexts) /\ ~ctx[s].payloader /\ sink.bin \in {"PAUSED", "PLAYING"} /\ ~StateLocked
    /\ ctx' = [ctx EXCEPT ![s].payloader = TRUE]
    /\ UNCHANGED <<sc, app, threadVars, conn, sink, contexts, setup, server, pastVars, faults>>

BlockTells(t) == Broadcast(t, "preroll")

handle_payloader_block(s) ==
    /\ ctx[s].payloader /\ ~ctx[s].prerolled /\ PrerollUnlocked
    /\ ctx' = [ctx EXCEPT ![s].prerolled = TRUE] /\ task' = BlockTells(task)
    /\ UNCHANGED <<sc, app, send, cmd, conn, sink, contexts, setup, server, pastVars, faults>>

\* STATE_CHANGED of the bin.
BinPrerolled ==
    /\ sink.bin \in {"PAUSED", "PLAYING"} /\ ~sink.prerolled /\ PrerollUnlocked
    /\ sink' = [sink EXCEPT !.prerolled = TRUE] /\ task' = Broadcast(task, "preroll")
    /\ UNCHANGED <<sc, app, send, cmd, conn, streamVars, server, pastVars, faults>>

\* GstRTSPStreamBlocking
StreamBlocking(s) ==
    /\ ctx[s].joined /\ ~ctx[s].blocked /\ sink.bin \in {"PAUSED", "PLAYING"}
    /\ ctx' = [ctx EXCEPT ![s].blocked = TRUE]
    /\ sink' = [sink EXCEPT !.n_blocked = @ + 1] /\ task' = Broadcast(task, "block")
    /\ UNCHANGED <<sc, app, send, cmd, conn, contexts, setup, server, pastVars, faults>>

\* GstUDPSrcTimeout, once.
UdpTimeout ==
    /\ sink.bin = "PLAYING" /\ send["stream"].at = "none" /\ ~sink.ignore_timeout /\ Fault("timeout")
    /\ sink' = [sink EXCEPT !.ignore_timeout = TRUE]
    /\ Send("stream", "RECONNECT", {"LOOP"})
    /\ UNCHANGED <<sc, app, conn, streamVars, server>>

StreamReturns ==
    /\ send["stream"].at = "sent" /\ send' = Returned("stream")
    /\ UNCHANGED <<sc, app, cmd, task, conn, sink, streamVars, server, pastVars, faults>>

-----------------------------------------------------------------------------
Sends == \E s \in Senders : SendRelock(s) \/ SendFlush(s)
Opens == open \/ conninfo_connect \/ options \/ opened
Collects == collect_streams \/ NextContext \/ CollectStream \/ WaitPrerolled \/ Stopping \/ WaitBlocked
Records == record \/ Collects \/ announce \/ setup_streams \/ Select \/ CompleteStream \/ ask \/ request
Closes == pause \/ pausing \/ paused \/ close \/ teardown \/ closing
Task == Take \/ Done \/ TaskWaits \/ Opens \/ loop \/ loop_rx \/ Records \/ Closes
StreamsGoOn ==
    \/ \E s \in Streams : request_new_pad(s) \/ setup_payloader(s) \/ handle_payloader_block(s) \/ StreamBlocking(s) \/ release_pad(s)
    \/ BinPrerolled \/ UdpTimeout \/ StreamReturns

Next == Transition \/ AppGoesOn \/ Sends \/ Task \/ StreamsGoOn \/ ServerCloses

(* The threads run, and requests are answered or time out; no stream need   *)
(* have data, and the server need not close the connection.                 *)
Fairness == WF_vars(AppGoesOn) /\ WF_vars(Sends) /\ WF_vars(Task) /\ WF_vars(StreamReturns)

Spec == Init /\ [][Next]_vars /\ Fairness

-----------------------------------------------------------------------------
Had(qs) == quirks \cap qs # {}

TypeOK ==
    /\ app.at \in {"idle", "wait_open", "unlooping", "commanding", "stopping", "stopped", "joining"}
    /\ cmd.pending \in All /\ cmd.busy \in All
    /\ \A s \in Senders : send[s].at \in {"none", "gap", "flush", "sent"}
    /\ task.at = "idle" => cmd.busy = "WAIT" /\ task.asleep = None
    /\ sink.next_dyn_pt \in BasePt..(MaxPt + 1) /\ conn.connected => conn.exists

(* When the element is back in NULL, each OPEN, PAUSE and CLOSE whose START *)
(* was posted has ended: it ran, or who took its place cancelled it.  A     *)
(* RECORD that ran is never ended, and two cases lose a command: another    *)
(* sender in the gap of loop_send_cmd, and a command that became RECONNECT. *)
ProgressEnds ==
    app.at = "idle" /\ app.state = "NULL" /\ ~Had({"lost_in_gap", "became_reconnect"})
      => \A c \in Reported \ {"RECORD"} : progress[c] = 0

(* NULL leaves nothing behind: no connection, no stream in the bin, no      *)
(* transport, no thread in the task.                                        *)
NothingLeft ==
    app.at = "idle" /\ app.state = "NULL"
      => /\ ~conn.exists /\ task.at = "idle" /\ ~task.exists
         /\ \A s \in Streams : ~ctx[s].joined /\ ~ctx[s].stream /\ ctx[s].transport = None
         /\ sink.bin = "NULL"

(* An element that is recording has a transport for every stream of its     *)
(* pads, but for those that had no data or that the server supports with no *)
(* transport.                                                               *)
RecordingCovers ==
    sink.state = "PLAYING" /\ task.at \notin {"close", "teardown", "closing"} /\ ~Had({"skipped", "no_stream"})
      => \A s \in Walk(contexts) : ctx[s].joined /\ ctx[s].transport # None

(* Streams that are set up use one lower transport, and interleaved ones    *)
(* channels of their own.                                                   *)
TransportsAgree ==
    \A s, t \in Streams :
      s # t /\ ctx[s].transport # None /\ ctx[t].transport # None
        => /\ ctx[s].transport = ctx[t].transport
           /\ ctx[s].transport = "TCP" => ctx[s].chan # ctx[t].chan

(* No payload type is given twice, unless a payloader brought a dynamic     *)
(* type that was not used yet: nothing keeps next_dyn_pt from reaching it.  *)
PayloadTypesApart ==
    ~Had({"preset_ahead"}) =>
      \A s, t \in Streams : \A i \in DOMAIN ctx[s].pts, j \in DOMAIN ctx[t].pts :
        (s # t \/ i # j) /\ ctx[s].pts[i] = ctx[t].pts[j] => ctx[s].pts[i] < BasePt

Quiet == app.at = "idle" /\ task.at = "idle" /\ ~(task.run /\ cmd.pending # "LOOP")

(* When nothing is under way the streams of the element run in PAUSED and   *)
(* PLAYING and not in READY and NULL, unless a command of the task crossed  *)
(* a state change.                                                          *)
BinFollows ==
    Quiet /\ ~Had({"late_bin", "late_close"})
      => (sink.bin \in {"PAUSED", "PLAYING"} <=> app.state \in {"PAUSED", "PLAYING"})

LockInversion == task.at = "context_locked" /\ ~ObjectUnlocked

(* Every state change returns: the wait for the task to start to open, the  *)
(* wait for the loop, and stop, which wakes whatever the task waits for.    *)
(* The exceptions are an OPEN that is posted behind a loop or a record or   *)
(* that another command replaces, a wait for pads that no flush ends, a     *)
(* stream's RECONNECT that replaces the WAIT of a state change, and the     *)
(* locks of collect_streams and loop_send_cmd in opposite orders.       *)
StateChangeReturns ==
    app.at # "idle" ~> app.at = "idle" \/ LockInversion
                       \/ Had({"open_overwritten", "open_behind", "no_pads_no_connection", "wait_replaced",
                             "became_reconnect"})

(* What is announced and set up agrees: each stream has its own payload     *)
(* types and its own channels or ports, and a sink that records has every   *)
(* stream set up.                                                           *)
AnnouncedAgrees ==
    /\ TypeOK
    /\ TransportsAgree
    /\ PayloadTypesApart
    /\ RecordingCovers

(* The sink follows its application: each progress ends, the inner bin has  *)
(* the state that was asked for, and a closed sink keeps nothing.           *)
SinkFollows ==
    /\ ProgressEnds
    /\ NothingLeft
    /\ BinFollows
===============================================================================
