-------------------------------- MODULE Preroll --------------------------------
(* What a client hears of a PLAY request, and what it then gets.             *)
(*                                                                           *)
(* The streams of a media (rtsp-stream.c) stop their streaming threads at    *)
(* blocked pads, and tell the media (rtsp-media.c) with messages that it     *)
(* counts.  PLAY (rtsp-client.c) unsuspends the media, seeks, waits until    *)
(* the media is prerolled again, and answers with what the streams know of   *)
(* the first packets.  One request runs at a time, under the lock of the     *)
(* media; the streaming threads and the bus go on meanwhile.                 *)
(*                                                                           *)
(* A position is a tick of the stream time; times are counted in half ticks, *)
(* so that the running times at twice the speed are whole.                   *)
EXTENDS Integers, Sequences, FiniteSets, NoValue

CONSTANTS
    Streams,
    Clock,      \* RTP clock ticks in half a tick, of each stream
    Plans,      \* bound: the media, and the requests for it
    MaxBus      \* bound: messages posted and not handled

VARIABLES
    conf,       \* how the media is configured
    status, blocked, blocking_msg_received, expected_async_done, n_active, target_state,
    range, keyunit_expired, expiration,
    pstate,     \* the state of the pipeline
    async,      \* it has not posted the async-done yet
    bus,
    seg,        \* the segment of the source
    st,         \* the streams
    pc, ops,    \* the requests
    todo, earliest, response,
    quirks      \* departures that have happened (history)

mediaVars == <<status, blocked, blocking_msg_received, expected_async_done, n_active, target_state,
               range, keyunit_expired, expiration>>
pipeVars == <<pstate, async, bus, seg>>
requestVars == <<pc, ops, todo, earliest, response>>
vars == <<conf, mediaVars, pipeVars, st, requestVars, quirks>>

NewStream ==
    [at |-> "stopped", next |-> 0, unit |-> None, seqnum |-> 0, offset |-> 0, pay |-> None, seg |-> None,
     complete |-> FALSE, blocked_id |-> FALSE, blocking |-> FALSE, buffer |-> None, time |-> None,
     position |-> None, drop |-> FALSE, remove_drop |-> FALSE, last |-> None, first |-> None]
NoResponse == [code |-> "none", rtpinfo |-> [s \in Streams |-> None], range |-> None, rate |-> None, blocked |-> FALSE]
FirstSegment == [gen |-> 1, rate |-> 1, start |-> 0, stop |-> None]
Unknown == [start |-> None, stop |-> None]

Init ==
    /\ \E p \in Plans : conf = p /\ ops = p.ops
    /\ status = "UNPREPARED" /\ blocked = FALSE /\ blocking_msg_received = 0
    /\ expected_async_done = FALSE /\ n_active = 0 /\ target_state = "NULL"
    /\ range = Unknown /\ keyunit_expired = FALSE /\ expiration = FALSE
    /\ pstate = "NULL" /\ async = FALSE /\ bus = <<>> /\ seg = FirstSegment
    /\ st = [s \in Streams |-> NewStream]
    /\ pc = "idle" /\ todo = {} /\ earliest = None /\ response = NoResponse
    /\ quirks = {}

Minimum(S) == CHOOSE x \in S : \A y \in S : x <= y
Maximum(S) == CHOOSE x \in S : \A y \in S : x >= y

Complete == {s \in Streams : st[s].complete}

-----------------------------------------------------------------------------
(* The streaming threads. *)

\* gst_segment_to_running_time and gst_segment_to_stream_time.
RunningTime(g, p) ==
    IF g.rate > 0 THEN (2 * (p - g.start)) \div g.rate ELSE 2 * (g.stop - p)
StreamTime(p) == 2 * p

\* A live source does not end.
InSegment(s, g, p) == /\ p >= g.start /\ (p < conf.end[s] \/ conf.live)
                      /\ g.stop # None => (p < g.stop \/ (g.rate < 0 /\ p <= g.stop))

Unit(s) == [pos |-> st[s].next, gen |-> seg.gen, seq |-> st[s].seqnum, rt |-> RunningTime(seg, st[s].next),
            gap |-> st[s].next \in conf.gaps[s] /\ (st[s].pay = None \/ st[s].pay.gen # seg.gen),
            delta |-> st[s].next % 2 = 1 /\ st[s].pay # None /\ st[s].pay.gen = seg.gen]

\* The payloader made a packet, or had nothing to make one of.
Paid(s, u) ==
    [st EXCEPT ![s].next = @ + (IF seg.rate > 0 THEN 1 ELSE -1), ![s].seg = seg,
               ![s].seqnum = IF u.gap THEN @ ELSE @ + 1, ![s].pay = IF u.gap THEN @ ELSE u, ![s].unit = u]

\* Past the pad: a sink keeps it until the pipeline plays.  Without a sink the
\* streaming thread ends.
Pass(f, s) ==
    LET u == f[s].unit
    IN  IF ~f[s].complete THEN [f EXCEPT ![s].at = "unlinked"]
        ELSE [f EXCEPT ![s].at = IF pstate = "PLAYING" THEN "run" ELSE "sink",
                       ![s].last = IF u.gap THEN @ ELSE u,
                       ![s].first = IF @ = None /\ response.code = "OK" /\ ~u.gap THEN u ELSE @]

\* rtp_pad_blocking notes what is held back.
Held(f, s, u) ==
    [f EXCEPT ![s].buffer = IF u.gap THEN @ ELSE u, ![s].position = u.pos, ![s].time = StreamTime(u.pos)]

Flows(s) == st[s].at = "run" /\ (IF conf.live THEN pstate = "PLAYING" ELSE pstate # "NULL")

\* A delta unit is dropped while a key unit is waited for.
Drops(u) == conf.keyunit /\ u.delta /\ ~u.gap

Blocks(s, f, u) ==
    /\ CASE Drops(u) ->
              /\ st' = [f EXCEPT ![s].time = st[s].time, ![s].at = "run"]
              /\ quirks' = quirks \cup IF st[s].blocking THEN {"assertion"} ELSE {}
              /\ UNCHANGED bus
         \* A gap has no buffer whose flag could be read: the program ends.
         [] conf.keyunit /\ u.gap ->
              /\ st' = f /\ quirks' = quirks \cup {"null_buffer"}
              /\ UNCHANGED bus
         [] OTHER ->
              /\ Len(bus) < MaxBus
              /\ bus' = Append(bus, [type |-> "blocking", complete |-> st[s].complete, stream |-> s, gen |-> seg.gen])
              /\ st' = [f EXCEPT ![s].blocking = TRUE, ![s].at = "held",
                                 ![s].drop = @ /\ ~st[s].remove_drop, ![s].remove_drop = FALSE]
              /\ UNCHANGED quirks
    /\ UNCHANGED <<conf, mediaVars, pstate, async, seg, requestVars>>

\* A unit comes, or the probe is new for the one that is still there.
rtp_pad_blocking(s) ==
    /\ st[s].blocked_id
    /\ \/ /\ Flows(s) /\ InSegment(s, seg, st[s].next)
          /\ Blocks(s, Held(Paid(s, Unit(s)), s, Unit(s)), Unit(s))
       \/ /\ st[s].at = "held" /\ ~st[s].blocking
          /\ Blocks(s, Held(st, s, st[s].unit), st[s].unit)

Produce(s) ==
    /\ Flows(s) /\ InSegment(s, seg, st[s].next) /\ ~st[s].blocked_id /\ st[s].next < conf.end[s]
    /\ st' = Pass(Paid(s, Unit(s)), s)
    /\ UNCHANGED <<conf, mediaVars, pipeVars, requestVars, quirks>>

Unblocked(s) ==
    /\ st[s].at = "held" /\ ~st[s].blocked_id
    /\ st' = Pass(st, s)
    /\ UNCHANGED <<conf, mediaVars, pipeVars, requestVars, quirks>>

Dropped(f, s) == [f EXCEPT ![s].blocking = FALSE]

\* drop_probe drops the old unit that is held back.
drop_probe(s) ==
    /\ st[s].at = "held" /\ st[s].drop /\ ~st[s].remove_drop
    /\ st' = [Dropped(st, s) EXCEPT ![s].at = "run", ![s].remove_drop = TRUE]
    /\ UNCHANGED <<conf, mediaVars, pipeVars, requestVars, quirks>>

\* The segment ends: events pass the pads.
Eos(s) ==
    /\ Flows(s) /\ ~InSegment(s, seg, st[s].next)
    /\ st' = [st EXCEPT ![s].at = "eos", ![s].seg = seg]
    /\ UNCHANGED <<conf, mediaVars, pipeVars, requestVars, quirks>>

Plays(s) ==
    /\ st[s].at = "sink" /\ pstate = "PLAYING"
    /\ st' = [st EXCEPT ![s].at = "run"]
    /\ UNCHANGED <<conf, mediaVars, pipeVars, requestVars, quirks>>

Prerolled(s) ==
    \/ st[s].at \in {"sink", "eos"}
    \/ (pstate = "PLAYING" /\ st[s].last # None /\ st[s].last.gen = seg.gen)

AsyncDone ==
    /\ async /\ \A s \in Complete : Prerolled(s)
    /\ Len(bus) < MaxBus
    /\ async' = FALSE /\ bus' = Append(bus, [type |-> "async_done", gen |-> seg.gen])
    /\ UNCHANGED <<conf, mediaVars, pstate, seg, st, requestVars, quirks>>

-----------------------------------------------------------------------------
(* What the media asks of its streams. *)

\* gst_rtsp_stream_query_position: what is held back, else the sink, else the
\* last unit at the pad.
query_position(s) ==
    CASE st[s].blocking /\ st[s].time # None -> st[s].time
      [] ~(st[s].blocking /\ st[s].time # None) /\ st[s].complete ->
           IF st[s].last = None THEN None ELSE StreamTime(st[s].last.pos)
      [] OTHER -> IF st[s].seg = None \/ st[s].position = None THEN None ELSE StreamTime(st[s].position)

\* Mutant: streams that are not set up count as well.
AskedAll == Streams
\* default_query_position asks the complete streams, if there are some.
Asked == IF Complete # {} THEN Complete ELSE Streams

Positions == {query_position(s) : s \in Asked} \ {None}
default_query_position == IF Positions = {} THEN None ELSE Minimum(Positions)

query_stop(s) ==
    IF st[s].seg = None THEN None
    ELSE IF st[s].seg.rate > 0 THEN st[s].seg.stop ELSE st[s].seg.start
Stops == {query_stop(s) : s \in Streams} \ {None}
default_query_stop == IF Stops = {} THEN None ELSE 2 * Maximum(Stops)

\* collect_media_stats: without an answer the position is 0.
collect_media_stats ==
    IF conf.live THEN Unknown
    ELSE [start |-> IF Positions = {} THEN 0 ELSE default_query_position, stop |-> default_query_stop]

media_streams_blocking == \A s \in Streams : st[s].blocking

SetBlocked(r) ==
    IF r.blocked_id THEN r
    ELSE [r EXCEPT !.blocked_id = TRUE, !.blocking = FALSE, !.buffer = None, !.time = None]

Released(r) == [r EXCEPT !.blocked_id = FALSE, !.blocking = FALSE]

\* stream_update_blocked: of a live media that is prepared only complete
\* streams are unblocked.
media_streams_set_blocked(f, block, state) ==
    [s \in Streams |->
       CASE block -> SetBlocked(f[s])
         [] ~block /\ conf.live /\ state = "PREPARED" /\ ~f[s].complete -> f[s]
         [] OTHER -> Released(f[s])]

StartStreams(f) ==
    [s \in Streams |-> IF f[s].at # "stopped" THEN f[s] ELSE [f[s] EXCEPT !.at = "run", !.next = 0]]

\* start_preroll: the source of a pipeline that was stopped begins again.
start_preroll(f) ==
    /\ blocked' = TRUE
    /\ st' = StartStreams(media_streams_set_blocked(f, TRUE, status))
    /\ target_state' = "PAUSED"
    /\ pstate' = IF conf.live THEN "PLAYING" ELSE "PAUSED"
    /\ seg' = IF pstate = "NULL" THEN [FirstSegment EXCEPT !.gen = seg.gen + 1] ELSE seg

-----------------------------------------------------------------------------
(* The bus of the media. *)

\* Mutant: messages of streams that are not set up are counted.
CountsAll(complete) == TRUE
Counts(complete) == Complete = {} \/ complete

\* The stream has something else by now than what the message was about.
Stale(m) == ~st[m.stream].blocking \/ m.gen # seg.gen

\* Mutant: the first message is enough.
FirstIsEnough(received) == blocked /\ received > 0
AllBlocking(received) ==
    /\ blocked /\ media_streams_blocking
    /\ received = IF Complete = {} THEN Cardinality(Streams) ELSE Cardinality(Complete)

HandleBlocking ==
    LET m == Head(bus)
        received == blocking_msg_received + IF Counts(m.complete) THEN 1 ELSE 0
        prerolled == AllBlocking(received)
    IN  /\ bus # <<>> /\ m.type = "blocking" /\ bus' = Tail(bus)
        /\ blocking_msg_received' = IF prerolled THEN 0 ELSE received
        /\ range' = IF prerolled /\ status \in {"PREPARING", "PREPARED"} THEN collect_media_stats ELSE range
        /\ status' = IF prerolled /\ status = "PREPARING" THEN "PREPARED" ELSE status
        /\ quirks' = quirks \cup IF Stale(m) /\ Counts(m.complete) THEN {"stale"} ELSE {}
        /\ UNCHANGED <<conf, blocked, expected_async_done, n_active, target_state, keyunit_expired, expiration,
                       pstate, async, seg, st, requestVars>>

HandleAsyncDone ==
    /\ bus # <<>> /\ Head(bus).type = "async_done" /\ bus' = Tail(bus)
    /\ expected_async_done' = FALSE
    /\ status' = IF Complete # {} /\ status = "PREPARING" THEN "PREPARED" ELSE status
    /\ quirks' = quirks \cup IF status = "PREPARING" /\ (blocked \/ Head(bus).gen # seg.gen) THEN {"early"} ELSE {}
    /\ UNCHANGED <<conf, blocked, blocking_msg_received, n_active, target_state, range, keyunit_expired, expiration,
                   pstate, async, seg, st, requestVars>>

enable_keyunit_expired ==
    /\ expiration /\ expiration' = FALSE /\ keyunit_expired' = TRUE
    /\ UNCHANGED <<conf, status, blocked, blocking_msg_received, expected_async_done, n_active, target_state, range,
                   pipeVars, st, requestVars, quirks>>

-----------------------------------------------------------------------------
(* DESCRIBE, PAUSE and the suspension. *)

StatusKnown == status # "PREPARING"
Op == Head(ops)
NextOp == ops' = Tail(ops)

\* The media is prepared, and suspended when it is.
Describe ==
    /\ pc = "idle" /\ ops # <<>> /\ Op.op = "describe" /\ status = "UNPREPARED"
    /\ status' = "PREPARING" /\ start_preroll(st) /\ pc' = "describing"
    /\ UNCHANGED <<conf, blocking_msg_received, expected_async_done, n_active, range, keyunit_expired, expiration,
                   async, bus, ops, todo, earliest, response, quirks>>

\* Suspending to NULL: sinks and messages go, and the payloader will go on
\* with the sequence numbers.
Reset(f) == [s \in Streams |-> [f[s] EXCEPT !.at = "stopped", !.unit = None, !.last = None, !.pay = None,
                                            !.seg = None, !.offset = f[s].seqnum]]

default_suspend ==
    /\ status' = "SUSPENDED"
    /\ keyunit_expired' = (keyunit_expired \/ (conf.keyunit /\ conf.expires_at_once))
    /\ expiration' = (expiration \/ (conf.keyunit /\ ~conf.expires_at_once))
    /\ CASE conf.suspend_mode = "none" -> UNCHANGED <<target_state, pstate, async, bus, st, seg>>
         [] conf.suspend_mode = "pause" ->
              target_state' = "PAUSED" /\ pstate' = "PAUSED" /\ UNCHANGED <<async, bus, st, seg>>
         [] conf.suspend_mode = "reset" ->
              /\ target_state' = "NULL" /\ pstate' = "NULL" /\ async' = FALSE /\ bus' = <<>>
              /\ st' = Reset(st) /\ UNCHANGED seg

Described ==
    /\ pc = "describing" /\ StatusKnown
    /\ range' = collect_media_stats
    /\ default_suspend
    /\ pc' = "idle" /\ NextOp
    /\ UNCHANGED <<conf, blocked, blocking_msg_received, expected_async_done, n_active, todo, earliest, response, quirks>>

\* The transport is deactivated, the pipeline pauses and is suspended.
Pause ==
    /\ pc = "idle" /\ ops # <<>> /\ Op.op = "pause" /\ response.code = "OK"
    /\ n_active' = n_active - 1 /\ NextOp
    /\ response' = NoResponse
    /\ IF n_active = 1
       THEN IF conf.suspend_mode = "reset"
            THEN default_suspend /\ expected_async_done' = FALSE
            ELSE /\ status' = "SUSPENDED" /\ target_state' = "PAUSED" /\ pstate' = "PAUSED"
                 /\ expected_async_done' = ~conf.live /\ async' = ~conf.live
                 /\ keyunit_expired' = (keyunit_expired \/ (conf.keyunit /\ conf.expires_at_once))
                 /\ expiration' = (expiration \/ (conf.keyunit /\ ~conf.expires_at_once))
                 /\ st' = [s \in Streams |-> [st[s] EXCEPT !.first = None]] /\ UNCHANGED <<bus, seg>>
       ELSE UNCHANGED <<status, target_state, pstate, expected_async_done, async, keyunit_expired, expiration, st, bus, seg>>
    /\ UNCHANGED <<conf, blocked, blocking_msg_received, range, pc, todo, earliest, quirks>>

-----------------------------------------------------------------------------
(* PLAY. *)

Answer(code) == response' = [response EXCEPT !.code = code] /\ pc' = "idle" /\ NextOp

\* gst_rtsp_media_complete_pipeline
Play ==
    /\ pc = "idle" /\ ops # <<>> /\ Op.op = "play" /\ status \in {"PREPARED", "SUSPENDED"}
    /\ st' = [s \in Streams |-> [st[s] EXCEPT !.complete = @ \/ s \in conf.setup, !.first = None]]
    /\ response' = NoResponse /\ pc' = "unsuspend"
    /\ UNCHANGED <<conf, mediaVars, pipeVars, ops, todo, earliest, quirks>>

default_unsuspend ==
    /\ pc = "unsuspend"
    /\ IF status = "SUSPENDED" /\ conf.suspend_mode = "reset"
       THEN /\ status' = "PREPARING" /\ blocking_msg_received' = 0
            /\ start_preroll(media_streams_set_blocked(st, FALSE, "PREPARING"))
            /\ pc' = "unsuspending"
       ELSE /\ status' = "PREPARED"
            /\ pc' = IF status = "SUSPENDED" /\ conf.keyunit THEN "ensure" ELSE "seek"
            /\ UNCHANGED <<blocked, blocking_msg_received, target_state, st, pstate, seg>>
    /\ UNCHANGED <<conf, expected_async_done, n_active, range, keyunit_expired, expiration, async, bus,
                   ops, todo, earliest, response, quirks>>

Unsuspended ==
    /\ pc \in {"unsuspending", "ensuring"} /\ StatusKnown
    /\ pc' = IF pc = "unsuspending" /\ conf.keyunit THEN "ensure" ELSE "seek"
    /\ UNCHANGED <<conf, mediaVars, pipeVars, st, ops, todo, earliest, response, quirks>>

\* ensure_new_keyunit: a key unit that is held back and has not expired is
\* good enough.
ensure_new_keyunit ==
    /\ pc = "ensure"
    /\ IF media_streams_blocking /\ ~keyunit_expired
       THEN pc' = "seek" /\ expiration' = FALSE
            /\ UNCHANGED <<status, blocked, target_state, st, pstate, seg, keyunit_expired>>
       ELSE /\ status' = "PREPARING"
            /\ start_preroll(IF ~media_streams_blocking THEN st
                             ELSE [s \in Streams |-> [st[s] EXCEPT !.drop = @ \/ st[s].complete]])
            /\ keyunit_expired' = (keyunit_expired /\ ~media_streams_blocking)
            /\ pc' = "ensuring" /\ UNCHANGED expiration
    /\ UNCHANGED <<conf, blocking_msg_received, expected_async_done, n_active, range, async, bus,
                   ops, todo, earliest, response, quirks>>

\* parse_scale_and_speed: a scale of 0 and a speed that is not positive are refused.
BadRates == Op.scale = 0 \/ Op.speed <= 0
Rate == Op.scale * Op.speed
\* TRICKMODE is set for any scale but 1 and -1, and what the Frames header asks for.
Trick == Op.scale \notin {1, -1} \/ Op.frames

\* The times of a range, which need not say where it begins.
Start == IF Op.range = None THEN None ELSE Op.range.min
Stop == IF Op.range = None THEN None ELSE Op.range.max

\* A seek to where the media is, and with the stop it has.
Needless(force, start) ==
    /\ ~force
    /\ start = None \/ StreamTime(start) = default_query_position
    /\ Stop = None \/ 2 * Stop = range.stop

\* Without a position to begin with it is the current one.
From == IF Start = None
        THEN IF default_query_position = None THEN None ELSE default_query_position \div 2 ELSE Start

Segment(start) ==
    IF Rate > 0 THEN [gen |-> seg.gen + 1, rate |-> Rate, start |-> IF start = None THEN 0 ELSE start, stop |-> Stop]
    ELSE [gen |-> seg.gen + 1, rate |-> Rate, start |-> IF Stop = None THEN 0 ELSE Stop,
          stop |-> IF start = None THEN 0 ELSE start]

Flush(f, g) ==
    [s \in Streams |-> [f[s] EXCEPT !.at = IF @ = "stopped" THEN @ ELSE "run", !.unit = None,
                          !.next = IF g.rate > 0 THEN g.start ELSE IF g.stop >= conf.end[s] THEN conf.end[s] - 1 ELSE g.stop]]

\* The flush ends what streams hold back; the sinks want to preroll again.
SendSeek ==
    LET g == Segment(From)
        short == {s \in Complete : ~InSegment(s, g, g.start)}
    IN  /\ status' = "PREPARING" /\ seg' = g
        /\ st' = Flush(IF blocked THEN st ELSE media_streams_set_blocked(st, TRUE, "PREPARING"), g)
        /\ async' = ~blocked
        /\ pc' = IF blocked THEN "seeking" ELSE "sent"
        /\ blocked' = TRUE
        /\ quirks' = quirks \cup (IF short # {} THEN {"short"} ELSE {})
        /\ UNCHANGED <<blocking_msg_received, expected_async_done>>

\* gst_rtsp_media_seek_trickmode.  What it answers is not looked at, but the
\* status is.
Seek ==
    LET force == Trick \/ Rate # 1
        seeks == /\ Complete # {} /\ conf.seekable /\ ~conf.live
                 /\ Start # None \/ Stop # None \/ force
                 /\ ~Needless(force, From)
    IN  /\ pc = "seek" /\ ~BadRates
        /\ CASE ~seeks -> /\ pc' = "earliest" /\ todo' = conf.setup
                          /\ UNCHANGED <<status, blocked, blocking_msg_received, expected_async_done, seg, st, async, quirks>>
             [] seeks /\ expected_async_done ->
                  /\ status' = "PREPARING" /\ pc' = "seekfirst"
                  /\ UNCHANGED <<blocked, blocking_msg_received, expected_async_done, seg, st, async, todo, quirks>>
             [] OTHER -> SendSeek /\ UNCHANGED todo
        /\ earliest' = None
        /\ UNCHANGED <<conf, n_active, target_state, range, keyunit_expired, expiration, pstate, bus, ops, response>>

BadMode ==
    /\ pc = "seek" /\ BadRates /\ Answer("BAD_REQUEST")
    /\ UNCHANGED <<conf, mediaVars, pipeVars, st, todo, earliest, quirks>>

SeekFirstDone ==
    /\ pc = "seekfirst" /\ StatusKnown /\ SendSeek
    /\ UNCHANGED <<conf, n_active, target_state, range, keyunit_expired, expiration, pstate, bus, ops, todo,
                   earliest, response>>

\* The streams were only blocked while the event was sent.
SeekSent ==
    /\ pc = "sent" /\ pc' = "seeking"
    /\ blocked' = FALSE /\ blocking_msg_received' = 0
    /\ st' = media_streams_set_blocked(st, FALSE, status)
    /\ UNCHANGED <<conf, status, expected_async_done, n_active, target_state, range, keyunit_expired, expiration, pipeVars,
                   ops, todo, earliest, response, quirks>>

SeekDone ==
    /\ pc = "seeking" /\ StatusKnown
    /\ pc' = "earliest" /\ todo' = conf.setup
    /\ UNCHANGED <<conf, mediaVars, pipeVars, st, ops, earliest, response, quirks>>

-----------------------------------------------------------------------------
(* The answer to PLAY. *)

\* gst_rtsp_stream_get_rtpinfo: the last packet of the sink, what is held back,
\* or what the payloader knows.
InSink(s) == st[s].last # None /\ ~st[s].blocking
InPay(s) == IF st[s].pay = None THEN None
            ELSE [seq |-> st[s].offset, rtptime |-> st[s].pay.rt * Clock[s], time |-> st[s].pay.rt]

\* Mutant: the sink is asked although the stream is blocked.
rtpinfo_sink(s) ==
    IF st[s].last # None
    THEN [seq |-> st[s].last.seq, rtptime |-> st[s].last.rt * Clock[s], time |-> st[s].last.rt]
    ELSE InPay(s)
get_rtpinfo(s) ==
    CASE InSink(s) -> [seq |-> st[s].last.seq, rtptime |-> st[s].last.rt * Clock[s], time |-> st[s].last.rt]
      [] st[s].blocking /\ st[s].buffer # None /\ st[s].time # None ->
           [seq |-> st[s].buffer.seq, rtptime |-> st[s].buffer.rt * Clock[s], time |-> st[s].time]
      [] OTHER -> InPay(s)

\* The running time alone is known for a gap as well.
get_running_time(s) ==
    IF ~InSink(s) /\ st[s].blocking /\ st[s].time # None THEN st[s].time
    ELSE IF get_rtpinfo(s) = None THEN None ELSE get_rtpinfo(s).time

One == CHOOSE s \in todo : TRUE

\* The lowest running time of all the streams.
Earliest ==
    /\ pc = "earliest"
    /\ IF todo = {} THEN pc' = "rtpinfo" /\ todo' = conf.setup /\ UNCHANGED earliest
       ELSE LET t == get_running_time(One)
            IN  /\ earliest' = CASE t = None -> earliest
                                 [] t # None /\ earliest # None -> Minimum({t, earliest})
                                 [] OTHER -> t
                /\ todo' = todo \ {One} /\ UNCHANGED pc
    /\ UNCHANGED <<conf, mediaVars, pipeVars, st, ops, response, quirks>>

\* gst_rtsp_stream_transport_get_rtpinfo
ScaledTime(s, i) == IF earliest = None THEN i.rtptime ELSE i.rtptime - (i.time - earliest) * Clock[s]

RtpInfo ==
    /\ pc = "rtpinfo"
    /\ IF todo # {}
       THEN LET i == get_rtpinfo(One)
            IN  /\ response' = [response EXCEPT !.rtpinfo[One] = IF i = None THEN None
                                                  ELSE [seq |-> i.seq, rtptime |-> ScaledTime(One, i)]]
                /\ todo' = todo \ {One} /\ UNCHANGED <<pc, ops>>
       ELSE IF \A s \in Streams : response.rtpinfo[s] = None
       THEN Answer("INTERNAL_SERVER_ERROR") /\ UNCHANGED todo
       ELSE pc' = "range" /\ UNCHANGED <<response, todo, ops>>
    /\ UNCHANGED <<conf, mediaVars, pipeVars, st, earliest, quirks>>

GetRangeString ==
    /\ pc = "range" /\ pc' = "rates"
    /\ range' = collect_media_stats
    /\ response' = [response EXCEPT !.range = range', !.blocked = \A s \in Complete : st[s].at = "held" /\ st[s].blocking]
    /\ UNCHANGED <<conf, status, blocked, blocking_msg_received, expected_async_done, n_active, target_state, keyunit_expired,
                   expiration, pipeVars, st, ops, todo, earliest, quirks>>

\* gst_rtsp_media_get_rates: the complete streams have one rate.
Rates == {st[s].seg.rate : s \in {t \in Complete : st[t].seg # None}}
GetRates ==
    /\ pc = "rates"
    /\ IF Cardinality(Rates) = 1 /\ \A s \in Complete : st[s].seg # None
       THEN /\ response' = [response EXCEPT !.code = "OK", !.rate = CHOOSE r \in Rates : TRUE]
            /\ pc' = "play" /\ UNCHANGED ops
       ELSE Answer("INTERNAL_SERVER_ERROR")
    /\ UNCHANGED <<conf, mediaVars, pipeVars, st, todo, earliest, quirks>>

\* gst_rtsp_media_set_state
SetPlaying ==
    /\ pc = "play" /\ pc' = "idle" /\ NextOp
    /\ n_active' = n_active + 1
    /\ blocked' = FALSE /\ blocking_msg_received' = 0
    /\ st' = media_streams_set_blocked(st, FALSE, status)
    /\ IF n_active = 0 /\ target_state # "PLAYING"
       THEN /\ target_state' = "PLAYING" /\ pstate' = "PLAYING" /\ expected_async_done' = FALSE
            /\ async' = (async \/ (blocked /\ ~conf.live))
       ELSE UNCHANGED <<target_state, pstate, expected_async_done, async>>
    /\ range' = collect_media_stats
    /\ UNCHANGED <<conf, status, keyunit_expired, expiration, bus, seg, todo, earliest, response, quirks>>

-----------------------------------------------------------------------------
\* What read a buffer that is not there does not go on.
Runs == "null_buffer" \notin quirks

Streaming(s) ==
    Runs /\ (rtp_pad_blocking(s) \/ Produce(s) \/ Unblocked(s) \/ drop_probe(s) \/ Eos(s) \/ Plays(s))

Done == Runs /\ AsyncDone

Bus == Runs /\ (HandleBlocking \/ HandleAsyncDone)

Expire == Runs /\ enable_keyunit_expired

Request ==
    /\ Runs
    /\ \/ Describe \/ Described \/ Pause \/ Play \/ default_unsuspend \/ Unsuspended \/ ensure_new_keyunit
       \/ Seek \/ BadMode \/ SeekFirstDone \/ SeekSent \/ SeekDone \/ Earliest \/ RtpInfo \/ GetRangeString
       \/ GetRates \/ SetPlaying

Next == (\E s \in Streams : Streaming(s)) \/ Done \/ Bus \/ Expire \/ Request

Spec == Init /\ [][Next]_vars

(* The streaming threads, the sinks and the bus go on; the thread of the     *)
(* client handles what it was asked.                                         *)
FairSpec ==
    /\ Spec
    /\ \A s \in Streams : WF_vars(Streaming(s))
    /\ WF_vars(Done) /\ WF_vars(Bus) /\ WF_vars(Request)

-----------------------------------------------------------------------------
(* Type and safety. *)

TypeOK ==
    /\ status \in {"UNPREPARED", "PREPARING", "PREPARED", "SUSPENDED"}
    /\ target_state \in {"NULL", "PAUSED", "PLAYING"} /\ pstate \in {"NULL", "PAUSED", "PLAYING"}
    /\ blocking_msg_received \in 0 .. Cardinality(Streams) + MaxBus /\ n_active \in Nat
    /\ Len(bus) <= MaxBus
    /\ \A s \in Streams :
         /\ st[s].at \in {"stopped", "run", "held", "sink", "eos", "unlinked"}
         /\ st[s].at = "held" => st[s].unit # None
         /\ st[s].blocking => st[s].blocked_id
    /\ pc \in {"idle", "describing", "unsuspend", "unsuspending", "ensure", "ensuring", "seek", "seekfirst", "sent",
               "seeking", "earliest", "rtpinfo", "range", "rates", "play"}

Orderly == quirks = {}

(* When the wait for a PLAY is over every stream that is set up has reached *)
(* the segment that will be played: what is answered is not of an older one.*)
PrerollIsFresh ==
    pc = "earliest" /\ todo = conf.setup /\ Orderly =>
      \A s \in conf.setup : st[s].seg # None /\ st[s].seg.gen = seg.gen

(* The RTP times of the answer are those of one moment on all streams.      *)
RtpInfoAligned ==
    pc = "play" =>
      \A s, t \in conf.setup :
        response.rtpinfo[s] # None /\ response.rtpinfo[t] # None =>
          response.rtpinfo[s].rtptime * Clock[t] = response.rtpinfo[t].rtptime * Clock[s]

(* They are at the normal rate, when all streams are held back.             *)
RtpInfoAlignedAtRate1 == Orderly /\ seg.rate = 1 /\ response.blocked => RtpInfoAligned

Heard == {s \in conf.setup : st[s].first # None}

(* Of streams that are held back the range of the answer begins with the    *)
(* first packet that is then sent.                                          *)
RangeIsFirst ==
    /\ response.code = "OK" /\ response.blocked /\ Orderly /\ Heard = conf.setup
    /\ ~conf.live /\ \A s \in Streams : conf.gaps[s] = {}
    => response.range.start = Minimum({StreamTime(st[s].first.pos) : s \in conf.setup})

(* And the sequence numbers of the answer are those of the first packets.   *)
SeqIsFirst ==
    response.code = "OK" /\ response.blocked /\ Orderly =>
      \A s \in Heard : response.rtpinfo[s] # None /\ conf.gaps[s] = {} => response.rtpinfo[s].seq = st[s].first.seq

(* A media that can seek plays to where it was asked to stop.               *)
StopAsAsked ==
    pc = "play" /\ Stop # None /\ conf.seekable /\ ~conf.live /\ Orderly =>
      \A s \in Complete : query_stop(s) = Stop

(* The probe that waits for key units does not meet a delta unit while it   *)
(* already holds back.                                                      *)
NoAbort == "assertion" \notin quirks

(* What a PLAY sends first is a key unit, when that is asked of the media.  *)
FirstIsKey == conf.keyunit /\ response.code = "OK" /\ response.blocked => \A s \in Heard : ~st[s].first.delta

(* A wait for the preroll ends, if every stream has something to play and   *)
(* none that waits for key units meets a gap.                               *)
PrerollEnds == status = "PREPARING" ~> status # "PREPARING" \/ quirks \cap {"short", "null_buffer"} # {}

(* A media is only told prerolled with a unit of the segment that was asked *)
(* for blocked in every stream, the first one a key unit, and no assertion  *)
(* fails on the way.                                                        *)
PrerollHolds ==
    /\ TypeOK
    /\ PrerollIsFresh
    /\ FirstIsKey
    /\ NoAbort

(* The RTP-Info and the Range of the reply to PLAY are those of the first   *)
(* packet that is sent.                                                     *)
ReplyIsTrue ==
    /\ RtpInfoAlignedAtRate1
    /\ RangeIsFirst
    /\ SeqIsFirst
    /\ StopAsAsked
=============================================================================
