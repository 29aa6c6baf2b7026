# Verification of the RTSP server library, its client sink and the player

TLA+ models of this repository's own code, the TLC configurations that check
them and the TLAPS proofs about them. The code is the RTSP server library
(`gst-rtsp-server/gst/rtsp-server`), the `rtspclientsink` element
(`gst-rtsp-server/gst/rtsp-sink`) and the video player (`player`). Source paths
below are relative to `src/`; a bare file name is in
`gst-rtsp-server/gst/rtsp-server/`.

`PROJECT.json` is the index: `map` gives the source lines each definition
models, `runs` what is checked, `mutants` a plausible bug for each property that
the run then detects, `hazards` the hard places of the code with the properties
that watch them, `theorems` what is proved.

    tlc -workers 2 -config stream.cfg MCStream.tla     # any run: <name>.cfg, MC module
    tlapm SessionPoolProofs.tla                        # the proofs of a module

## 1. Inventory

The repository holds the server library (31 kloc of C), a client sink element
built on the same library, a small Qt/C++ player, tutorial programs and a copy
of the GStreamer documentation.

| component | state it keeps | operations | hard behaviour |
|---|---|---|---|
| session (`rtsp-session.c`) | timeout, last access, expire count; its session media | touch, prevent/allow expire, next timeout, manage/release media | read by other threads under its own locks while the pool decides on it |
| session pool (`rtsp-session-pool.c`) | table of sessions, cookie, maximum | create, find, remove, cleanup, filter, create_watch | callback with the lock released, restart of an iteration, clock read before the lock, signal after removal |
| thread pool (`rtsp-thread-pool.c`) | queue of client threads, user counts | get_thread, reuse, stop, do_loop, cleanup | stop without the lock against reuse under it; a thread that fails to start |
| address pool (`rtsp-address-pool.c`) | free and allocated ranges | add_range, clear, acquire, reserve, release | splitting at boundaries, carries, never merged |
| media (`rtsp-media.c`) | status, prepare count, active count, pipeline, bus watch, streams, payload types, settings | prepare, unprepare, suspend, seek, set_state, pads added and removed, handle_sdp | two locks, one recursive; three kinds of threads; waits that give up; state read again after each wait |
| session media (`rtsp-session-media.c`) | transports, channel counter, state | set_transport, set_state, RTP-Info, finalize | ends without the media lock |
| client (`rtsp-client.c`) | watched sessions, cached media, channels, tunnels, watch, timers | one handler per RTSP method, send path, close, finalize | a session removed by another thread during a request; closing while sending; two connections as one tunnel |
| stream, stream transport (`rtsp-stream.c`, `rtsp-stream-transport.c`) | transports with cookie, backlog, blocking probes, sockets and addresses, sinks, keys | join/leave, add/remove transport, send_tcp_message, on_message_sent, set_blocked, alloc sockets | backlog against direct send, list changed under iteration, element graph changed while it runs, what blocks and what is told of it |
| media factory (`rtsp-media-factory.c`) | cache of shared media, settings | construct, media_unprepared, configure | a cached media that is being unprepared; settings copied at different times |
| media factory URI (`rtsp-media-factory-uri.c`) | lists of elements, raw caps | autoplug, pads that become streams | the choice of elements |
| mount points (`rtsp-mount-points.c`) | lazily sorted sequence of paths | add, remove, match | a walk that stops early |
| server (`rtsp-server.c`) | clients with cookie, socket, sources | accept, client filter, attach | clients that close while the list is filtered |
| auth, permissions, token | users, nonces, default token, roles | check, challenge, parse_htdigest, add_role | nonce expiry against claims, tables changed during a check |
| SDP (`rtsp-sdp.c`) | none | from_media, from_stream | what both ends make of the same lines |
| ONVIF variants | back channel stream | create_element, setup_sdp, requirements | a stream that receives in a media that sends |
| client sink (`rtsp-sink/gstrtspclientsink.c`) | connection, pending command, contexts of its pads, payload types | loop_send_cmd, thread, open, announce, set up, record, pause, close | commands that overtake and flush each other, pads and blocks that come late |
| player (`player/`) | operation queue with a worker, decoder, controller, timer, button | add and cancel tasks, decode, play, pause, seek, show | a worker that blocks for the bus, cancelled tasks, signals that are delivered later with a pointer |

How the parts interact: the server accepts a connection, creates a client and
asks the thread pool for the thread its main loop runs in. A request reaches the
client's handler there, passes the checks of the auth object, and finds a media
through mount points and factory, which returns it with the media lock taken.
DESCRIBE and SETUP prepare it in a thread of its own and describe its streams;
SETUP also creates a session in the pool, which the client watches, puts a
session media in it and takes sockets, addresses and channels for the stream.
PLAY and PAUSE change the media's state through the session media; streams then
feed multicast groups, UDP peers or the connections of their clients. Any thread
may call cleanup or filter on the session pool; sessions that go take their
session media, and so their prepare of the media, with them. Bus messages arrive
in the media's thread, and streaming threads call back when pads appear, block
or produce samples. The client sink is the other end: it announces the streams
of its pads and records to them.

What makes each part correct, beyond its types: no session is freed while used,
leaked, signalled twice, dropped silently or expired early; a filter visits
everything that stays; a thread handed out runs its loop until its user stops it
and ends after that; no address is given out twice or lost, and clients are told
what is bound; a media is prepared exactly as often as it has users, and whoever
plays keeps playing; interleaved data reaches each client in order, once;
nothing of a client outlives it; one key has one shared media; the longest mount
point serves; a challenge can be answered until it expires, once; the answer to
PLAY is true of the first packet; both ends of a description mean the same; every
state change and request returns.

## 2. Plan

Done, in the order of importance: `Session`, `SessionPool`, `ThreadPool`,
`AddressPool`, `Media`; then `StreamTransport` over `Fanout`, `Stream`, `Client`,
`Service` (`Server`, `MountPoints` over `MountTable`, `MediaFactory`), `Player`,
`ClientSink`, `Auth` over `Permissions`, `Preroll`, and `Description` over
`Settings`, `Selection`, `Formats`, `Keys`, `Building` and `Sdp`. Proved:
`SessionPool`, `ThreadPool`, `AddressPool`, `StreamTransport` with its refinement
of `Fanout`, `Auth`, `Media`, `Stream`, `Client`, and `Service` with its
refinement of `MountTable` (section 5).

Left, in the order in which it would pay: the statistics and queries of streams,
the time provider of media, and the sending half of the client sink.

## 3. The modules

One module for each component or concern, one action for each critical section
or step between waits; an `MC` module gives it its instance, but for `Player`,
whose cfg does. In all of them:

* a lock that is only held inside one action is not a variable; one that is held
  across steps is (`lock`, `slock`, `medias_lock`, ...);
* *departures*: where the code, once something unlucky happened, no longer does
  what its own comments promise, the model takes the step the code takes and
  adds a name to `quirks` (`fquirks`, `squirks`, `pquirks`, or `media.quirks`).
  A property that this departure breaks names it, so that the property still
  says everything about all other behaviours. Section 6 lists the departures;
* what the environment may do is a *scenario* (or plan, or configuration) chosen
  in `Init` from a set that the instance gives, since all requests of all clients
  at once are out of reach.

### Session, SessionPool, SessionPoolProofs

`Session` is the arithmetic of one session: `next_timeout_usec`,
`is_expired_usec`, with the rounding to milliseconds and the width of the `gint`.
`SessionPool` has one action per critical section of the pool lock. What the
code does outside of it is a separate action: the clock is read before `cleanup`
takes the lock (`CleanupBegin`), the filter function runs without the lock
(`FilterKeep`, `FilterRemove`, `FilterRemoveGone`), `session-removed` is emitted
after it (`EmitRemoved`, `FilterSignal`). `cleanup` holds the lock over several
steps (`CleanupCheck`, `CleanupDeadline`), because sessions have locks of their
own and their owners touch them meanwhile.

| state | code |
|---|---|
| `sessions`, `cookie`, `max_sessions` | the hash table, `sessions_cookie`, `max_sessions` |
| `sess`, `refs`, `born` | session objects, reference counts, which exist |
| `signalled`, `start` | history: emissions of `session-removed`, the pool when a filter was called |
| `held`, `emit`, `visited` | references of callers, pending emissions, the visited table |
| `todo`, `fcookie`, `changed`, `cur` | the hash iterator, its cookie, `changed`, the session it yielded |

A hash table yields its elements in any order, so the iterator picks any of
`todo`, and the source of `create_watch` folds the table in any order. A retired
session id is not drawn again; callers balance `prevent_expire` and `allow_expire`.

### ThreadPool, AddressPool, PoolsProofs, MCPools

A thread object has `reused`, `refs`, `idle` (the source that runs `do_quit` is
attached) and `loop`. `get_thread` is split at the lock, at each atomic operation
on `reused` and at the reference it takes afterwards; `stop` at the decrement,
the attach and the unref, since it takes no lock. Freed identities are used again.
`limit` (history) is the greatest `max_threads` a client thread was made under,
`Unlimited` once it was none: what may be in use is counted over the callers
against it, not over the queue at the moment of the append.

Ranges are records of an address interval, a port interval and a ttl, in a free
and an allocated list kept in the order of the code, since `acquire` takes the
first that suits. An address is the number its bytes write; `inc_address` is the
loop over them from the last one with what it carries (`AddByte`), `diff_address`
the one over the bytes that shifts a `guint`. `split_range` builds up to four
pieces. `clear` tests `allocated` before it takes the
lock, so it has two steps. Applications add ranges that do not overlap.

### Media, MediaProofs

One shared media in PLAY mode, clients with one transport each, and the thread
that dispatches the start source and the bus. `glock` is `gst_rtsp_media_lock`,
which requests hold from finding the media to the end and the end of a session
does not; `slock` is the recursive state lock, and the places where the code
releases it or waits are separate actions (`PrepareDone`, `SetStateWait`,
`UnsuspendDone`, `SeekFirstDone`, `PlayMode`, `StateNull`, `Unprepared`).
`pc` says where a user is and `op` which call it executes. The pipeline is its
`state`, the message it is about to post (`coming`) and the queue `bus`;
`using` (history) is who owes an unprepare. `conf` holds what the pipeline does:
live, dynamic, buffering, faults, and the suspend mode. The start source is
dispatched before the wait of 20 seconds ends.

### StreamTransport, Fanout, StreamTransportProofs

`StreamTransport` is interleaved TCP data: the send thread of the stream,
the thread of each client that reports sent messages and calls
`check_transport_backlog`, and the streaming threads that fill the appsinks.
`lock` is the mutex of the stream, `backlog_lock[t]` that of a transport; a
message is taken from the appsink (`handle_new_sample`, `Send`), given to each
transport or pushed to its backlog, and popped when the connection reports the
one before (`message_sent`). Seeks flush, transports are added and removed,
connections fail, the bin is left and joined again. `Fanout` is the promise: one
queue per client, first in first out, nothing sent twice or after it was cleared.
`FanoutSpec` is `INSTANCE Fanout` with the queue of a client mapped to the item
in a thread's hand followed by its backlog; every step of the code is a step of it.

### Stream, StreamProofs

Addresses, sockets, elements and lists of one stream. Each call holds the lock of
the stream and is one action; the calls of a client come in the order of
`rtsp-client.c`. `addr`, `socket`, `owner` are the addresses it tells clients,
the ports it bound and whose each pool address is; `sink` says for each index and
kind whether there is no sink, one that waits for its socket, one linked directly,
or one behind a tee and a queue, and `pending` the idle probes that will plug the
queues; `transports`, `client`, `mcast_clients` are the list, what the sinks send
to, and the counted multicast destinations; `filter` is a call of
`transport_filter` that released the lock.

### Client, ClientProofs

Several clients, each with a connection and a thread, that share a session pool
and two media (one to play, one to record). A request is a few steps between the
locks of pool, client, session and media: the session is found (`FoundNew`...),
the media found and prepared, the session media made or released, the answer sent.
A request refused early keeps the cached media (`Refused`), one refused by the
application keeps a reference to its session (`SetupLeaks`, `leaked`).
`emit` is the callback of `session-removed` in progress, `cl[c]` what a client
keeps (watched sessions, cached media, channels, watch, timers), `sm` the session
media of each session, `prepared` the prepare counts, `tunnel` the half that waits
in the table. Clients are closed by the peer, a timeout, the end of their sessions
or the application, at any step.

### NoValue, MountTable, MountPoints, MediaFactory, Server, Service, ServiceProofs

`Service` composes the three and adds the clients: each has a thread that takes
paths to `MountPoints`, constructs with `MediaFactory` and unprepares, while
`Server` accepts, filters, closes and frees. `MountPoints` is the sequence with
its dirty flag; `MountTable` the table it implements (`MountSpec`), with the
factory of a path replaced or removed in one step and the longest match by
definition. Neither the sort nor the walk of `match` is a recursion: `Sorted`
puts each item where its rank says, and `Reached` are the matches before the
first item that ends the walk (`Ends`), of which the last is the answer.
`MediaFactory` splits `construct` where the lock of the cache is free: looking
(`medias`), asking the media under its own lock, making a new one, entering it.
`Server` splits `client_filter` at every call of func. `NoValue` declares the
NULL they share.

### Player

`taskQueue`, `stop` and `worker` are the `OperationQueue`, `timer`, `view`, `gui`
and `events` the controller in the GUI thread, `bus`, `pipeline` and `dec` the
decoder. A user clicks play, pause, the slider or leaves (`Leave`) at any step of
the worker, which waits for a bus message, takes the newest frame and emits it.
`events` are the queued signals: `updateTexture` carries a pointer into the frame
of its task, which the slot reads when it is delivered (`UpdateTexture`), and
whether the task still is where its frame is kept is `FrameIsKept`. `announced`
and `shown` are the frames in the order of the signals and of the drawing.

### ClientSink

The application's state changes post commands for the task thread; there is one
pending command and a new one replaces it, and a flush ends what the task waits
for. `loop_send_cmd` of the application, of the task and of a streaming thread
(`send`) is split between its locks. The task opens, collects pads, announces,
sets up each stream over the transports and profiles in order, records, loops,
pauses and closes against a server that may refuse, drop or not support them.

### Permissions, Auth, AuthProofs

`Permissions` is the roles of an object that factory, media and checks share by
reference and that may only be changed while it has one. `Auth` adds tables of
basic and digest users, files of users read line by line, nonces with their
claims and expiry, and requests that run the checks of `rtsp-client.c` one lock
at a time while the application changes the tables. A challenge reads the clock
(`Unauthorized`) and takes the lock for the nonces in a later step (`Challenge`),
with the unsigned difference of the two times in between (`Elapsed`). The
application may give up its reference to a token it has registered
(`gst_rtsp_token_unref`); a request uses the token it found without one, so a
token may be freed under it, and what it then reads is any (`Read`).

### Preroll

The streams of a media block their threads at pads and tell the media with
messages it counts. PLAY unsuspends, seeks, waits for the preroll and answers;
streaming threads, sinks and bus run meanwhile. Positions are ticks of stream
time, times half ticks so that twice the speed is whole; `st[s]` has the unit at
the pad, the segment and what was last seen; `response` is what the client was
told, compared with the first unit that is then sent.

### Settings, Selection, Formats, Keys, Building, Sdp, Description

`Settings` are the setters of factory, media and stream: how far each value
reaches. `Selection` is the choice of elements from the registry, `Formats` the
payload types, retransmission and FEC of a stream, `Keys` SRTP keys and MIKEY
messages: pure operators. `Building` constructs a media out of a launch line,
prepares it, takes the pads of dynamic elements as they come and go, and lets the
application change settings at each step. `Sdp` makes lines of streams and
streams of lines. `Description` runs DESCRIBE, ANNOUNCE by the sink, SETUP, PLAY
and RECORD on it. A stream is a record: what is set, what is negotiated, and the
elements it has with what they were given.

## 4. The runs

Bounds are the smallest at which every action fires and every mutant is found;
each run takes less than four minutes with two workers.

| run | question | instance |
|---|---|---|
| `sessionpool` | what expires goes and nothing else; one signal for each; filters complete; references balance; the maximum holds | 2 sessions; three rosters: a client and a cleaner with a clock to 2, the same with a watcher, two clients with a filterer while the maximum changes |
| `pools` | users have running loops, no dead thread in the queue, threads end; no address twice or lost, requests met exactly | 2 users, 2 thread objects, max-threads 0 to 2, pushes may fail; or bytes of 2 values, 2- and 3-byte addresses, 4 ports, 2 ranges added and split into at most 4 |
| `media` | counts balance, nobody loses its media, players keep playing, prepare returns, unprepare ends | 2 users, 15 configurations |
| `streamtransport` | each client gets its samples in order, once, within the bounds of its backlog; it refines a queue per client; backlogs drain | 2 clients, one of which stops, fails or is quick; 3 RTP samples and 1 of RTCP, a seek, a second join |
| `stream` | addresses told are bound and given back, sinks send to the list, filters complete, no assertion fails | 8 scenarios of at most 3 clients out of multicast, IPv4, IPv6 and TCP; 4 ports, 2 joins, 1 filter |
| `client` | preparations add up, sessions are watched, channels are of one media, a closed client is finalized | 2 connections, 2 sessions, a media to play and one to record, 10 scenarios of requests, closings and removals |
| `service` | mount points are a table with longest match, a key has one shared media, nothing is left when all clients are gone | 3 clients, 2 threads, 2 factories, 4 paths with a sibling that sorts before the slash, 3 media, 5 scenarios |
| `player` | tasks start in order, cancelled ones never, none is forgotten, frames advance, the button says what the timer does, what plays ends | one worker, as the code sets it; 4 tasks, 2 frames, 1 message, 4 clicks |
| `clientsink` | every state change returns, progress ends, payload types and transports agree, NULL leaves nothing | 2 pads, 11 scenarios of state changes with one kind of fault each |
| `auth` | challenges can be answered until they expire, requests are served to those who may, references add up | 2 connections, 2 users, 2 tokens, 2 roles, clock to 6, 5 nonces, 33 plans |
| `preroll` | the answer to PLAY is true of the first packet, every wait for the preroll ends, no assertion fails | a video and an audio stream, 3 units each, 2 or 3 requests in three suspend modes, live and not |
| `description` | streams, elements and payload types agree; settings reach what they are for; both ends of a description mean the same | 13 mounts, 4 streams at most, 7 dynamic payload types, prepared twice, described twice |

Why the bounds suffice. Session pool: conflicts are pairwise (two removers of one
session, a filter and a change of the table), a second session is needed for the
timeout collection and the restart with something visited; two ticks reach every
combination of touched and expired. Thread pool: two callers race for one object.
Address pool: with two values a byte every carry happens; four ports make an odd
and an even start with ports left on either side. Media: sharing is about one
other user; `MaxBus` of 2 lets an old message precede a new one. Stream
transport: a backlog of one item overflows with the third sample; two clients
tell a slow one from one that must not suffer from it. Stream: one client more
than there are families and kinds to share. Client and Service: two clients
contend for a lock, a session, a tunnel, a key; the third only takes the list of
the server through a removal before and behind the one that is visited. Player:
four tasks are two frames with a seek between them. Client sink: two streams are
what payload types, channels and blocks are shared by. Auth: two nonces of one
client and one of another are at least needed for claims, expiry and the check
that runs once a timeout. Preroll: three units are one before, at and behind a
seek. Description: seven payload types run out with four streams.

Deadlock is not checked: in every instance the environment may stop asking.

### Fairness

Safety needs none. For liveness:

* session pool: a cleaner keeps calling `cleanup` (the examples call it from a
  timer of the main loop); whoever is inside a pool function finishes it. Waiting
  for the lock is strongly fair, since others take and release it in between.
  Clients and clock are under no fairness;
* thread pool: pushed threads run, attached sources are dispatched, calls go on;
  the mutex is strongly fair. Users never have to stop;
* media and preroll: threads run, the bus is dispatched, the pipeline posts its
  message unless it fails, and then the wait gives up; streams that have data
  deliver it. Nobody has to make a request;
* stream transport: threads run, connections deliver or fail;
* client, service, client sink: each thread goes on with what it has begun (weak
  fairness per thread), a removed session is announced, a pipeline posts its
  messages. No user, peer or application has to act;
* player: the worker goes on, the event loop serves its timer and the queued
  signals until the user leaves, and the file ends (`Message`). No user has to
  click.

`BacklogDrains`, `MediaAnswers`, `ThreadsEnd`, `ExpiredGoes`, `ClosedIsFinalized`,
`ServiceEnds`, `PlayerEnds`, `StateChangeReturns` and `PrerollEnds` are the
liveness properties; the others are invariants and action properties.

## 5. What is proved

Eight modules of theorems, each with an inductive invariant of its own. They hold
for every value of the constants that satisfies the named assumption of the
module (finite sets of sessions, threads, callers, clients; sizes and bounds that
are naturals; `None` apart from the values); a theorem with a further hypothesis
says it in its statement, and below is why.

| module | theorems that state a property of a run | others |
|---|---|---|
| `SessionPoolProofs` | `SessionsAreTracked`, `LimitIsRespected`, `ReferencesAreBalanced`, `NoSessionExpiresEarly` | `TypeCorrect`, `SignalsOnce`, `FilterIsComplete` |
| `PoolsProofs` | `ThreadsAreTracked`, `MaxThreadsIsRespected`, `RangesAreTracked`, `AnswersAreExact` | `UsersAreCounted` |
| `StreamTransportProofs` | `SamplesAreKept`, `StreamIsFanout` (refinement) | |
| `MediaProofs` | `PreparesCounted`, `PlayersServed` | `Invariance` |
| `AuthProofs` | `RolesAreHeld`, `NoncesAreLive`, `OnlyTheEntitled` | |
| `StreamProofs` | `StreamHoldsAddresses`, `StreamSinksServe`, `StreamVisitsTransports` (action property) | |
| `ClientProofs` | `ClientFollowsSessions`, `ClientConnectionsHold` | `ClientInvariant` |
| `ServiceProofs` | `MountsImplementTable` (refinement), `RequestsAlwaysMatch`, `ClientsAlwaysHeld` | |

All have the shape Init => Inv, Inv /\ [Next]_vars => Inv', Inv => property, with
a lemma for each action. Facts about the next state are proved as lemmas about
the values they speak of, or as implications that hold in every state.

### Session pool

`IInv` is the conjunction of `TypeOK`, `SignalledOnce` and

* `PendingInv`: a session that waits for its signal (`emit`) is out of the table,
  was never signalled, and waits in one thread only. Every way into `emit` starts
  from the table.
* `CleanupInv`: the pool lock is held over steps exactly by the thread that is in
  the loop of `cleanup`, and what its iterator still has to yield is in the table.
* `FilterInv`: while the cookie a filter remembers equals the pool's, what its
  iterator still has to yield is in the table, since creation and removal both
  change the cookie.
* `VisitInv`: a session of `start` that is still in the pool was visited, or the
  iterator will yield it, or the iteration is going to restart.

Neither `SignalledOnce` nor `FilterVisitsAll` is inductive alone: the first does
not say that `emit` sets are disjoint, the second says nothing before the filter
is done.

`RefsBalance` is inductive with `IInv`: a step of one thread changes the count of
a session by what that thread then owns (`RefsStep`), so each action is compared
with what it takes and gives back, with no sum over threads.

`NoSessionExpiresEarly` has the hypothesis `TimeoutsFit`: the longest wait, in
milliseconds, is below 2^31 and the extra time lasts a millisecond. Without it the
conversion of `rtsp-session.c:748` wraps and the theorem is false, which section 6
lists. Its invariant `ClockInv` says that what a thread read from the clock is not
later than the clock, and that a session is touched now or earlier.

### Thread pool

`UseInv`: the user count of a thread that is alive is the number of callers that
own it or are taking the reference `get_thread` gives out, and a thread that is
not alive has none. *Alive* is the key notion: its loop was pushed and nobody has
begun to quit it, neither by an attached source (`idle`) nor by a caller that has
brought the count to 0 and has yet to attach it (`pc` "attach"). `QuitInv` says
that there is one such caller at most, `QueueInv` that a thread in the queue that
is not alive has the count 0, so that `gst_rtsp_thread_reuse` refuses it, and
`CountInv` that the references are those of owners, stoppers, source and loop.
`stop` takes no lock, so all four are about interleavings of atomic operations.

`MaxThreadsIsRespected` counts the distinct threads that the clients have. Its
invariant `LimitInv` is that each of them is in the queue, or was popped by the
one caller that recycles and is about to take it, and that the queue and that
caller are at most `limit`. A thread leaves the queue otherwise only when it has
no users, so recycling uses no new one, and a new one is made only while the
queue is shorter than the maximum. `limit` is without bound once a thread was made
while `max_threads` was 0 (section 6).

### Address pool

`RangesInv`: free and allocated ranges lie apart, cover exactly what was added,
and each is *good*: not empty, of one family, multicast or unicast as a whole.
`split_range` is followed byte by byte: `IncAddress` says that the carries of
`inc_address` make the sum, by the least byte at which the bytes so far, what is
carried and the bytes to come would not add up to it (there is no induction at
hand), and `diff_address` is the difference below 2^24 (`DiffAddress`), for any
size of a byte. `PowersAssumption` names the facts about powers that the provers,
which know no exponents, are given; TLC evaluates it. That the `guint` which
carries does not overflow is an assumption on the ranges (`AddressPoolAssumption`:
a range is shorter than 2^32 by a byte).
`HeldInv` adds that each range lies in one that was offered, for `AnswersFit`.

`OfferedOneKind`: an application adds no range that starts and ends in one kind
and has addresses of the other between (`add_range` looks at both ends only, so
it would be accepted and handed out wrongly). `NarrowRanges`, for `AnswersAreExact`
only: no range has 2^24 addresses; past that `diff_address` returns early
(`rtsp-address-pool.c:356`, section 6), and the run keeps within it too.

### Stream transport

`IInv`: who is in `check_transport_backlog` with an item in its hand holds the
lock of that backlog (`FrameInv`); the cache of the list is stale or right while
the send thread walks, and what it has yet to visit was listed (`ListInv`); the
time of a first RTP item is known exactly if there is one. `OrderInv` is about
times: as long as nobody has sought, items of a backlog, of the appsink, in the
send thread's hand and to come are in the order of their times, hence a backlog
stays within `MAX_BACKLOG_DURATION` and the assertion of
`rtsp-stream-transport.c:904` holds. A seek back makes later samples earlier and
both false, so `BacklogBounded` and `OnlySeekAborts` say so (`seeks = 0`).

`StreamIsFanout` maps each step under `IInv`: pushing appends to the queue of the
transport, sending takes its head, clearing empties it, everything else is a
stutter; the proof is one lemma per action about `Queue`. It is about safety;
`Fanout` states no fairness.

### Authentication

`IInv` has, besides types:

* `PermInv`: references of permissions, and a check that is under way
  (`allowed`) is exactly one that has a reference to give back;
* `FileInv`: references of tokens. The application has one of each token that it
  has not given up (`owned`); an entry of a file being read has the token of the
  call (`FileEntries`), which is what the count in `ParseFails` gives back;
* `UsedIsAlive`: the token of a request that nobody disturbed is in the tables, so
  it has a reference, although not the request's own;
* `NonceInv`: the last challenge is younger than one timeout since the last time
  expired nonces were looked for, and so was each unclaimed nonce at that time:
  hence twice the timeout. A nonce is gone only if it expired or the client that
  claimed it is closing;
* `RequestInv`, `EntitledInv`: which checks are left. For a DESCRIBE that
  nobody disturbed, having passed a check means that the role of its token allows
  it, and a request that has a token got it from its credentials;
* `WorksInv`: a right answer that was refused was one to another client's nonce,
  to one that expired, or to one that a challenge removed although it was not
  (`overtaken`). It needs `NonceInv`: the nonce of the client's own challenge is
  alive until then, unless another client claimed it (a departure) or a challenge
  that had read the clock before it was sent took the lock after.

### Media

`IInv` is types and two parts. `Base` says of each user that a request holds the
media lock and uses the media; that a user which has left but not finished
leaving (`Gone`) is alone; that the one thread that shuts the media down does so
while nobody uses it; and that a media that is being prepared has one user that
waits for it under the media lock. `PlayInv` is about a pipeline that works:
`n_active` is at least the number of transports counted (`CountedActive`; a PLAY
is in the list before it is counted), it is exactly that number as long as
nobody leaves without TEARDOWN or sends PLAY twice, and while it is not 0 the
target is PLAYING; the pipeline is in its target state, but for buffering; a
start source waits for a pipeline that has said nothing yet. One lemma per group
of actions proves each part; `Walk`, `PlayQuiet` and `PlaySets` say once what
they have in common.

Both theorems have a hypothesis, because without it the code does not do what
they say (section 6). In the run it is a choice of configurations (`MCConfs`):

* `PreparesCounted`: if users leave without TEARDOWN (`closes`) the media is not
  used again (`~reusable`); the second unprepare at the end of their session
  media (`rtsp-session-media.c:107`) goes without the media lock, and could undo
  the prepare of another client. `CountBalance` says nothing of `eos_shutdown`.
* `PlayersServed`: every configuration is `Undisturbed`: the same, with
  `eos_shutdown` as well, whose second unprepare counts below zero, and which is
  not combined with faults; and a media that clients send PLAY to while it plays
  (5331) is not used again. Such a media may be left and played in any way, once.

`PlayingKept` speaks of a pipeline without errors and timeouts (`~faults`), as in
the run; `UsersPrepared` and `CountBalance` are proved with them.

### Stream

The properties are in `IInv` themselves, each with what it needs:

* `NetInv`: which addresses and ports are bound. `PortsAgree` needs that ports of
  a pair start even and that pairs of the two kinds lie apart (`Even`, `Apart`),
  because a pool block is one pair; `PoolBalanced` is that the owner of a pool
  address is the stream exactly while the stream has it.
* `SocketInv`, `AddressInv`: a client past the allocation for its family has
  sockets, and a family with an address has some then. The assertions of
  `rtsp-stream.c` on sockets and addresses follow from them: `NoAbort` alone is
  not inductive, it says nothing before the assertion is evaluated.
* `ProbeInv`: a sink that waits has a pending probe that will plug it behind the
  tee, one that is linked directly is alone or has a probe; hence no sink holds up
  another (`QueuesIsolate`). `KnownInv`, `EarlyInv`: what sinks were told of
  sockets, and that a pad blocked early belongs to a source that is there.
* `ListInv`, `CountInv`, `DestInv`: the list of transports, without repetition;
  each multicast client that is ready or listed is counted at its destination, so
  that removing one never takes a destination from another.
* `FilterInv`: whoever is in the list when the filter starts and stays was visited
  or is at or behind the node the filter goes to next (`Ahead`). A step that
  removes or prepends moves the cookie, except in the multicast branch; that is
  what `FilterSafe` keeps apart.

Two things in the model changed because `NoAbort` was not inductive. An address
that DESCRIBE acquired stays when its family then gets no socket, and the
assertion at `rtsp-stream.c:1407` fails later; the run had not shown it because
`LateAddress` also counted clients that never come. It is a departure now
(`unbound`), and `LateAddress` counts those who come only.

### Client

Every step is first given a form in which the parts can be read (`Steps`: what a
request moves to, which fields of a client change, that a media only fades or is
made anew); then there is one lemma for each part of `IInv`:

* `RequestInv`: what a request that is at a step has found out; it has locked the
  media it is about, and its client has it cached where the code relies on that.
* `KnownInv`, `LifeInv`, `UntimedInv`: a session that was not made is nowhere, one
  that is emitted left the pool, a handler is connected exactly while a session is
  watched; with them `FinalizedClean`.
* `SetupInv`, `MediaInv`, `TornInv`: a SETUP that found no media of the session
  still is the one to make it, since the media lock is held from there; the media
  PLAY or TEARDOWN uses is there until it is taken out of its session.
* `HeldInv`: a request watches its session, or the session has left the pool. It
  carries `WatchersAreTold` over SETUP, PLAY and TEARDOWN.
* `ChanInv`, `TcpInv`: an interleaved media is found by its channel also while its
  owner handles a request for it after it was torn down, since that request clears
  the channel; its owner watches the session and has not visited it yet in the end
  of its watch. The latter is why no such media outlives its connection.
* `TimeInv`, `TunnelInv`: the timer and the half that waits, with the SETUP that
  is about to take the timer away and the connection that is about to merge.
* `PreparedBalance` is inductive with these: the preparations of a media are
  compared with the cardinalities of those who cache and manage it, before and
  after every step (`Bal`), and each session media that a step ends gives one back
  (`SettledBal`).

The proof corrected the model in three places. `client_session_removed` closes the
connection, and so gives up its tunnel id, only if no timer runs (`Closes`,
`rtsp-client.c:3889`); a half that was closed but has its watch still merges; and
`TcpEndsWithConnection` needs no exemption for sessions watched late. The model
lets a connection ask for a tunnel once.

### Service

`ServiceInv` is the conjunction of the invariants of the three parts.

* `MountsInv`: the paths of the sequence are distinct, and in order when it is not
  dirty. Both are needed: removal takes one item of a path away, and searches for
  it in a sequence that has to be sorted. `Sorted` is a sorted permutation, since
  `Rank` is a bijection (by cardinalities), so it leaves the table as it is; hence
  `MountsImplementTable`: mounting and unmounting are the steps of `MountTable`,
  sorting is a stutter.
* `MatchIsLongest` needs only that the sequence is in order. An item that ends the
  walk before the longest match lies between a match and the longest one, has the
  shorter as no prefix of itself, and so differs from it at the slash by a smaller
  character: it is the sibling that `Hides` names. Every other path is answered as
  the table says.
* `ServerInv`: the list of clients is that of the contexts, without repetition
  (`ListInv`), and each thread is used by the clients that have it and are not yet
  freed; while the cookie a filter remembers is the server's, every client up to
  the one it is at was visited (`UpTo`); the socket is that of the one source
  (`SocketInv`), unless a second source was attached.
* `FactoryInv`: who makes a media has the lock of the cache and, unless it found
  one that had ended (`again`), found nothing there, so a media that can be shared
  is overwritten in the departure `created_twice` only (`LockInv`). What a caller
  has is not finalized (`CallInv`); the count of a media is the number of callers
  that use it (`MediaInv`); a media leaves the cache only when it has ended for
  good, hence two callers with media of one key that can be shared have the same
  one (`CacheHasShared`).

`NothingLeft` follows from the two counts: without callers and clients, no thread
is used and no media prepared.

### What is not proved

Liveness and fairness, which the prover does not do: `ExpiredGoes`, `ThreadsEnd`
and the others of section 4. The invariants of `Player`, `ClientSink`, `Preroll`
and `Description` are model-checked only.

## 6. Where the code departs from what it promises

Properties name the departures they exempt. A reader can look at each: take the
exemption out of the property, or check the stronger statement that some modules
keep beside it (in brackets), and TLC shows the behaviour.

Sessions, threads, addresses:

* `rtsp-session-pool.c:672`: -1 means "no timeout" and "nothing collected", so a
  session that never times out can hide an expired one from the source of
  `create_watch`.
* `rtsp-session.c:748` truncates milliseconds to `gint`; 853 compares the other
  way round than `is_expired_usec`; the timeout is read twice (727, 740).
* `rtsp-session-pool.c:545` documents that func runs with the pool locked; it is
  unlocked first (598).
* `rtsp-thread-pool.c:474`: the pool lock stays locked when a client thread
  cannot be started (`start_failed`); 446 reads `max_threads` before it has the
  lock, so that one lowered to 0 in between makes 453 start a thread without a
  limit (`Unlimited`).
* `rtsp-address-pool.c`: `diff_address` returns early once a distance passes 2^24
  (356), `has_unicast_addresses` survives `clear` (217), a reservation partly taken
  answers ERANGE (707).

Media and preroll:

* `rtsp-session-media.c:107`: the second unprepare at the end of a session media,
  without the media lock, undoes the prepare of another client (`UsersPrepared`
  with `Confs <- MCClose`).
* `rtsp-media.c:5331`: a PLAY while playing counts the transport again
  [`ActiveCount`, `Confs <- MCReplay`]; 3283: the async-done of an earlier change
  ends the wait for a seek [`SeekPrerolled`]; 4325: the recursive state lock is
  released once where it is held twice, against the comment there
  [`NoShutdownDeadlock`, `Confs <- MCDynamic`].
* With `eos_shutdown` the second unprepare of a departure counts below zero; 5083
  sets PREPARED over an ERROR; after `prepare_failed` the status stays PREPARING
  (4292); `gst_rtsp_media_suspend` unlocks a lock it does not hold (4951, 4973).
* `rtsp-media.c:3651` counts blocking messages of the segment before a seek, 3263
  takes a stale async-done; a stream that ends before the seek position blocks
  nobody and the wait takes 20 seconds (`short`, 3198); `rtsp-stream.c:5350`
  asserts that a pad that blocks again did not block before; 5393 reads the
  position after the lock; 5411: a gap while a key unit is waited for leaves
  `buffer` NULL, and its flag is read (`null_buffer`, which ends the behaviour).

Stream and transport:

* `rtsp-stream-transport.c:904` asserts that timestamps of a backlog do not go
  back, which a seek makes them do (`OnlySeekAborts`, `BacklogBounded` of
  `StreamTransport`: only a seek does).
* `rtsp-stream.c:4130`: `continue_sending` and `send_thread` are not reset by a
  second join; 2705: `have_buffer` survives a flush; 2789: a sample stays in the
  appsink when the last transport goes; 4743: the multicast branch does not move
  the cookie, so a filter can go on with a freed node (`stale_next`); 4147 clears
  `joined_bin` before it refuses to leave.
* `rtsp-stream.c:1539`, 1715: an address whose sockets fail to bind is freed but
  kept (`preset_failed`); sinks are not told of sockets of a second family
  (`late_family`); `alloc_ports` overwrites an address DESCRIBE acquired
  (`overwritten`), or leaves it without a socket, where 1407 asserts that there is
  one (`unbound`, 1507); a multicast client that plays again is added again
  (`played_again`); 3799 asserts that no RTCP pad is blocked early
  (`left_blocked`).

Client, server, factory:

* `rtsp-client.c:713` passes the client where a `gboolean *` is expected, and the
  callback writes through it (`corrupted`); 4078 watches a session that ended
  meanwhile (`late_watch`); 2934, 5296: timers of sessions or of a client that
  ended (`ended_in_setup`, `late_timer`); 5297: a client that lost its connection
  keeps its UDP sessions for ever without a session timeout [`BrokenIsFinalized`,
  `Scenarios <- MCLeft`]; 1437: TEARDOWN of a shared session clears the channels of
  another client (`foreign_channel`); 3540: each ANNOUNCE prepares
  (`announced_again`); 2846, 3681: a session media used without a reference
  (`freed_media`); 5172: a tunnel id that two connections use
  (`tunnel_forgotten`); 3161: a SETUP
  refused by the application leaks a session reference (`leaked`).
* `rtsp-mount-points.c:288`: a sibling that sorts before the slash ends the walk
  before the longest match [`LongestMatch`].
* `rtsp-media-factory.c:1603`: the cache is not looked at again, two constructs
  make a media of one key (`created_twice`); 1582: a media ends between check and
  prepare (`ended_in_find`).
* `rtsp-server.c:1313`, 1497: the end of one source takes the socket of another,
  and a filter closes clients without the lock (`second_source`, `no_socket`).

Auth: a nonce is claimed by a client whose answer was wrong (`rtsp-auth.c:831`); 928 reads the clock before the lock, and a challenge that is
overtaken finds a younger check and younger nonces, whose unsigned ages (937,
946) are huge: it checks at once and removes them (`overtaken`); a request holds
its token without a reference (827, 855, 878), so that `remove_digest` and the
others can free it under the request (`RequestTokenAlive` is about tables that
stay as they are); a request refused by the settings check is answered and goes
on (`rtsp-client.c:2442`, `goes_on`); permissions in use cannot be changed, and
the call only warns (`rtsp-permissions.c:244`, `not_writable`).

Client sink: a command that arrives between reading and clearing the pending one
is lost (`lost_in_gap`, 2638), a RECONNECT replaces another (`became_reconnect`),
an OPEN is overwritten or posted behind a loop (`open_overwritten`, `open_behind`,
5159), the WAIT of a state change is replaced (`wait_replaced`), a wait for pads
before there is a connection cannot be flushed (`no_pads_no_connection`, 3693),
`collect_streams` and `loop_send_cmd` take two locks in opposite orders (3709,
2651), the inner bin starts after it was stopped (`late_bin`, `late_close`), a
preset payload type is ahead of the counter (`preset_ahead`, 1188), contexts
without a stream are announced (`no_stream`, 3750), streams are skipped when no
transport is left (`skipped`), and a refused method counts as success
(`refused_ok`, 3171).

Player: `addBarrierBlock` locks a mutex it holds (`OperationQueue.cpp:94`) and is
never called; nothing calls `PlayerController::destroy`, which would wait for a
worker that waits for a bus message (`Decoder.cpp:185`); the frame is passed as a
pointer over a queued connection (`PlayerController.cpp:48`), and the task whose
it is may have freed it when it is read (`freed_frame`); `is_playing` is used by
two threads without a lock; `seekTo` shows its frame before the timer announces
it.

Building and description: payload types for retransmission run out
(`out_of_types`) or are dealt again after the description was sent (`late_pad`,
`rtsp-media.c:2719`); `request-aux` is connected before the streams of dynamic
pads exist (4030); a removed stream leaves a gap, so the next one may get a taken
index or place (`gap`, `index_used`, 2605, 1938); pads of two streams get one name
(`same_name`); settings come too late for what exists (`keyunit_late`, `rtx_late`,
`dscp_not_given`); a description has a line for each profile but is taken by
position (`rtsp-sdp.c`, `gstrtspclientsink.c:4534`, `rtsp-client.c:3552`); a key
length before its algorithm is forgotten and a key length of authentication
overrides none (`rtsp-stream.c:6092`, 6128).

## 7. Not modelled

* Context and latency bin: a stack in one thread, and an element that forwards.
* Session header, getters, text forms of addresses, `dump`, SDP and MIKEY as bytes.
* Stream: statistics, queries, a `leave_bin` that is refused, the content of RTCP.
* Media: time provider, latency and position queries, tags other than bitrates.
* Preroll assumes that the first unit of a segment is a key unit, that key-unit
  expiry is for live sources, that live sources do not end and that the pipeline
  accepts seeks; `now` ranges are left out, but for their stop.
* Client: rate limits, the class hooks of subclasses, redirects.
* Server: binding sockets, `transfer_connection`.
* Auth: TLS certificates, realms, hashing. `check_url` looks at methods nobody sets.
* Client sink: properties, TLS, proxies, keep-alive, the sending of interleaved
  data, and the body of the reconnect, which does nothing.
* Player: `destroy` and the destructors, which nothing runs before the process
  ends; widgets, OpenGL, `QTaskQueueThread`, which nothing uses.
* Description: a payloader that a bin does not contain, a media that is suspended
  as opposed to prepared, parameters of MIKEY messages this code does not send.
* GStreamer itself: rtpbin, pads and caps negotiation appear as what they do to
  the code here.
