-------------------------------- MODULE Client --------------------------------
(***************************************************************************)
(* GstRTSPClient (rtsp-client.c): several clients, each with a connection  *)
(* and a thread, that share a session pool and the media of a server.  A   *)
(* client watches the sessions its requests name, caches the media of its  *)
(* last DESCRIBE, keeps the transports of its interleaved channels and is  *)
(* closed by its peer, by a timeout, by the end of its sessions or by the  *)
(* application.  Two connections may become the halves of one HTTP tunnel. *)
(*                                                                         *)
(* A request runs in steps between the locks of the pool, the client, the  *)
(* session and the media; the cleanup of the pool and the callbacks of its *)
(* session-removed run between them.                                       *)
(***************************************************************************)
EXTENDS Integers, Sequences, FiniteSets

CONSTANTS
    Clients, Sessions, Paths, Chan, None,
    Records,            \* paths of RECORD media; the others are shared PLAY media
    StopOnDisconnect,   \* paths of media that stop when a client disconnects
    DropBacklog,        \* drop-backlog of the clients
    PostTimeout,        \* post-session-timeout: -1, 0 or seconds
    CtrlTimeout,        \* RTSP_CTRL_TIMEOUT_VALUE
    Scenarios,          \* bound: requests and transports of the clients, who is closed by
                        \* others, and how many sessions others remove
    MaxQuirks           \* bound: departures of the code in one behaviour

\* Requests for a media, and those that need none.
MediaMethods == {"DESCRIBE", "ANNOUNCE", "SETUP", "PLAY", "PAUSE", "TEARDOWN", "RECORD"}
OtherMethods == {"OPTIONS", "GET_PARAMETER", "GET", "POST"}
Requests ==
    [method : MediaMethods, path : Paths] \cup [method : OtherMethods, path : Paths \cup {None}]

\* A media of a session, and an emission of session-removed.
SM == [in : BOOLEAN, state : {"init", "ready", "playing"}, owner : Clients,
       lower : {"tcp", "udp", "none"}, ch : Chan \cup {None}]
Emissions == [by : Clients \cup {None}, left : {None} \cup SUBSET Clients]

ASSUME ClientAssumption ==
    /\ IsFiniteSet(Clients) /\ IsFiniteSet(Sessions)
    /\ None \notin Clients \cup Sessions \cup Paths \cup Chan \cup Nat \cup (Sessions \X Paths)
    /\ None \notin SM \cup Emissions /\ None # {}
    /\ Clients \cap (Sessions \X Paths) = {}
    /\ Records \subseteq Paths /\ StopOnDisconnect \subseteq Paths
    /\ DropBacklog \in BOOLEAN /\ PostTimeout \in Int /\ PostTimeout >= -1
    /\ CtrlTimeout \in Nat \ {0} /\ MaxQuirks \in Nat
    /\ Scenarios \subseteq [requests : [Clients -> Seq(Requests)], lower : [Clients -> {"tcp", "udp"}],
                            closing : SUBSET Clients, removals : Nat]

VARIABLES
    cl,         \* what each client keeps
    pc,         \* the request each client handles
    pool,       \* the sessions of the pool
    fresh,      \* ids that were not given to a session yet
    emit,       \* the emission of session-removed for a session
    sm,         \* the media each session manages
    prepared,   \* prepare_count of the media of each path
    lock,       \* the client that holds the lock of the media of a path
    tunnel,     \* the client that waits in tunnels
    todo,       \* the requests each client will send while it is connected
    lower,      \* the transport each client asks for
    leaked,     \* sessions with a reference that nobody will give back
    closing, removals,  \* the clients that others close, what others may still remove
    quirks      \* the departures of the code that have happened (history)

callVars == <<cl, pc>>
poolVars == <<pool, fresh, emit>>
mediaVars == <<sm, prepared, lock>>
envVars == <<todo, lower, closing, removals>>
vars == <<callVars, poolVars, leaked, mediaVars, tunnel, envVars, quirks>>

Idle == [at |-> "idle", method |-> None, sess |-> None, path |-> None,
         media |-> None, made |-> FALSE]

NewClient ==
    [watch |-> "none", managed |-> TRUE, finalized |-> FALSE, closed |-> TRUE,
     visited |-> {}, sessions |-> {}, hooked |-> FALSE, timer |-> None,
     had |-> FALSE, cached |-> None, chan |-> [k \in Chan |-> None],
     tstate |-> "none", merged |-> FALSE]

Init ==
    /\ cl = [c \in Clients |-> NewClient]
    /\ pc = [c \in Clients |-> Idle]
    /\ pool = {} /\ fresh = Sessions /\ emit = [s \in Sessions |-> None]
    /\ sm = [s \in Sessions |-> [p \in Paths |-> None]]
    /\ prepared = [p \in Paths |-> 0] /\ lock = [p \in Paths |-> None]
    /\ tunnel = None /\ leaked = {}
    /\ \E x \in Scenarios : /\ todo = x.requests /\ lower = x.lower
                          /\ closing = x.closing /\ removals = x.removals
    /\ quirks = {}

Quirk(q) == quirks' = quirks \cup q

-----------------------------------------------------------------------------
(* Lifetimes.  A reference that is dropped last ends what it kept: each    *)
(* step says what is left in pc', cl' and emit' and settles the rest.      *)

\* References of a request, the pool, a client and an emission, and lost ones.
SessionUsed(s) ==
    \/ s \in pool' \cup leaked' \/ emit'[s] # None
    \/ \E c \in Clients : s \in cl'[c].sessions \/ pc'[c].sess = s

\* PLAY, PAUSE and TEARDOWN have a reference, SETUP and RECORD have not.
Holds(r, s, p) == r.media = <<s, p>> /\ r.method \notin {"SETUP", "RECORD"}
Uses(r, s, p) == r.media = <<s, p>>

Ended(m, s, p) ==
    /\ m[s][p] # None /\ ~(m[s][p].in /\ SessionUsed(s))
    /\ ~\E c \in Clients : Holds(pc'[c], s, p)

Unprepared(n, k) == IF n > k THEN n - k ELSE 0

\* gst_rtsp_session_media_finalize gives back the preparation.
Settle(m, n, q) ==
    LET ended == {x \in Sessions \X Paths : Ended(m, x[1], x[2])}
    IN  /\ sm' = [s \in Sessions |-> [p \in Paths |->
                    IF <<s, p>> \in ended THEN None ELSE m[s][p]]]
        /\ prepared' = [p \in Paths |->
                          Unprepared(n[p], Cardinality({s \in Sessions : <<s, p>> \in ended}))]
        /\ Quirk(q \cup IF \E x \in ended, c \in Clients : Uses(pc'[c], x[1], x[2])
                        THEN {"freed_media"} ELSE {})

Go(c, at) == pc' = [pc EXCEPT ![c].at = at]
Done(c) == pc' = [pc EXCEPT ![c] = Idle]
Unlock(c) == lock' = [p \in Paths |-> IF lock[p] = c THEN None ELSE lock[p]]

Alive(c) == ~cl[c].finalized

-----------------------------------------------------------------------------
(* The sessions a client watches. *)

client_watch_session(r, s) == [r EXCEPT !.sessions = @ \cup {s}, !.hooked = TRUE]

\* Mutant: the handler stays.
UnwatchKeep(r, s) == [r EXCEPT !.sessions = @ \ {s}]

client_unwatch_session(r, s) ==
    [r EXCEPT !.sessions = @ \ {s},
              !.hooked = IF s \in r.sessions THEN r.sessions # {s} ELSE @]

MustEnd(m, p) == m.lower = "tcp" \/ p \in StopOnDisconnect

\* filter_session_media for all media of a session.
FilteredMedia(s) ==
    [sm EXCEPT ![s] = [p \in Paths |->
        IF sm[s][p] # None /\ MustEnd(sm[s][p], p) THEN [sm[s][p] EXCEPT !.in = FALSE]
        ELSE sm[s][p]]]
Kept(s) == \E p \in Paths : sm[s][p] # None /\ sm[s][p].in /\ ~MustEnd(sm[s][p], p)

\* Without drop-backlog the filter is given the client for its flag.
Unfiltered(c, s) == IF DropBacklog \/ s \notin cl[c].sessions THEN sm ELSE FilteredMedia(s)
Corrupts(c, s) ==
    IF ~DropBacklog /\ s \in cl[c].sessions /\ Kept(s) THEN {"corrupted"} ELSE {}

\* gst_rtsp_client_close destroys the watch.
CloseEffect(r) == IF r.watch = "live" THEN [r EXCEPT !.watch = "dying", !.timer = None] ELSE r

\* A tunnel id goes with any connection that has it.
TunnelAfterClose(c) == IF cl[c].tstate # "none" THEN None ELSE tunnel
TunnelQuirk(c) ==
    IF cl[c].tstate # "none" /\ tunnel \notin {None, c} THEN {"tunnel_forgotten"} ELSE {}

\* The end of the last session starts a timer or closes the client, unless a
\* timer is there.
SessionEnds(r, s) ==
    LET u == client_unwatch_session(r, s)
    IN  IF u.sessions # {} \/ u.timer # None THEN u
        ELSE IF PostTimeout > 0 THEN [u EXCEPT !.timer = 0]
        ELSE IF PostTimeout = 0 THEN CloseEffect(u) ELSE u

Closes(r, s) ==
    LET u == client_unwatch_session(r, s)
    IN  PostTimeout = 0 /\ u.sessions = {} /\ u.timer = None

\* SETUP is about to take away the timer that was there, and a client whose
\* watch is gone gets one.
LateEnd(c, s) ==
    IF s \notin cl[c].sessions THEN {}
    ELSE (IF pc[c].method = "SETUP" /\ pc[c].sess = s /\ pc[c].at \notin {"remove", "emit", "emitted"}
          THEN {"ended_in_setup"} ELSE {})
         \cup IF cl[c].watch \in {"notify", "gone"} /\ SessionEnds(cl[c], s).timer # None
              THEN {"late_timer"} ELSE {}

client_session_removed(c, s) ==
    /\ cl' = [cl EXCEPT ![c] = SessionEnds(cl[c], s)]
    /\ tunnel' = IF Closes(cl[c], s) THEN TunnelAfterClose(c) ELSE tunnel

-----------------------------------------------------------------------------
(* The pool: what its other users do to a session. *)

\* gst_rtsp_session_pool_cleanup or filter takes the session out.
Remove(s, by) ==
    /\ pool' = pool \ {s} /\ UNCHANGED fresh
    /\ emit' = [emit EXCEPT ![s] = [by |-> by, left |-> None]]

Expire(s) ==
    /\ s \in pool /\ Remove(s, None)
    /\ removals > 0 /\ removals' = removals - 1
    /\ UNCHANGED <<callVars, mediaVars, tunnel, todo, lower, closing, quirks>>

EmitBegin(s) ==
    /\ emit[s] # None /\ emit[s].left = None
    /\ emit' = [emit EXCEPT ![s].left = {c \in Clients : cl[c].hooked}]
    /\ UNCHANGED <<callVars, pool, fresh, mediaVars, tunnel, envVars, quirks>>

\* A handler that is disconnected meanwhile is not called.
EmitTo(s, c) ==
    /\ emit[s] # None /\ emit[s].left # None /\ c \in emit[s].left
    /\ emit' = [emit EXCEPT ![s].left = @ \ {c}]
    /\ UNCHANGED <<pc, pool, fresh, lock, envVars>>
    /\ IF cl[c].hooked
       THEN /\ client_session_removed(c, s)
            /\ Settle(Unfiltered(c, s), prepared,
                      LateEnd(c, s) \cup Corrupts(c, s)
                        \cup IF Closes(cl[c], s) THEN TunnelQuirk(c) ELSE {})
       ELSE UNCHANGED <<cl, tunnel, sm, prepared, quirks>>

\* The emission ends, in the request that caused it or in the cleanup.
EmitEnd(s) ==
    /\ emit[s] # None /\ emit[s].left = {}
    /\ emit' = [emit EXCEPT ![s] = None]
    /\ pc' = IF emit[s].by = None THEN pc
             ELSE [pc EXCEPT ![emit[s].by].at = "emitted"]
    /\ UNCHANGED <<cl, pool, fresh, lock, tunnel, envVars>>
    /\ Settle(sm, prepared, {})

-----------------------------------------------------------------------------
(* Requests. *)

Known == Sessions \ fresh
Quiet(c) == pc[c] = Idle /\ cl[c].watch = "live"

\* handle_request finds the session that is named; the reference keeps it.
HandleRequest(c, q, s) ==
    /\ Quiet(c) /\ todo' = [todo EXCEPT ![c] = Tail(@)]
    /\ s \in {None} \cup (pool \cap Known)
    /\ pc' = [pc EXCEPT ![c] = [Idle EXCEPT !.at = IF s = None THEN "go" ELSE "found",
                                            !.method = q.method, !.path = q.path, !.sess = s]]
    /\ UNCHANGED <<cl, poolVars, mediaVars, tunnel, lower, closing, removals, quirks>>

LateWatch(s) == IF s \in pool \/ (emit[s] # None /\ emit[s].left = None) THEN {}
                ELSE {"late_watch"}

Watch(c) ==
    /\ pc[c].at = "found" /\ Go(c, "go")
    /\ cl' = [cl EXCEPT ![c] = client_watch_session(cl[c], pc[c].sess)]
    /\ Quirk(LateWatch(pc[c].sess))
    /\ UNCHANGED <<poolVars, mediaVars, tunnel, envVars>>

\* A request ends: it drops its session and its media.
Return(c) ==
    /\ Done(c) /\ Unlock(c)
    /\ UNCHANGED <<cl, poolVars, tunnel, envVars>>
    /\ Settle(sm, prepared, {})

Manages(s, p) ==
    IF s = None THEN FALSE ELSE IF sm[s][p] = None THEN FALSE ELSE sm[s][p].in

\* OPTIONS and the parameters need nothing; other methods are refused without
\* a session, or without the media in it.
handle_options_request(c) == pc[c].at = "go" /\ pc[c].method = "OPTIONS" /\ Return(c)
handle_param_request(c) == pc[c].at = "go" /\ pc[c].method = "GET_PARAMETER" /\ Return(c)

NotFound(c) ==
    /\ pc[c].at = "go" /\ pc[c].method \in {"PLAY", "PAUSE", "TEARDOWN", "RECORD"}
    /\ ~Manages(pc[c].sess, pc[c].path)
    /\ Return(c)

\* No transport, refused by a signal, no factory or not authorized for it: the
\* media that is cached stays.
Refused(c) == pc[c].at = "go" /\ pc[c].method \in {"DESCRIBE", "ANNOUNCE", "SETUP"} /\ Return(c)

\* find_media: a path that is not the cached one replaces it.
Cached(c, p) == cl[c].cached = p

CacheCleaned(c) ==
    IF cl[c].cached = None THEN prepared
    ELSE [prepared EXCEPT ![cl[c].cached] = Unprepared(@, 1)]

\* Mutant: the media that was cached before stays prepared.
FoundKeep(c, p) == [prepared EXCEPT ![p] = IF p \in Records THEN @ ELSE @ + 1]
FoundNew(c, p) ==
    [CacheCleaned(c) EXCEPT ![p] = IF p \in Records THEN @ ELSE @ + 1]

\* Construction, its thread or preparation fails, after the old media went.
FindFails(c) ==
    /\ ~Cached(c, pc[c].path)
    /\ cl' = [cl EXCEPT ![c].cached = None]
    /\ Done(c)
    /\ UNCHANGED <<poolVars, lock, tunnel, envVars>>
    /\ Settle(sm, CacheCleaned(c), {})

FindMedia(c, at) ==
    LET p == pc[c].path
    IN  /\ lock[p] = None /\ lock' = [lock EXCEPT ![p] = c]
        /\ cl' = [cl EXCEPT ![c].cached = p]
        /\ prepared' = IF Cached(c, p) THEN prepared ELSE FoundNew(c, p)
        /\ Go(c, at)
        /\ UNCHANGED <<poolVars, sm, tunnel, envVars, quirks>>

\* DESCRIBE leaves the media in the cache, also when it fails later on.
Describe(c) ==
    /\ pc[c].at = "go" /\ pc[c].method = "DESCRIBE"
    /\ FindMedia(c, "described") \/ FindFails(c)

\* ANNOUNCE prepares the media each time.
Announce(c) ==
    /\ pc[c].at = "go" /\ pc[c].method = "ANNOUNCE"
    /\ FindMedia(c, "announced") \/ FindFails(c)

HandleSdp(c) ==
    LET p == pc[c].path
    IN  /\ pc[c].at = "announced"
        /\ Done(c) /\ Unlock(c)
        /\ UNCHANGED <<cl, poolVars, tunnel, envVars>>
        /\ \/ /\ p \in Records
              /\ Settle(sm, [prepared EXCEPT ![p] = @ + 1],
                        IF prepared[p] > 0 THEN {"announced_again"} ELSE {})
           \/ Settle(sm, prepared, {})

Described(c) == pc[c].at = "described" /\ Return(c)

\* The media of the session; PLAY, PAUSE and TEARDOWN take a reference to it.
DupMedia(c) ==
    LET s == pc[c].sess
        p == pc[c].path
    IN  /\ pc[c].at = "go"
        /\ pc[c].method \in {"PLAY", "PAUSE", "TEARDOWN", "RECORD"}
        /\ Manages(s, p)
        /\ pc' = [pc EXCEPT ![c].at = "dup", ![c].media = <<s, p>>]
        /\ UNCHANGED <<cl, poolVars, mediaVars, tunnel, envVars, quirks>>

Lookup(c) == IF pc[c].media = None THEN None ELSE sm[pc[c].media[1]][pc[c].media[2]]
SetMedia(c, m) == [sm EXCEPT ![pc[c].media[1]][pc[c].media[2]] = m]

\* A state that does not fit, a pipeline that fails and a media that is not
\* prepared end it.
Starts(c, mode) ==
    \/ /\ mode /\ Lookup(c).state \in {"ready", "playing"} /\ prepared[pc[c].path] > 0
       /\ Settle(SetMedia(c, [Lookup(c) EXCEPT !.state = "playing"]), prepared, {})
    \/ Settle(sm, prepared, {})

Play(c) ==
    /\ pc[c].at = "dup" /\ pc[c].method = "PLAY" /\ lock[pc[c].path] = None
    /\ Done(c) /\ UNCHANGED <<cl, poolVars, lock, tunnel, envVars>>
    /\ Starts(c, pc[c].path \notin Records)

\* RECORD does not lock the media and has no reference to it.
Record(c) ==
    /\ pc[c].at = "dup" /\ pc[c].method = "RECORD" /\ Lookup(c) # None
    /\ Done(c) /\ UNCHANGED <<cl, poolVars, lock, tunnel, envVars>>
    /\ Starts(c, pc[c].path \in Records)

Pause(c) ==
    /\ pc[c].at = "dup" /\ pc[c].method = "PAUSE" /\ lock[pc[c].path] = None
    /\ Done(c) /\ UNCHANGED lock
    /\ UNCHANGED <<cl, poolVars, tunnel, envVars>>
    /\ Settle(IF Lookup(c).state = "playing"
              THEN SetMedia(c, [Lookup(c) EXCEPT !.state = "ready"]) ELSE sm, prepared, {})

\* TEARDOWN takes the media out of the session and the session out of the pool
\* when it was the last.
More(s, p) == \E p2 \in Paths \ {p} : sm[s][p2] # None /\ sm[s][p2].in

Teardown(c) ==
    LET s == pc[c].sess
        p == pc[c].path
    IN  /\ pc[c].at = "dup" /\ pc[c].method = "TEARDOWN" /\ lock[p] = None
        /\ lock' = [lock EXCEPT ![p] = c]
        /\ sm' = SetMedia(c, [Lookup(c) EXCEPT !.in = FALSE, !.state = "init"])
        /\ Go(c, IF More(s, p) THEN "emitted" ELSE "remove")
        /\ UNCHANGED <<cl, poolVars, prepared, tunnel, envVars, quirks>>

TeardownRefused(c) ==
    /\ pc[c].at = "dup" /\ pc[c].method = "TEARDOWN" /\ lock[pc[c].path] = None
    /\ Return(c)

\* gst_rtsp_session_pool_remove of TEARDOWN and of a SETUP that failed.
PoolRemove(c) ==
    LET s == pc[c].sess
    IN  /\ pc[c].at = "remove"
        /\ IF s \in pool
           THEN Remove(s, c) /\ Go(c, "emit")
           ELSE Go(c, "emitted") /\ UNCHANGED poolVars
        /\ UNCHANGED <<cl, mediaVars, tunnel, envVars, quirks>>

\* Channels are cleared by their numbers, whoever set the transport up.
Foreign(c, m) ==
    IF m # None /\ m.lower = "tcp" /\ m.owner # c /\ cl[c].chan[m.ch] # None
    THEN {"foreign_channel"} ELSE {}

cleanup_transports(c, m) ==
    IF m # None /\ m.lower = "tcp" THEN [cl[c] EXCEPT !.chan[m.ch] = None] ELSE cl[c]

TeardownEnd(c) ==
    /\ pc[c].at = "emitted" /\ pc[c].method = "TEARDOWN"
    /\ cl' = [cl EXCEPT ![c] = cleanup_transports(c, Lookup(c))]
    /\ Done(c) /\ Unlock(c)
    /\ UNCHANGED <<poolVars, tunnel, envVars>>
    /\ Settle(sm, prepared, Foreign(c, Lookup(c)))

-----------------------------------------------------------------------------
(* SETUP. *)

\* A media of the session is used without a reference, else one is found.
SetupLookup(c) ==
    LET s == pc[c].sess
        p == pc[c].path
    IN  /\ pc[c].at = "go" /\ pc[c].method = "SETUP"
        /\ s # None => sm[s][p] = None \/ Manages(s, p)
        /\ IF Manages(s, p)
           THEN /\ pc' = [pc EXCEPT ![c].at = "setup_lock", ![c].media = <<s, p>>]
                /\ UNCHANGED <<cl, poolVars, mediaVars, tunnel, envVars, quirks>>
           ELSE FindMedia(c, "setup") \/ FindFails(c)

SetupLock(c) ==
    /\ pc[c].at = "setup_lock" /\ lock[pc[c].path] = None
    /\ lock' = [lock EXCEPT ![pc[c].path] = c]
    /\ Go(c, "setup")
    /\ UNCHANGED <<cl, poolVars, sm, prepared, tunnel, envVars, quirks>>

\* No stream for the control, refused by a signal, or no session to be had.
SetupRefused(c) == pc[c].at = "setup" /\ ~pc[c].made /\ Return(c)

\* Refused by the signal, the request keeps the reference to the session it named.
SetupLeaks(c) ==
    /\ pc[c].sess # None /\ leaked' = leaked \cup {pc[c].sess}
    /\ SetupRefused(c)

\* A session is created; the client watches it.
SetupCreate(c) ==
    /\ pc[c].at = "setup" /\ pc[c].sess = None
    /\ \E s \in fresh :
         /\ fresh' = fresh \ {s} /\ pool' = pool \cup {s}
         /\ pc' = [pc EXCEPT ![c].at = "setup_watch", ![c].sess = s, ![c].made = TRUE]
    /\ UNCHANGED <<cl, emit, mediaVars, tunnel, envVars, quirks>>

SetupWatch(c) ==
    /\ pc[c].at = "setup_watch" /\ Go(c, "setup")
    /\ cl' = [cl EXCEPT ![c] = client_watch_session(cl[c], pc[c].sess)]
    /\ Quirk(LateWatch(pc[c].sess))
    /\ UNCHANGED <<poolVars, mediaVars, tunnel, envVars>>

\* From here on the client is not timed out.
HadSession(r) == [r EXCEPT !.had = TRUE, !.timer = None]

\* The session takes the preparation over from the cache.
manage_media(c, n) == n

\* Mutant: a channel that is taken is used again.
ChannelAny(r, k) == TRUE
ChannelFree(r, k) == r.chan[k] = None

NewMedia(c, k) == [in |-> TRUE, state |-> "init", owner |-> c, lower |-> lower[c], ch |-> k]

\* The transport of a stream that is set up again is replaced.
Configured(c, k) ==
    LET s == pc[c].sess
        p == pc[c].path
        old == IF pc[c].media = None THEN NewMedia(c, k) ELSE sm[s][p]
    IN  [old EXCEPT !.owner = c, !.lower = lower[c], !.ch = k,
                    !.state = IF @ = "init" THEN "ready" ELSE @]

\* The session goes on with the media, the client with its transport.
SetupTransport(c, k) ==
    LET s == pc[c].sess
        p == pc[c].path
        r == HadSession(cl[c])
    IN  /\ pc[c].at = "setup" /\ s # None
        /\ IF lower[c] = "tcp" THEN k \in Chan /\ ChannelFree(r, k) ELSE k = None
        /\ cl' = [cl EXCEPT ![c] =
              [r EXCEPT !.cached = IF pc[c].media = None THEN None ELSE @,
                        !.chan = [j \in Chan |-> IF j = k THEN <<s, p>> ELSE @[j]]]]
        /\ Done(c) /\ Unlock(c)
        /\ UNCHANGED <<poolVars, tunnel, envVars>>
        /\ Settle([sm EXCEPT ![s][p] = Configured(c, k)],
                  IF pc[c].media = None THEN manage_media(c, prepared) ELSE prepared, {})

\* Refused before or after the media is managed; a session that was made for it
\* is removed.
SetupFails(c, managed) ==
    LET s == pc[c].sess
        p == pc[c].path
        r == HadSession(cl[c])
        new == managed /\ pc[c].media = None
    IN  /\ pc[c].at = "setup" /\ s # None
        /\ cl' = [cl EXCEPT ![c] = [r EXCEPT !.cached = IF new THEN None ELSE @]]
        /\ pc' = [pc EXCEPT ![c] = IF @.made THEN [@ EXCEPT !.at = "remove", !.media = None]
                                   ELSE Idle]
        /\ Unlock(c)
        /\ UNCHANGED <<poolVars, tunnel, envVars>>
        /\ Settle(IF new THEN [sm EXCEPT ![s][p] = [NewMedia(c, None) EXCEPT !.lower = "none"]]
                  ELSE sm, prepared, {})

SetupEnd(c) == pc[c].at = "emitted" /\ pc[c].method = "SETUP" /\ Return(c)

-----------------------------------------------------------------------------
(* Connections. *)

gst_rtsp_client_attach(c) ==
    /\ cl[c].watch = "none" /\ todo[c] # <<>>
    /\ cl' = [cl EXCEPT ![c].watch = "live", ![c].timer = 0]
    /\ UNCHANGED <<pc, poolVars, mediaVars, tunnel, envVars, quirks>>

\* The peer closes, the application or the server closes the client.
Close(c) ==
    /\ c \in closing /\ cl[c].watch = "live"
    /\ cl' = [cl EXCEPT ![c] = CloseEffect(cl[c])]
    /\ tunnel' = TunnelAfterClose(c) /\ Quirk(TunnelQuirk(c))
    /\ UNCHANGED <<pc, poolVars, mediaVars, envVars>>

\* rtsp_ctrl_timeout_cb, every RTSP_CTRL_CB_INTERVAL in the thread of the client.
TimedOut(r) ==
    \/ r.timer + 1 > CtrlTimeout
    \/ r.had /\ r.timer + 1 > PostTimeout

rtsp_ctrl_timeout_cb(c) ==
    /\ Alive(c) /\ cl[c].timer # None /\ pc[c] = Idle
    /\ IF TimedOut(cl[c])
       THEN /\ cl' = [cl EXCEPT ![c] = [CloseEffect(cl[c]) EXCEPT !.timer = None]]
            /\ tunnel' = TunnelAfterClose(c) /\ Quirk(TunnelQuirk(c))
       ELSE /\ cl' = [cl EXCEPT ![c].timer = @ + 1]
            /\ UNCHANGED <<tunnel, quirks>>
    /\ UNCHANGED <<pc, poolVars, mediaVars, envVars>>

Notified(r) == [r EXCEPT !.watch = "notify", !.closed = TRUE, !.timer = None]

\* client_watch_notify: the watch is gone, its sessions are filtered one by one.
client_watch_notify(c) ==
    /\ cl[c].watch = "dying" /\ pc[c] = Idle
    /\ cl' = [cl EXCEPT ![c] = Notified(cl[c])]
    /\ UNCHANGED <<pc, poolVars, mediaVars, tunnel, envVars, quirks>>

\* One flag for all sessions: after a session that is kept all are.
ClosedAfter(c, s) == cl[c].closed /\ ~(DropBacklog /\ Kept(s))

\* gst_rtsp_client_session_filter, which starts again when the list has changed.
Unvisited(c) == cl[c].sessions \ cl[c].visited

cleanup_session(c, s) ==
    /\ cl[c].watch = "notify" /\ s \in Unvisited(c)
    /\ LET closed == ClosedAfter(c, s)
           r == [cl[c] EXCEPT !.visited = @ \cup {s}, !.closed = closed]
       IN  /\ cl' = [cl EXCEPT ![c] = IF closed THEN client_unwatch_session(r, s) ELSE r]
           /\ UNCHANGED <<pc, poolVars, lock, tunnel, envVars>>
           /\ Settle(FilteredMedia(s), prepared,
                     IF closed THEN Corrupts(c, s) ELSE {})

\* The closed signal lets the server drop the client.
NotifyEnd(c) ==
    /\ cl[c].watch = "notify" /\ Unvisited(c) = {}
    /\ cl' = [cl EXCEPT ![c].watch = "gone", ![c].managed = ~cl[c].closed,
                        ![c].visited = {}]
    /\ UNCHANGED <<pc, poolVars, mediaVars, tunnel, envVars, quirks>>

\* The last reference: of the watch, the server, the signal handler and tunnels.
Finalize(c) ==
    /\ Alive(c) /\ cl[c].watch = "gone" /\ ~cl[c].managed /\ ~cl[c].hooked
    /\ tunnel # c /\ \A c2 \in Clients : pc[c2].media # c
    /\ cl' = [cl EXCEPT ![c].finalized = TRUE, ![c].cached = None]
    /\ prepared' = CacheCleaned(c)
    /\ UNCHANGED <<pc, poolVars, sm, lock, tunnel, envVars, quirks>>

-----------------------------------------------------------------------------
(* HTTP tunnels, for one tunnel id. *)

\* handle_tunnel: the first half waits in tunnels, the second finds it there.
\* Bound: a connection asks for a tunnel once.
HandleTunnel(c, half) ==
    /\ Quiet(c) /\ cl[c].tstate = "none" /\ todo' = [todo EXCEPT ![c] = Tail(@)]
    /\ IF tunnel = None
       THEN /\ tunnel' = c /\ UNCHANGED pc
       ELSE /\ tunnel' = None
            /\ pc' = [pc EXCEPT ![c] = [Idle EXCEPT !.at = "tunnel", !.media = tunnel]]
    /\ cl' = [cl EXCEPT ![c].tstate = half]
    /\ UNCHANGED <<poolVars, mediaVars, lower, closing, removals, quirks>>

Halves(c, o) == cl[o].tstate # cl[c].tstate

\* Both become one when the first still has its watch, which a close takes away
\* at once and its peer later, and is the other half; the connection that was
\* found by a duplicate is not put back.
MergeTunnel(c) ==
    LET o == pc[c].media
    IN  /\ pc[c].at = "tunnel" /\ Done(c)
        /\ \/ cl[o].watch # "live" /\ UNCHANGED <<cl, quirks>>
           \/ /\ cl[o].watch \in {"live", "dying"} /\ ~Halves(c, o)
              /\ Quirk({"tunnel_forgotten"}) /\ UNCHANGED cl
           \/ /\ cl[o].watch \in {"live", "dying"} /\ Halves(c, o)
              /\ cl' = [cl EXCEPT ![o].merged = TRUE, ![c] = [CloseEffect(@) EXCEPT !.merged = TRUE]]
              /\ UNCHANGED quirks
        /\ UNCHANGED <<poolVars, mediaVars, tunnel, envVars>>

\* The POST half is lost: the GET half waits again.
tunnel_lost(c) ==
    /\ cl[c].merged /\ Quiet(c)
    /\ cl' = [cl EXCEPT ![c].merged = FALSE]
    /\ tunnel' = IF tunnel = None THEN c ELSE tunnel
    /\ Quirk(IF tunnel = None THEN {} ELSE {"tunnel_forgotten"})
    /\ UNCHANGED <<pc, poolVars, mediaVars, envVars>>

-----------------------------------------------------------------------------
Request(c) ==
    \/ Watch(c) \/ handle_options_request(c) \/ handle_param_request(c) \/ NotFound(c) \/ Refused(c)
    \/ Describe(c) \/ Announce(c) \/ HandleSdp(c) \/ Described(c)
    \/ DupMedia(c) \/ Play(c) \/ Record(c) \/ Pause(c) \/ Teardown(c) \/ TeardownRefused(c)
    \/ PoolRemove(c) \/ TeardownEnd(c)
    \/ SetupLookup(c) \/ SetupLock(c) \/ SetupRefused(c) \/ SetupCreate(c) \/ SetupWatch(c)
    \/ (\E k \in Chan \cup {None} : SetupTransport(c, k))
    \/ (\E b \in BOOLEAN : SetupFails(c, b)) \/ SetupEnd(c)
    \/ MergeTunnel(c)

Ending(c) ==
    \/ client_watch_notify(c) \/ (\E s \in Sessions : cleanup_session(c, s))
    \/ NotifyEnd(c) \/ Finalize(c)

Emission(s) == EmitBegin(s) \/ (\E c \in Clients : EmitTo(s, c)) \/ EmitEnd(s)

Arrives(c) ==
    \/ gst_rtsp_client_attach(c) \/ Close(c)
    \/ /\ todo[c] # <<>>
       /\ IF Head(todo[c]).method \in {"GET", "POST"} THEN HandleTunnel(c, Head(todo[c]).method)
          ELSE \E s \in Sessions \cup {None} : HandleRequest(c, Head(todo[c]), s)
    \/ tunnel_lost(c)

(* The thread of a client serves its requests, its timer and the end of    *)
(* its watch; a session that is left alone expires.                        *)
Thread(c) ==
    \/ UNCHANGED leaked /\ (Request(c) \/ Ending(c) \/ rtsp_ctrl_timeout_cb(c))
    \/ SetupLeaks(c)

SessionLeaves(s) == UNCHANGED leaked /\ (Emission(s) \/ Expire(s))

\* A write into the client, or to a media that is gone, ends what is modelled.
Next ==
    /\ quirks \cap {"corrupted", "freed_media"} = {} /\ Cardinality(quirks) <= MaxQuirks
    /\ \/ \E c \in Clients : Thread(c) \/ (UNCHANGED leaked /\ Arrives(c))
       \/ \E s \in Sessions : SessionLeaves(s)

Fairness ==
    /\ \A c \in Clients : WF_vars(Thread(c))
    /\ \A s \in Sessions : WF_vars(SessionLeaves(s))

Spec == Init /\ [][Next]_vars /\ Fairness

-----------------------------------------------------------------------------
(* Properties. *)

Without(q) == quirks \cap q = {}

TypeOK ==
    /\ \A c \in Clients :
         /\ cl[c].watch \in {"none", "live", "dying", "notify", "gone"}
         /\ cl[c].sessions \subseteq Known /\ cl[c].timer \in Nat \cup {None}
         /\ cl[c].cached \in Paths \cup {None}
    /\ pool \subseteq Known /\ leaked \subseteq Sessions
    /\ \A s \in Sessions, p \in Paths : sm[s][p] \in SM \cup {None}
    /\ prepared \in [Paths -> Nat] /\ lock \in [Paths -> Clients \cup {None}]

(* Every media is prepared exactly as often as a client has it cached or a *)
(* session manages it: what find_media, the hand-over of SETUP, all its    *)
(* failures, TEARDOWN, and the end of sessions and clients do adds up.     *)
(* ANNOUNCE prepares a media each time it is sent.                         *)
Holders(p) ==
    Cardinality({c \in Clients : cl[c].cached = p}) + Cardinality({s \in Sessions : sm[s][p] # None})

PreparedBalance ==
    Without({"announced_again", "freed_media"}) =>
      \A p \in Paths : prepared[p] <= Holders(p) /\ (p \notin Records => prepared[p] = Holders(p))

(* A session a client watches is in the pool, or the client is going to be *)
(* told that it left; not so when it left while the request that names it  *)
(* was about to watch it.                                                  *)
WatchersAreTold ==
    Without({"late_watch"}) =>
      \A c \in Clients : \A s \in cl[c].sessions :
        \/ s \in pool
        \/ emit[s] # None /\ (emit[s].left = None \/ c \in emit[s].left) /\ cl[c].hooked

(* A connection without a session is timed: it cannot stay open for ever,  *)
(* but when post-session-timeout leaves it to the system or the session    *)
(* ended while SETUP was about to take the timer away.                     *)
IdleIsTimed ==
    Without({"ended_in_setup"}) =>
      \A c \in Clients :
        cl[c].watch = "live" /\ cl[c].sessions = {} /\ pc[c] = Idle
          => cl[c].timer # None \/ (cl[c].had /\ PostTimeout = -1)

(* The assertions of finalize: nothing the client registered outlives it,  *)
(* unless its last session ends while the end of its watch is handled.     *)
FinalizedClean ==
    Without({"late_timer"}) =>
    \A c \in Clients :
      cl[c].finalized => cl[c].timer = None /\ cl[c].sessions = {} /\ ~cl[c].hooked

(* What is sent to a client over its connection finds its transport, and   *)
(* no other one: the channel of a media is the one the client has for it.  *)
(* TEARDOWN of a session of another client clears channels of the same     *)
(* numbers.                                                                *)
OwnChannels ==
    Without({"foreign_channel"}) =>
      \A s \in pool, p \in Paths :
        LET m == sm[s][p]
        IN  m # None /\ m.in /\ m.lower = "tcp" => cl[m.owner].chan[m.ch] = <<s, p>>

(* An interleaved media does not outlive its connection, whichever thread  *)
(* closed it and whatever request was under way.                           *)
TcpEndsWithConnection ==
    \A s \in pool, p \in Paths :
      LET m == sm[s][p]
      IN  m # None /\ m.in /\ m.lower = "tcp" => cl[m.owner].watch # "gone"

(* Half a tunnel that waits is found by the other half: it is in tunnels,  *)
(* or somebody is looking at it.  Not so after a duplicate found it, or    *)
(* another connection with its id was closed.                              *)
TunnelIsFound ==
    /\ Without({"tunnel_forgotten"}) =>
         \A c \in Clients :
           cl[c].watch = "live" /\ cl[c].tstate # "none" /\ ~cl[c].merged /\ pc[c] = Idle
             => tunnel = c \/ (\E c2 \in Clients : pc[c2].media = c)
                  \/ \E o \in Clients \ {c} : cl[o].tstate # "none" /\ cl[o].watch # "live"
    /\ \A c \in Clients : cl[c].merged => \E c2 \in Clients \ {c} : cl[c2].tstate # cl[c].tstate

(* A client that was closed and kept no session is finalized.              *)
ClosedIsFinalized ==
    \A c \in Clients : cl[c].watch = "gone" /\ cl[c].closed ~> cl[c].finalized

(* "A client is finalized when the connection is broken", at the latest    *)
(* when its sessions have expired.                                         *)
BrokenIsFinalized ==
    \A c \in Clients : cl[c].watch = "gone" ~> cl[c].finalized

(* What a client caches, prepares and watches follows its sessions: each    *)
(* media is prepared once for each holder, each watched session is in the   *)
(* pool or its end is on the way, and nothing outlives the client.          *)
SessionsFollow ==
    /\ TypeOK
    /\ PreparedBalance
    /\ WatchersAreTold
    /\ FinalizedClean

(* What depends on a connection lives as long as it does: channels find     *)
(* their transport, interleaved media end with it, half a tunnel is found,  *)
(* and an idle connection is timed.                                         *)
ConnectionsHold ==
    /\ OwnChannels
    /\ TcpEndsWithConnection
    /\ TunnelIsFound
    /\ IdleIsTimed
===============================================================================
