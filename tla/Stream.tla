-------------------------------- MODULE Stream --------------------------------
(***************************************************************************)
(* GstRTSPStream (rtsp-stream.c): the addresses and sockets of a stream,   *)
(* the elements it adds to the pipeline for each kind of transport, the    *)
(* list of transports with the multicast destinations.                     *)
(*                                                                         *)
(* The threads are those of the clients, one for each transport; each call *)
(* of the stream holds its lock and is one action.  The order of the calls *)
(* of a client is that of rtsp-client.c and rtsp-media.c.  Other streams   *)
(* share the address pool, and any port may be taken by somebody else.     *)
(***************************************************************************)
EXTENDS Integers, Sequences, FiniteSets, SequencesExt

CONSTANTS
    Trans,          \* transports, each of a client
    Kind,           \* lower transport of each: "udp", "mcast" or "tcp"
    Fam,            \* family of the connection of each client
    Own,            \* the port a client asks for (multicast), or None
    Family, Ports,
    Pool,           \* <<kind, family, port>> of the address pool
    EnableRtcp,
    IsSender,       \* PLAY: there is a srcpad; RECORD: there is a sinkpad
    None,
    Scenarios,      \* bound: clients, families of the host, calls left out of
                    \* MaxJoins and MaxFilters
    Contended,      \* bound: what other streams take of the pool
    MaxJoins, MaxFilters,   \* bounds: calls of join_bin and transport_filter
    MaxAdded, MaxQuirks     \* bounds: of mcast_clients, and departures in a behaviour

Udp == {"udp", "mcast"}
Kinds == Udp \cup {"tcp"}
Index == IF EnableRtcp THEN {0, 1} ELSE {0}
SinkIndex == Index \ (IF IsSender THEN {} ELSE {0})
SourceIndex == Index \ (IF IsSender THEN {0} ELSE {})
Address == [port : Ports, pooled : BOOLEAN]
Filters == [at : Trans, next : Trans \cup {None}, moved : BOOLEAN, visited : SUBSET Trans,
            stay : SUBSET Trans, dead : Trans \cup {None}]

ASSUME StreamAssumption ==
    /\ IsFiniteSet(Trans) /\ Family = {"v4", "v6"}
    /\ Kind \in [Trans -> Kinds] /\ Fam \in [Trans -> Family]
    /\ Own \in [Trans -> Ports \cup {None}]
    /\ Pool \subseteq Udp \X Family \X {p \in Ports : p % 2 = 0}
    /\ Scenarios \subseteq [clients : SUBSET Trans, host : SUBSET Family,
                            joins : Nat, filters : Nat]
    /\ Ports \subseteq Nat /\ Contended \subseteq Pool
    /\ EnableRtcp \in BOOLEAN /\ IsSender \in BOOLEAN
    /\ None \notin Ports \cup Address \cup Trans \cup Filters
    /\ {MaxJoins, MaxFilters, MaxAdded, MaxQuirks} \subseteq Nat

VARIABLES
    host,           \* the families the host has
    addr,           \* server_addr and mcast_addr of each family
    socket,         \* the RTP port the sockets of each are bound to
    owner,          \* of each pool address: "free", "us" or "other"
    joined, joins,
    sink,           \* of each index and kind: none, waiting, direct or queued
    pending,        \* idle probes that will put queues behind a tee
    source,         \* <<index, kind, family>> of the sources
    early,          \* families whose RTCP source is blocked by an early probe
    known,          \* families a UDP sink got a socket for
    transports, client,     \* the list, and the transports added to the sinks
    mcast_clients,  \* how often each <<family, port>> was added
    phase, dest,    \* of the client of each transport
    filter, filters,        \* a call of transport_filter, and how many there were
    quirks          \* the departures of the code that have happened (history)

netVars == <<host, addr, socket, owner>>
graphVars == <<joined, joins, sink, pending, source, early, known>>
listVars == <<transports, client, mcast_clients>>
callVars == <<phase, dest>>
vars == <<netVars, graphVars, listVars, callVars, filter, filters, quirks>>

NoSinks == [i \in Index |-> [k \in Kinds |-> "none"]]
NoAddresses == [k \in Udp |-> [f \in Family |-> None]]
Dest == Family \X Ports

Init ==
    /\ addr = NoAddresses /\ socket = NoAddresses
    /\ owner = [x \in Pool |-> "free"]
    /\ joined = FALSE
    /\ sink = NoSinks /\ pending = {} /\ source = {} /\ early = {}
    /\ known = [k \in Udp |-> {}]
    /\ transports = <<>> /\ client = {} /\ mcast_clients = [d \in Dest |-> 0]
    /\ \E s \in Scenarios :
         /\ phase = [t \in Trans |-> IF t \in s.clients THEN "new" ELSE "absent"]
         /\ host = s.host /\ joins = s.joins /\ filters = s.filters
    /\ dest = [t \in Trans |-> None]
    /\ filter = None /\ quirks = {}

Quirk(q) == quirks' = quirks \cup q

-----------------------------------------------------------------------------
(* Addresses and sockets. *)

Pair(p) == {p} \cup IF EnableRtcp THEN {p + 1} ELSE {}

\* The stream has no socket at p itself; that of anybody else may be there.
MayBind(f, p) ==
    /\ f \in host /\ p \in Ports
    /\ \A k \in Udp : socket[k][f] # None => p \notin Pair(socket[k][f])

\* A pair of sockets for RTP and RTCP.
MayBindPair(f, p) == MayBind(f, p) /\ (EnableRtcp => MayBind(f, p + 1))

SetSockets(k, f, a) ==
    /\ addr' = [addr EXCEPT ![k][f] = a]
    /\ socket' = [socket EXCEPT ![k][f] = a.port]

\* A sink that is there already is not told of sockets of another family.
Late(k) == IF \E i \in Index : sink[i][k] # "none" THEN {"late_family"} ELSE {}

Owned(k, f, a) == a # None /\ a.pooled /\ <<k, f, a.port>> \in Pool

\* The address goes back to its pool.
Freed(own, k, f, a) ==
    IF Owned(k, f, a) THEN [own EXCEPT ![<<k, f, a.port>>] = "free"] ELSE own

\* Transport settings of a multicast client: an address the stream has is lost.
alloc_specific(f, p) ==
    /\ MayBindPair(f, p)
    /\ SetSockets("mcast", f, [port |-> p, pooled |-> FALSE])
    /\ Quirk(Late("mcast")
             \cup IF Owned("mcast", f, addr["mcast"][f]) THEN {"overwritten"} ELSE {})
    /\ UNCHANGED <<host, owner>>

\* An address that was acquired before: when its RTP port is taken the
\* address is freed and not forgotten; when that of RTCP is, an assertion fails.
alloc_preset(k, f) ==
    LET a == addr[k][f]
    IN  \/ /\ MayBindPair(f, a.port) /\ SetSockets(k, f, a)
           /\ Quirk(Late(k)) /\ UNCHANGED <<host, owner>>
        \/ /\ owner' = Freed(owner, k, f, a)
           /\ Quirk({"preset_failed"})
           /\ UNCHANGED <<host, addr, socket>>
        \/ /\ EnableRtcp /\ MayBind(f, a.port)
           /\ Quirk({"preset_failed", "aborted"})
           /\ UNCHANGED netVars

UsesPool(k, f) == k = "mcast" \/ \E p \in Ports : <<k, f, p>> \in Pool

\* Mutant: the address stays free in the pool.
AcquireNothing(k, f, p) == <<k, f, p>> \in Pool /\ UNCHANGED owner

Acquire(k, f, p) ==
    /\ <<k, f, p>> \in Pool /\ owner[<<k, f, p>>] = "free"
    /\ owner' = [owner EXCEPT ![<<k, f, p>>] = "us"]

\* Addresses are acquired until one can be bound; the others are released.
alloc_pooled(k, f) ==
    \E p \in Ports :
        /\ Acquire(k, f, p)
        /\ MayBindPair(f, p) /\ SetSockets(k, f, [port |-> p, pooled |-> TRUE])
        /\ Quirk(Late(k)) /\ UNCHANGED host

\* Without a pool, the first even port after a random one.
alloc_random(k, f) ==
    \E p \in Ports :
        /\ p % 2 = 0 /\ MayBindPair(f, p)
        /\ SetSockets(k, f, [port |-> p, pooled |-> FALSE])
        /\ Quirk(Late(k)) /\ UNCHANGED <<host, owner>>

alloc_ports_one_family(k, f, p) ==
    IF p # None THEN alloc_specific(f, p)
    ELSE IF ~UsesPool(k, f) THEN alloc_random(k, f)
    ELSE IF addr[k][f] # None THEN alloc_preset(k, f)
    ELSE alloc_pooled(k, f)

\* An address that DESCRIBE acquired stays when there is no socket for it.
Unbound(k, f) == IF addr[k][f] # None THEN {"unbound"} ELSE {}

\* gst_rtsp_stream_allocate_udp_sockets; the client goes on when it fails for
\* the family it does not use.
allocate_udp_sockets(t, f, from, to) ==
    /\ Kind[t] \in Udp /\ phase[t] = from
    /\ \/ /\ socket[Kind[t]][f] # None
          /\ phase' = [phase EXCEPT ![t] = to]
          /\ UNCHANGED <<netVars, quirks>>
       \/ /\ socket[Kind[t]][f] = None
          /\ alloc_ports_one_family(Kind[t], f, IF Kind[t] = "mcast" THEN Own[t] ELSE None)
          /\ phase' = [phase EXCEPT ![t] = IF socket'[Kind[t]][f] # None \/ f # Fam[t]
                                           THEN to ELSE "new"]
       \/ /\ socket[Kind[t]][f] = None
          /\ f \in host => ~(Kind[t] = "mcast" /\ Own[t] = None /\ addr["mcast"][f] # None)
          /\ phase' = [phase EXCEPT ![t] = IF f # Fam[t] THEN to ELSE "new"]
          /\ Quirk(Unbound(Kind[t], f)) /\ UNCHANGED netVars
    /\ UNCHANGED <<graphVars, listVars, dest, filter, filters>>

\* An address for a family without sockets after a client allocated them.
LateAddress ==
    IF \E t \in Trans : Kind[t] = "mcast" /\ phase[t] \notin {"new", "absent"}
    THEN {"late_address"} ELSE {}

reserve_address(f, p) ==
    /\ joined /\ addr["mcast"][f] = None
    /\ Acquire("mcast", f, p)
    /\ addr' = [addr EXCEPT !["mcast"][f] = [port |-> p, pooled |-> TRUE]]
    /\ Quirk(LateAddress)
    /\ UNCHANGED <<host, socket, graphVars, listVars, callVars, filter, filters>>

\* Called for DESCRIBE of any client.
get_multicast_address(f) == \E p \in Ports : reserve_address(f, p)

\* Other streams acquire and release.
Other(x) ==
    /\ owner[x] # "us"
    /\ owner' = [owner EXCEPT ![x] = IF @ = "free" THEN "other" ELSE "free"]
    /\ UNCHANGED <<host, addr, socket, graphVars, listVars, callVars, filter, quirks, filters>>

-----------------------------------------------------------------------------
(* The destinations of multicast clients. *)

Destination(t) ==
    <<Fam[t], IF Own[t] # None THEN Own[t] ELSE addr["mcast"][Fam[t]].port>>

add_mcast_client_addr(d) ==
    mcast_clients[d] < MaxAdded /\ mcast_clients' = [mcast_clients EXCEPT ![d] = @ + 1]

\* One that is not there is ignored.
remove_mcast_client_addr(d) ==
    mcast_clients' = [mcast_clients EXCEPT ![d] = IF @ > 0 THEN @ - 1 ELSE 0]

\* The end of SETUP: a multicast client tells the stream where it listens.
add_multicast_client_address(t) ==
    /\ Kind[t] = "mcast" /\ phase[t] = "sockets"
    /\ socket["mcast"][Fam[t]] # None
    /\ dest' = [dest EXCEPT ![t] = Destination(t)]
    /\ add_mcast_client_addr(Destination(t))
    /\ phase' = [phase EXCEPT ![t] = "ready"]
    /\ UNCHANGED <<netVars, graphVars, transports, client, filter, quirks, filters>>

\* SETUP of a unicast client ends with its ports, that of a TCP client with channels.
ConfigureUnicast(t) ==
    /\ \/ Kind[t] = "udp" /\ phase[t] = "sockets"
       \/ Kind[t] = "tcp" /\ phase[t] = "new" /\ joined
    /\ phase' = [phase EXCEPT ![t] = "ready"]
    /\ UNCHANGED <<netVars, graphVars, listVars, dest, filter, quirks, filters>>

-----------------------------------------------------------------------------
(* The elements. *)

Present(i) == {k \in Kinds : sink[i][k] # "none"}

\* The first sink is linked to the tee; for the second one a probe will put a
\* queue before each; a third one gets its queue at once.
plug_sink(i, k) ==
    LET n == Cardinality(Present(i))
        state == IF n = 0 THEN "direct" ELSE IF n = 1 THEN "waiting" ELSE "queued"
    IN  [sinks  |-> [sink[i] EXCEPT ![k] = state],
         probes |-> IF n = 1 THEN {[index |-> i, old |-> k2, new |-> k] : k2 \in Present(i)}
                    ELSE {}]

Sockets(k) == {f \in Family : socket[k][f] # None}
HasAddress(k) == \E f \in Family : addr[k][f] # None

create_sender_part(k) ==
    LET new == {i \in SinkIndex : sink[i][k] = "none"}
    IN  /\ sink' = [i \in Index |-> IF i \in new THEN plug_sink(i, k).sinks ELSE sink[i]]
        /\ pending' = pending \cup UNION {plug_sink(i, k).probes : i \in new}
        /\ known' = IF k \in Udp /\ new # {}
                    THEN [known EXCEPT ![k] = Sockets(k)] ELSE known

\* Sources that are made for the families with an address.
NewSources(k) ==
    IF k = "tcp" THEN (SourceIndex \X {k} \X {None}) \ source
    ELSE {s \in SourceIndex \X {k} \X Family : addr[k][s[3]] # None} \ source

NewEarly(k) == {f \in Family : k = "udp" /\ <<1, k, f>> \in NewSources(k)}

\* Assertions: a source has a socket, and the early probe is not there yet.
ReceiverAborts(k) ==
    \/ k \in Udp /\ \E s \in NewSources(k) : socket[k][s[3]] = None
    \/ NewEarly(k) \cap early # {}

create_receiver_part(k) ==
    /\ source' = source \cup NewSources(k)
    /\ early' = early \cup NewEarly(k)

\* gst_rtsp_media_complete_pipeline, of PLAY.
complete_stream(t) ==
    LET k == Kind[t]
    IN  /\ phase[t] \in {"ready", "paused"} /\ joined
        /\ k \in Udp => HasAddress(k)
        /\ IF ReceiverAborts(k)
           THEN Quirk({"aborted"}) /\ UNCHANGED <<graphVars, phase>>
           ELSE /\ create_receiver_part(k)
                /\ create_sender_part(k)
                /\ phase' = [phase EXCEPT ![t] = "complete"]
                /\ Quirk(IF k = "mcast" /\ phase[t] = "paused" THEN {"played_again"} ELSE {})
                /\ UNCHANGED <<joined, joins>>
        /\ UNCHANGED <<netVars, listVars, dest, filter, filters>>

\* create_and_plug_queue_to_linked_stream_probe_cb, when the pad is idle.
PlugQueues(p) ==
    /\ p \in pending
    /\ pending' = pending \ {p}
    /\ IF sink[p.index][p.old] = "direct"
       THEN /\ sink' = [sink EXCEPT ![p.index][p.old] = "queued", ![p.index][p.new] = "queued"]
            /\ UNCHANGED quirks
       ELSE Quirk({"aborted"}) /\ UNCHANGED sink
    /\ UNCHANGED <<netVars, joined, joins, source, early, known, listVars,
                   callVars, filter, filters>>

-----------------------------------------------------------------------------
(* The list of transports. *)

Listed(t) == t \in Range(transports)

check_mcast_client_addr(t) == mcast_clients[dest[t]] > 0

\* Mutant: the sinks keep the destination of a transport that is removed.
SinksForget(t) == client' = client \ (IF Kind[t] = "mcast" THEN {t} ELSE {})
SinksRemove(t) == client' = client \ {t}

ListRemove(t) ==
    /\ transports' = RemoveFirst(transports, t)
    /\ SinksRemove(t)
    /\ IF Kind[t] = "mcast" THEN remove_mcast_client_addr(dest[t])
       ELSE UNCHANGED mcast_clients

\* The cookie that tells transport_filter does not move for multicast; the node
\* that is freed may be the next one of the filter.
Moved(t) == Kind[t] # "mcast"
Stale(t) == filter # None /\ filter.next = t

TellFilter(t) ==
    filter' = IF filter = None THEN None
              ELSE [filter EXCEPT !.moved = @ \/ Moved(t), !.stay = @ \ {t},
                                  !.dead = IF Stale(t) THEN t ELSE @]

\* gst_rtsp_stream_add_transport, of PLAY.
add_transport(t) ==
    /\ phase[t] = "complete"
    /\ IF Kind[t] = "mcast" /\ ~check_mcast_client_addr(t)
       THEN /\ phase' = [phase EXCEPT ![t] = "ready"]
            /\ UNCHANGED <<listVars, filter>>
       ELSE /\ transports' = <<t>> \o transports
            /\ client' = client \cup {t}
            /\ TellFilter(t)
            /\ phase' = [phase EXCEPT ![t] = "added"]
            /\ UNCHANGED mcast_clients
    /\ UNCHANGED <<netVars, graphVars, dest, quirks, filters>>

\* gst_rtsp_stream_remove_transport, of PAUSE and TEARDOWN.
remove_transport(t) ==
    /\ phase[t] \in {"added", "active"}
    /\ phase' = [phase EXCEPT ![t] = "paused"]
    /\ IF Listed(t) THEN ListRemove(t) /\ TellFilter(t) ELSE UNCHANGED <<listVars, filter>>
    /\ UNCHANGED <<netVars, graphVars, dest, quirks, filters>>

\* The session ends; only a transport that is in the list gives up its destination.
EndClient(t) ==
    /\ phase[t] \in {"ready", "paused"}
    /\ phase' = [phase EXCEPT ![t] = "new"] /\ dest' = [dest EXCEPT ![t] = None]
    /\ UNCHANGED <<netVars, graphVars, listVars, filter, quirks, filters>>

\* gst_rtsp_stream_transport_filter calls func without the lock for `at'; `next'
\* was read before.
At(l, t) == SelectInSeq(l, LAMBDA x : x = t)
After(l, t) == IF At(l, t) \in 1 .. Len(l) - 1 THEN l[At(l, t) + 1] ELSE None
Suffix(l, t) == IF t \in Range(l) THEN SubSeq(l, At(l, t), Len(l)) ELSE <<>>
Unvisited(l, visited) == SelectInSeq(l, LAMBDA x : x \notin visited)

\* Mutant: the next node is read when func has returned, from a node that may be gone.
RestThen(l, f) == Suffix(l, After(l, f.at))
Rest(l, f) == Suffix(l, f.next)

\* Goes on with the first of todo that was not visited.
Visit(l, todo, visited, moved, stay) ==
    LET i == Unvisited(todo, visited)
    IN  filter' = IF i = 0 THEN None
                  ELSE [at |-> todo[i], next |-> After(l, todo[i]), moved |-> moved,
                        visited |-> visited \cup {todo[i]}, stay |-> stay, dead |-> None]

FilterBegin ==
    /\ filter = None /\ transports # <<>> /\ filters < MaxFilters
    /\ filters' = filters + 1
    /\ Visit(transports, transports, {}, FALSE, Range(transports))
    /\ UNCHANGED <<netVars, graphVars, listVars, callVars, quirks>>

\* func returns: REMOVE takes the transport out, and the filter starts again
\* when the cookie has moved while func ran.
FilterReturn(remove) ==
    LET t == filter.at
        gone == remove /\ Listed(t)
        l == IF gone THEN RemoveFirst(transports, t) ELSE transports
        stay == filter.stay \ (IF gone THEN {t} ELSE {})
    IN  /\ filter # None /\ (filter.dead # None => filter.moved)
        /\ IF gone THEN ListRemove(t) ELSE UNCHANGED listVars
        /\ IF filter.moved
           THEN Visit(l, l, filter.visited, FALSE, stay)
           ELSE Visit(l, Rest(l, filter), filter.visited, gone /\ Moved(t), stay)
        /\ UNCHANGED <<netVars, graphVars, callVars, quirks, filters>>

\* The next node was freed and the cookie did not tell.
FilterDead ==
    /\ filter # None /\ filter.dead # None /\ ~filter.moved
    /\ filter' = None /\ Quirk({"stale_next"})
    /\ UNCHANGED <<netVars, graphVars, listVars, callVars, filters>>

\* A PLAY that fails for another stream of the media.
PlayFails(t) ==
    /\ phase[t] = "complete"
    /\ phase' = [phase EXCEPT ![t] = "ready"]
    /\ UNCHANGED <<netVars, graphVars, listVars, dest, filter, quirks, filters>>

-----------------------------------------------------------------------------
(* The bin and its pads. *)

join_bin ==
    /\ ~joined /\ joins < MaxJoins
    /\ joined' = TRUE /\ joins' = joins + 1
    /\ UNCHANGED <<netVars, sink, pending, source, early, known, listVars,
                   callVars, filter, quirks, filters>>

\* Mutant: the multicast addresses are not freed.
FreeUnicast == [x \in Pool |-> IF x[1] = "udp" /\ owner[x] = "us" THEN "free" ELSE owner[x]]

\* The addresses the stream still knows go back to the pool.
FreeAddresses ==
    [x \in Pool |-> IF addr[x[1]][x[2]] = [port |-> x[3], pooled |-> TRUE]
                    THEN "free" ELSE owner[x]]

\* finish_unprepare of the media, when all its users are gone; what is kept of
\* the stream is the early probe and the multicast clients.
leave_bin ==
    /\ joined /\ \A t \in Trans : phase[t] \in {"new", "absent"}
    /\ joined' = FALSE
    /\ sink' = NoSinks /\ pending' = {} /\ source' = {}
    /\ known' = [k \in Udp |-> {}]
    /\ addr' = NoAddresses /\ socket' = NoAddresses
    /\ owner' = FreeAddresses /\ UNCHANGED host
    /\ Quirk(IF early # {} THEN {"left_blocked"} ELSE {})
    /\ UNCHANGED <<joins, early, listVars, callVars, filter, filters>>

\* gst_rtsp_media_unsuspend, the last of PLAY.
unblock_rtcp(t) ==
    /\ phase[t] = "added"
    /\ phase' = [phase EXCEPT ![t] = "active"]
    /\ early' = {}
    /\ UNCHANGED <<netVars, joined, joins, sink, pending, source, known, listVars,
                   dest, filter, quirks, filters>>

-----------------------------------------------------------------------------
Client(t) ==
    \/ joined /\ allocate_udp_sockets(t, "v4", "new", "v4")
    \/ allocate_udp_sockets(t, "v6", "v4", "sockets")
    \/ add_multicast_client_address(t)
    \/ ConfigureUnicast(t)
    \/ complete_stream(t) \/ add_transport(t) \/ unblock_rtcp(t) \/ PlayFails(t)
    \/ remove_transport(t) \/ EndClient(t)

Filter == FilterBegin \/ (\E b \in BOOLEAN : FilterReturn(b)) \/ FilterDead

Media ==
    \/ join_bin \/ leave_bin
    \/ \E p \in pending : PlugQueues(p)

Next ==
    /\ "aborted" \notin quirks /\ Cardinality(quirks) <= MaxQuirks
    /\ \/ \E t \in Trans : Client(t)
       \/ \E f \in Family : get_multicast_address(f)
       \/ \E x \in Contended : Other(x)
       \/ Filter \/ Media

Spec == Init /\ [][Next]_vars

-----------------------------------------------------------------------------
(* Properties. *)

TypeOK ==
    /\ \A k \in Udp : \A f \in Family : addr[k][f] \in Address \cup {None}
    /\ \A k \in Udp : \A f \in Family : socket[k][f] \in Ports \cup {None}
    /\ owner \in [Pool -> {"free", "us", "other"}]
    /\ sink \in [Index -> [Kinds -> {"none", "waiting", "direct", "queued"}]]
    /\ pending \subseteq [index : Index, old : Kinds, new : Kinds]
    /\ early \subseteq Family /\ known \in [Udp -> SUBSET Family]
    /\ mcast_clients \in [Dest -> Nat]
    /\ dest \in [Trans -> Dest \cup {None}] /\ filter \in Filters \cup {None}

Without(q) == quirks \cap q = {}

(* The addresses of the pool that are taken for this stream are those the  *)
(* stream knows: none is lost when sockets are allocated, DESCRIBE asks    *)
(* for an address or the stream leaves its bin, and none is given away     *)
(* that the stream still names.  Not so once an address that was acquired  *)
(* before could not be bound, or a client brought its own.                 *)
PoolBalanced ==
    Without({"preset_failed", "overwritten"}) =>
      \A x \in Pool : owner[x] = "us" <=> addr[x[1]][x[2]] = [port |-> x[3], pooled |-> TRUE]

(* The ports a client is told are the ports of the sockets, those of RTP   *)
(* and RTCP follow each other, and no two sockets of a family share one.   *)
PortsAgree ==
    \A f \in Family : \A k \in Udp :
      socket[k][f] # None =>
        /\ addr[k][f] # None /\ addr[k][f].port = socket[k][f]
        /\ Own = [t \in Trans |-> None] => socket[k][f] % 2 = 0
        /\ \A k2 \in Udp \ {k} : socket[k2][f] # None =>
             Pair(socket[k][f]) \cap Pair(socket[k2][f]) = {}

(* Two sinks behind a tee do not hold each other up: each has a queue, or  *)
(* a probe is about to put one there; no sink is left unlinked.            *)
QueuesIsolate ==
    \A i \in Index : \A k \in Present(i) :
      /\ sink[i][k] = "waiting" => \E p \in pending : p.index = i /\ p.new = k
      /\ sink[i][k] = "direct" =>
           \A k2 \in Present(i) \ {k} : \E p \in pending : p.index = i /\ p.old = k

(* The sinks send to exactly the transports of the list.                   *)
SinksFollowList == client = Range(transports)

(* gst_rtsp_stream_get_multicast_client_addresses names the destination of *)
(* every multicast transport that is sent to.                              *)
DestinationsReported ==
    \A t \in Range(transports) : Kind[t] = "mcast" => mcast_clients[dest[t]] > 0

(* So it is as long as no multicast client that paused plays again.        *)
Reported == Without({"played_again"}) => DestinationsReported

(* What a client is sent over UDP comes from the sockets of the stream,    *)
(* for both families, unless sockets came after the sink.                  *)
SendsFromSocket ==
    Without({"late_family"}) =>
      \A t \in Range(transports) : Kind[t] \in Udp /\ 1 \in Index => Fam[t] \in known[Kind[t]]

(* No assertion of the stream fails, but after an address acquired before  *)
(* could not be bound, or was acquired for a family that got no sockets,   *)
(* before or after, or when the stream left its bin with RTCP blocked.     *)
NoAbort ==
    Without({"preset_failed", "late_address", "unbound", "left_blocked"}) => "aborted" \notin quirks

(* The next node of a filter is freed under it only by a multicast client. *)
FilterSafe ==
    filter # None /\ filter.dead # None /\ ~filter.moved => Kind[filter.dead] = "mcast"

(* The addresses and ports that a stream tells its clients are those it has *)
(* taken from the pool and has bound.                                       *)
AddressesHeld ==
    /\ TypeOK
    /\ PoolBalanced
    /\ PortsAgree

(* The sinks of a stream send to exactly the transports of the list, from   *)
(* its sockets, without holding each other up, without an assertion that    *)
(* fails and without a filter that goes on with a node that was freed.      *)
SinksServe ==
    /\ QueuesIsolate
    /\ SinksFollowList
    /\ Reported
    /\ SendsFromSocket
    /\ FilterSafe
    /\ NoAbort

(* A filter that ends has visited every transport that stayed in the list.  *)
TransportsVisited ==
    [][filter # None /\ filter' = None /\ "stale_next" \notin quirks'
       => filter.stay \subseteq filter.visited \cup {filter.at}]_vars
=============================================================================
