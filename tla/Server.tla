-------------------------------- MODULE Server --------------------------------
(* GstRTSPServer (rtsp-server.c): the list of client contexts, the thread   *)
(* each client runs in, the filter that walks the list without the lock     *)
(* while it calls out, and the sources that accept connections.             *)
EXTENDS Integers, FiniteSets, SequencesExt, NoValue

CONSTANTS
    Clients, Sources,
    Threads,        \* threads of the pool, which gives none when max-threads is 0
    Refuses         \* clients that the CONNECT check refuses

VARIABLES
    clients,        \* the contexts, the newest first
    clients_cookie,
    ctx,            \* where each client is and the thread it has
    used,           \* how many contexts use each thread
    filter,         \* a call of client_filter
    socket,         \* priv->socket
    sources,        \* sources that accept connections
    squirks         \* departures that have happened (history)

listVars == <<clients, clients_cookie, ctx, used>>
socketVars == <<socket, sources>>
serverVars == <<listVars, filter, socketVars, squirks>>

NoFilter == [at |-> "none", next |-> None, cookie |-> 0, visited |-> {}, known |-> {},
             dangling |-> FALSE]

ServerInit ==
    /\ clients = <<>> /\ clients_cookie = 0
    /\ ctx = [c \in Clients |-> [at |-> "new", thread |-> None]]
    /\ used = [t \in Threads |-> 0]
    /\ filter = NoFilter
    /\ socket = None /\ sources = {} /\ squirks = {}

Member(c) == \E i \in DOMAIN clients : clients[i] = c

-----------------------------------------------------------------------------
(* Sockets. *)

\* The server keeps the socket of the source that was made last.
Socket(old, s) == s

gst_rtsp_server_create_source(s) ==
    /\ s \notin sources
    /\ socket' = Socket(socket, s) /\ sources' = sources \cup {s}
    /\ squirks' = squirks \cup IF sources # {} THEN {"second_source"} ELSE {}
    /\ UNCHANGED <<listVars, filter>>

\* Whichever source is destroyed, the socket the server has is given up.
watch_destroyed(s) ==
    /\ s \in sources /\ sources' = sources \ {s}
    /\ socket' = None
    /\ squirks' = squirks \cup IF socket = None THEN {"no_socket"} ELSE {}
    /\ UNCHANGED <<listVars, filter>>

-----------------------------------------------------------------------------
(* Clients. *)

\* Mutant: a thread is not counted for its second client.
UsedOnce(u, t) == IF t = None THEN u ELSE [u EXCEPT ![t] = 1]
\* gst_rtsp_thread_pool_get_thread; thread_stop ends it with its last user.
GetThread(u, t) == IF t = None THEN u ELSE [u EXCEPT ![t] = @ + 1]
\* Mutant: the thread is stopped by unmanage and again by free.
StopTwice(u, t) == IF t = None THEN u ELSE [u EXCEPT ![t] = @ - 2]
StopThread(u, t) == IF t = None THEN u ELSE [u EXCEPT ![t] = @ - 1]

CookieMoved(k) == k + 1

\* In the context of the source or the one given by the application when there
\* is no thread.
manage_client(c, t) ==
    /\ ctx[c].at = "new"
    /\ ctx' = [ctx EXCEPT ![c] = [at |-> "attached", thread |-> t]]
    /\ used' = GetThread(used, t)
    /\ clients' = <<c>> \o clients /\ clients_cookie' = CookieMoved(clients_cookie)
    /\ UNCHANGED <<filter, socketVars, squirks>>

\* Accepted by a source and not refused.
gst_rtsp_server_io_func(c, t) ==
    /\ sources # {} /\ ctx[c].at = "new"
    /\ IF c \in Refuses
       THEN /\ ctx' = [ctx EXCEPT ![c].at = "freed"]
            /\ UNCHANGED <<clients, clients_cookie, used, filter, socketVars, squirks>>
       ELSE manage_client(c, t)

\* A connection of the application is not checked.
gst_rtsp_server_transfer_connection(c, t) == manage_client(c, t)

\* The peer or the client itself ends the connection.
CloseClient(c) ==
    /\ ctx[c].at = "attached" /\ ctx' = [ctx EXCEPT ![c].at = "closing"]
    /\ UNCHANGED <<clients, clients_cookie, used, filter, socketVars, squirks>>

Unmanaged(t) == IF t = None THEN "freed" ELSE "unmanaged"

\* The context is freed in the thread of the client.
unmanage_client(c) ==
    /\ ctx[c].at = "closing"
    /\ clients' = RemoveFirst(clients, c) /\ clients_cookie' = CookieMoved(clients_cookie)
    /\ ctx' = [ctx EXCEPT ![c].at = Unmanaged(ctx[c].thread)]
    /\ UNCHANGED <<used, filter, socketVars, squirks>>

free_client_context(c) ==
    /\ ctx[c].at = "unmanaged" /\ used[ctx[c].thread] > 0
    /\ used' = StopThread(used, ctx[c].thread)
    /\ ctx' = [ctx EXCEPT ![c].at = "freed"]
    /\ UNCHANGED <<clients, clients_cookie, filter, socketVars, squirks>>

-----------------------------------------------------------------------------
(* gst_rtsp_server_client_filter, for one call.  It gives up the lock for   *)
(* func and to close a client, and walks on from one call to the next       *)
(* within it.                                                               *)

Behind(q, c) == IF \E i \in DOMAIN q : q[i] = c THEN SelectInSeq(q, LAMBDA x : x = c) + 1
                ELSE Len(q) + 1

\* The walk starts again when the list has changed.
Rest(f, q, k) == IF f.cookie = k THEN Behind(q, f.next) ELSE 1

\* On to the first client from place i that was not visited; walking on from a
\* context that left the list is a read of freed memory.
Walk(f, i) ==
    LET left == {j \in i..Len(clients) : clients[j] \notin f.visited}
        client == clients[Min(left)]
    IN  filter' = IF left = {} THEN [f EXCEPT !.at = "end", !.next = None, !.cookie = clients_cookie]
                  ELSE [f EXCEPT !.at = "func", !.next = client, !.visited = @ \cup {client},
                                 !.cookie = clients_cookie]

FilterBegin ==
    /\ filter.at = "none" /\ clients # <<>>
    /\ Walk([NoFilter EXCEPT !.known = {clients[i] : i \in DOMAIN clients}], 1)
    /\ UNCHANGED <<listVars, socketVars, squirks>>

Dangling == filter.cookie = clients_cookie /\ ~Member(filter.next)

FilterOn ==
    /\ filter.at \in {"func", "removed"}
    /\ Walk([filter EXCEPT !.dangling = @ \/ Dangling], Rest(filter, clients, clients_cookie))
    /\ UNCHANGED <<listVars, socketVars, squirks>>

\* FILTER_REMOVE closes the client without the lock.
FilterRemove ==
    /\ filter.at = "func"
    /\ filter' = [filter EXCEPT !.at = "removed"]
    /\ ctx' = [ctx EXCEPT ![filter.next].at = IF @ = "attached" THEN "closing" ELSE @]
    /\ UNCHANGED <<clients, clients_cookie, used, socketVars, squirks>>

Filtering == FilterBegin \/ FilterOn \/ FilterRemove

-----------------------------------------------------------------------------
(* The filter never walks on from a context that left the list, and when it *)
(* returns it has called func for every client that was there all the time, *)
(* whoever connected and closed meanwhile.                                  *)
FilterSafe == ~filter.dangling
FilterVisitsAll ==
    filter.at = "end" => \A c \in filter.known : Member(c) => c \in filter.visited

(* A thread is used by as many contexts as count on it: the context of a    *)
(* closed client is freed in a thread that still runs, and the last one     *)
(* ends it.                                                                 *)
ThreadsCounted ==
    \A t \in Threads :
      used[t] = Cardinality({c \in Clients : ctx[c].thread = t /\ ctx[c].at # "freed"})

(* While connections are accepted the server knows its port, and it gives   *)
(* the socket up once; not so with a second source, whose end takes the     *)
(* socket of the other away.                                                *)
PortKnown ==
    "second_source" \notin squirks
      => (sources # {} => socket \in sources) /\ "no_socket" \notin squirks

(* A client that was closed leaves the list and its context is freed.       *)
ClosedIsFreed == \A c \in Clients : ctx[c].at = "closing" ~> ctx[c].at = "freed"
===============================================================================
