------------------------------- MODULE Service -------------------------------
(* A server at work: clients that it accepts send requests, whose paths are *)
(* matched to factories, which construct the media the clients use until    *)
(* they ask for another, lose their session or are freed.  Meanwhile the    *)
(* application mounts and unmounts factories, filters clients and makes and *)
(* destroys sources.                                                        *)
EXTENDS Server, MountPoints, MediaFactory

CONSTANT Scenarios  \* bound: requests, mounts and what the application does

VARIABLES
    requests,   \* the requests each client will send
    plan        \* who connects, the thread the pool gives it, whether the application
                \* filters and how many sources it makes

envVars == <<requests, plan>>
vars == <<serverVars, mountVars, mounting, factoryVars, envVars>>

ASSUME ServiceAssumption ==
    /\ Callers = Clients /\ Keys = Factories \X Paths
    /\ SharedKeys \subseteq Keys /\ Reusable \subseteq Keys
    /\ Paths \subseteq Seq(Nat) /\ <<>> \notin Paths /\ Slash \in Nat /\ <<Slash>> \in Paths
    /\ IsFiniteSet(Clients)
    /\ None \notin Clients \cup Threads \cup Sources \cup Media \cup Factories \cup Item \cup MediaRecord
    /\ \A x \in Scenarios :
         /\ x.requests \in [Clients -> Seq([url : Paths \cup {<<>>}, matched : BOOLEAN])]
         /\ x.mounting \in Seq([path : Paths, factory : Factories \cup {None}])
         /\ x.plan \in [connect : SUBSET Clients, thread : [Clients -> Threads \cup {None}],
                        filter : BOOLEAN, sources : Nat]

Init ==
    /\ ServerInit /\ MountInit /\ FactoryInit
    /\ \E x \in Scenarios : requests = x.requests /\ mounting = x.mounting /\ plan = x.plan

\* A thread serves its clients one by one.
Free(c) ==
    /\ fc[c].at \in {"idle", "using"}
    /\ \A d \in Clients \ {c} :
         ctx[d].thread = ctx[c].thread /\ ctx[c].thread # None => fc[d].at \in {"idle", "using"}

ServerStep == UNCHANGED <<mountVars, mounting, factoryVars>>
FactoryStep == UNCHANGED <<serverVars, mountVars, mounting, envVars>>

\* make_path: the empty path of a url is "/".
default_make_path(url) == IF url = <<>> THEN <<Slash>> ELSE url

\* find_media: DESCRIBE wants the whole path to match, SETUP what comes first.
Request(c) ==
    /\ requests[c] # <<>> /\ ctx[c].at = "attached" /\ Free(c) /\ fc[c].at = "idle"
    /\ requests' = [requests EXCEPT ![c] = Tail(@)] /\ UNCHANGED <<mounting, plan, serverVars>>
    /\ gst_rtsp_mount_points_match
    /\ LET url == default_make_path(requests[c][1].url)
           item == Result(Match(Clean(mounts, dirty), url), url, requests[c][1].matched)
       IN  IF item = None THEN UNCHANGED factoryVars ELSE construct(c, <<item.factory, url>>)

\* The client asks for another path, or its session ends.
Drop(c) == ctx[c].at = "attached" /\ Free(c) /\ Unprepare(c, "using") /\ FactoryStep

\* The end of the client gives its media back.
Finalize(c) == ctx[c].at = "freed" /\ Unprepare(c, "using") /\ FactoryStep

Serve(c) == Constructing(c) /\ FactoryStep

Accept(c) ==
    /\ c \in plan.connect /\ ServerStep /\ UNCHANGED envVars
    /\ IF sources = {} THEN gst_rtsp_server_transfer_connection(c, plan.thread[c])
       ELSE gst_rtsp_server_io_func(c, plan.thread[c])

Leave(c) ==
    /\ ServerStep /\ UNCHANGED envVars
    /\ CloseClient(c) \/ (Free(c) /\ unmanage_client(c)) \/ (Free(c) /\ free_client_context(c))

Mounts == Mounting /\ UNCHANGED <<serverVars, factoryVars, envVars>>

Filter == plan.filter /\ Filtering /\ ServerStep /\ UNCHANGED envVars

Listen ==
    /\ ServerStep /\ UNCHANGED requests
    /\ \/ /\ plan.sources > 0 /\ plan' = [plan EXCEPT !.sources = @ - 1]
          /\ \E s \in Sources : gst_rtsp_server_create_source(s)
       \/ /\ plan' = plan /\ \E s \in sources : watch_destroyed(s)

Next ==
    \/ \E c \in Clients : Accept(c) \/ Request(c) \/ Serve(c) \/ Drop(c) \/ Leave(c) \/ Finalize(c)
    \/ Mounts \/ Filter \/ Listen

(* Threads go on, and what is closed is taken care of by its thread.        *)
Thread(c) ==
    \/ Serve(c) \/ Finalize(c)
    \/ /\ ServerStep /\ UNCHANGED envVars
       /\ (Free(c) /\ unmanage_client(c)) \/ (Free(c) /\ free_client_context(c))

Fairness == \A c \in Clients : WF_vars(Thread(c))

Spec == Init /\ [][Next]_vars /\ Fairness

ServiceTypeOK ==
    /\ \A c \in Clients : ctx[c].at \in {"new", "attached", "closing", "unmanaged", "freed"}
    /\ clients_cookie \in Nat /\ \A t \in Threads : used[t] \in Nat
    /\ dirty \in BOOLEAN /\ mounts \in Seq(Item)
    /\ medias \in [Keys -> Media \cup {None}] /\ md \in [Media -> MediaRecord \cup {None}]
    /\ medias_lock \in Callers \cup {None} /\ socket \in Sources \cup {None}

(* When every client is gone no media is prepared and no thread is used:    *)
(* each construct, prepare and get_thread was given back, on every path.    *)
NothingLeft ==
    (\A c \in Clients : ctx[c].at = "freed" /\ fc[c].at = "idle")
      => (\A m \in Media : md[m] # None => md[m].count = 0) /\ \A t \in Threads : used[t] = 0

(* A request gets the factory of the longest mount point, and the one media *)
(* its key shares, however many ask at once.                                *)
RequestsMatch ==
    /\ MatchIsLongest
    /\ OneShareable
    /\ CacheHasShared

(* The server holds its clients, their threads and its port as long as they *)
(* are used and no longer, while filters, sources and clients come and go.  *)
ClientsHeld ==
    /\ ServiceTypeOK
    /\ FilterSafe
    /\ FilterVisitsAll
    /\ ThreadsCounted
    /\ PortKnown
    /\ NothingLeft

(* A construct returns, a media that ends leaves the cache, and a client    *)
(* that is closed is freed.                                                 *)
ServiceEnds ==
    /\ ConstructReturns
    /\ CacheIsCleared
    /\ ClosedIsFreed
===============================================================================
