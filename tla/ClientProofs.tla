------------------------------ MODULE ClientProofs ------------------------------
(* Theorems about Client: what its clients cache, prepare and watch follows    *)
(* the sessions, and what depends on a connection lives as long as it does.    *)
EXTENDS Client, TLAPS, FiniteSetTheorems

-----------------------------------------------------------------------------
\* The inductive invariant.

At == {"idle", "found", "go", "described", "announced", "dup", "remove", "emit", "emitted",
       "setup_lock", "setup", "setup_watch", "tunnel"}
Pairs == Sessions \X Paths

ClientRecord ==
    [watch : {"none", "live", "dying", "notify", "gone"}, managed : BOOLEAN, finalized : BOOLEAN,
     closed : BOOLEAN, visited : SUBSET Sessions, sessions : SUBSET Sessions, hooked : BOOLEAN,
     timer : Nat \cup {None}, had : BOOLEAN, cached : Paths \cup {None},
     chan : [Chan -> Pairs \cup {None}], tstate : {"none", "GET", "POST"}, merged : BOOLEAN]

RequestRecord ==
    [at : At, method : MediaMethods \cup OtherMethods \cup {None}, sess : Sessions \cup {None},
     path : Paths \cup {None}, media : {None} \cup Clients \cup Pairs, made : BOOLEAN]

TypeInv ==
    /\ cl \in [Clients -> ClientRecord]
    /\ pc \in [Clients -> RequestRecord]
    /\ pool \in SUBSET Sessions /\ fresh \in SUBSET Sessions
    /\ emit \in [Sessions -> Emissions \cup {None}]
    /\ sm \in [Sessions -> [Paths -> SM \cup {None}]]
    /\ prepared \in [Paths -> Nat]
    /\ lock \in [Paths -> Clients \cup {None}]
    /\ tunnel \in Clients \cup {None}
    /\ todo \in [Clients -> Seq(Requests)]
    /\ lower \in [Clients -> {"tcp", "udp"}]
    /\ closing \in SUBSET Clients /\ removals \in Nat

\* What a request that is at a step has found out.
Shape(r) ==
    /\ r.at = "idle" => r = Idle
    /\ r.at \in {"found", "setup_watch"} => r.sess # None
    /\ r.at \in {"found", "go", "described", "announced", "setup_watch"} => r.media = None
    /\ r.at \in {"dup", "setup_lock"} => r.media \in Pairs /\ r.media = <<r.sess, r.path>>
    /\ r.at = "setup" => r.media = None \/ (r.media \in Pairs /\ r.media = <<r.sess, r.path>>)
    /\ r.at = "dup" => r.method \in {"PLAY", "PAUSE", "TEARDOWN", "RECORD"}
    /\ r.at \in {"described", "announced"} => r.method \in {"DESCRIBE", "ANNOUNCE"}
    /\ r.at \in {"setup_lock", "setup", "setup_watch"} => r.method = "SETUP"
    /\ r.at \in {"remove", "emit", "emitted"} =>
         /\ r.sess # None
         /\ \/ r.method = "SETUP" /\ r.media = None
            \/ r.method = "TEARDOWN" /\ r.media \in Pairs /\ r.media = <<r.sess, r.path>>
    /\ r.at = "tunnel" <=> r.media \in Clients
    /\ r.made => r.media = None /\ r.at \notin {"found", "go"}
    /\ r.at \notin {"idle", "tunnel"} /\ r.method \in MediaMethods => r.path # None

Locks(r) == r.at \in {"described", "announced", "setup", "setup_watch"}
Caches(r) ==
    r.at \in {"described", "announced"} \/ (r.at \in {"setup", "setup_watch"} /\ r.media = None)

\* A request runs while the watch of its client does, has locked its media and
\* has it cached.
Requesting(c) ==
    /\ Shape(pc[c])
    /\ pc[c].at # "idle" => cl[c].watch \in {"live", "dying"}
    /\ Locks(pc[c]) => lock[pc[c].path] = c
    /\ Caches(pc[c]) => cl[c].cached = pc[c].path
RequestInv == \A c \in Clients : Requesting(c)

\* What is not known yet is nowhere, and what is emitted has left the pool.
KnownInv ==
    /\ pool \cap fresh = {}
    /\ \A c \in Clients : cl[c].sessions \cap fresh = {} /\ pc[c].sess \notin fresh
    /\ \A s \in Sessions : emit[s] # None =>
         /\ s \notin pool /\ s \notin fresh
         /\ emit[s].by # None => pc[emit[s].by].at = "emit" /\ pc[emit[s].by].sess = s
    /\ \A s \in fresh : \A p \in Paths : sm[s][p] = None

\* A client by itself.
Lives(r) ==
    /\ r.hooked = (r.sessions # {})
    /\ r.watch # "notify" => r.visited = {}
    /\ r.watch = "none" => r.tstate = "none"
    /\ r.watch = "live" /\ r.timer = None => r.had
    /\ r.finalized => r.watch = "gone" /\ r.sessions = {}
LifeInv == \A c \in Clients : Lives(cl[c])

UntimedInv ==
    Without({"late_timer"}) => \A c \in Clients : cl[c].watch \in {"notify", "gone"} => cl[c].timer = None

\* A SETUP that found no media of its session is the one that makes it.
SetupInv ==
    \A c \in Clients : pc[c].at \in {"setup", "setup_watch"} /\ pc[c].media = None /\ pc[c].sess # None =>
        sm[pc[c].sess][pc[c].path] = None

\* The media a request uses is there.
MediaInv ==
    Without({"freed_media"}) =>
        \A c \in Clients : pc[c].media \in Pairs => sm[pc[c].media[1]][pc[c].media[2]] # None

TornInv ==
    \A c \in Clients : \A s \in Sessions : \A p \in Paths :
        pc[c].at \in {"remove", "emit", "emitted"} /\ pc[c].media = <<s, p>> => ~Manages(s, p)

\* A request watches its session, unless that has left the pool.
HeldInv ==
    \A c \in Clients : pc[c].sess # None /\ pc[c].at \notin {"found", "setup_watch"} =>
        pc[c].sess \in cl[c].sessions \/ pc[c].sess \notin pool

Interleaved(m) == m # None /\ m.lower = "tcp"
Found(m, s, p) == cl[m.owner].chan[m.ch] = <<s, p>>

\* The channel of a media leads to it while the session has it, and while its
\* owner handles a request for it.
ChanInv ==
    /\ \A s \in Sessions : \A p \in Paths : Interleaved(sm[s][p]) => sm[s][p].ch \in Chan
    /\ Without({"foreign_channel"}) =>
         \A s \in Sessions : \A p \in Paths :
             Interleaved(sm[s][p]) /\ (sm[s][p].in \/ pc[sm[s][p].owner].media = <<s, p>>) =>
                 Found(sm[s][p], s, p)

\* The owner of an interleaved media watches its session and is not done with it.
TcpInv ==
    \A s \in pool : \A p \in Paths : Interleaved(sm[s][p]) /\ sm[s][p].in =>
        /\ s \in cl[sm[s][p].owner].sessions \ cl[sm[s][p].owner].visited
        /\ cl[sm[s][p].owner].watch # "gone"

TimeInv ==
    Without({"ended_in_setup"}) =>
        \A c \in Clients :
            /\ cl[c].watch = "live" /\ cl[c].sessions = {} /\ cl[c].timer = None => PostTimeout = -1
            /\ pc[c].at \in {"go", "setup_lock", "setup"} /\ pc[c].method = "SETUP" /\ pc[c].sess # None =>
                 pc[c].sess \in cl[c].sessions

\* Somebody has found the half of a tunnel that c waits for.
Sought(c) ==
    \/ tunnel = c
    \/ \E d \in Clients : pc[d].media = c
    \/ \E o \in Clients \ {c} : cl[o].tstate # "none" /\ cl[o].watch # "live"

HalfInv ==
    Without({"tunnel_forgotten"}) =>
        \A c \in Clients :
            cl[c].watch = "live" /\ cl[c].tstate # "none" /\ ~cl[c].merged /\ pc[c].at # "tunnel" => Sought(c)

MergedInv ==
    \A c \in Clients : cl[c].merged =>
        /\ cl[c].tstate # "none"
        /\ \E d \in Clients \ {c} : cl[d].tstate \notin {"none", cl[c].tstate}

TunnelInv ==
    /\ HalfInv /\ MergedInv
    /\ tunnel # None => cl[tunnel].tstate # "none"
    /\ \A c \in Clients : pc[c].at = "tunnel" => cl[c].tstate # "none" /\ cl[pc[c].media].tstate # "none"

LeakedInv == leaked \in SUBSET Sessions

IInv ==
    /\ TypeInv /\ LeakedInv
    /\ RequestInv
    /\ KnownInv
    /\ LifeInv
    /\ UntimedInv
    /\ SetupInv
    /\ MediaInv
    /\ TornInv
    /\ HeldInv
    /\ WatchersAreTold
    /\ ChanInv
    /\ TcpInv
    /\ TimeInv
    /\ TunnelInv
    /\ PreparedBalance

-----------------------------------------------------------------------------
\* What a step ends.

LEMMA Apart ==
    /\ None \notin Clients /\ None \notin Sessions /\ None \notin Paths /\ None \notin Chan
    /\ None \notin Nat /\ None \notin Pairs /\ None \notin SM /\ None \notin Emissions /\ None # {}
    /\ \A c \in Clients : c \notin Pairs
BY ClientAssumption DEF ClientAssumption, Pairs

LEMMA LookupIs ==
    ASSUME NEW c \in Clients, NEW s \in Sessions, NEW p \in Paths, pc[c].media = <<s, p>>
    PROVE  Lookup(c) = sm[s][p]
<1>1. <<s, p>> \in Pairs
  BY DEF Pairs
<1>2. <<s, p>> # None
  BY <1>1, Apart
<1> QED BY <1>2 DEF Lookup

MediaType == [Sessions -> [Paths -> SM \cup {None}]]
CountType == [Paths -> Nat]

\* What is left of the media m, that were prepared n times, when a step ends.
Settled(m, n, q) ==
    /\ sm' \in MediaType /\ prepared' \in CountType
    /\ quirks \subseteq quirks' /\ q \subseteq quirks'
    /\ \A s \in Sessions : \A p \in Paths :
         /\ sm'[s][p] = m[s][p] \/ sm'[s][p] = None
         /\ sm'[s][p] # m[s][p] => \A c \in Clients : ~Holds(pc'[c], s, p)
         /\ sm'[s][p] # m[s][p] /\ "freed_media" \notin quirks' => \A c \in Clients : ~Uses(pc'[c], s, p)
    /\ \A p \in Paths :
         prepared'[p] = Unprepared(n[p], Cardinality({s \in Sessions : m[s][p] # None /\ sm'[s][p] = None}))

LEMMA UnpreparedType ==
    ASSUME NEW n \in Nat, NEW k \in Nat
    PROVE  Unprepared(n, k) \in Nat
BY DEF Unprepared

LEMMA SettleSettles ==
    ASSUME NEW m \in MediaType, NEW n \in CountType, NEW q, Settle(m, n, q)
    PROVE  Settled(m, n, q)
<1> DEFINE ended == {x \in Sessions \X Paths : Ended(m, x[1], x[2])}
           gone(p) == {s \in Sessions : <<s, p>> \in ended}
<1>1. /\ sm' = [s \in Sessions |-> [p \in Paths |-> IF <<s, p>> \in ended THEN None ELSE m[s][p]]]
      /\ prepared' = [p \in Paths |-> Unprepared(n[p], Cardinality(gone(p)))]
      /\ quirks' = quirks \cup (q \cup IF \E x \in ended, c \in Clients : Uses(pc'[c], x[1], x[2])
                                       THEN {"freed_media"} ELSE {})
  BY DEF Settle, Quirk
<1>2. \A s \in Sessions : \A p \in Paths : <<s, p>> \in ended <=> Ended(m, s, p)
  OBVIOUS
<1>3. \A s \in Sessions : \A p \in Paths :
         <<s, p>> \in ended => m[s][p] # None /\ \A c \in Clients : ~Holds(pc'[c], s, p)
  BY <1>2 DEF Ended
<1>4. \A s \in Sessions : \A p \in Paths : \A c \in Clients :
         <<s, p>> \in ended /\ Uses(pc'[c], s, p) => "freed_media" \in quirks'
  <2> SUFFICES ASSUME NEW s \in Sessions, NEW p \in Paths, NEW c \in Clients,
                      <<s, p>> \in ended, Uses(pc'[c], s, p)
               PROVE  "freed_media" \in quirks'
    OBVIOUS
  <2>1. \E x \in ended : \E d \in Clients : Uses(pc'[d], x[1], x[2])
    <3>1. <<s, p>>[1] = s /\ <<s, p>>[2] = p
      OBVIOUS
    <3> QED BY <3>1
  <2> HIDE DEF ended
  <2> QED BY <1>1, <2>1
<1> HIDE DEF ended
<1>5. \A p \in Paths : gone(p) = {s \in Sessions : m[s][p] # None /\ sm'[s][p] = None}
  BY <1>1, <1>3
<1>6. \A p \in Paths : Cardinality(gone(p)) \in Nat
  BY FS_Subset, FS_CardinalityType, ClientAssumption DEF ClientAssumption
<1>7. prepared' \in CountType
  <2>1. \A p \in Paths : Unprepared(n[p], Cardinality(gone(p))) \in Nat
    BY <1>6, UnpreparedType DEF CountType
  <2> HIDE DEF gone
  <2> QED BY <1>1, <2>1 DEF CountType
<1>8. sm' \in MediaType
  BY <1>1 DEF MediaType
<1>9. \A s \in Sessions : \A p \in Paths :
         /\ sm'[s][p] = m[s][p] \/ sm'[s][p] = None
         /\ sm'[s][p] # m[s][p] => <<s, p>> \in ended
  BY <1>1
<1>10. \A p \in Paths : prepared'[p] = Unprepared(n[p], Cardinality(gone(p)))
  <2> HIDE DEF gone
  <2> QED BY <1>1
<1>11. quirks \subseteq quirks' /\ q \subseteq quirks'
  BY <1>1
<1>12. \A p \in Paths :
         prepared'[p] = Unprepared(n[p], Cardinality({s \in Sessions : m[s][p] # None /\ sm'[s][p] = None}))
  BY <1>5, <1>10
<1>13. \A s \in Sessions : \A p \in Paths :
         /\ sm'[s][p] # m[s][p] => \A c \in Clients : ~Holds(pc'[c], s, p)
         /\ sm'[s][p] # m[s][p] /\ "freed_media" \notin quirks' => \A c \in Clients : ~Uses(pc'[c], s, p)
  BY <1>3, <1>4, <1>9
<1> QED
  <2> HIDE DEF gone
  <2> QED BY <1>7, <1>8, <1>9, <1>11, <1>12, <1>13 DEF Settled

-----------------------------------------------------------------------------
\* The steps, with what they share put together.

\* A request ends and changes at most the state of its media.
Weaker(m, o) ==
    \/ m = None
    \/ /\ o # None /\ m.owner = o.owner /\ m.lower = o.lower /\ m.ch = o.ch
       /\ m.in => o.in
Tame(m) ==
    /\ m \in MediaType
    /\ \A s \in Sessions : \A p \in Paths : Weaker(m[s][p], sm[s][p]) /\ (m[s][p] = None => sm[s][p] = None)

Returns(c) ==
    /\ pc[c].at \in {"go", "described", "dup", "setup", "emitted"} /\ Done(c)
    /\ lock' = lock \/ Unlock(c)
    /\ UNCHANGED <<cl, poolVars, tunnel, envVars>>
    /\ \E m : Tame(m) /\ Settle(m, prepared, {})

\* find_media for a SETUP whose session has no such media, or for the others.
Seeks(c) ==
    /\ pc[c].at = "go" /\ pc[c].method \in {"DESCRIBE", "ANNOUNCE", "SETUP"}
    /\ pc[c].method = "SETUP" /\ pc[c].sess # None => sm[pc[c].sess][pc[c].path] = None
Misses(c) == Seeks(c) /\ FindFails(c)
FoundAt(c) ==
    CASE pc[c].method = "DESCRIBE" -> "described"
      [] pc[c].method = "ANNOUNCE" -> "announced"
      [] OTHER -> "setup"
Finds(c) == Seeks(c) /\ FindMedia(c, FoundAt(c))

SetupFound(c) ==
    /\ pc[c].at = "go" /\ pc[c].method = "SETUP" /\ Manages(pc[c].sess, pc[c].path)
    /\ pc' = [pc EXCEPT ![c].at = "setup_lock", ![c].media = <<pc[c].sess, pc[c].path>>]
    /\ UNCHANGED <<cl, poolVars, mediaVars, tunnel, envVars, quirks>>

Watches(c) ==
    /\ pc[c].at \in {"found", "setup_watch"}
    /\ Go(c, IF pc[c].at = "found" THEN "go" ELSE "setup")
    /\ cl' = [cl EXCEPT ![c] = client_watch_session(cl[c], pc[c].sess)]
    /\ Quirk(LateWatch(pc[c].sess))
    /\ UNCHANGED <<poolVars, mediaVars, tunnel, envVars>>

RequestStep(c) ==
    \/ Returns(c) \/ Misses(c) \/ Finds(c) \/ HandleSdp(c) \/ DupMedia(c) \/ Teardown(c)
    \/ PoolRemove(c) \/ TeardownEnd(c) \/ SetupFound(c) \/ SetupLock(c) \/ SetupCreate(c) \/ Watches(c)
    \/ (\E k \in Chan \cup {None} : SetupTransport(c, k)) \/ (\E b \in BOOLEAN : SetupFails(c, b))
    \/ MergeTunnel(c)

OtherStep(c) ==
    \/ client_watch_notify(c) \/ (\E s \in Sessions : cleanup_session(c, s)) \/ NotifyEnd(c) \/ Finalize(c)
    \/ rtsp_ctrl_timeout_cb(c) \/ gst_rtsp_client_attach(c) \/ Close(c) \/ tunnel_lost(c)
    \/ /\ todo[c] # <<>> /\ Head(todo[c]).method \in {"GET", "POST"}
       /\ HandleTunnel(c, Head(todo[c]).method)
    \/ /\ todo[c] # <<>> /\ Head(todo[c]).method \notin {"GET", "POST"}
       /\ \E s \in Sessions \cup {None} : HandleRequest(c, Head(todo[c]), s)

PoolStep(s) == EmitBegin(s) \/ (\E c \in Clients : EmitTo(s, c)) \/ EmitEnd(s) \/ Expire(s)

Steps == (\E c \in Clients : RequestStep(c) \/ OtherStep(c)) \/ \E s \in Sessions : PoolStep(s)

LEMMA TameItself ==
    ASSUME TypeInv
    PROVE  Tame(sm)
BY DEF TypeInv, Tame, Weaker, MediaType

LEMMA TamePut ==
    ASSUME TypeInv, NEW s \in Sessions, NEW p \in Paths, sm[s][p] # None,
           NEW n \in SM, Weaker(n, sm[s][p])
    PROVE  Tame([sm EXCEPT ![s][p] = n])
<1> DEFINE m == [sm EXCEPT ![s][p] = n]
<1>1. sm \in [Sessions -> [Paths -> SM \cup {None}]]
  BY DEF TypeInv
<1>2. /\ m \in MediaType
      /\ \A t \in Sessions : \A u \in Paths : m[t][u] = IF t = s /\ u = p THEN n ELSE sm[t][u]
  BY <1>1 DEF MediaType
<1>3. n # None
  BY Apart
<1>4. \A t \in Sessions : \A u \in Paths : Weaker(m[t][u], sm[t][u]) /\ (m[t][u] = None => sm[t][u] = None)
  <2> HIDE DEF m
  <2> QED BY <1>1, <1>2, <1>3 DEF Weaker
<1> HIDE DEF m
<1>5. Tame(m)
  BY <1>2, <1>4 DEF Tame
<1> QED BY <1>5 DEF m

LEMMA TameState ==
    ASSUME TypeInv, NEW s \in Sessions, NEW p \in Paths, sm[s][p] # None,
           NEW x \in {"init", "ready", "playing"}
    PROVE  Tame([sm EXCEPT ![s][p] = [sm[s][p] EXCEPT !.state = x]])
<1> DEFINE n == [sm[s][p] EXCEPT !.state = x]
<1>1. sm[s][p] \in SM
  BY DEF TypeInv
<1>2. n \in SM /\ Weaker(n, sm[s][p])
  BY <1>1 DEF SM, Weaker
<1> QED BY <1>2, TamePut

LEMMA TameTorn ==
    ASSUME TypeInv, NEW s \in Sessions, NEW p \in Paths, sm[s][p] # None
    PROVE  Tame([sm EXCEPT ![s][p] = [sm[s][p] EXCEPT !.in = FALSE, !.state = "init"]])
<1> DEFINE n == [sm[s][p] EXCEPT !.in = FALSE, !.state = "init"]
<1>1. sm[s][p] \in SM
  BY DEF TypeInv
<1>2. n \in SM /\ Weaker(n, sm[s][p])
  BY <1>1 DEF SM, Weaker
<1> QED BY <1>2, TamePut

\* The filter of a client that ends, and of one that does not.
LEMMA TameFilter ==
    ASSUME TypeInv, NEW s \in Sessions
    PROVE  /\ Tame(FilteredMedia(s))
           /\ \A p \in Paths : FilteredMedia(s)[s][p] # None /\ FilteredMedia(s)[s][p].in
                                  => ~MustEnd(FilteredMedia(s)[s][p], p)
<1> DEFINE n(p) == IF sm[s][p] # None /\ MustEnd(sm[s][p], p) THEN [sm[s][p] EXCEPT !.in = FALSE] ELSE sm[s][p]
           m == [sm EXCEPT ![s] = [p \in Paths |-> n(p)]]
<1>1. sm \in [Sessions -> [Paths -> SM \cup {None}]]
  BY DEF TypeInv
<1>2. m = FilteredMedia(s)
  BY DEF FilteredMedia
<1>3. \A p \in Paths : /\ n(p) \in SM \cup {None} /\ Weaker(n(p), sm[s][p]) /\ (n(p) = None => sm[s][p] = None)
                       /\ n(p) # None /\ n(p).in => ~MustEnd(n(p), p)
  <2> TAKE p \in Paths
  <2>1. CASE sm[s][p] # None /\ MustEnd(sm[s][p], p)
    <3>1. sm[s][p] \in SM
      BY <1>1, <2>1
    <3>2. n(p) = [sm[s][p] EXCEPT !.in = FALSE]
      BY <2>1
    <3>3. n(p) \in SM /\ n(p).in = FALSE /\ n(p).owner = sm[s][p].owner /\ n(p).lower = sm[s][p].lower
          /\ n(p).ch = sm[s][p].ch
      BY <3>1, <3>2 DEF SM
    <3> QED BY <2>1, <3>3, Apart DEF Weaker
  <2>2. CASE ~(sm[s][p] # None /\ MustEnd(sm[s][p], p))
    <3>1. n(p) = sm[s][p]
      BY <2>2
    <3> HIDE DEF n
    <3> QED BY <1>1, <2>2, <3>1 DEF Weaker
  <2> QED BY <2>1, <2>2
<1> HIDE DEF n
<1>4. /\ m \in MediaType
      /\ \A t \in Sessions : \A u \in Paths : m[t][u] = IF t = s THEN n(u) ELSE sm[t][u]
  BY <1>1, <1>3 DEF MediaType
<1>5. \A t \in Sessions : \A u \in Paths : Weaker(m[t][u], sm[t][u]) /\ (m[t][u] = None => sm[t][u] = None)
  <2> HIDE DEF m
  <2> QED BY <1>1, <1>3, <1>4 DEF Weaker
<1>6. \A p \in Paths : m[s][p] # None /\ m[s][p].in => ~MustEnd(m[s][p], p)
  <2> HIDE DEF m
  <2> QED BY <1>3, <1>4
<1> HIDE DEF m
<1>7. Tame(m)
  BY <1>4, <1>5 DEF Tame
<1> QED BY <1>2, <1>6, <1>7

LEMMA TameUnfiltered ==
    ASSUME TypeInv, NEW c \in Clients, NEW s \in Sessions
    PROVE  Tame(Unfiltered(c, s))
BY TameFilter, TameItself DEF Unfiltered

\* The guard of a step: what a request uses has not been freed.
LEMMA Used ==
    ASSUME TypeInv, RequestInv, MediaInv, "freed_media" \notin quirks, NEW c \in Clients, pc[c].at = "dup"
    PROVE  /\ pc[c].sess \in Sessions /\ pc[c].path \in Paths /\ pc[c].media = <<pc[c].sess, pc[c].path>>
           /\ sm[pc[c].sess][pc[c].path] \in SM /\ Lookup(c) = sm[pc[c].sess][pc[c].path]
           /\ \A m : SetMedia(c, m) = [sm EXCEPT ![pc[c].sess][pc[c].path] = m]
<1>1. pc[c].media \in Pairs /\ pc[c].media = <<pc[c].sess, pc[c].path>>
  BY DEF RequestInv, Requesting, Shape
<1>2. pc[c].sess \in Sessions /\ pc[c].path \in Paths
  BY <1>1 DEF Pairs
<1>3. pc[c].media # None
  BY <1>1, Apart
<1>4. sm[pc[c].media[1]][pc[c].media[2]] # None
  BY <1>1 DEF MediaInv, Without
<1>5. pc[c].media[1] = pc[c].sess /\ pc[c].media[2] = pc[c].path
  BY <1>1
<1>6. sm[pc[c].sess][pc[c].path] \in SM
  BY <1>2, <1>4, <1>5 DEF TypeInv
<1> QED BY <1>1, <1>2, <1>3, <1>5, <1>6 DEF Lookup, SetMedia

LEMMA PlaysReturn ==
    ASSUME TypeInv, RequestInv, MediaInv, "freed_media" \notin quirks, NEW c \in Clients,
           Play(c) \/ Record(c) \/ Pause(c)
    PROVE  Returns(c)
<1> DEFINE s == pc[c].sess
           p == pc[c].path
<1>1. pc[c].at = "dup" /\ Done(c) /\ UNCHANGED <<cl, poolVars, lock, tunnel, envVars>>
  BY DEF Play, Record, Pause
<1>2. /\ s \in Sessions /\ p \in Paths /\ sm[s][p] \in SM /\ Lookup(c) = sm[s][p]
      /\ \A m : SetMedia(c, m) = [sm EXCEPT ![s][p] = m]
  BY <1>1, Used
<1>3. \A x \in {"init", "ready", "playing"} : Tame(SetMedia(c, [Lookup(c) EXCEPT !.state = x]))
  <2> TAKE x \in {"init", "ready", "playing"}
  <2>1. sm[s][p] # None
    BY <1>2, Apart
  <2>2. SetMedia(c, [Lookup(c) EXCEPT !.state = x]) = [sm EXCEPT ![s][p] = [sm[s][p] EXCEPT !.state = x]]
    BY <1>2
  <2>3. Tame([sm EXCEPT ![s][p] = [sm[s][p] EXCEPT !.state = x]])
    BY <1>2, <2>1, TameState
  <2> QED BY <2>2, <2>3
<1>4. \E m : Tame(m) /\ Settle(m, prepared, {})
  <2>1. ASSUME NEW b, Starts(c, b)
        PROVE  \E m : Tame(m) /\ Settle(m, prepared, {})
    <3>1. \/ Settle(SetMedia(c, [Lookup(c) EXCEPT !.state = "playing"]), prepared, {})
          \/ Settle(sm, prepared, {})
      BY <2>1 DEF Starts
    <3> QED BY <1>3, <3>1, TameItself
  <2>2. CASE Pause(c)
    <3>1. \/ Settle(SetMedia(c, [Lookup(c) EXCEPT !.state = "ready"]), prepared, {})
          \/ Settle(sm, prepared, {})
      BY <2>2 DEF Pause
    <3> QED BY <1>3, <3>1, TameItself
  <2>3. CASE Play(c)
    BY <2>1, <2>3 DEF Play
  <2>4. CASE Record(c)
    BY <2>1, <2>4 DEF Record
  <2> QED BY <2>2, <2>3, <2>4
<1> QED BY <1>1, <1>4 DEF Returns

LEMMA ReturnReturns ==
    ASSUME TypeInv, NEW c \in Clients, Return(c),
           pc[c].at \in {"go", "described", "dup", "setup", "emitted"}
    PROVE  Returns(c)
BY TameItself DEF Return, Returns

LEMMA SetupLookups ==
    ASSUME NEW c \in Clients, SetupLookup(c)
    PROVE  SetupFound(c) \/ Misses(c) \/ Finds(c)
<1>1. CASE Manages(pc[c].sess, pc[c].path)
  BY <1>1 DEF SetupLookup, SetupFound
<1>2. CASE ~Manages(pc[c].sess, pc[c].path)
  <2>1. Seeks(c) /\ FoundAt(c) = "setup"
    BY <1>2 DEF SetupLookup, Seeks, FoundAt
  <2>2. FindMedia(c, "setup") \/ FindFails(c)
    BY <1>2 DEF SetupLookup
  <2> QED BY <2>1, <2>2 DEF Finds, Misses
<1> QED BY <1>1, <1>2

LEMMA Lookups ==
    ASSUME NEW c \in Clients, Describe(c) \/ Announce(c)
    PROVE  Misses(c) \/ Finds(c)
<1>1. CASE Describe(c)
  <2>1. Seeks(c) /\ FoundAt(c) = "described"
    BY <1>1 DEF Describe, Seeks, FoundAt
  <2>2. FindMedia(c, "described") \/ FindFails(c)
    BY <1>1 DEF Describe
  <2> QED BY <2>1, <2>2 DEF Finds, Misses
<1>2. CASE Announce(c)
  <2>1. Seeks(c) /\ FoundAt(c) = "announced"
    BY <1>2 DEF Announce, Seeks, FoundAt
  <2>2. FindMedia(c, "announced") \/ FindFails(c)
    BY <1>2 DEF Announce
  <2> QED BY <2>1, <2>2 DEF Finds, Misses
<1> QED BY <1>1, <1>2

LEMMA RequestSteps ==
    ASSUME TypeInv, RequestInv, MediaInv, "freed_media" \notin quirks, NEW c \in Clients, Request(c)
    PROVE  RequestStep(c)
<1>1. CASE Watch(c) \/ SetupWatch(c)
  <2>1. Watches(c)
    BY <1>1 DEF Watch, SetupWatch, Watches
  <2> QED BY <2>1 DEF RequestStep
<1>2. CASE \/ handle_options_request(c) \/ handle_param_request(c) \/ NotFound(c) \/ Refused(c) \/ Described(c)
           \/ TeardownRefused(c) \/ SetupRefused(c) \/ SetupEnd(c)
  <2>1. Return(c) /\ pc[c].at \in {"go", "described", "dup", "setup", "emitted"}
    BY <1>2 DEF handle_options_request, handle_param_request, NotFound, Refused, Described, TeardownRefused,
                SetupRefused, SetupEnd
  <2> QED BY <2>1, ReturnReturns DEF RequestStep
<1>3. CASE Play(c) \/ Record(c) \/ Pause(c)
  BY <1>3, PlaysReturn DEF RequestStep
<1>4. CASE Describe(c) \/ Announce(c)
  BY <1>4, Lookups DEF RequestStep
<1>5. CASE SetupLookup(c)
  BY <1>5, SetupLookups DEF RequestStep
<1>6. CASE \/ HandleSdp(c) \/ DupMedia(c) \/ Teardown(c) \/ PoolRemove(c) \/ TeardownEnd(c) \/ SetupLock(c)
           \/ SetupCreate(c) \/ (\E k \in Chan \cup {None} : SetupTransport(c, k))
           \/ (\E b \in BOOLEAN : SetupFails(c, b)) \/ MergeTunnel(c)
  BY <1>6 DEF RequestStep
<1> QED BY <1>1, <1>2, <1>3, <1>4, <1>5, <1>6 DEF Request

LEMMA NextSteps ==
    ASSUME TypeInv, RequestInv, MediaInv, Next
    PROVE  Steps /\ quirks \cap {"corrupted", "freed_media"} = {}
<1>1. quirks \cap {"corrupted", "freed_media"} = {}
  BY DEF Next
<1>2. "freed_media" \notin quirks
  BY <1>1
<1>3. CASE \E s \in Sessions : Emission(s) \/ Expire(s)
  BY <1>1, <1>3 DEF Steps, PoolStep, Emission
<1>4. ASSUME NEW c \in Clients, Thread(c) \/ Arrives(c)
      PROVE  RequestStep(c) \/ OtherStep(c)
  <2>1. CASE Request(c)
    BY <1>2, <2>1, RequestSteps
  <2>2. CASE Ending(c) \/ rtsp_ctrl_timeout_cb(c)
    BY <2>2 DEF Ending, OtherStep
  <2>3. CASE Arrives(c)
    <3>1. CASE gst_rtsp_client_attach(c) \/ Close(c) \/ tunnel_lost(c)
      BY <3>1 DEF OtherStep
    <3>2. CASE todo[c] # <<>> /\ Head(todo[c]).method \in {"GET", "POST"}
               /\ HandleTunnel(c, Head(todo[c]).method)
      BY <3>2 DEF OtherStep
    <3>3. CASE todo[c] # <<>> /\ Head(todo[c]).method \notin {"GET", "POST"}
               /\ \E s \in Sessions \cup {None} : HandleRequest(c, Head(todo[c]), s)
      BY <3>3 DEF OtherStep
    <3> QED BY <2>3, <3>1, <3>2, <3>3 DEF Arrives
  <2>4. CASE SetupLeaks(c)
    BY <1>2, <2>4, RequestSteps DEF SetupLeaks, Request
  <2> QED BY <1>4, <2>1, <2>2, <2>3, <2>4 DEF Thread
<1> QED BY <1>1, <1>3, <1>4 DEF Next, Steps, SessionLeaves

\* A reference that is lost is one to a session.
LEMMA LeakedStep ==
    ASSUME TypeInv, LeakedInv, Next
    PROVE  LeakedInv'
<1>1. CASE UNCHANGED leaked
  BY <1>1 DEF LeakedInv
<1>2. ASSUME NEW c \in Clients, SetupLeaks(c)
      PROVE  LeakedInv'
  <2>1. pc[c].sess \in Sessions
    BY <1>2 DEF SetupLeaks, TypeInv, RequestRecord
  <2> QED BY <1>2, <2>1 DEF SetupLeaks, LeakedInv
<1> QED BY <1>1, <1>2 DEF Next, Thread, SessionLeaves

-----------------------------------------------------------------------------
\* What a step does to the media of the sessions.

Unused(s, p) ==
    \A c \in Clients : ~Holds(pc'[c], s, p) /\ ("freed_media" \notin quirks' => ~Uses(pc'[c], s, p))

Counts == sm' \in MediaType /\ prepared' \in CountType /\ quirks \subseteq quirks'

Fading ==
    /\ Counts
    /\ \A s \in Sessions : \A p \in Paths :
         Weaker(sm'[s][p], sm[s][p]) /\ (sm'[s][p] = None /\ sm[s][p] # None => Unused(s, p))

LEMMA SettledFades ==
    ASSUME TypeInv, NEW m, NEW n, NEW q, Tame(m), Settled(m, n, q)
    PROVE  Fading
<1>1. Counts
  BY DEF Settled, Counts
<1>2. ASSUME NEW s \in Sessions, NEW p \in Paths
      PROVE  Weaker(sm'[s][p], sm[s][p]) /\ (sm'[s][p] = None /\ sm[s][p] # None => Unused(s, p))
  <2>1. Weaker(m[s][p], sm[s][p]) /\ (m[s][p] = None => sm[s][p] = None)
    BY <1>2 DEF Tame
  <2>2. /\ sm'[s][p] = m[s][p] \/ sm'[s][p] = None
        /\ sm'[s][p] # m[s][p] => Unused(s, p)
    BY <1>2 DEF Settled, Unused
  <2>3. Weaker(sm'[s][p], sm[s][p])
    <3>1. CASE sm'[s][p] = m[s][p]
      BY <2>1, <3>1
    <3>2. CASE sm'[s][p] = None
      BY <3>2 DEF Weaker
    <3> QED BY <2>2, <3>1, <3>2
  <2> QED BY <2>1, <2>2, <2>3
<1> QED BY <1>1, <1>2 DEF Fading

LEMMA SettleFades ==
    ASSUME TypeInv, NEW m, NEW n \in CountType, NEW q, Tame(m), Settle(m, n, q)
    PROVE  Fading
<1>1. m \in MediaType
  BY DEF Tame
<1>2. Settled(m, n, q)
  BY <1>1, SettleSettles
<1> QED BY <1>2, SettledFades

LEMMA SameFades ==
    ASSUME TypeInv, sm' = sm, prepared' \in CountType, quirks \subseteq quirks'
    PROVE  Fading
BY DEF TypeInv, Fading, Counts, Weaker, MediaType

LEMMA CountPut ==
    ASSUME NEW n \in CountType, NEW p, NEW k, p \in Paths => k \in Nat
    PROVE  [n EXCEPT ![p] = k] \in CountType
BY DEF CountType

LEMMA CleanedType ==
    ASSUME TypeInv, NEW c \in Clients
    PROVE  /\ CacheCleaned(c) \in CountType
           /\ FoundNew(c, pc[c].path) \in CountType
<1> DEFINE q == cl[c].cached
           p == pc[c].path
<1>1. prepared \in CountType
  BY DEF TypeInv, CountType
<1>2. CacheCleaned(c) \in CountType
  <2>1. q \in Paths => Unprepared(prepared[q], 1) \in Nat
    BY <1>1, UnpreparedType DEF CountType
  <2>2. [prepared EXCEPT ![q] = Unprepared(prepared[q], 1)] \in CountType
    BY <1>1, <2>1, CountPut
  <2> QED BY <1>1, <2>2 DEF CacheCleaned
<1>3. FoundNew(c, p) \in CountType
  <2> DEFINE m == CacheCleaned(c)
             k == IF p \in Records THEN m[p] ELSE m[p] + 1
  <2>1. p \in Paths => k \in Nat
    BY <1>2 DEF CountType
  <2>2. FoundNew(c, p) = [m EXCEPT ![p] = k]
    BY DEF FoundNew
  <2> HIDE DEF m, k
  <2>3. m \in CountType
    BY <1>2 DEF m
  <2> QED BY <2>1, <2>2, <2>3, CountPut
<1> QED BY <1>2, <1>3

\* The steps but those of SETUP that put a media into the session.
Fader(c) ==
    \/ Returns(c) \/ Misses(c) \/ Finds(c) \/ HandleSdp(c) \/ DupMedia(c) \/ Teardown(c)
    \/ PoolRemove(c) \/ TeardownEnd(c) \/ SetupFound(c) \/ SetupLock(c) \/ SetupCreate(c) \/ Watches(c)
    \/ MergeTunnel(c) \/ OtherStep(c)

LEMMA TornFades ==
    ASSUME TypeInv, RequestInv, MediaInv, "freed_media" \notin quirks, NEW c \in Clients, Teardown(c)
    PROVE  /\ Fading
           /\ sm'[pc[c].sess][pc[c].path] # None /\ ~sm'[pc[c].sess][pc[c].path].in
<1> DEFINE s == pc[c].sess
           p == pc[c].path
           n == [sm[s][p] EXCEPT !.in = FALSE, !.state = "init"]
<1>1. /\ s \in Sessions /\ p \in Paths /\ sm[s][p] \in SM /\ Lookup(c) = sm[s][p]
      /\ \A m : SetMedia(c, m) = [sm EXCEPT ![s][p] = m]
  BY Used DEF Teardown
<1>2. /\ sm' = SetMedia(c, [Lookup(c) EXCEPT !.in = FALSE, !.state = "init"])
      /\ prepared' = prepared /\ quirks' = quirks
  BY DEF Teardown
<1>3. sm' = [sm EXCEPT ![s][p] = n]
  BY <1>1, <1>2
<1>4. sm[s][p] # None
  BY <1>1, Apart
<1>5. Tame([sm EXCEPT ![s][p] = n])
  BY <1>1, <1>4, TameTorn
<1>6. n \in SM /\ ~n.in
  BY <1>1 DEF SM
<1>7. /\ sm' \in MediaType /\ prepared' \in CountType
      /\ \A t \in Sessions : \A u \in Paths : Weaker(sm'[t][u], sm[t][u]) /\ (sm'[t][u] = None => sm[t][u] = None)
  <2> HIDE DEF n
  <2> QED BY <1>2, <1>3, <1>5 DEF Tame, TypeInv, CountType
<1>8. Fading
  BY <1>2, <1>7 DEF Fading, Counts
<1>9. sm'[s][p] = n
  <2> HIDE DEF n
  <2> QED BY <1>1, <1>3 DEF TypeInv
<1> QED BY <1>6, <1>8, <1>9, Apart

LEMMA FaderFades ==
    ASSUME TypeInv, RequestInv, MediaInv, "freed_media" \notin quirks, NEW c \in Clients, Fader(c)
    PROVE  Fading
<1>0. prepared \in CountType /\ Tame(sm)
  BY TameItself DEF TypeInv, CountType
<1>1. CASE Returns(c)
  <2> PICK m : Tame(m) /\ Settle(m, prepared, {})
    BY <1>1 DEF Returns
  <2> QED BY <1>0, SettleFades
<1>2. CASE Misses(c)
  <2>1. Settle(sm, CacheCleaned(c), {}) /\ CacheCleaned(c) \in CountType
    BY <1>2, CleanedType DEF Misses, FindFails
  <2> QED BY <1>0, <2>1, SettleFades
<1>3. CASE Finds(c)
  <2>1. sm' = sm /\ quirks' = quirks /\ prepared' = IF Cached(c, pc[c].path) THEN prepared ELSE FoundNew(c, pc[c].path)
    BY <1>3 DEF Finds, FindMedia
  <2>2. prepared' \in CountType
    BY <1>0, <2>1, CleanedType
  <2> QED BY <2>1, <2>2, SameFades
<1>4. CASE HandleSdp(c)
  <2> DEFINE n == [prepared EXCEPT ![pc[c].path] = @ + 1]
  <2>1. PICK q : Settle(sm, n, q) \/ Settle(sm, prepared, {})
    BY <1>4 DEF HandleSdp
  <2>2. n \in CountType
    <3>1. pc[c].path \in Paths => prepared[pc[c].path] + 1 \in Nat
      BY <1>0 DEF CountType
    <3> QED BY <1>0, <3>1, CountPut
  <2> HIDE DEF n
  <2>3. CASE Settle(sm, n, q)
    BY <1>0, <2>2, <2>3, SettleFades
  <2>4. CASE Settle(sm, prepared, {})
    BY <1>0, <2>4, SettleFades
  <2> QED BY <2>1, <2>3, <2>4
<1>5. CASE Teardown(c)
  BY <1>5, TornFades
<1>6. CASE TeardownEnd(c)
  <2>1. Settle(sm, prepared, Foreign(c, Lookup(c)))
    BY <1>6 DEF TeardownEnd
  <2> QED BY <1>0, <2>1, SettleFades
<1>7. CASE \E s \in Sessions : cleanup_session(c, s)
  <2>1. PICK s \in Sessions : cleanup_session(c, s)
    BY <1>7
  <2>2. PICK q : Settle(FilteredMedia(s), prepared, q)
    BY <2>1 DEF cleanup_session
  <2>3. Tame(FilteredMedia(s))
    BY TameFilter
  <2> QED BY <1>0, <2>2, <2>3, SettleFades
<1>8. CASE Finalize(c)
  BY <1>8, CleanedType, SameFades DEF Finalize
<1>9. CASE \/ DupMedia(c) \/ PoolRemove(c) \/ SetupFound(c) \/ SetupLock(c) \/ SetupCreate(c) \/ Watches(c)
           \/ MergeTunnel(c) \/ client_watch_notify(c) \/ NotifyEnd(c) \/ rtsp_ctrl_timeout_cb(c)
           \/ gst_rtsp_client_attach(c) \/ Close(c) \/ tunnel_lost(c)
  <2>1. sm' = sm /\ prepared' = prepared
    BY <1>9 DEF DupMedia, PoolRemove, SetupFound, SetupLock, SetupCreate, Watches, MergeTunnel,
                client_watch_notify, NotifyEnd, rtsp_ctrl_timeout_cb, gst_rtsp_client_attach, Close, tunnel_lost,
                mediaVars
  <2>2. quirks \subseteq quirks'
    BY <1>9 DEF DupMedia, PoolRemove, SetupFound, SetupLock, SetupCreate, Watches, MergeTunnel,
                client_watch_notify, NotifyEnd, rtsp_ctrl_timeout_cb, gst_rtsp_client_attach, Close, tunnel_lost,
                Quirk
  <2> QED BY <1>0, <2>1, <2>2, SameFades
<1>10. CASE \/ HandleTunnel(c, Head(todo[c]).method)
            \/ \E s \in Sessions \cup {None} : HandleRequest(c, Head(todo[c]), s)
  BY <1>0, <1>10, SameFades DEF HandleTunnel, HandleRequest, mediaVars
<1> QED BY <1>1, <1>2, <1>3, <1>4, <1>5, <1>6, <1>7, <1>8, <1>9, <1>10 DEF Fader, OtherStep

LEMMA PoolFades ==
    ASSUME TypeInv, NEW s \in Sessions, PoolStep(s)
    PROVE  Fading
<1>0. prepared \in CountType /\ Tame(sm)
  BY TameItself DEF TypeInv, CountType
<1>1. CASE EmitBegin(s) \/ Expire(s)
  BY <1>0, <1>1, SameFades DEF EmitBegin, Expire, mediaVars
<1>2. CASE EmitEnd(s)
  BY <1>0, <1>2, SettleFades DEF EmitEnd
<1>3. ASSUME NEW c \in Clients, EmitTo(s, c)
      PROVE  Fading
  <2>1. CASE cl[c].hooked
    <3>1. PICK q : Settle(Unfiltered(c, s), prepared, q)
      BY <1>3, <2>1 DEF EmitTo
    <3>2. Tame(Unfiltered(c, s))
      BY TameUnfiltered
    <3> QED BY <1>0, <3>1, <3>2, SettleFades
  <2>2. CASE ~cl[c].hooked
    BY <1>0, <1>3, <2>2, SameFades DEF EmitTo
  <2> QED BY <2>1, <2>2
<1> QED BY <1>1, <1>2, <1>3 DEF PoolStep

\* SETUP puts the media n into its session.
Making(c, n) ==
    /\ Counts /\ n \in SM
    /\ \A s \in Sessions : \A p \in Paths :
         IF s = pc[c].sess /\ p = pc[c].path THEN sm'[s][p] \in {None, n}
         ELSE Weaker(sm'[s][p], sm[s][p])
    /\ \A s \in Sessions : \A p \in Paths : sm'[s][p] = None /\ sm[s][p] # None => Unused(s, p)

LEMMA PutMakes ==
    ASSUME TypeInv, NEW c \in Clients, pc[c].sess \in Sessions, pc[c].path \in Paths, NEW n \in SM, NEW q,
           Settle([sm EXCEPT ![pc[c].sess][pc[c].path] = n], prepared, q)
    PROVE  Making(c, n) /\ Settled([sm EXCEPT ![pc[c].sess][pc[c].path] = n], prepared, q)
<1> DEFINE s0 == pc[c].sess
           p0 == pc[c].path
           m == [sm EXCEPT ![s0][p0] = n]
<1>1. sm \in MediaType /\ prepared \in CountType
  BY DEF TypeInv, MediaType, CountType
<1>2. /\ m \in MediaType
      /\ \A s \in Sessions : \A p \in Paths : m[s][p] = IF s = s0 /\ p = p0 THEN n ELSE sm[s][p]
  BY <1>1 DEF MediaType
<1>3. Settle(m, prepared, q)
  OBVIOUS
<1> HIDE DEF m
<1>4. Settled(m, prepared, q)
  BY <1>1, <1>2, <1>3, SettleSettles
<1>5. Counts
  BY <1>4 DEF Settled, Counts
<1>6. ASSUME NEW s \in Sessions, NEW p \in Paths
      PROVE  /\ IF s = s0 /\ p = p0 THEN sm'[s][p] \in {None, n} ELSE Weaker(sm'[s][p], sm[s][p])
             /\ sm'[s][p] = None /\ sm[s][p] # None => Unused(s, p)
  <2>1. /\ sm'[s][p] = m[s][p] \/ sm'[s][p] = None
        /\ sm'[s][p] # m[s][p] => Unused(s, p)
    BY <1>4, <1>6 DEF Settled, Unused
  <2>2. n # None
    BY Apart
  <2>3. sm'[s][p] = None /\ sm[s][p] # None => Unused(s, p)
    BY <1>2, <1>6, <2>1, <2>2
  <2>4. sm[s][p] \in SM \cup {None}
    BY <1>1, <1>6 DEF MediaType
  <2>5. CASE s = s0 /\ p = p0
    BY <1>2, <1>6, <2>1, <2>3, <2>5
  <2>6. CASE ~(s = s0 /\ p = p0)
    <3>1. m[s][p] = sm[s][p]
      BY <1>2, <1>6, <2>6
    <3> QED BY <2>1, <2>3, <2>6, <3>1 DEF Weaker
  <2> QED BY <2>5, <2>6
<1>7. Making(c, n)
  BY <1>5, <1>6 DEF Making
<1> QED BY <1>4, <1>7 DEF m

\* What SETUP knows when it is done with the media.
LEMMA SetupKnows ==
    ASSUME TypeInv, RequestInv, MediaInv, "freed_media" \notin quirks, NEW c \in Clients,
           pc[c].at = "setup", pc[c].sess # None
    PROVE  /\ pc[c].sess \in Sessions /\ pc[c].path \in Paths /\ pc[c].method = "SETUP"
           /\ pc[c].media # None => pc[c].media = <<pc[c].sess, pc[c].path>>
                                    /\ sm[pc[c].sess][pc[c].path] \in SM
<1>1. pc[c] \in RequestRecord
  BY DEF TypeInv
<1>2. Shape(pc[c])
  BY DEF RequestInv, Requesting
<1>3. pc[c].method = "SETUP" /\ pc[c].path # None
  BY <1>2 DEF Shape, MediaMethods
<1>4. pc[c].sess \in Sessions /\ pc[c].path \in Paths
  BY <1>1, <1>3 DEF RequestRecord
<1>5. ASSUME pc[c].media # None
      PROVE  pc[c].media = <<pc[c].sess, pc[c].path>> /\ sm[pc[c].sess][pc[c].path] \in SM
  <2>1. pc[c].media \in Pairs /\ pc[c].media = <<pc[c].sess, pc[c].path>>
    BY <1>2, <1>5 DEF Shape
  <2>2. sm[pc[c].media[1]][pc[c].media[2]] # None
    BY <2>1 DEF MediaInv, Without
  <2>3. pc[c].media[1] = pc[c].sess /\ pc[c].media[2] = pc[c].path
    BY <2>1
  <2> QED BY <1>4, <2>1, <2>2, <2>3 DEF TypeInv
<1> QED BY <1>3, <1>4, <1>5

\* A media that SETUP has put in its session, and what was let go of with it.
Put(c, n) == Settled([sm EXCEPT ![pc[c].sess][pc[c].path] = n], prepared, {})

Made(c, k, n) ==
    /\ Making(c, n) /\ Put(c, n)
    /\ n.owner = c /\ n.lower = lower[c] /\ n.ch = k
    /\ n.in = IF pc[c].media = None THEN TRUE ELSE sm[pc[c].sess][pc[c].path].in

LEMMA TransportMakes ==
    ASSUME TypeInv, RequestInv, MediaInv, "freed_media" \notin quirks, NEW c \in Clients,
           NEW k \in Chan \cup {None}, SetupTransport(c, k)
    PROVE  \E n \in SM : Made(c, k, n)
<1> DEFINE s == pc[c].sess
           p == pc[c].path
           n == Configured(c, k)
<1>1. /\ pc[c].at = "setup" /\ s # None
      /\ Settle([sm EXCEPT ![s][p] = n], IF pc[c].media = None THEN manage_media(c, prepared) ELSE prepared, {})
  BY DEF SetupTransport
<1>2. /\ s \in Sessions /\ p \in Paths
      /\ pc[c].media # None => sm[s][p] \in SM
  BY <1>1, SetupKnows
<1>3. Settle([sm EXCEPT ![s][p] = n], prepared, {})
  <2>1. (IF pc[c].media = None THEN manage_media(c, prepared) ELSE prepared) = prepared
    BY DEF manage_media
  <2> HIDE DEF n, s, p
  <2> QED BY <1>1, <2>1
<1>4. lower[c] \in {"tcp", "udp"}
  BY DEF TypeInv
<1>5. /\ n \in SM /\ n.owner = c /\ n.lower = lower[c] /\ n.ch = k
      /\ n.in = IF pc[c].media = None THEN TRUE ELSE sm[s][p].in
  <2>1. CASE pc[c].media = None
    <3>1. n = [NewMedia(c, k) EXCEPT !.owner = c, !.lower = lower[c], !.ch = k,
                                     !.state = IF @ = "init" THEN "ready" ELSE @]
      BY <2>1 DEF Configured
    <3> QED BY <1>4, <2>1, <3>1 DEF SM, NewMedia
  <2>2. CASE pc[c].media # None
    <3>1. n = [sm[s][p] EXCEPT !.owner = c, !.lower = lower[c], !.ch = k,
                               !.state = IF @ = "init" THEN "ready" ELSE @]
      BY <2>2 DEF Configured
    <3> QED BY <1>2, <1>4, <2>2, <3>1 DEF SM
  <2> QED BY <2>1, <2>2
<1> HIDE DEF n
<1>6. Making(c, n) /\ Settled([sm EXCEPT ![s][p] = n], prepared, {})
  BY <1>2, <1>3, <1>5, PutMakes
<1>7. Put(c, n)
  BY <1>6 DEF Put
<1>8. Made(c, k, n)
  BY <1>5, <1>6, <1>7 DEF Made
<1> QED BY <1>5, <1>8

\* SETUP that fails, after the session has the media and before it.
FailsNew(c) == \E b \in BOOLEAN : SetupFails(c, b) /\ b /\ pc[c].media = None
FailsOld(c) == \E b \in BOOLEAN : SetupFails(c, b) /\ ~(b /\ pc[c].media = None)

LEMMA FailsMakes ==
    ASSUME TypeInv, RequestInv, MediaInv, "freed_media" \notin quirks, NEW c \in Clients, FailsNew(c)
    PROVE  \E n \in SM :
             /\ Making(c, n) /\ Put(c, n)
             /\ n.lower = "none"
<1> DEFINE s == pc[c].sess
           p == pc[c].path
           n == [NewMedia(c, None) EXCEPT !.lower = "none"]
<1>1. PICK b \in BOOLEAN : SetupFails(c, b) /\ b /\ pc[c].media = None
  BY DEF FailsNew
<1>2. pc[c].at = "setup" /\ s # None /\ Settle([sm EXCEPT ![s][p] = n], prepared, {})
  BY <1>1 DEF SetupFails
<1>3. s \in Sessions /\ p \in Paths
  BY <1>2, SetupKnows
<1>4. n \in SM /\ n.lower = "none"
  BY DEF SM, NewMedia, TypeInv
<1> HIDE DEF n
<1>5. Making(c, n) /\ Settled([sm EXCEPT ![s][p] = n], prepared, {})
  BY <1>2, <1>3, <1>4, PutMakes
<1>6. Put(c, n)
  BY <1>5 DEF Put
<1> QED BY <1>4, <1>5, <1>6

LEMMA FailsFades ==
    ASSUME TypeInv, NEW c \in Clients, FailsOld(c)
    PROVE  Fading
<1>1. Settle(sm, prepared, {})
  BY DEF FailsOld, SetupFails
<1>2. prepared \in CountType /\ Tame(sm)
  BY TameItself DEF TypeInv, CountType
<1> QED BY <1>1, <1>2, SettleFades

LEMMA FailsSteps ==
    ASSUME NEW c \in Clients, NEW b \in BOOLEAN, SetupFails(c, b)
    PROVE  FailsNew(c) \/ FailsOld(c)
BY DEF FailsNew, FailsOld

-----------------------------------------------------------------------------
\* The types.

LEMMA ClientTypes ==
    ASSUME NEW r \in ClientRecord, NEW s \in Sessions
    PROVE  /\ client_watch_session(r, s) \in ClientRecord
           /\ client_unwatch_session(r, s) \in ClientRecord
           /\ CloseEffect(r) \in ClientRecord /\ HadSession(r) \in ClientRecord /\ Notified(r) \in ClientRecord
           /\ SessionEnds(r, s) \in ClientRecord /\ [r EXCEPT !.cached = None] \in ClientRecord
<1>1. ASSUME NEW x \in ClientRecord
      PROVE  CloseEffect(x) \in ClientRecord /\ [x EXCEPT !.cached = None] \in ClientRecord
  <2>1. [x EXCEPT !.watch = "dying", !.timer = None] \in ClientRecord
    BY DEF ClientRecord
  <2>2. [x EXCEPT !.cached = None] \in ClientRecord
    BY DEF ClientRecord
  <2> QED BY <1>1, <2>1, <2>2 DEF CloseEffect
<1>2. client_watch_session(r, s) \in ClientRecord
  BY DEF ClientRecord, client_watch_session
<1>3. client_unwatch_session(r, s) \in ClientRecord
  <2> DEFINE h == IF s \in r.sessions THEN r.sessions # {s} ELSE r.hooked
  <2>1. h \in BOOLEAN /\ r.sessions \ {s} \in SUBSET Sessions
    BY DEF ClientRecord
  <2>2. client_unwatch_session(r, s) = [r EXCEPT !.sessions = r.sessions \ {s}, !.hooked = h]
    BY DEF client_unwatch_session
  <2> HIDE DEF h
  <2> QED BY <2>1, <2>2 DEF ClientRecord
<1>4. HadSession(r) \in ClientRecord /\ Notified(r) \in ClientRecord
  BY DEF ClientRecord, HadSession, Notified
<1>5. SessionEnds(r, s) \in ClientRecord
  <2> DEFINE u == client_unwatch_session(r, s)
  <2>1. \/ SessionEnds(r, s) = u \/ SessionEnds(r, s) = [u EXCEPT !.timer = 0]
        \/ SessionEnds(r, s) = CloseEffect(u)
    BY DEF SessionEnds
  <2> HIDE DEF u
  <2>2. u \in ClientRecord
    BY <1>3 DEF u
  <2>3. [u EXCEPT !.timer = 0] \in ClientRecord
    BY <2>2 DEF ClientRecord
  <2> QED BY <1>1, <2>1, <2>2, <2>3
<1> QED BY <1>1, <1>2, <1>3, <1>4, <1>5

LEMMA IdleType == Idle \in RequestRecord
BY DEF Idle, RequestRecord, At

PutClient == \E c \in Clients : \E r \in ClientRecord : cl' = [cl EXCEPT ![c] = r]
PutRequest == \E c \in Clients : \E r \in RequestRecord : pc' = [pc EXCEPT ![c] = r]
ClientType == cl' \in [Clients -> ClientRecord]
RequestType == pc' \in [Clients -> RequestRecord]

LEMMA PutTypes ==
    ASSUME TypeInv
    PROVE  /\ PutClient \/ UNCHANGED cl => ClientType
           /\ PutRequest \/ UNCHANGED pc => RequestType
BY DEF TypeInv, PutClient, PutRequest, ClientType, RequestType

LEMMA UnlockType ==
    ASSUME TypeInv, NEW c \in Clients, Unlock(c)
    PROVE  lock' \in [Paths -> Clients \cup {None}]
BY DEF TypeInv, Unlock

LEMMA TodoType ==
    ASSUME TypeInv, NEW c \in Clients, todo[c] # <<>>, todo' = [todo EXCEPT ![c] = Tail(@)]
    PROVE  todo' \in [Clients -> Seq(Requests)] /\ Head(todo[c]) \in Requests
BY DEF TypeInv

LEMMA GoType ==
    ASSUME TypeInv, NEW c \in Clients, NEW a \in At, Go(c, a)
    PROVE  PutRequest
<1> DEFINE r == [pc[c] EXCEPT !.at = a]
<1>1. r \in RequestRecord
  <2>1. pc[c] \in RequestRecord
    BY DEF TypeInv
  <2>2. \A x \in RequestRecord : [x EXCEPT !.at = a] \in RequestRecord
    BY DEF RequestRecord
  <2> QED BY <2>1, <2>2
<1>2. pc' = [pc EXCEPT ![c] = r]
  BY DEF Go
<1> HIDE DEF r
<1> QED BY <1>1, <1>2 DEF PutRequest

LEMMA DoneType ==
    ASSUME TypeInv, NEW c \in Clients, Done(c)
    PROVE  PutRequest
BY IdleType DEF Done, PutRequest

\* The types but those of the media.
OtherTypes ==
    /\ ClientType /\ RequestType
    /\ pool' \in SUBSET Sessions /\ fresh' \in SUBSET Sessions
    /\ emit' \in [Sessions -> Emissions \cup {None}]
    /\ lock' \in [Paths -> Clients \cup {None}]
    /\ tunnel' \in Clients \cup {None}
    /\ todo' \in [Clients -> Seq(Requests)]
    /\ lower' \in [Clients -> {"tcp", "udp"}]
    /\ closing' \in SUBSET Clients /\ removals' \in Nat

LEMMA TypesTogether ==
    ASSUME Counts, OtherTypes
    PROVE  TypeInv'
BY DEF Counts, OtherTypes, ClientType, RequestType, TypeInv, MediaType, CountType

LEMMA EndingTypes ==
    ASSUME TypeInv, RequestInv, MediaInv, "freed_media" \notin quirks, NEW c \in Clients,
           Returns(c) \/ Misses(c) \/ HandleSdp(c) \/ TeardownEnd(c)
    PROVE  OtherTypes
<1>1. Done(c) /\ UNCHANGED <<poolVars, tunnel, envVars>> /\ (lock' = lock \/ Unlock(c))
  BY DEF Returns, Misses, FindFails, HandleSdp, TeardownEnd
<1>2. RequestType
  BY <1>1, DoneType, PutTypes
<1>3. lock' \in [Paths -> Clients \cup {None}]
  BY <1>1, UnlockType DEF TypeInv
<1>4. ClientType
  <2>1. CASE cl' = cl
    BY <2>1, PutTypes
  <2>2. CASE Misses(c)
    <3>1. cl' = [cl EXCEPT ![c] = [cl[c] EXCEPT !.cached = None]]
      BY <2>2 DEF Misses, FindFails
    <3>2. [cl[c] EXCEPT !.cached = None] \in ClientRecord
      <4>1. cl[c] \in ClientRecord
        BY DEF TypeInv
      <4>2. \A x \in ClientRecord : [x EXCEPT !.cached = None] \in ClientRecord
        BY DEF ClientRecord
      <4> QED BY <4>1, <4>2
    <3> QED BY <3>1, <3>2, PutTypes DEF PutClient
  <2>3. CASE TeardownEnd(c)
    <3>1. cl' = [cl EXCEPT ![c] = cleanup_transports(c, Lookup(c))]
      BY <2>3 DEF TeardownEnd
    <3>2. cleanup_transports(c, Lookup(c)) \in ClientRecord
      <4>1. cl[c] \in ClientRecord
        BY DEF TypeInv
      <4>2. \A k : [cl[c] EXCEPT !.chan[k] = None] \in ClientRecord
        BY <4>1 DEF ClientRecord
      <4> QED BY <4>1, <4>2 DEF cleanup_transports
    <3> QED BY <3>1, <3>2, PutTypes DEF PutClient
  <2> QED BY <2>1, <2>2, <2>3 DEF Returns, HandleSdp
<1> QED BY <1>1, <1>2, <1>3, <1>4 DEF TypeInv, OtherTypes, poolVars, envVars

LEMMA RecordPuts ==
    /\ \A x \in ClientRecord : \A p \in Paths \cup {None} : [x EXCEPT !.cached = p] \in ClientRecord
    /\ \A x \in RequestRecord : \A a \in At : \A m \in {None} \cup Clients \cup Pairs :
         [x EXCEPT !.at = a, !.media = m] \in RequestRecord
    /\ \A x \in RequestRecord : \A a \in At : \A s \in Sessions :
         [x EXCEPT !.at = a, !.sess = s, !.made = TRUE] \in RequestRecord
BY DEF ClientRecord, RequestRecord

LEMMA LookupTypes ==
    ASSUME TypeInv, RequestInv, MediaInv, "freed_media" \notin quirks, NEW c \in Clients,
           Finds(c) \/ DupMedia(c) \/ Teardown(c) \/ SetupFound(c) \/ SetupLock(c)
    PROVE  OtherTypes
<1>0. pc[c] \in RequestRecord /\ cl[c] \in ClientRecord
  BY DEF TypeInv
<1>1. UNCHANGED <<poolVars, tunnel, envVars>>
  BY DEF Finds, FindMedia, DupMedia, Teardown, SetupFound, SetupLock
<1>2. lock' \in [Paths -> Clients \cup {None}]
  <2>1. lock' = lock \/ \E p : lock' = [lock EXCEPT ![p] = c]
    BY DEF Finds, FindMedia, DupMedia, Teardown, SetupFound, SetupLock, mediaVars
  <2> QED BY <2>1 DEF TypeInv
<1>3. RequestType
  <2>1. CASE Finds(c) \/ Teardown(c) \/ SetupLock(c)
    <3>1. PICK a \in At : Go(c, a)
      BY <2>1 DEF Finds, FindMedia, FoundAt, Teardown, SetupLock, At
    <3> QED BY <3>1, GoType, PutTypes
  <2>2. CASE DupMedia(c) \/ SetupFound(c)
    <3> DEFINE x == <<pc[c].sess, pc[c].path>>
    <3>1. PICK a \in At : pc' = [pc EXCEPT ![c].at = a, ![c].media = x]
      BY <2>2 DEF DupMedia, SetupFound, At
    <3>2. pc[c].method \in MediaMethods /\ pc[c].sess # None /\ pc[c].at = "go"
      BY <2>2 DEF DupMedia, SetupFound, Manages, MediaMethods
    <3>3. x \in Pairs
      BY <1>0, <3>2 DEF RequestInv, Requesting, Shape, RequestRecord, Pairs
    <3> HIDE DEF x
    <3>4. [pc[c] EXCEPT !.at = a, !.media = x] \in RequestRecord
      BY <1>0, <3>1, <3>3, RecordPuts
    <3>5. pc' = [pc EXCEPT ![c] = [pc[c] EXCEPT !.at = a, !.media = x]]
      BY <3>1 DEF TypeInv
    <3> QED BY <3>4, <3>5, PutTypes DEF PutRequest
  <2> QED BY <2>1, <2>2
<1>4. ClientType
  <2>1. CASE Finds(c)
    <3> DEFINE p == pc[c].path
    <3>1. cl' = [cl EXCEPT ![c].cached = p] /\ pc[c].method \in MediaMethods /\ pc[c].at = "go"
      BY <2>1 DEF Finds, FindMedia, Seeks, MediaMethods
    <3>2. p \in Paths
      BY <1>0, <3>1 DEF RequestInv, Requesting, Shape, RequestRecord
    <3> HIDE DEF p
    <3>3. [cl[c] EXCEPT !.cached = p] \in ClientRecord
      BY <1>0, <3>2, RecordPuts
    <3>4. cl' = [cl EXCEPT ![c] = [cl[c] EXCEPT !.cached = p]]
      BY <3>1
    <3> QED BY <3>3, <3>4, PutTypes DEF PutClient
  <2>2. CASE DupMedia(c) \/ Teardown(c) \/ SetupFound(c) \/ SetupLock(c)
    BY <2>2, PutTypes DEF DupMedia, Teardown, SetupFound, SetupLock
  <2> QED BY <2>1, <2>2
<1> QED BY <1>1, <1>2, <1>3, <1>4 DEF TypeInv, OtherTypes, poolVars, envVars

LEMMA RemoveTypes ==
    ASSUME TypeInv, NEW s \in Sessions, NEW b \in Clients \cup {None}, Remove(s, b)
    PROVE  /\ pool' \in SUBSET Sessions /\ fresh' \in SUBSET Sessions
           /\ emit' \in [Sessions -> Emissions \cup {None}]
BY DEF TypeInv, Remove, Emissions

LEMMA SetupTypes ==
    ASSUME TypeInv, RequestInv, MediaInv, "freed_media" \notin quirks, NEW c \in Clients,
           PoolRemove(c) \/ SetupCreate(c) \/ Watches(c)
    PROVE  OtherTypes
<1>0. pc[c] \in RequestRecord /\ cl[c] \in ClientRecord
  BY DEF TypeInv
<1>1. UNCHANGED <<mediaVars, tunnel, envVars>>
  BY DEF PoolRemove, SetupCreate, Watches
<1>2. /\ pool' \in SUBSET Sessions /\ fresh' \in SUBSET Sessions
      /\ emit' \in [Sessions -> Emissions \cup {None}]
  <2>1. CASE PoolRemove(c)
    <3>1. CASE pc[c].sess \in pool
      <4>1. Remove(pc[c].sess, c) /\ pc[c].sess \in Sessions
        BY <2>1, <3>1 DEF PoolRemove, TypeInv
      <4> QED BY <4>1, RemoveTypes
    <3>2. CASE pc[c].sess \notin pool
      BY <2>1, <3>2 DEF PoolRemove, poolVars, TypeInv
    <3> QED BY <3>1, <3>2
  <2>2. CASE SetupCreate(c)
    BY <2>2 DEF SetupCreate, TypeInv
  <2>3. CASE Watches(c)
    BY <2>3 DEF Watches, TypeInv, poolVars
  <2> QED BY <2>1, <2>2, <2>3
<1>3. RequestType
  <2>1. CASE PoolRemove(c) \/ Watches(c)
    <3>1. PICK a \in At : Go(c, a)
      BY <2>1 DEF PoolRemove, Watches, At
    <3> QED BY <3>1, GoType, PutTypes
  <2>2. CASE SetupCreate(c)
    <3>1. PICK s \in fresh : pc' = [pc EXCEPT ![c].at = "setup_watch", ![c].sess = s, ![c].made = TRUE]
      BY <2>2 DEF SetupCreate
    <3>2. s \in Sessions
      BY <3>1 DEF TypeInv
    <3>3. [pc[c] EXCEPT !.at = "setup_watch", !.sess = s, !.made = TRUE] \in RequestRecord
      BY <1>0, <3>2, RecordPuts DEF At
    <3>4. pc' = [pc EXCEPT ![c] = [pc[c] EXCEPT !.at = "setup_watch", !.sess = s, !.made = TRUE]]
      BY <3>1 DEF TypeInv
    <3> QED BY <3>3, <3>4, PutTypes DEF PutRequest
  <2> QED BY <2>1, <2>2
<1>4. ClientType
  <2>1. CASE cl' = cl
    BY <2>1, PutTypes
  <2>2. CASE Watches(c)
    <3>1. pc[c].sess \in Sessions
      BY <1>0, <2>2 DEF Watches, RequestInv, Requesting, Shape, RequestRecord
    <3>2. client_watch_session(cl[c], pc[c].sess) \in ClientRecord
      BY <1>0, <3>1, ClientTypes
    <3>3. cl' = [cl EXCEPT ![c] = client_watch_session(cl[c], pc[c].sess)]
      BY <2>2 DEF Watches
    <3> QED BY <3>2, <3>3, PutTypes DEF PutClient
  <2> QED BY <2>1, <2>2 DEF PoolRemove, SetupCreate
<1> QED BY <1>1, <1>2, <1>3, <1>4 DEF TypeInv, OtherTypes, mediaVars, envVars

\* What SETUP makes of its client and its request.
TransportClient(c, k) ==
    [HadSession(cl[c]) EXCEPT !.cached = IF pc[c].media = None THEN None ELSE @,
        !.chan = [j \in Chan |-> IF j = k THEN <<pc[c].sess, pc[c].path>> ELSE @[j]]]
FailClient(c, b) ==
    [HadSession(cl[c]) EXCEPT !.cached = IF b /\ pc[c].media = None THEN None ELSE @]
FailRequest(c) ==
    IF pc[c].made THEN [pc[c] EXCEPT !.at = "remove", !.media = None] ELSE Idle

LEMMA SetupPuts ==
    ASSUME TypeInv, RequestInv, NEW c \in Clients
    PROVE  /\ \A k \in Chan \cup {None} : SetupTransport(c, k) =>
                cl' = [cl EXCEPT ![c] = TransportClient(c, k)] /\ TransportClient(c, k) \in ClientRecord
           /\ \A b \in BOOLEAN : SetupFails(c, b) =>
                /\ cl' = [cl EXCEPT ![c] = FailClient(c, b)] /\ FailClient(c, b) \in ClientRecord
                /\ pc' = [pc EXCEPT ![c] = FailRequest(c)] /\ FailRequest(c) \in RequestRecord
<1>0. pc[c] \in RequestRecord /\ cl[c] \in ClientRecord
  BY DEF TypeInv
<1>1. HadSession(cl[c]) \in ClientRecord
  BY <1>0 DEF HadSession, ClientRecord
<1>2. ASSUME NEW k \in Chan \cup {None}, SetupTransport(c, k)
      PROVE  cl' = [cl EXCEPT ![c] = TransportClient(c, k)] /\ TransportClient(c, k) \in ClientRecord
  <2> DEFINE x == <<pc[c].sess, pc[c].path>>
  <2>1. x \in Pairs
    <3>1. pc[c].at = "setup" /\ pc[c].sess # None
      BY <1>2 DEF SetupTransport
    <3>2. pc[c].path # None
      BY <3>1 DEF RequestInv, Requesting, Shape, MediaMethods
    <3> QED BY <1>0, <3>1, <3>2 DEF RequestRecord, Pairs
  <2>2. \A r \in ClientRecord : \A q \in Paths \cup {None} :
          [r EXCEPT !.cached = q, !.chan = [j \in Chan |-> IF j = k THEN x ELSE @[j]]] \in ClientRecord
    <3> HIDE DEF x
    <3> QED BY <2>1 DEF ClientRecord
  <2>3. (IF pc[c].media = None THEN None ELSE HadSession(cl[c]).cached) \in Paths \cup {None}
    BY <1>1 DEF ClientRecord
  <2>4. TransportClient(c, k) =
          [HadSession(cl[c]) EXCEPT !.cached = IF pc[c].media = None THEN None ELSE HadSession(cl[c]).cached,
                                    !.chan = [j \in Chan |-> IF j = k THEN x ELSE @[j]]]
    BY DEF TransportClient
  <2>5. TransportClient(c, k) \in ClientRecord
    <3> HIDE DEF x
    <3> QED BY <1>1, <2>2, <2>3, <2>4
  <2>6. cl' = [cl EXCEPT ![c] = TransportClient(c, k)]
    BY <1>2 DEF SetupTransport, TransportClient
  <2> QED BY <2>5, <2>6
<1>3. ASSUME NEW b \in BOOLEAN, SetupFails(c, b)
      PROVE  /\ cl' = [cl EXCEPT ![c] = FailClient(c, b)] /\ FailClient(c, b) \in ClientRecord
             /\ pc' = [pc EXCEPT ![c] = FailRequest(c)] /\ FailRequest(c) \in RequestRecord
  <2> DEFINE q == IF b /\ pc[c].media = None THEN None ELSE HadSession(cl[c]).cached
  <2>1. q \in Paths \cup {None}
    BY <1>1 DEF ClientRecord
  <2>2. FailClient(c, b) = [HadSession(cl[c]) EXCEPT !.cached = q]
    BY DEF FailClient
  <2>3. FailClient(c, b) \in ClientRecord
    <3> HIDE DEF q
    <3> QED BY <1>1, <2>1, <2>2, RecordPuts
  <2>4. cl' = [cl EXCEPT ![c] = FailClient(c, b)]
    BY <1>3 DEF SetupFails, FailClient
  <2>5. pc' = [pc EXCEPT ![c] = FailRequest(c)]
    BY <1>3 DEF SetupFails, FailRequest
  <2>6. FailRequest(c) \in RequestRecord
    BY <1>0, IdleType, RecordPuts DEF FailRequest, At
  <2> QED BY <2>3, <2>4, <2>5, <2>6
<1> QED BY <1>2, <1>3

LEMMA TransportTypes ==
    ASSUME TypeInv, RequestInv, NEW c \in Clients,
           (\E k \in Chan \cup {None} : SetupTransport(c, k)) \/ (\E b \in BOOLEAN : SetupFails(c, b))
    PROVE  OtherTypes
<1>1. UNCHANGED <<poolVars, tunnel, envVars>> /\ Unlock(c)
  BY DEF SetupTransport, SetupFails
<1>2. lock' \in [Paths -> Clients \cup {None}]
  BY <1>1, UnlockType
<1>3. PutClient
  BY SetupPuts DEF PutClient
<1>4. PutRequest
  <2>1. ASSUME NEW k \in Chan \cup {None}, SetupTransport(c, k)
        PROVE  PutRequest
    BY <2>1, DoneType DEF SetupTransport
  <2> QED BY <2>1, SetupPuts DEF PutRequest
<1>5. ClientType /\ RequestType
  BY <1>3, <1>4, PutTypes
<1> QED BY <1>1, <1>2, <1>5 DEF TypeInv, OtherTypes, poolVars, envVars

LEMMA MergeClients ==
    ASSUME TypeInv, RequestInv, NEW c \in Clients, MergeTunnel(c)
    PROVE  /\ pc[c].media \in Clients
           /\ \/ cl' = cl
              \/ /\ Halves(c, pc[c].media)
                 /\ cl' = [cl EXCEPT ![pc[c].media] = [cl[pc[c].media] EXCEPT !.merged = TRUE],
                                     ![c] = [CloseEffect(cl[c]) EXCEPT !.merged = TRUE]]
           /\ ClientType
<1> DEFINE o == pc[c].media
<1>1. o \in Clients
  BY DEF MergeTunnel, RequestInv, Requesting, Shape
<1>2. \/ cl' = cl
      \/ /\ Halves(c, o)
         /\ cl' = [cl EXCEPT ![o].merged = TRUE, ![c] = [CloseEffect(@) EXCEPT !.merged = TRUE]]
  BY DEF MergeTunnel
<1>3. CASE cl' = cl
  BY <1>1, <1>3, PutTypes
<1>4. CASE Halves(c, o) /\ cl' = [cl EXCEPT ![o].merged = TRUE, ![c] = [CloseEffect(@) EXCEPT !.merged = TRUE]]
  <2>1. o # c
    BY <1>4 DEF Halves
  <2>2. cl \in [Clients -> ClientRecord]
    BY DEF TypeInv
  <2>3. \A r \in ClientRecord : [r EXCEPT !.merged = TRUE] \in ClientRecord
    BY DEF ClientRecord
  <2>4. CloseEffect(cl[c]) \in ClientRecord
    <3>1. \A r \in ClientRecord : [r EXCEPT !.watch = "dying", !.timer = None] \in ClientRecord
      BY DEF ClientRecord
    <3> QED BY <2>2, <3>1 DEF CloseEffect
  <2> DEFINE x == [cl[o] EXCEPT !.merged = TRUE]
             y == [CloseEffect(cl[c]) EXCEPT !.merged = TRUE]
  <2>5. x \in ClientRecord /\ y \in ClientRecord
    BY <1>1, <2>2, <2>3, <2>4
  <2>6. cl' = [cl EXCEPT ![o] = x, ![c] = y]
    BY <1>1, <1>4, <2>1, <2>2
  <2>7. ClientType
    <3> HIDE DEF x, y, o
    <3> QED BY <2>2, <2>5, <2>6 DEF ClientType
  <2> QED BY <1>1, <1>4, <2>6, <2>7
<1> QED BY <1>1, <1>2, <1>3, <1>4

LEMMA MergeTypes ==
    ASSUME TypeInv, RequestInv, NEW c \in Clients, MergeTunnel(c)
    PROVE  OtherTypes
<1>1. Done(c) /\ UNCHANGED <<poolVars, mediaVars, tunnel, envVars>>
  BY DEF MergeTunnel
<1>2. ClientType /\ RequestType
  BY <1>1, MergeClients, DoneType, PutTypes
<1> QED BY <1>1, <1>2 DEF TypeInv, OtherTypes, poolVars, envVars, mediaVars

\* What the steps of a connection make of its client.
Left(c, s) ==
    LET r == [cl[c] EXCEPT !.visited = @ \cup {s}, !.closed = ClosedAfter(c, s)]
    IN  IF ClosedAfter(c, s) THEN client_unwatch_session(r, s) ELSE r

ConnectionClient(c, r) ==
    \/ client_watch_notify(c) /\ r = Notified(cl[c])
    \/ (\E s \in Sessions : cleanup_session(c, s) /\ r = Left(c, s))
    \/ NotifyEnd(c) /\ r = [cl[c] EXCEPT !.watch = "gone", !.managed = ~cl[c].closed, !.visited = {}]
    \/ Finalize(c) /\ r = [cl[c] EXCEPT !.finalized = TRUE, !.cached = None]
    \/ gst_rtsp_client_attach(c) /\ r = [cl[c] EXCEPT !.watch = "live", !.timer = 0]
    \/ (rtsp_ctrl_timeout_cb(c) \/ Close(c)) /\ r = [CloseEffect(cl[c]) EXCEPT !.timer = None]
    \/ rtsp_ctrl_timeout_cb(c) /\ r = [cl[c] EXCEPT !.timer = cl[c].timer + 1]
    \/ tunnel_lost(c) /\ r = [cl[c] EXCEPT !.merged = FALSE]
    \/ \E h \in {"GET", "POST"} : HandleTunnel(c, h) /\ r = [cl[c] EXCEPT !.tstate = h]

ConnectionStep(c) ==
    \/ client_watch_notify(c) \/ (\E s \in Sessions : cleanup_session(c, s)) \/ NotifyEnd(c) \/ Finalize(c)
    \/ rtsp_ctrl_timeout_cb(c) \/ gst_rtsp_client_attach(c) \/ Close(c) \/ tunnel_lost(c)
    \/ (\E h \in {"GET", "POST"} : HandleTunnel(c, h))

LEMMA ConnectionClients ==
    ASSUME TypeInv, NEW c \in Clients, ConnectionStep(c)
    PROVE  \E r \in ClientRecord : ConnectionClient(c, r) /\ cl' = [cl EXCEPT ![c] = r]
<1>0. cl \in [Clients -> ClientRecord] /\ cl[c] \in ClientRecord
  BY DEF TypeInv
<1> DEFINE x == cl[c]
<1>1. CASE client_watch_notify(c)
  <2>1. Notified(x) \in ClientRecord /\ cl' = [cl EXCEPT ![c] = Notified(x)]
    BY <1>0, <1>1 DEF client_watch_notify, Notified, ClientRecord
  <2> QED BY <1>1, <2>1 DEF ConnectionClient
<1>2. ASSUME NEW s \in Sessions, cleanup_session(c, s)
      PROVE  \E r \in ClientRecord : ConnectionClient(c, r) /\ cl' = [cl EXCEPT ![c] = r]
  <2> DEFINE b == ClosedAfter(c, s)
             r == [x EXCEPT !.visited = @ \cup {s}, !.closed = b]
  <2>1. b \in BOOLEAN
    BY <1>0 DEF ClosedAfter, ClientRecord
  <2>2. r \in ClientRecord
    <3> HIDE DEF b
    <3> QED BY <1>0, <2>1 DEF ClientRecord
  <2>3. client_unwatch_session(r, s) \in ClientRecord
    <3> HIDE DEF r
    <3> QED BY <2>2, ClientTypes
  <2>4. Left(c, s) \in ClientRecord
    BY <2>2, <2>3 DEF Left
  <2>5. cl' = [cl EXCEPT ![c] = Left(c, s)]
    BY <1>2 DEF cleanup_session, Left
  <2> QED BY <1>2, <2>4, <2>5 DEF ConnectionClient
<1>3. CASE NotifyEnd(c)
  <2> DEFINE r == [x EXCEPT !.watch = "gone", !.managed = ~x.closed, !.visited = {}]
  <2>1. r \in ClientRecord /\ cl' = [cl EXCEPT ![c] = r]
    BY <1>0, <1>3 DEF NotifyEnd, ClientRecord
  <2> QED BY <1>3, <2>1 DEF ConnectionClient
<1>4. CASE Finalize(c)
  <2> DEFINE r == [x EXCEPT !.finalized = TRUE, !.cached = None]
  <2>1. r \in ClientRecord /\ cl' = [cl EXCEPT ![c] = r]
    BY <1>0, <1>4 DEF Finalize, ClientRecord
  <2> QED BY <1>4, <2>1 DEF ConnectionClient
<1>5. CASE gst_rtsp_client_attach(c)
  <2> DEFINE r == [x EXCEPT !.watch = "live", !.timer = 0]
  <2>1. r \in ClientRecord /\ cl' = [cl EXCEPT ![c] = r]
    BY <1>0, <1>5 DEF gst_rtsp_client_attach, ClientRecord
  <2> QED BY <1>5, <2>1 DEF ConnectionClient
<1>6. CASE rtsp_ctrl_timeout_cb(c) \/ Close(c)
  <2> DEFINE r == [CloseEffect(x) EXCEPT !.timer = None]
             r2 == [x EXCEPT !.timer = x.timer + 1]
  <2>1. CloseEffect(x) \in ClientRecord
    <3>1. \A y \in ClientRecord : [y EXCEPT !.watch = "dying", !.timer = None] \in ClientRecord
      BY DEF ClientRecord
    <3> QED BY <1>0, <3>1 DEF CloseEffect
  <2>2. r \in ClientRecord
    BY <2>1 DEF ClientRecord
  <2>3. CASE Close(c)
    <3>1. x.watch = "live" /\ cl' = [cl EXCEPT ![c] = CloseEffect(x)]
      BY <2>3 DEF Close
    <3>2. CloseEffect(x) = r
      BY <1>0, <3>1 DEF CloseEffect, ClientRecord
    <3> QED BY <2>2, <2>3, <3>1, <3>2 DEF ConnectionClient
  <2>4. CASE rtsp_ctrl_timeout_cb(c)
    <3>1. x.timer # None /\ (cl' = [cl EXCEPT ![c] = r] \/ cl' = [cl EXCEPT ![c].timer = @ + 1])
      BY <2>4 DEF rtsp_ctrl_timeout_cb
    <3>2. r2 \in ClientRecord
      BY <1>0, <3>1 DEF ClientRecord
    <3>3. cl' = [cl EXCEPT ![c] = r] \/ cl' = [cl EXCEPT ![c] = r2]
      BY <1>0, <3>1
    <3> HIDE DEF r2, r
    <3>4. CASE cl' = [cl EXCEPT ![c] = r]
      BY <2>2, <2>4, <3>4 DEF ConnectionClient, r
    <3>5. CASE cl' = [cl EXCEPT ![c] = r2]
      BY <2>4, <3>2, <3>5 DEF ConnectionClient, r2
    <3> QED BY <3>3, <3>4, <3>5
  <2> QED BY <1>6, <2>3, <2>4
<1>7. CASE tunnel_lost(c)
  <2> DEFINE r == [x EXCEPT !.merged = FALSE]
  <2>1. r \in ClientRecord /\ cl' = [cl EXCEPT ![c] = r]
    BY <1>0, <1>7 DEF tunnel_lost, ClientRecord
  <2> QED BY <1>7, <2>1 DEF ConnectionClient
<1>8. ASSUME NEW h \in {"GET", "POST"}, HandleTunnel(c, h)
      PROVE  \E r \in ClientRecord : ConnectionClient(c, r) /\ cl' = [cl EXCEPT ![c] = r]
  <2> DEFINE r == [x EXCEPT !.tstate = h]
  <2>1. r \in ClientRecord /\ cl' = [cl EXCEPT ![c] = r]
    BY <1>0, <1>8 DEF HandleTunnel, ClientRecord
  <2> QED BY <1>8, <2>1 DEF ConnectionClient
<1> QED BY <1>1, <1>2, <1>3, <1>4, <1>5, <1>6, <1>7, <1>8 DEF ConnectionStep

LEMMA ConnectionTypes ==
    ASSUME TypeInv, RequestInv, NEW c \in Clients, ConnectionStep(c),
           UNCHANGED todo \/ (todo[c] # <<>> /\ todo' = [todo EXCEPT ![c] = Tail(@)])
    PROVE  OtherTypes
<1>1. ClientType
  BY ConnectionClients, PutTypes DEF PutClient
<1>2. /\ UNCHANGED <<poolVars, lock, lower, closing, removals>>
      /\ tunnel' \in Clients \cup {None}
  BY DEF ConnectionStep, client_watch_notify, cleanup_session, NotifyEnd, Finalize, rtsp_ctrl_timeout_cb,
         gst_rtsp_client_attach, Close, tunnel_lost, HandleTunnel, poolVars, mediaVars, envVars, TypeInv,
         TunnelAfterClose
<1>3. RequestType
  <2>1. CASE pc' = pc
    BY <2>1, PutTypes
  <2>2. ASSUME NEW h \in {"GET", "POST"}, HandleTunnel(c, h)
        PROVE  RequestType
    <3>1. pc' = pc \/ (tunnel # None /\ pc' = [pc EXCEPT ![c] = [Idle EXCEPT !.at = "tunnel", !.media = tunnel]])
      BY <2>2 DEF HandleTunnel
    <3>2. tunnel # None => [Idle EXCEPT !.at = "tunnel", !.media = tunnel] \in RequestRecord
      BY IdleType, RecordPuts DEF TypeInv, At
    <3> QED BY <3>1, <3>2, PutTypes DEF PutRequest
  <2> QED BY <2>1, <2>2 DEF ConnectionStep, client_watch_notify, cleanup_session, NotifyEnd, Finalize,
                             rtsp_ctrl_timeout_cb, gst_rtsp_client_attach, Close, tunnel_lost
<1>4. todo' \in [Clients -> Seq(Requests)]
  BY TodoType DEF TypeInv
<1> QED BY <1>1, <1>2, <1>3, <1>4 DEF TypeInv, OtherTypes, poolVars

LEMMA RequestTypes ==
    ASSUME TypeInv, NEW c \in Clients, todo[c] # <<>>, Head(todo[c]).method \notin {"GET", "POST"},
           NEW s \in Sessions \cup {None}, HandleRequest(c, Head(todo[c]), s)
    PROVE  /\ OtherTypes
           /\ Head(todo[c]).method \in MediaMethods => Head(todo[c]).path \in Paths
<1> DEFINE q == Head(todo[c])
           r == [Idle EXCEPT !.at = IF s = None THEN "go" ELSE "found", !.method = q.method, !.path = q.path, !.sess = s]
<1>1. UNCHANGED <<cl, poolVars, mediaVars, tunnel, lower, closing, removals>> /\ pc' = [pc EXCEPT ![c] = r]
  BY DEF HandleRequest
<1>2. todo' \in [Clients -> Seq(Requests)] /\ q \in Requests
  BY TodoType DEF HandleRequest
<1>3. /\ q.method \in MediaMethods \cup OtherMethods /\ q.path \in Paths \cup {None}
      /\ q.method \in MediaMethods => q.path \in Paths
  BY <1>2 DEF Requests, MediaMethods, OtherMethods
<1>4. r \in RequestRecord
  <2> HIDE DEF q
  <2> QED BY <1>3 DEF Idle, RequestRecord, At
<1>5. ClientType /\ RequestType
  BY <1>1, <1>4, PutTypes DEF PutRequest
<1> QED BY <1>1, <1>2, <1>3, <1>5 DEF TypeInv, OtherTypes, poolVars, mediaVars

LEMMA EmissionTypes ==
    ASSUME NEW s \in Sessions, NEW e, e \in [Sessions -> Emissions \cup {None}], e[s] # None
    PROVE  /\ e[s].by \in Clients \cup {None} /\ e[s].left \in {None} \cup SUBSET Clients
           /\ \A l \in {None} \cup SUBSET Clients :
                [e EXCEPT ![s].left = l] \in [Sessions -> Emissions \cup {None}]
           /\ [e EXCEPT ![s] = None] \in [Sessions -> Emissions \cup {None}]
<1>1. e[s] \in Emissions
  OBVIOUS
<1>2. e[s].by \in Clients \cup {None} /\ e[s].left \in {None} \cup SUBSET Clients
  BY <1>1 DEF Emissions
<1>3. ASSUME NEW l \in {None} \cup SUBSET Clients
      PROVE  [e EXCEPT ![s].left = l] \in [Sessions -> Emissions \cup {None}]
  <2>1. [e[s] EXCEPT !.left = l] \in Emissions
    BY <1>1 DEF Emissions
  <2> QED BY <2>1
<1> QED BY <1>2, <1>3

LEMMA EmitClients ==
    ASSUME TypeInv, NEW s \in Sessions, NEW c \in Clients, EmitTo(s, c)
    PROVE  /\ emit[s] # None /\ emit[s].left \in SUBSET Clients /\ c \in emit[s].left
           /\ \/ cl[c].hooked /\ cl' = [cl EXCEPT ![c] = SessionEnds(cl[c], s)]
              \/ ~cl[c].hooked /\ UNCHANGED <<cl, tunnel>>
           /\ SessionEnds(cl[c], s) \in ClientRecord
<1>1. emit[s] # None /\ emit[s].left # None /\ c \in emit[s].left
  BY DEF EmitTo
<1>2. emit[s].left \in SUBSET Clients
  BY <1>1, EmissionTypes DEF TypeInv
<1>3. \/ cl[c].hooked /\ cl' = [cl EXCEPT ![c] = SessionEnds(cl[c], s)]
      \/ ~cl[c].hooked /\ UNCHANGED <<cl, tunnel>>
  BY DEF EmitTo, client_session_removed
<1>4. SessionEnds(cl[c], s) \in ClientRecord
  BY ClientTypes DEF TypeInv
<1> QED BY <1>1, <1>2, <1>3, <1>4

LEMMA EmitToTypes ==
    ASSUME TypeInv, NEW s \in Sessions, NEW c \in Clients, EmitTo(s, c)
    PROVE  OtherTypes
<1>1. UNCHANGED <<pc, pool, fresh, lock, envVars>>
  BY DEF EmitTo
<1>2. ClientType /\ RequestType
  BY <1>1, EmitClients, PutTypes DEF PutClient
<1>3. emit' \in [Sessions -> Emissions \cup {None}]
  <2>1. emit' = [emit EXCEPT ![s].left = emit[s].left \ {c}]
    BY DEF EmitTo, TypeInv
  <2>2. emit[s] # None /\ emit[s].left \ {c} \in {None} \cup SUBSET Clients
    BY EmitClients
  <2> QED BY <2>1, <2>2, EmissionTypes DEF TypeInv
<1>4. tunnel' \in Clients \cup {None}
  BY DEF EmitTo, client_session_removed, TunnelAfterClose, TypeInv
<1> QED BY <1>1, <1>2, <1>3, <1>4 DEF TypeInv, OtherTypes, envVars

LEMMA PoolTypes ==
    ASSUME TypeInv, NEW s \in Sessions, EmitBegin(s) \/ EmitEnd(s) \/ Expire(s)
    PROVE  OtherTypes
<1>1. UNCHANGED <<cl, lock, tunnel, todo, lower, closing>>
  BY DEF EmitBegin, EmitEnd, Expire, mediaVars, envVars, callVars
<1>2. CASE EmitBegin(s)
  <2>1. {c \in Clients : cl[c].hooked} \in {None} \cup SUBSET Clients
    OBVIOUS
  <2>2. /\ emit[s] # None /\ emit' = [emit EXCEPT ![s].left = {c \in Clients : cl[c].hooked}]
        /\ UNCHANGED <<callVars, pool, fresh, envVars>>
    BY <1>2 DEF EmitBegin
  <2>3. emit' \in [Sessions -> Emissions \cup {None}]
    BY <2>1, <2>2, EmissionTypes DEF TypeInv
  <2>4. ClientType /\ RequestType
    BY <2>2, PutTypes DEF callVars
  <2> QED BY <1>1, <2>2, <2>3, <2>4 DEF TypeInv, OtherTypes, envVars
<1>3. CASE EmitEnd(s)
  <2>1. /\ emit[s] # None /\ emit' = [emit EXCEPT ![s] = None]
        /\ UNCHANGED <<cl, pool, fresh, envVars>>
        /\ pc' = IF emit[s].by = None THEN pc ELSE [pc EXCEPT ![emit[s].by].at = "emitted"]
    BY <1>3 DEF EmitEnd
  <2>2. emit' \in [Sessions -> Emissions \cup {None}] /\ emit[s].by \in Clients \cup {None}
    BY <2>1, EmissionTypes DEF TypeInv
  <2>3. RequestType
    <3>1. CASE emit[s].by = None
      BY <2>1, <3>1, PutTypes
    <3>2. CASE emit[s].by # None
      <4>1. emit[s].by \in Clients /\ Go(emit[s].by, "emitted")
        BY <2>1, <2>2, <3>2 DEF Go
      <4> QED BY <4>1, GoType, PutTypes DEF At
    <3> QED BY <3>1, <3>2
  <2>4. ClientType
    BY <2>1, PutTypes
  <2> QED BY <1>1, <2>1, <2>2, <2>3, <2>4 DEF TypeInv, OtherTypes, envVars
<1>4. CASE Expire(s)
  <2>1. /\ Remove(s, None) /\ removals > 0 /\ removals' = removals - 1 /\ UNCHANGED callVars
    BY <1>4 DEF Expire
  <2>2. ClientType /\ RequestType
    BY <2>1, PutTypes DEF callVars
  <2>3. removals' \in Nat
    BY <2>1 DEF TypeInv
  <2> QED BY <1>1, <2>1, <2>2, <2>3, RemoveTypes DEF TypeInv, OtherTypes
<1> QED BY <1>2, <1>3, <1>4

\* Every step but those of SETUP that make a media.
Makes(c) == FailsNew(c) \/ \E k \in Chan \cup {None} : SetupTransport(c, k)

LEMMA StepFades ==
    ASSUME TypeInv, RequestInv, MediaInv, "freed_media" \notin quirks, Steps
    PROVE  Fading \/ \E c \in Clients : Makes(c)
<1>1. ASSUME NEW c \in Clients, RequestStep(c) \/ OtherStep(c)
      PROVE  Fading \/ Makes(c)
  <2>1. Fader(c) \/ Makes(c) \/ \E b \in BOOLEAN : SetupFails(c, b)
    BY <1>1 DEF RequestStep, Fader, Makes
  <2> QED BY <2>1, FaderFades, FailsSteps, FailsFades DEF Makes
<1>2. ASSUME NEW s \in Sessions, PoolStep(s)
      PROVE  Fading
  BY <1>2, PoolFades
<1> QED BY <1>1, <1>2 DEF Steps

LEMMA MakesMakes ==
    ASSUME TypeInv, RequestInv, MediaInv, "freed_media" \notin quirks, NEW c \in Clients, Makes(c)
    PROVE  \E n \in SM : Making(c, n)
BY TransportMakes, FailsMakes DEF Makes, Made

LEMMA TypeStep ==
    ASSUME TypeInv, RequestInv, MediaInv, "freed_media" \notin quirks, Steps
    PROVE  TypeInv'
<1>1. Counts
  BY StepFades, MakesMakes DEF Fading, Making
<1>2. OtherTypes
  <2>1. ASSUME NEW c \in Clients, RequestStep(c)
        PROVE  OtherTypes
    BY <2>1, EndingTypes, LookupTypes, SetupTypes, TransportTypes, MergeTypes DEF RequestStep
  <2>2. ASSUME NEW c \in Clients, OtherStep(c)
        PROVE  OtherTypes
    <3>1. CASE \E s \in Sessions \cup {None} : todo[c] # <<>> /\ Head(todo[c]).method \notin {"GET", "POST"}
                                               /\ HandleRequest(c, Head(todo[c]), s)
      BY <3>1, RequestTypes
    <3>2. CASE todo[c] # <<>> /\ Head(todo[c]).method \in {"GET", "POST"} /\ HandleTunnel(c, Head(todo[c]).method)
      <4>1. ConnectionStep(c) /\ todo' = [todo EXCEPT ![c] = Tail(@)]
        BY <3>2 DEF ConnectionStep, HandleTunnel
      <4> QED BY <3>2, <4>1, ConnectionTypes
    <3>3. CASE \/ client_watch_notify(c) \/ (\E s \in Sessions : cleanup_session(c, s)) \/ NotifyEnd(c)
               \/ Finalize(c) \/ rtsp_ctrl_timeout_cb(c) \/ gst_rtsp_client_attach(c) \/ Close(c) \/ tunnel_lost(c)
      <4>1. ConnectionStep(c) /\ UNCHANGED todo
        BY <3>3 DEF ConnectionStep, client_watch_notify, cleanup_session, NotifyEnd, Finalize,
                    rtsp_ctrl_timeout_cb, gst_rtsp_client_attach, Close, tunnel_lost, envVars
      <4> QED BY <4>1, ConnectionTypes
    <3> QED BY <2>2, <3>1, <3>2, <3>3 DEF OtherStep
  <2>3. ASSUME NEW s \in Sessions, PoolStep(s)
        PROVE  OtherTypes
    BY <2>3, EmitToTypes, PoolTypes DEF PoolStep
  <2> QED BY <2>1, <2>2, <2>3 DEF Steps
<1> QED BY <1>1, <1>2, TypesTogether

-----------------------------------------------------------------------------
\* What a request has found out.

Watched == {"live", "dying"}

LEMMA RequestPath ==
    ASSUME TypeInv, NEW c \in Clients, Requesting(c), Locks(pc[c])
    PROVE  pc[c].path \in Paths
BY DEF TypeInv, RequestRecord, Requesting, Shape, Locks, MediaMethods

LEMMA RequestStill ==
    ASSUME TypeInv, NEW c \in Clients, Requesting(c), pc'[c] = pc[c],
           pc[c].at # "idle" => cl'[c].watch \in Watched,
           Caches(pc[c]) => cl'[c].cached = cl[c].cached,
           \A p \in Paths : lock[p] = c => lock'[p] = c
    PROVE  Requesting(c)'
<1>1. Shape(pc'[c]) /\ (pc'[c].at # "idle" => cl'[c].watch \in {"live", "dying"})
  BY DEF Requesting, Watched
<1>2. Locks(pc'[c]) => lock'[pc'[c].path] = c
  <2>1. Locks(pc[c]) => lock[pc[c].path] = c /\ pc[c].path \in Paths
    BY RequestPath DEF Requesting
  <2> QED BY <2>1
<1>3. Caches(pc'[c]) => cl'[c].cached = pc'[c].path
  BY DEF Requesting
<1> QED BY <1>1, <1>2, <1>3 DEF Requesting

LEMMA LockKept ==
    ASSUME TypeInv, NEW c \in Clients,
           \/ lock' = lock \/ Unlock(c)
           \/ \E p : lock[p] = None /\ lock' = [lock EXCEPT ![p] = c]
    PROVE  \A d \in Clients \ {c} : \A p \in Paths : lock[p] = d => lock'[p] = d
<1>1. lock \in [Paths -> Clients \cup {None}]
  BY DEF TypeInv
<1>2. CASE lock' = lock
  BY <1>2
<1>3. CASE Unlock(c)
  BY <1>3 DEF Unlock
<1>4. CASE \E p : lock[p] = None /\ lock' = [lock EXCEPT ![p] = c]
  BY <1>1, <1>4, Apart
<1> QED BY <1>2, <1>3, <1>4

\* The other clients notice nothing of a request.
Alone(c) == \A d \in Clients \ {c} : pc'[d] = pc[d] /\ cl'[d] = cl[d]

LEMMA AloneStill ==
    ASSUME TypeInv, RequestInv, NEW c \in Clients, Alone(c),
           \/ lock' = lock \/ Unlock(c)
           \/ \E p : lock[p] = None /\ lock' = [lock EXCEPT ![p] = c],
           Requesting(c)'
    PROVE  RequestInv'
<1>1. ASSUME NEW d \in Clients \ {c}
      PROVE  Requesting(d)'
  <2>1. Requesting(d) /\ pc'[d] = pc[d] /\ cl'[d] = cl[d]
    BY <1>1 DEF RequestInv, Alone
  <2>2. \A p \in Paths : lock[p] = d => lock'[p] = d
    BY LockKept
  <2>3. /\ pc[d].at # "idle" => cl'[d].watch \in Watched
        /\ Caches(pc[d]) => cl'[d].cached = cl[d].cached
    BY <2>1 DEF Requesting, Watched
  <2> QED BY <2>1, <2>2, <2>3, RequestStill
<1> QED BY <1>1 DEF RequestInv

LEMMA IdleRequests ==
    ASSUME NEW c \in Clients, pc'[c] = Idle
    PROVE  Requesting(c)'
<1>1. Shape(Idle) /\ ~Locks(Idle) /\ ~Caches(Idle) /\ Idle.at = "idle"
  BY Apart DEF Shape, Idle, Locks, Caches
<1> QED BY <1>1 DEF Requesting

\* The steps of one client, and of a request alone.
LEMMA RequestAlone ==
    ASSUME TypeInv, NEW c \in Clients, RequestStep(c), ~MergeTunnel(c)
    PROVE  /\ Alone(c)
           /\ \/ lock' = lock \/ Unlock(c)
              \/ \E p : lock[p] = None /\ lock' = [lock EXCEPT ![p] = c]
<1>1. CASE \/ Returns(c) \/ Misses(c) \/ Finds(c) \/ HandleSdp(c) \/ TeardownEnd(c)
           \/ (\E k \in Chan \cup {None} : SetupTransport(c, k))
  BY <1>1 DEF Alone, TypeInv, Returns, Misses, FindFails, Finds, FindMedia, HandleSdp, TeardownEnd, SetupTransport,
              Done, Go
<1>2. CASE \/ DupMedia(c) \/ Teardown(c) \/ PoolRemove(c) \/ SetupFound(c) \/ SetupLock(c) \/ SetupCreate(c)
           \/ Watches(c) \/ (\E b \in BOOLEAN : SetupFails(c, b))
  BY <1>2 DEF Alone, TypeInv, DupMedia, Teardown, PoolRemove, SetupFound, SetupLock, SetupCreate, Watches,
              SetupFails, Go, mediaVars
<1> QED BY <1>1, <1>2 DEF RequestStep

LEMMA RequestDone ==
    ASSUME TypeInv, RequestInv, NEW c \in Clients,
           \/ Returns(c) \/ Misses(c) \/ HandleSdp(c) \/ TeardownEnd(c)
           \/ (\E k \in Chan \cup {None} : SetupTransport(c, k))
    PROVE  pc'[c] = Idle
BY DEF TypeInv, Returns, Misses, FindFails, HandleSdp, TeardownEnd, SetupTransport, Done

LEMMA RequestFinds ==
    ASSUME TypeInv, RequestInv, NEW c \in Clients, Finds(c)
    PROVE  /\ pc'[c] = [pc[c] EXCEPT !.at = FoundAt(c)] /\ pc[c].path \in Paths /\ pc[c].media = None
           /\ pc[c].at = "go" /\ lock'[pc[c].path] = c /\ cl'[c] = [cl[c] EXCEPT !.cached = pc[c].path]
           /\ pc[c].method \in {"DESCRIBE", "ANNOUNCE", "SETUP"}
<1>1. pc[c] \in RequestRecord /\ Shape(pc[c])
  BY DEF TypeInv, RequestInv, Requesting
<1>2. pc[c].at = "go" /\ pc[c].method \in {"DESCRIBE", "ANNOUNCE", "SETUP"}
  BY DEF Finds, Seeks
<1>3. pc[c].path \in Paths /\ pc[c].media = None
  BY <1>1, <1>2 DEF Shape, MediaMethods, RequestRecord
<1> QED BY <1>2, <1>3 DEF Finds, FindMedia, Go, TypeInv

LEMMA FindsRequests ==
    ASSUME TypeInv, RequestInv, NEW c \in Clients, Finds(c)
    PROVE  Requesting(c)'
<1> DEFINE r == pc[c]
           a == FoundAt(c)
           n == [r EXCEPT !.at = a]
<1>1. /\ pc'[c] = n /\ r.path \in Paths /\ r.media = None
      /\ r.at = "go" /\ lock'[r.path] = c /\ cl'[c] = [cl[c] EXCEPT !.cached = r.path]
      /\ r.method \in {"DESCRIBE", "ANNOUNCE", "SETUP"}
  BY RequestFinds
<1>2. r \in RequestRecord /\ cl[c] \in ClientRecord /\ Requesting(c)
  BY DEF TypeInv, RequestInv
<1>3. \/ a \in {"described", "announced"} /\ r.method \in {"DESCRIBE", "ANNOUNCE"}
      \/ a = "setup" /\ r.method = "SETUP"
  BY <1>1 DEF FoundAt
<1>4. n.at = a /\ n.media = None /\ n.method = r.method /\ n.path = r.path /\ n.made = r.made
  BY <1>1, <1>2 DEF RequestRecord
<1> HIDE DEF a, n
<1>5. Shape(n)
  BY <1>1, <1>3, <1>4, Apart DEF Shape
<1>6. cl'[c].watch = cl[c].watch /\ cl'[c].cached = r.path
  BY <1>1, <1>2 DEF ClientRecord
<1>7. cl[c].watch \in {"live", "dying"}
  BY <1>1, <1>2 DEF Requesting
<1>8. Shape(pc'[c]) /\ lock'[pc'[c].path] = c /\ cl'[c].cached = pc'[c].path /\ cl'[c].watch \in {"live", "dying"}
  BY <1>1, <1>4, <1>5, <1>6, <1>7
<1> QED BY <1>8 DEF Requesting

LEMMA DupRequests ==
    ASSUME TypeInv, RequestInv, NEW c \in Clients, DupMedia(c) \/ SetupFound(c)
    PROVE  Requesting(c)'
<1> DEFINE r == pc[c]
           x == <<r.sess, r.path>>
<1>1. r \in RequestRecord /\ Requesting(c) /\ Shape(r)
  BY DEF TypeInv, RequestInv, Requesting
<1>2. r.at = "go" /\ r.sess # None /\ cl' = cl /\ pc \in [Clients -> RequestRecord]
  BY DEF DupMedia, SetupFound, Manages, TypeInv
<1>3. \/ r.method \in {"PLAY", "PAUSE", "TEARDOWN", "RECORD"} /\ pc' = [pc EXCEPT ![c].at = "dup", ![c].media = x]
      \/ r.method = "SETUP" /\ pc' = [pc EXCEPT ![c].at = "setup_lock", ![c].media = x]
  BY DEF DupMedia, SetupFound
<1>4. r.path # None
  BY <1>1, <1>2, <1>3 DEF Shape, MediaMethods
<1>5. x \in Pairs
  BY <1>1, <1>2, <1>4 DEF RequestRecord, Pairs
<1>6. PICK a \in {"dup", "setup_lock"} : pc'[c] = [r EXCEPT !.at = a, !.media = x] /\
        (\/ a = "dup" /\ r.method \in {"PLAY", "PAUSE", "TEARDOWN", "RECORD"}
         \/ a = "setup_lock" /\ r.method = "SETUP")
  <2> HIDE DEF x
  <2> QED BY <1>2, <1>3
<1>7. PICK n : n = pc'[c]
  OBVIOUS
<1>8. n.at = a /\ n.media = x /\ n.sess = r.sess /\ n.path = r.path /\ n.method = r.method /\ n.made = r.made
  <2> HIDE DEF x
  <2> QED BY <1>1, <1>6, <1>7 DEF RequestRecord
<1>9. r.made = FALSE
  BY <1>1, <1>2 DEF Shape, RequestRecord
<1>10. Shape(n) /\ ~Locks(n) /\ ~Caches(n)
  BY <1>2, <1>4, <1>5, <1>6, <1>8, <1>9, Apart DEF Shape, Locks, Caches
<1>11. cl'[c].watch \in {"live", "dying"}
  BY <1>1, <1>2 DEF Requesting
<1> QED BY <1>7, <1>10, <1>11 DEF Requesting

\* A request that only moves on.
LEMMA GoRequests ==
    ASSUME TypeInv, RequestInv, NEW c \in Clients, NEW a \in At, Go(c, a), a \notin {"idle", "tunnel"},
           cl'[c].watch = cl[c].watch, cl'[c].cached = cl[c].cached, pc[c].at # "idle",
           Shape([pc[c] EXCEPT !.at = a]),
           a \in {"described", "announced", "setup", "setup_watch"} => lock'[pc[c].path] = c,
           Caches([pc[c] EXCEPT !.at = a]) => Caches(pc[c])
    PROVE  Requesting(c)'
<1> DEFINE r == pc[c]
<1>1. r \in RequestRecord /\ Requesting(c)
  BY DEF TypeInv, RequestInv
<1>2. PICK n : n = [r EXCEPT !.at = a]
  OBVIOUS
<1>3. pc'[c] = n /\ Shape(n)
  BY <1>2 DEF Go, TypeInv
<1>4. n.at = a /\ n.path = r.path
  BY <1>1, <1>2 DEF RequestRecord
<1>5. cl'[c].watch \in {"live", "dying"}
  BY <1>1 DEF Requesting
<1>6. Locks(n) => lock'[n.path] = c
  BY <1>4 DEF Locks
<1>7. Caches(n) => cl'[c].cached = n.path
  BY <1>1, <1>2, <1>4 DEF Requesting
<1> QED BY <1>3, <1>5, <1>6, <1>7 DEF Requesting

LEMMA GoShapes ==
    ASSUME NEW r \in RequestRecord, Shape(r)
    PROVE  /\ r.at = "dup" /\ r.method = "TEARDOWN" => \A a \in {"emitted", "remove"} : Shape([r EXCEPT !.at = a])
           /\ r.at \in {"remove", "emit"} => \A a \in {"emit", "emitted"} : Shape([r EXCEPT !.at = a])
           /\ r.at = "setup_lock" => Shape([r EXCEPT !.at = "setup"])
           /\ r.at = "found" => Shape([r EXCEPT !.at = "go"])
           /\ r.at = "setup_watch" => Shape([r EXCEPT !.at = "setup"])
<1>1. \A a \in At : LET n == [r EXCEPT !.at = a]
                    IN  n.at = a /\ n.method = r.method /\ n.sess = r.sess /\ n.path = r.path /\ n.media = r.media
                        /\ n.made = r.made
  BY DEF RequestRecord
<1>2. r.at = "dup" => r.sess # None
  BY Apart DEF Shape, Pairs
<1>3. ASSUME r.at = "dup" /\ r.method = "TEARDOWN", NEW a \in {"emitted", "remove"}
      PROVE  Shape([r EXCEPT !.at = a])
  <2> PICK n : n = [r EXCEPT !.at = a]
    OBVIOUS
  <2>1. n.at = a /\ n.method = r.method /\ n.sess = r.sess /\ n.path = r.path /\ n.media = r.media /\ n.made = r.made
    BY <1>1, <1>3 DEF At
  <2> QED BY <1>2, <1>3, <2>1 DEF Shape, MediaMethods
<1>4. ASSUME r.at \in {"remove", "emit"}, NEW a \in {"emit", "emitted"}
      PROVE  Shape([r EXCEPT !.at = a])
  <2> PICK n : n = [r EXCEPT !.at = a]
    OBVIOUS
  <2>1. n.at = a /\ n.method = r.method /\ n.sess = r.sess /\ n.path = r.path /\ n.media = r.media /\ n.made = r.made
    BY <1>1, <1>4 DEF At
  <2> QED BY <1>4, <2>1 DEF Shape
<1>5. ASSUME r.at = "setup_lock"
      PROVE  Shape([r EXCEPT !.at = "setup"])
  <2> PICK n : n = [r EXCEPT !.at = "setup"]
    OBVIOUS
  <2>1. n.at = "setup" /\ n.method = r.method /\ n.sess = r.sess /\ n.path = r.path /\ n.media = r.media /\ n.made = r.made
    BY <1>1 DEF At
  <2> QED BY <1>5, <2>1 DEF Shape
<1>6. ASSUME r.at = "found"
      PROVE  Shape([r EXCEPT !.at = "go"])
  <2> PICK n : n = [r EXCEPT !.at = "go"]
    OBVIOUS
  <2>1. n.at = "go" /\ n.method = r.method /\ n.sess = r.sess /\ n.path = r.path /\ n.media = r.media /\ n.made = r.made
    BY <1>1 DEF At
  <2> QED BY <1>6, <2>1, Apart DEF Shape
<1>7. ASSUME r.at = "setup_watch"
      PROVE  Shape([r EXCEPT !.at = "setup"])
  <2> PICK n : n = [r EXCEPT !.at = "setup"]
    OBVIOUS
  <2>1. n.at = "setup" /\ n.method = r.method /\ n.sess = r.sess /\ n.path = r.path /\ n.media = r.media /\ n.made = r.made
    BY <1>1 DEF At
  <2> QED BY <1>7, <2>1 DEF Shape
<1> QED BY <1>3, <1>4, <1>5, <1>6, <1>7

LEMMA GoCaches ==
    ASSUME NEW r \in RequestRecord, NEW a \in At
    PROVE  Caches([r EXCEPT !.at = a]) <=>
             a \in {"described", "announced"} \/ (a \in {"setup", "setup_watch"} /\ r.media = None)
<1> PICK n : n = [r EXCEPT !.at = a]
  OBVIOUS
<1>1. n.at = a /\ n.media = r.media
  BY DEF RequestRecord
<1> QED BY <1>1 DEF Caches

LEMMA WatchSession ==
    ASSUME NEW r \in ClientRecord, NEW s \in Sessions, NEW n, n = client_watch_session(r, s)
    PROVE  /\ n.sessions = r.sessions \cup {s} /\ n.hooked
           /\ n.watch = r.watch /\ n.cached = r.cached /\ n.timer = r.timer /\ n.visited = r.visited
           /\ n.tstate = r.tstate /\ n.merged = r.merged /\ n.had = r.had /\ n.finalized = r.finalized
           /\ n.chan = r.chan /\ n.closed = r.closed /\ n.managed = r.managed
BY DEF ClientRecord, client_watch_session

LEMMA MovesRequests ==
    ASSUME TypeInv, RequestInv, NEW c \in Clients,
           Teardown(c) \/ PoolRemove(c) \/ SetupLock(c) \/ Watches(c)
    PROVE  Requesting(c)'
<1> DEFINE r == pc[c]
<1>1. r \in RequestRecord /\ Requesting(c) /\ Shape(r) /\ cl[c] \in ClientRecord
  BY DEF TypeInv, RequestInv, Requesting
<1>2. CASE Teardown(c) \/ PoolRemove(c)
  <2>1. PICK a \in {"emit", "emitted", "remove"} :
          Go(c, a) /\ (\/ r.at = "dup" /\ r.method = "TEARDOWN" /\ a \in {"emitted", "remove"}
                       \/ r.at = "remove" /\ a \in {"emit", "emitted"})
    <3>1. CASE Teardown(c)
      BY <3>1 DEF Teardown
    <3>2. CASE PoolRemove(c)
      BY <3>2 DEF PoolRemove
    <3> QED BY <1>2, <3>1, <3>2
  <2>2. Shape([r EXCEPT !.at = a])
    BY <1>1, <2>1, GoShapes
  <2>3. ~Caches([r EXCEPT !.at = a])
    BY <1>1, <2>1, GoCaches DEF At
  <2>4. cl' = cl
    BY <1>2 DEF Teardown, PoolRemove
  <2> QED BY <2>1, <2>2, <2>3, <2>4, GoRequests DEF At
<1>3. CASE SetupLock(c)
  <2>1. r.at = "setup_lock" /\ Go(c, "setup") /\ lock' = [lock EXCEPT ![r.path] = c] /\ cl' = cl
    BY <1>3 DEF SetupLock
  <2>2. Shape([r EXCEPT !.at = "setup"])
    BY <1>1, <2>1, GoShapes
  <2>3. r.media # None /\ r.path \in Paths
    BY <1>1, <2>1, Apart DEF Shape, Pairs
  <2>4. ~Caches([r EXCEPT !.at = "setup"])
    BY <1>1, <2>3, GoCaches DEF At
  <2>5. lock'[r.path] = c
    BY <2>1, <2>3 DEF TypeInv
  <2> QED BY <2>1, <2>2, <2>4, <2>5, GoRequests DEF At
<1>4. CASE Watches(c)
  <2> DEFINE a == IF r.at = "found" THEN "go" ELSE "setup"
  <2>1. /\ r.at \in {"found", "setup_watch"} /\ Go(c, a) /\ lock' = lock
        /\ cl' = [cl EXCEPT ![c] = client_watch_session(cl[c], r.sess)]
    BY <1>4 DEF Watches, mediaVars
  <2>2. Shape([r EXCEPT !.at = a])
    BY <1>1, <2>1, GoShapes
  <2>3. r.sess \in Sessions
    BY <1>1, <2>1 DEF Shape, RequestRecord
  <2>4. cl'[c] = client_watch_session(cl[c], r.sess)
    BY <2>1 DEF TypeInv
  <2>5. cl'[c].watch = cl[c].watch /\ cl'[c].cached = cl[c].cached
    BY <1>1, <2>3, <2>4, WatchSession
  <2>6. Caches([r EXCEPT !.at = a]) => Caches(r)
    BY <1>1, <2>1, GoCaches DEF At, Caches
  <2>7. a = "setup" => lock'[r.path] = c
    BY <1>1, <2>1 DEF Requesting, Locks
  <2>8. a \in {"go", "setup"}
    OBVIOUS
  <2> HIDE DEF a
  <2> QED BY <2>1, <2>2, <2>5, <2>6, <2>7, <2>8, GoRequests DEF At
<1> QED BY <1>2, <1>3, <1>4

LEMMA CreateRequests ==
    ASSUME TypeInv, RequestInv, NEW c \in Clients, SetupCreate(c)
    PROVE  Requesting(c)'
<1> DEFINE r == pc[c]
<1>1. r \in RequestRecord /\ Requesting(c) /\ Shape(r) /\ cl' = cl /\ lock' = lock
  BY DEF TypeInv, RequestInv, Requesting, SetupCreate, mediaVars
<1>2. PICK s \in fresh : pc' = [pc EXCEPT ![c].at = "setup_watch", ![c].sess = s, ![c].made = TRUE]
  BY DEF SetupCreate
<1>3. r.at = "setup" /\ r.sess = None /\ s \in Sessions
  BY DEF SetupCreate, TypeInv
<1>4. r.media = None
  BY <1>1, <1>3, Apart DEF Shape, Pairs
<1>5. PICK n : n = pc'[c]
  OBVIOUS
<1>6. n.at = "setup_watch" /\ n.sess = s /\ n.made = TRUE /\ n.path = r.path /\ n.media = None /\ n.method = r.method
  BY <1>1, <1>2, <1>4, <1>5 DEF TypeInv, RequestRecord
<1>7. Shape(n)
  BY <1>1, <1>3, <1>6, Apart DEF Shape
<1>8. Locks(r) /\ Caches(r)
  BY <1>3, <1>4 DEF Locks, Caches
<1> QED BY <1>1, <1>3, <1>5, <1>6, <1>7, <1>8 DEF Requesting

LEMMA FailsRequests ==
    ASSUME TypeInv, RequestInv, NEW c \in Clients, NEW b \in BOOLEAN, SetupFails(c, b)
    PROVE  Requesting(c)'
<1> DEFINE r == pc[c]
<1>1. r \in RequestRecord /\ Requesting(c) /\ Shape(r) /\ cl[c] \in ClientRecord
  BY DEF TypeInv, RequestInv, Requesting
<1>2. pc'[c] = FailRequest(c) /\ cl'[c] = FailClient(c, b)
  BY SetupPuts DEF TypeInv
<1>3. r.at = "setup" /\ r.sess # None
  BY DEF SetupFails
<1>4. CASE r.made
  <2>1. PICK n : n = [r EXCEPT !.at = "remove", !.media = None]
    OBVIOUS
  <2>2. pc'[c] = n
    BY <1>2, <1>4, <2>1 DEF FailRequest
  <2>3. /\ n.at = "remove" /\ n.media = None /\ n.sess = r.sess /\ n.path = r.path /\ n.method = r.method
        /\ n.made = r.made
    BY <1>1, <2>1 DEF RequestRecord
  <2>4. Shape(n) /\ ~Locks(n) /\ ~Caches(n)
    BY <1>1, <1>3, <2>3, Apart DEF Shape, Locks, Caches
  <2>5. cl'[c].watch = cl[c].watch
    BY <1>1, <1>2 DEF FailClient, HadSession, ClientRecord
  <2> QED BY <1>1, <1>3, <2>2, <2>4, <2>5 DEF Requesting
<1>5. CASE ~r.made
  BY <1>2, <1>5, IdleRequests DEF FailRequest
<1> QED BY <1>4, <1>5

LEMMA RequestRequests ==
    ASSUME TypeInv, RequestInv, NEW c \in Clients, RequestStep(c), ~MergeTunnel(c)
    PROVE  RequestInv'
<1>1. Requesting(c)'
  BY RequestDone, IdleRequests, FindsRequests, DupRequests, MovesRequests, CreateRequests, FailsRequests
  DEF RequestStep
<1> QED BY <1>1, RequestAlone, AloneStill

-----------------------------------------------------------------------------
\* What a step does to the fields of a client.

Rewatches(c) == Watches(c)
Retimes(c) == (\E k \in Chan \cup {None} : SetupTransport(c, k)) \/ \E b \in BOOLEAN : SetupFails(c, b)
Recaches(c) == Misses(c) \/ Finds(c) \/ Retimes(c)
Rechannels(c) == TeardownEnd(c) \/ \E k \in Chan \cup {None} : SetupTransport(c, k)

LEMMA RequestFields ==
    ASSUME TypeInv, RequestInv, NEW c \in Clients, RequestStep(c), ~MergeTunnel(c),
           NEW n, n = cl'[c], NEW r, r = cl[c]
    PROVE  /\ r \in ClientRecord
           /\ n.watch = r.watch /\ n.managed = r.managed /\ n.finalized = r.finalized /\ n.closed = r.closed
           /\ n.visited = r.visited /\ n.tstate = r.tstate /\ n.merged = r.merged
           /\ \/ n.sessions = r.sessions /\ n.hooked = r.hooked
              \/ Watches(c) /\ n.sessions = r.sessions \cup {pc[c].sess} /\ n.hooked
           /\ (n.timer = r.timer /\ n.had = r.had) \/ (Retimes(c) /\ n.timer = None /\ n.had)
           /\ n.cached = r.cached \/ Recaches(c)
           /\ n.chan = r.chan \/ Rechannels(c)
<1>1. r \in ClientRecord
  BY DEF TypeInv
<1>2. CASE \/ Returns(c) \/ HandleSdp(c) \/ DupMedia(c) \/ Teardown(c) \/ PoolRemove(c) \/ SetupFound(c)
           \/ SetupLock(c) \/ SetupCreate(c)
  <2>1. cl' = cl
    BY <1>2 DEF Returns, HandleSdp, DupMedia, Teardown, PoolRemove, SetupFound, SetupLock, SetupCreate
  <2>2. n = r
    BY <2>1
  <2> QED BY <1>1, <2>2
<1>3. CASE Misses(c) \/ Finds(c)
  <2>1. PICK q : n = [r EXCEPT !.cached = q]
    <3>1. Misses(c) => n = [r EXCEPT !.cached = None]
      BY DEF Misses, FindFails, TypeInv
    <3>2. Finds(c) => n = [r EXCEPT !.cached = pc[c].path]
      BY RequestFinds
    <3> QED BY <1>3, <3>1, <3>2
  <2>2. Recaches(c)
    BY <1>3 DEF Recaches
  <2>3. /\ n.watch = r.watch /\ n.managed = r.managed /\ n.finalized = r.finalized /\ n.closed = r.closed
        /\ n.visited = r.visited /\ n.tstate = r.tstate /\ n.merged = r.merged
        /\ n.sessions = r.sessions /\ n.hooked = r.hooked /\ n.timer = r.timer /\ n.had = r.had
        /\ n.chan = r.chan
    BY <1>1, <2>1 DEF ClientRecord
  <2> QED BY <1>1, <2>2, <2>3
<1>4. CASE Watches(c)
  <2>1. pc[c].sess \in Sessions
    BY <1>4 DEF Watches, RequestInv, Requesting, Shape, TypeInv, RequestRecord
  <2>2. n = client_watch_session(r, pc[c].sess)
    BY <1>4 DEF Watches, TypeInv
  <2> QED BY <1>1, <1>4, <2>1, <2>2, WatchSession
<1>5. CASE TeardownEnd(c)
  <2>1. n = cleanup_transports(c, Lookup(c))
    BY <1>5 DEF TeardownEnd, TypeInv
  <2>2. n = r \/ n = [r EXCEPT !.chan[Lookup(c).ch] = None]
    BY <2>1 DEF cleanup_transports
  <2>3. Rechannels(c)
    BY <1>5 DEF Rechannels
  <2> QED BY <1>1, <2>2, <2>3 DEF ClientRecord
<1>6. CASE Retimes(c)
  <2>1. PICK q, h : n = [[r EXCEPT !.had = TRUE, !.timer = None] EXCEPT !.cached = q, !.chan = h]
                    /\ (h = r.chan \/ Rechannels(c))
    <3>1. ASSUME NEW k \in Chan \cup {None}, SetupTransport(c, k)
          PROVE  \E q, h : n = [[r EXCEPT !.had = TRUE, !.timer = None] EXCEPT !.cached = q, !.chan = h]
                           /\ (h = r.chan \/ Rechannels(c))
      <4>1. n = TransportClient(c, k) /\ Rechannels(c)
        BY <3>1, SetupPuts DEF TypeInv, Rechannels
      <4> DEFINE u == [r EXCEPT !.had = TRUE, !.timer = None]
                 q == IF pc[c].media = None THEN None ELSE u.cached
                 h == [j \in Chan |-> IF j = k THEN <<pc[c].sess, pc[c].path>> ELSE u.chan[j]]
      <4>2. n = [u EXCEPT !.cached = q, !.chan = h]
        BY <4>1 DEF TransportClient, HadSession
      <4> HIDE DEF q, h
      <4> QED BY <4>1, <4>2
    <3>2. ASSUME NEW b \in BOOLEAN, SetupFails(c, b)
          PROVE  \E q, h : n = [[r EXCEPT !.had = TRUE, !.timer = None] EXCEPT !.cached = q, !.chan = h]
                           /\ (h = r.chan \/ Rechannels(c))
      <4> DEFINE q == IF b /\ pc[c].media = None THEN None ELSE HadSession(r).cached
      <4>1. n = FailClient(c, b)
        BY <3>2, SetupPuts DEF TypeInv
      <4>2. n = [[r EXCEPT !.had = TRUE, !.timer = None] EXCEPT !.cached = q]
        BY <4>1 DEF FailClient, HadSession
      <4> HIDE DEF q
      <4>3. n = [[r EXCEPT !.had = TRUE, !.timer = None] EXCEPT !.cached = q, !.chan = r.chan]
        BY <1>1, <4>2 DEF ClientRecord
      <4> QED BY <4>3
    <3> QED BY <1>6, <3>1, <3>2 DEF Retimes
  <2>2. Recaches(c)
    BY <1>6 DEF Recaches
  <2> QED BY <1>1, <1>6, <2>1, <2>2 DEF ClientRecord
<1> QED BY <1>2, <1>3, <1>4, <1>5, <1>6 DEF RequestStep, Retimes

LEMMA MergeFields ==
    ASSUME TypeInv, RequestInv, NEW c \in Clients, MergeTunnel(c), NEW d \in Clients,
           NEW n, n = cl'[d], NEW r, r = cl[d]
    PROVE  /\ r \in ClientRecord
           /\ n.sessions = r.sessions /\ n.hooked = r.hooked /\ n.visited = r.visited /\ n.finalized = r.finalized
           /\ n.cached = r.cached /\ n.chan = r.chan /\ n.tstate = r.tstate /\ n.had = r.had
           /\ \/ n.watch = r.watch /\ n.timer = r.timer
              \/ d = c /\ r.watch = "live" /\ n.watch = "dying" /\ n.timer = None
           /\ \/ n.merged = r.merged
              \/ /\ n.merged /\ d \in {c, pc[c].media} /\ Halves(c, pc[c].media)
                 /\ cl'[c].merged /\ cl'[pc[c].media].merged
<1> DEFINE o == pc[c].media
<1>1. r \in ClientRecord /\ cl[c] \in ClientRecord
  BY DEF TypeInv
<1>2. o \in Clients
  BY DEF MergeTunnel, RequestInv, Requesting, Shape
<1>3. CASE cl' = cl
  BY <1>1, <1>3
<1>4. CASE /\ Halves(c, o)
           /\ cl' = [cl EXCEPT ![o].merged = TRUE, ![c] = [CloseEffect(@) EXCEPT !.merged = TRUE]]
  <2>1. o # c
    BY <1>4 DEF Halves
  <2>2. cl'[o] = [cl[o] EXCEPT !.merged = TRUE] /\ cl'[c] = [CloseEffect(cl[c]) EXCEPT !.merged = TRUE]
    BY <1>2, <1>4, <2>1 DEF TypeInv
  <2>3. cl'[o].merged /\ cl'[c].merged
    <3>1. cl[o] \in ClientRecord
      BY <1>2 DEF TypeInv
    <3>2. CloseEffect(cl[c]) \in ClientRecord
      <4>1. [cl[c] EXCEPT !.watch = "dying", !.timer = None] \in ClientRecord
        BY <1>1 DEF ClientRecord
      <4> QED BY <1>1, <4>1 DEF CloseEffect
    <3> QED BY <2>2, <3>1, <3>2 DEF ClientRecord
  <2>4. d \notin {c, o} => n = r
    BY <1>2, <1>4 DEF TypeInv
  <2>5. d = o => n = [r EXCEPT !.merged = TRUE]
    BY <2>2
  <2>6. CASE d = c
    <3>1. n = [CloseEffect(r) EXCEPT !.merged = TRUE]
      BY <2>2, <2>6
    <3>2. \/ r.watch = "live" /\ n = [[r EXCEPT !.watch = "dying", !.timer = None] EXCEPT !.merged = TRUE]
          \/ n = [r EXCEPT !.merged = TRUE]
      BY <3>1 DEF CloseEffect
    <3>3. /\ n.sessions = r.sessions /\ n.hooked = r.hooked /\ n.visited = r.visited /\ n.finalized = r.finalized
          /\ n.cached = r.cached /\ n.chan = r.chan /\ n.tstate = r.tstate /\ n.had = r.had /\ n.merged
      <4>1. CASE n = [r EXCEPT !.merged = TRUE]
        BY <1>1, <4>1 DEF ClientRecord
      <4>2. CASE n = [[r EXCEPT !.watch = "dying", !.timer = None] EXCEPT !.merged = TRUE]
        BY <1>1, <4>2 DEF ClientRecord
      <4> QED BY <3>2, <4>1, <4>2
    <3>4. (n.watch = r.watch /\ n.timer = r.timer) \/ (r.watch = "live" /\ n.watch = "dying" /\ n.timer = None)
      BY <1>1, <3>2 DEF ClientRecord
    <3> HIDE DEF o
    <3> QED BY <1>1, <1>4, <2>3, <2>6, <3>3, <3>4 DEF o
  <2>7. CASE d = o
    <3>1. /\ n.sessions = r.sessions /\ n.hooked = r.hooked /\ n.visited = r.visited /\ n.finalized = r.finalized
          /\ n.cached = r.cached /\ n.chan = r.chan /\ n.tstate = r.tstate /\ n.had = r.had /\ n.merged
          /\ n.watch = r.watch /\ n.timer = r.timer
      BY <1>1, <2>5, <2>7 DEF ClientRecord
    <3> QED BY <1>1, <1>4, <2>3, <2>7, <3>1
  <2>8. CASE d \notin {c, o}
    BY <1>1, <2>4, <2>8
  <2> QED BY <2>6, <2>7, <2>8
<1> QED BY <1>3, <1>4 DEF MergeTunnel
LEMMA UnwatchSession ==
    ASSUME NEW r \in ClientRecord, NEW s \in Sessions, NEW n, n = client_unwatch_session(r, s)
    PROVE  /\ n.sessions = r.sessions \ {s}
           /\ s \in r.sessions => (n.hooked <=> r.sessions # {s})
           /\ s \notin r.sessions => n.hooked = r.hooked
           /\ n.watch = r.watch /\ n.cached = r.cached /\ n.timer = r.timer /\ n.visited = r.visited
           /\ n.tstate = r.tstate /\ n.merged = r.merged /\ n.had = r.had /\ n.finalized = r.finalized
           /\ n.chan = r.chan /\ n.closed = r.closed /\ n.managed = r.managed
<1> DEFINE h == IF s \in r.sessions THEN r.sessions # {s} ELSE r.hooked
<1>1. n = [r EXCEPT !.sessions = r.sessions \ {s}, !.hooked = h]
  BY DEF client_unwatch_session, ClientRecord
<1>2. h \in BOOLEAN
  BY DEF ClientRecord
<1>3. n.hooked = h
  <2> HIDE DEF h
  <2> QED BY <1>1, <1>2 DEF ClientRecord
<1>4. /\ n.sessions = r.sessions \ {s}
      /\ n.watch = r.watch /\ n.cached = r.cached /\ n.timer = r.timer /\ n.visited = r.visited
      /\ n.tstate = r.tstate /\ n.merged = r.merged /\ n.had = r.had /\ n.finalized = r.finalized
      /\ n.chan = r.chan /\ n.closed = r.closed /\ n.managed = r.managed
  <2> HIDE DEF h
  <2> QED BY <1>1 DEF ClientRecord
<1> QED BY <1>3, <1>4

LEMMA SessionEndsFields ==
    ASSUME NEW r \in ClientRecord, NEW s \in Sessions, NEW n, n = SessionEnds(r, s)
    PROVE  /\ n.sessions = r.sessions \ {s}
           /\ s \in r.sessions => (n.hooked <=> r.sessions # {s})
           /\ s \notin r.sessions => n.hooked = r.hooked
           /\ n.cached = r.cached /\ n.visited = r.visited /\ n.tstate = r.tstate /\ n.merged = r.merged
           /\ n.had = r.had /\ n.finalized = r.finalized /\ n.chan = r.chan
           /\ \/ /\ n.watch = r.watch /\ n.timer = r.timer /\ ~Closes(r, s)
                 /\ n.sessions # {} \/ r.timer # None \/ PostTimeout = -1
              \/ n.watch = r.watch /\ n.timer = 0 /\ r.timer = None /\ n.sessions = {} /\ ~Closes(r, s)
              \/ r.watch = "live" /\ n.watch = "dying" /\ n.timer = None /\ Closes(r, s)
              \/ r.watch # "live" /\ n.watch = r.watch /\ n.timer = r.timer /\ Closes(r, s)
<1> PICK u : u = client_unwatch_session(r, s)
  OBVIOUS
<1>1. u \in ClientRecord
  BY ClientTypes
<1>2. /\ u.sessions = r.sessions \ {s}
      /\ s \in r.sessions => (u.hooked <=> r.sessions # {s})
      /\ s \notin r.sessions => u.hooked = r.hooked
      /\ u.watch = r.watch /\ u.cached = r.cached /\ u.timer = r.timer /\ u.visited = r.visited
      /\ u.tstate = r.tstate /\ u.merged = r.merged /\ u.had = r.had /\ u.finalized = r.finalized
      /\ u.chan = r.chan
  BY UnwatchSession
<1>3. n = IF u.sessions # {} \/ u.timer # None THEN u
          ELSE IF PostTimeout > 0 THEN [u EXCEPT !.timer = 0]
          ELSE IF PostTimeout = 0 THEN CloseEffect(u) ELSE u
  BY DEF SessionEnds
<1>4. Closes(r, s) <=> PostTimeout = 0 /\ u.sessions = {} /\ u.timer = None
  BY DEF Closes
<1>5. CASE u.sessions # {} \/ u.timer # None
  BY <1>2, <1>3, <1>4, <1>5
<1>6. CASE u.sessions = {} /\ u.timer = None /\ PostTimeout > 0
  <2>1. n = [u EXCEPT !.timer = 0]
    BY <1>3, <1>6
  <2>2. /\ n.timer = 0 /\ n.sessions = u.sessions /\ n.hooked = u.hooked
        /\ n.watch = u.watch /\ n.cached = u.cached /\ n.visited = u.visited
        /\ n.tstate = u.tstate /\ n.merged = u.merged /\ n.had = u.had /\ n.finalized = u.finalized
        /\ n.chan = u.chan
    BY <1>1, <2>1 DEF ClientRecord
  <2>3. ~Closes(r, s)
    BY <1>4, <1>6, ClientAssumption DEF ClientAssumption
  <2> QED BY <1>2, <1>6, <2>2, <2>3
<1>7. CASE u.sessions = {} /\ u.timer = None /\ PostTimeout = 0
  <2>1. n = CloseEffect(u) /\ Closes(r, s)
    BY <1>3, <1>4, <1>7
  <2>2. CASE u.watch = "live"
    <3>1. n = [u EXCEPT !.watch = "dying", !.timer = None]
      BY <2>1, <2>2 DEF CloseEffect
    <3>2. /\ n.timer = None /\ n.sessions = u.sessions /\ n.hooked = u.hooked
          /\ n.watch = "dying" /\ n.cached = u.cached /\ n.visited = u.visited
          /\ n.tstate = u.tstate /\ n.merged = u.merged /\ n.had = u.had /\ n.finalized = u.finalized
          /\ n.chan = u.chan
      BY <1>1, <3>1 DEF ClientRecord
    <3> QED BY <1>2, <2>1, <2>2, <3>2
  <2>3. CASE u.watch # "live"
    BY <1>2, <2>1, <2>3 DEF CloseEffect
  <2> QED BY <2>2, <2>3
<1>8. CASE u.sessions = {} /\ u.timer = None /\ PostTimeout < 0
  <2>1. n = u /\ PostTimeout = -1 /\ ~Closes(r, s)
    BY <1>3, <1>4, <1>8, ClientAssumption DEF ClientAssumption
  <2> QED BY <1>2, <2>1
<1> QED BY <1>5, <1>6, <1>7, <1>8, ClientAssumption DEF ClientAssumption

\* The steps of a connection: n is what they make of r.
Leaves(c, n, r) ==
    \E s \in Sessions :
        /\ cleanup_session(c, s) /\ r.watch = "notify" /\ s \in r.sessions \ r.visited
        /\ n.visited = r.visited \cup {s}
        /\ \/ n.sessions = r.sessions /\ n.hooked = r.hooked
           \/ n.sessions = r.sessions \ {s} /\ (n.hooked <=> r.sessions # {s})

ConnectionEffect(c, n, r) ==
    /\ n.chan = r.chan /\ n.had = r.had
    /\ n.cached = r.cached \/ (Finalize(c) /\ n.cached = None)
    /\ n.finalized = r.finalized \/ (Finalize(c) /\ r.watch = "gone" /\ n.watch = "gone" /\ ~r.hooked)
    /\ (n.sessions = r.sessions /\ n.hooked = r.hooked) \/ Leaves(c, n, r)
    /\ n.visited = r.visited \/ Leaves(c, n, r) \/ (n.watch = "gone" /\ n.visited = {})
    /\ \/ n.watch = r.watch /\ n.timer = r.timer
       \/ n.watch = r.watch /\ r.timer # None /\ n.timer \in Nat
       \/ n.watch = r.watch /\ r.watch # "live" /\ n.timer = None
       \/ r.watch = "none" /\ n.watch = "live" /\ n.timer = 0
       \/ r.watch = "live" /\ n.watch = "dying" /\ n.timer = None
       \/ r.watch = "dying" /\ n.watch = "notify" /\ n.timer = None
       \/ r.watch = "notify" /\ n.watch = "gone" /\ n.timer = r.timer /\ r.sessions \ r.visited = {}
          /\ n.visited = {}
    /\ n.tstate = r.tstate \/ \E h \in {"GET", "POST"} : HandleTunnel(c, h) /\ n.tstate = h /\ r.tstate = "none"
    /\ n.merged = r.merged \/ (tunnel_lost(c) /\ ~n.merged)

LEMMA LeftFields ==
    ASSUME TypeInv, NEW c \in Clients, NEW s \in Sessions, cleanup_session(c, s), NEW n, n = Left(c, s),
           NEW r, r = cl[c]
    PROVE  /\ Leaves(c, n, r)
           /\ n.chan = r.chan /\ n.had = r.had /\ n.cached = r.cached /\ n.finalized = r.finalized
           /\ n.watch = r.watch /\ n.timer = r.timer /\ n.tstate = r.tstate /\ n.merged = r.merged
<1>1. r \in ClientRecord /\ r.watch = "notify" /\ s \in r.sessions \ r.visited
  BY DEF TypeInv, cleanup_session, Unvisited
<1> PICK b : b = ClosedAfter(c, s)
  OBVIOUS
<1>2. b \in BOOLEAN
  BY <1>1 DEF ClosedAfter, ClientRecord
<1>0. PICK u : u = [r EXCEPT !.visited = r.visited \cup {s}, !.closed = b]
  OBVIOUS
<1>3. u \in ClientRecord
  BY <1>0, <1>1, <1>2 DEF ClientRecord
<1>4. /\ u.visited = r.visited \cup {s} /\ u.sessions = r.sessions /\ u.hooked = r.hooked
      /\ u.chan = r.chan /\ u.had = r.had /\ u.cached = r.cached /\ u.finalized = r.finalized
      /\ u.watch = r.watch /\ u.timer = r.timer /\ u.tstate = r.tstate /\ u.merged = r.merged
  BY <1>0, <1>1 DEF ClientRecord
<1>5. n = IF b THEN client_unwatch_session(u, s) ELSE u
  BY <1>0 DEF Left
<1>6. CASE b
  <2>1. n = client_unwatch_session(u, s)
    BY <1>5, <1>6
  <2>2. /\ n.sessions = u.sessions \ {s}
        /\ s \in u.sessions => (n.hooked <=> u.sessions # {s})
        /\ s \notin u.sessions => n.hooked = u.hooked
        /\ n.watch = u.watch /\ n.cached = u.cached /\ n.timer = u.timer /\ n.visited = u.visited
        /\ n.tstate = u.tstate /\ n.merged = u.merged /\ n.had = u.had /\ n.finalized = u.finalized
        /\ n.chan = u.chan
    BY <1>3, <2>1, UnwatchSession
  <2>3. n.sessions = r.sessions \ {s} /\ (n.hooked <=> r.sessions # {s})
    BY <1>1, <1>4, <2>2
  <2>4. Leaves(c, n, r)
    BY <1>1, <1>4, <2>2, <2>3 DEF Leaves
  <2> QED BY <1>4, <2>2, <2>4
<1>7. CASE ~b
  <2>1. n = u
    BY <1>5, <1>7
  <2>2. Leaves(c, n, r)
    BY <1>1, <1>4, <2>1 DEF Leaves
  <2> QED BY <1>4, <2>1, <2>2
<1> QED BY <1>6, <1>7

LEMMA ConnectionFields ==
    ASSUME TypeInv, NEW c \in Clients, ConnectionStep(c), NEW n, n = cl'[c], NEW r, r = cl[c]
    PROVE  /\ r \in ClientRecord /\ \A d \in Clients \ {c} : cl'[d] = cl[d]
           /\ ConnectionEffect(c, n, r)
<1>1. r \in ClientRecord
  BY DEF TypeInv
<1>2. PICK x \in ClientRecord : ConnectionClient(c, x) /\ cl' = [cl EXCEPT ![c] = x]
  BY ConnectionClients
<1>3. n = x /\ \A d \in Clients \ {c} : cl'[d] = cl[d]
  BY <1>2 DEF TypeInv
<1>4. ConnectionEffect(c, n, r)
  <2>1. CASE \E s \in Sessions : cleanup_session(c, s) /\ n = Left(c, s)
    BY <2>1, LeftFields DEF ConnectionEffect
  <2>2. CASE client_watch_notify(c) /\ n = Notified(cl[c])
    <3>1. r.watch = "dying" /\ n = [r EXCEPT !.watch = "notify", !.closed = TRUE, !.timer = None]
      BY <2>2 DEF client_watch_notify, Notified
    <3>2. n.watch = "notify" /\ n.timer = None /\ n.visited = r.visited /\ n.tstate = r.tstate /\ n.merged = r.merged
          /\ n.chan = r.chan /\ n.had = r.had /\ n.cached = r.cached /\ n.sessions = r.sessions
          /\ n.hooked = r.hooked /\ n.finalized = r.finalized
      BY <1>1, <3>1 DEF ClientRecord
    <3> QED BY <3>1, <3>2 DEF ConnectionEffect
  <2>3. CASE NotifyEnd(c) /\ n = [cl[c] EXCEPT !.watch = "gone", !.managed = ~cl[c].closed, !.visited = {}]
    <3>1. r.watch = "notify" /\ r.sessions \ r.visited = {}
          /\ n = [r EXCEPT !.watch = "gone", !.managed = ~r.closed, !.visited = {}]
      BY <2>3 DEF NotifyEnd, Unvisited
    <3>2. n.watch = "gone" /\ n.timer = r.timer /\ n.visited = {} /\ n.tstate = r.tstate /\ n.merged = r.merged
          /\ n.chan = r.chan /\ n.had = r.had /\ n.cached = r.cached /\ n.sessions = r.sessions
          /\ n.hooked = r.hooked /\ n.finalized = r.finalized
      BY <1>1, <3>1 DEF ClientRecord
    <3> QED BY <3>1, <3>2 DEF ConnectionEffect
  <2>4. CASE Finalize(c) /\ n = [cl[c] EXCEPT !.finalized = TRUE, !.cached = None]
    <3>1. r.watch = "gone" /\ ~r.hooked
      BY <2>4 DEF Finalize
    <3>2. n.watch = r.watch /\ n.timer = r.timer /\ n.visited = r.visited /\ n.tstate = r.tstate /\ n.merged = r.merged
          /\ n.chan = r.chan /\ n.had = r.had /\ n.cached = None /\ n.sessions = r.sessions /\ n.hooked = r.hooked
      BY <1>1, <2>4 DEF ClientRecord
    <3> QED BY <2>4, <3>1, <3>2 DEF ConnectionEffect
  <2>5. CASE gst_rtsp_client_attach(c) /\ n = [cl[c] EXCEPT !.watch = "live", !.timer = 0]
    <3>1. r.watch = "none"
      BY <2>5 DEF gst_rtsp_client_attach
    <3>2. n.watch = "live" /\ n.timer = 0 /\ n.visited = r.visited /\ n.tstate = r.tstate /\ n.merged = r.merged
          /\ n.chan = r.chan /\ n.had = r.had /\ n.cached = r.cached /\ n.sessions = r.sessions
          /\ n.hooked = r.hooked /\ n.finalized = r.finalized
      BY <1>1, <2>5 DEF ClientRecord
    <3> QED BY <3>1, <3>2 DEF ConnectionEffect
  <2>6. CASE (rtsp_ctrl_timeout_cb(c) \/ Close(c)) /\ n = [CloseEffect(cl[c]) EXCEPT !.timer = None]
    <3>1. \/ r.watch = "live" /\ n = [[r EXCEPT !.watch = "dying", !.timer = None] EXCEPT !.timer = None]
          \/ r.watch # "live" /\ n = [r EXCEPT !.timer = None]
      BY <2>6 DEF CloseEffect
    <3>2. CASE r.watch = "live" /\ n = [[r EXCEPT !.watch = "dying", !.timer = None] EXCEPT !.timer = None]
      <4>1. n.watch = "dying" /\ n.timer = None /\ n.visited = r.visited /\ n.tstate = r.tstate /\ n.merged = r.merged
            /\ n.chan = r.chan /\ n.had = r.had /\ n.cached = r.cached /\ n.sessions = r.sessions
            /\ n.hooked = r.hooked /\ n.finalized = r.finalized
        BY <1>1, <3>2 DEF ClientRecord
      <4> QED BY <3>2, <4>1 DEF ConnectionEffect
    <3>3. CASE r.watch # "live" /\ n = [r EXCEPT !.timer = None]
      <4>1. n.watch = r.watch /\ n.timer = None /\ n.visited = r.visited /\ n.tstate = r.tstate /\ n.merged = r.merged
            /\ n.chan = r.chan /\ n.had = r.had /\ n.cached = r.cached /\ n.sessions = r.sessions
            /\ n.hooked = r.hooked /\ n.finalized = r.finalized
        BY <1>1, <3>3 DEF ClientRecord
      <4> QED BY <3>3, <4>1 DEF ConnectionEffect
    <3> QED BY <3>1, <3>2, <3>3
  <2>7. CASE rtsp_ctrl_timeout_cb(c) /\ n = [cl[c] EXCEPT !.timer = cl[c].timer + 1]
    <3>1. r.timer # None
      BY <2>7 DEF rtsp_ctrl_timeout_cb
    <3>2. r.timer + 1 \in Nat
      BY <1>1, <3>1 DEF ClientRecord
    <3>3. n.watch = r.watch /\ n.timer = r.timer + 1 /\ n.visited = r.visited /\ n.tstate = r.tstate
          /\ n.merged = r.merged
          /\ n.chan = r.chan /\ n.had = r.had /\ n.cached = r.cached /\ n.sessions = r.sessions
          /\ n.hooked = r.hooked /\ n.finalized = r.finalized
      BY <1>1, <2>7 DEF ClientRecord
    <3> QED BY <3>1, <3>2, <3>3 DEF ConnectionEffect
  <2>8. CASE tunnel_lost(c) /\ n = [cl[c] EXCEPT !.merged = FALSE]
    <3>1. n.watch = r.watch /\ n.timer = r.timer /\ n.visited = r.visited /\ n.tstate = r.tstate /\ ~n.merged
          /\ n.chan = r.chan /\ n.had = r.had /\ n.cached = r.cached /\ n.sessions = r.sessions
          /\ n.hooked = r.hooked /\ n.finalized = r.finalized
      BY <1>1, <2>8 DEF ClientRecord
    <3> QED BY <2>8, <3>1 DEF ConnectionEffect
  <2>9. CASE \E h \in {"GET", "POST"} : HandleTunnel(c, h) /\ n = [cl[c] EXCEPT !.tstate = h]
    <3>1. PICK h \in {"GET", "POST"} : HandleTunnel(c, h) /\ n = [r EXCEPT !.tstate = h]
      BY <2>9
    <3>2. r.tstate = "none"
      BY <3>1 DEF HandleTunnel
    <3>3. n.watch = r.watch /\ n.timer = r.timer /\ n.visited = r.visited /\ n.tstate = h /\ n.merged = r.merged
          /\ n.chan = r.chan /\ n.had = r.had /\ n.cached = r.cached /\ n.sessions = r.sessions
          /\ n.hooked = r.hooked /\ n.finalized = r.finalized
      BY <1>1, <3>1 DEF ClientRecord
    <3> QED BY <3>1, <3>2, <3>3 DEF ConnectionEffect
  <2> QED BY <1>2, <1>3, <2>1, <2>2, <2>3, <2>4, <2>5, <2>6, <2>7, <2>8, <2>9 DEF ConnectionClient
<1> QED BY <1>1, <1>3, <1>4
LEMMA OthersStill ==
    ASSUME TypeInv, RequestInv, NEW d \in Clients, pc'[d] = pc[d], lock' = lock,
           cl'[d].cached = cl[d].cached \/ pc[d].at = "idle",
           \/ pc[d].at = "idle" \/ cl'[d].watch = cl[d].watch
           \/ (cl[d].watch = "live" /\ cl'[d].watch = "dying")
    PROVE  Requesting(d)'
<1>1. Requesting(d)
  BY DEF RequestInv
<1>2. pc[d].at # "idle" => cl'[d].watch \in Watched
  BY <1>1 DEF Requesting, Watched
<1>3. Caches(pc[d]) => cl'[d].cached = cl[d].cached
  BY DEF Caches
<1> QED BY <1>1, <1>2, <1>3, RequestStill

\* Only a client that is closed has a request then.
LEMMA ConnectionIdle ==
    ASSUME TypeInv, RequestInv, NEW c \in Clients, ConnectionStep(c)
    PROVE  /\ pc[c] = Idle \/ (Close(c) /\ ~Finalize(c) /\ ~\E s \in Sessions : cleanup_session(c, s))
           /\ pc' = pc \/ \E h \in {"GET", "POST"} : HandleTunnel(c, h)
           /\ UNCHANGED <<lock, pool, fresh, emit>>
<1>1. pc[c].at = "idle" => pc[c] = Idle
  BY DEF RequestInv, Requesting, Shape
<1>2. cl[c].watch \in {"none", "notify", "gone"} => pc[c] = Idle
  BY <1>1 DEF RequestInv, Requesting
<1>3. pc[c] = Idle \/ (Close(c) /\ ~Finalize(c) /\ ~\E s \in Sessions : cleanup_session(c, s))
  BY <1>2 DEF ConnectionStep, client_watch_notify, cleanup_session, NotifyEnd, Finalize, rtsp_ctrl_timeout_cb,
              gst_rtsp_client_attach, tunnel_lost, HandleTunnel, Quiet
<1>4. /\ pc' = pc \/ \E h \in {"GET", "POST"} : HandleTunnel(c, h)
      /\ UNCHANGED <<lock, pool, fresh, emit>>
  BY DEF ConnectionStep, client_watch_notify, cleanup_session, NotifyEnd, Finalize, rtsp_ctrl_timeout_cb,
         gst_rtsp_client_attach, Close, tunnel_lost, HandleTunnel, poolVars, mediaVars
<1> QED BY <1>3, <1>4

\* What a connection that asks for a tunnel does to its request.
LEMMA TunnelRequest ==
    ASSUME TypeInv, NEW c \in Clients, NEW h, HandleTunnel(c, h)
    PROVE  /\ pc[c] = Idle /\ cl[c].watch = "live" /\ cl[c].tstate = "none"
           /\ \A d \in Clients \ {c} : pc'[d] = pc[d]
           /\ \/ tunnel = None /\ tunnel' = c /\ pc' = pc
              \/ /\ tunnel \in Clients /\ tunnel' = None
                 /\ pc'[c] = [Idle EXCEPT !.at = "tunnel", !.media = tunnel]
                 /\ pc'[c].at = "tunnel" /\ pc'[c].media = tunnel /\ pc'[c].sess = None /\ pc'[c].made = FALSE
                 /\ pc'[c].method = None
<1>1. pc[c] = Idle /\ cl[c].watch = "live" /\ cl[c].tstate = "none"
  BY DEF HandleTunnel, Quiet
<1>2. CASE tunnel = None
  BY <1>1, <1>2 DEF HandleTunnel
<1>3. CASE tunnel # None
  <2>1. tunnel \in Clients /\ tunnel' = None /\ pc' = [pc EXCEPT ![c] = [Idle EXCEPT !.at = "tunnel", !.media = tunnel]]
    BY <1>3 DEF HandleTunnel, TypeInv
  <2>2. pc'[c] = [Idle EXCEPT !.at = "tunnel", !.media = tunnel] /\ \A d \in Clients \ {c} : pc'[d] = pc[d]
    BY <2>1 DEF TypeInv
  <2>3. /\ pc'[c].at = "tunnel" /\ pc'[c].media = tunnel /\ pc'[c].sess = None /\ pc'[c].made = FALSE
        /\ pc'[c].method = None
    BY <2>2 DEF Idle
  <2> QED BY <1>1, <2>1, <2>2, <2>3
<1> QED BY <1>2, <1>3

LEMMA ConnectionRequests ==
    ASSUME TypeInv, RequestInv, NEW c \in Clients, ConnectionStep(c)
    PROVE  RequestInv'
<1>1. /\ \A d \in Clients \ {c} : cl'[d] = cl[d]
      /\ ConnectionEffect(c, cl'[c], cl[c])
  BY ConnectionFields
<1>2. /\ pc[c] = Idle \/ (Close(c) /\ ~Finalize(c) /\ ~\E s \in Sessions : cleanup_session(c, s))
      /\ pc' = pc \/ \E h \in {"GET", "POST"} : HandleTunnel(c, h)
      /\ UNCHANGED <<lock, pool, fresh, emit>>
  BY ConnectionIdle
<1>3. ASSUME NEW d \in Clients \ {c}
      PROVE  Requesting(d)'
  <2>1. pc'[d] = pc[d]
    BY <1>2, TunnelRequest
  <2> QED BY <1>1, <1>2, <1>3, <2>1, OthersStill
<1>4. Requesting(c)'
  <2>1. CASE pc[c] = Idle /\ pc' = pc
    BY <2>1, IdleRequests
  <2>2. CASE Close(c) /\ ~Finalize(c) /\ pc' = pc
    <3>1. cl[c].watch = "live" /\ cl'[c].cached = cl[c].cached
      BY <1>1, <2>2 DEF Close, ConnectionEffect
    <3>2. cl'[c].watch = cl[c].watch \/ cl'[c].watch = "dying"
      BY <1>1, <3>1 DEF ConnectionEffect
    <3> QED BY <1>2, <2>2, <3>1, <3>2, OthersStill
  <2>3. ASSUME NEW h \in {"GET", "POST"}, HandleTunnel(c, h), pc' # pc
        PROVE  Requesting(c)'
    <3> PICK n : n = pc'[c]
      OBVIOUS
    <3>1. /\ n.at = "tunnel" /\ n.media \in Clients /\ n.made = FALSE /\ cl[c].watch = "live" /\ pc[c] = Idle
      BY <2>3, TunnelRequest
    <3>2. Shape(n) /\ ~Locks(n) /\ ~Caches(n)
      BY <3>1, Apart DEF Shape, Locks, Caches
    <3>3. cl'[c].watch \in {"live", "dying"}
      BY <1>1, <3>1 DEF ConnectionEffect
    <3> QED BY <3>2, <3>3 DEF Requesting
  <2>4. CASE Close(c) /\ pc' # pc
    BY <1>2, <2>3, <2>4
  <2> QED BY <1>2, <2>1, <2>2, <2>3, <2>4
<1> QED BY <1>3, <1>4 DEF RequestInv

LEMMA MergeRequests ==
    ASSUME TypeInv, RequestInv, NEW c \in Clients, MergeTunnel(c)
    PROVE  RequestInv' /\ pc'[c] = Idle /\ lock' = lock /\ \A d \in Clients \ {c} : pc'[d] = pc[d]
<1>1. pc'[c] = Idle /\ lock' = lock /\ \A d \in Clients \ {c} : pc'[d] = pc[d]
  BY DEF MergeTunnel, Done, TypeInv, mediaVars
<1>2. ASSUME NEW d \in Clients \ {c}
      PROVE  Requesting(d)'
  <2>1. cl'[d].cached = cl[d].cached /\ cl'[d].watch = cl[d].watch
    BY <1>2, MergeFields
  <2> QED BY <1>1, <1>2, <2>1, OthersStill
<1>3. Requesting(c)'
  BY <1>1, IdleRequests
<1> QED BY <1>1, <1>2, <1>3 DEF RequestInv

\* A new request.
LEMMA NewRequest ==
    ASSUME TypeInv, NEW c \in Clients, todo[c] # <<>>, Head(todo[c]).method \notin {"GET", "POST"},
           NEW s \in Sessions \cup {None}, HandleRequest(c, Head(todo[c]), s)
    PROVE  /\ pc[c] = Idle /\ cl[c].watch = "live" /\ \A d \in Clients \ {c} : pc'[d] = pc[d]
           /\ UNCHANGED <<cl, pool, fresh, emit, sm, prepared, lock, tunnel, quirks>>
           /\ pc'[c].at = (IF s = None THEN "go" ELSE "found") /\ pc'[c].sess = s /\ pc'[c].media = None
           /\ pc'[c].made = FALSE /\ pc'[c].method = Head(todo[c]).method
           /\ s # None => s \in pool \cap Known
           /\ Shape(pc'[c]) /\ ~Locks(pc'[c])
<1> DEFINE q == Head(todo[c])
           r == [Idle EXCEPT !.at = IF s = None THEN "go" ELSE "found", !.method = q.method, !.path = q.path, !.sess = s]
<1>1. /\ pc[c] = Idle /\ cl[c].watch = "live"
      /\ UNCHANGED <<cl, pool, fresh, emit, sm, prepared, lock, tunnel, quirks>>
      /\ s # None => s \in pool \cap Known
  BY DEF HandleRequest, Quiet, poolVars, mediaVars
<1>2. pc'[c] = r /\ \A d \in Clients \ {c} : pc'[d] = pc[d]
  BY DEF HandleRequest, TypeInv
<1>3. q.method \in MediaMethods => q.path \in Paths
  BY RequestTypes
<1> PICK m : m = q.method
  OBVIOUS
<1> PICK p : p = q.path
  OBVIOUS
<1> PICK n : n = pc'[c]
  OBVIOUS
<1>4. /\ n.at = (IF s = None THEN "go" ELSE "found") /\ n.sess = s /\ n.media = None /\ n.made = FALSE
      /\ n.method = m /\ n.path = p
  <2>1. n = [Idle EXCEPT !.at = IF s = None THEN "go" ELSE "found", !.method = m, !.path = p, !.sess = s]
    BY <1>2
  <2> QED BY <2>1 DEF Idle
<1> HIDE DEF q, r
<1>5. Shape(n) /\ ~Locks(n)
  BY <1>3, <1>4, Apart DEF Shape, Locks
<1> QED BY <1>1, <1>2, <1>4, <1>5 DEF q

LEMMA OtherRequests ==
    ASSUME TypeInv, RequestInv, NEW c \in Clients, OtherStep(c)
    PROVE  RequestInv'
<1>1. CASE ConnectionStep(c)
  BY <1>1, ConnectionRequests
<1>2. ASSUME NEW s \in Sessions \cup {None}, todo[c] # <<>>, Head(todo[c]).method \notin {"GET", "POST"},
             HandleRequest(c, Head(todo[c]), s)
      PROVE  RequestInv'
  <2>1. /\ cl[c].watch = "live" /\ (\A d \in Clients \ {c} : pc'[d] = pc[d])
        /\ UNCHANGED <<cl, lock>> /\ Shape(pc'[c]) /\ ~Locks(pc'[c])
    BY <1>2, NewRequest
  <2>2. Requesting(c)'
    <3>1. ~Caches(pc'[c])
      BY <2>1 DEF Locks, Caches
    <3> QED BY <2>1, <3>1 DEF Requesting
  <2>3. ASSUME NEW d \in Clients \ {c}
        PROVE  Requesting(d)'
    BY <2>1, <2>3, OthersStill
  <2> QED BY <2>2, <2>3 DEF RequestInv
<1> QED BY <1>1, <1>2 DEF OtherStep, ConnectionStep

\* The request that waits for an emission goes on when that ends.
LEMMA EmitEndRequest ==
    ASSUME TypeInv, KnownInv, NEW s \in Sessions, EmitEnd(s)
    PROVE  /\ emit[s] # None /\ emit[s].left = {} /\ emit' = [emit EXCEPT ![s] = None]
           /\ UNCHANGED <<cl, pool, fresh, lock, tunnel>>
           /\ \/ emit[s].by = None /\ pc' = pc
              \/ /\ emit[s].by \in Clients /\ Go(emit[s].by, "emitted")
                 /\ pc[emit[s].by].at = "emit" /\ pc[emit[s].by].sess = s
           /\ \A d \in Clients :
                /\ pc'[d].sess = pc[d].sess /\ pc'[d].media = pc[d].media /\ pc'[d].method = pc[d].method
                /\ pc'[d].path = pc[d].path
                /\ pc'[d].at = pc[d].at \/ (pc[d].at = "emit" /\ pc'[d].at = "emitted" /\ pc[d].sess = s)
<1>1. /\ emit[s] # None /\ emit[s].left = {} /\ emit' = [emit EXCEPT ![s] = None]
      /\ UNCHANGED <<cl, pool, fresh, lock, tunnel>>
  BY DEF EmitEnd
<1>2. \/ emit[s].by = None /\ pc' = pc
      \/ /\ emit[s].by \in Clients /\ Go(emit[s].by, "emitted")
         /\ pc[emit[s].by].at = "emit" /\ pc[emit[s].by].sess = s
  <2>1. emit[s].by \in Clients \cup {None}
    BY <1>1, EmissionTypes DEF TypeInv
  <2>2. emit[s].by # None => pc[emit[s].by].at = "emit" /\ pc[emit[s].by].sess = s
    BY <1>1 DEF KnownInv
  <2> QED BY <2>1, <2>2 DEF EmitEnd, Go
<1>3. ASSUME NEW d \in Clients
      PROVE  /\ pc'[d].sess = pc[d].sess /\ pc'[d].media = pc[d].media /\ pc'[d].method = pc[d].method
             /\ pc'[d].path = pc[d].path
             /\ pc'[d].at = pc[d].at \/ (pc[d].at = "emit" /\ pc'[d].at = "emitted" /\ pc[d].sess = s)
  <2>1. pc[d] \in RequestRecord
    BY DEF TypeInv
  <2>2. pc'[d] = pc[d] \/ (pc'[d] = [pc[d] EXCEPT !.at = "emitted"] /\ pc[d].at = "emit" /\ pc[d].sess = s)
    BY <1>2, <1>3 DEF Go, TypeInv
  <2>3. CASE pc'[d] = pc[d]
    BY <2>3
  <2>4. CASE pc'[d] = [pc[d] EXCEPT !.at = "emitted"] /\ pc[d].at = "emit" /\ pc[d].sess = s
    BY <2>1, <2>4 DEF RequestRecord
  <2> QED BY <2>2, <2>3, <2>4
<1> QED BY <1>1, <1>2, <1>3

\* What an emission does to a client.
LEMMA EmitFields ==
    ASSUME TypeInv, LifeInv, NEW s \in Sessions, NEW c \in Clients, EmitTo(s, c)
    PROVE  /\ emit[s] # None /\ emit[s].left \in SUBSET Clients /\ c \in emit[s].left
           /\ emit' = [emit EXCEPT ![s].left = emit[s].left \ {c}]
           /\ UNCHANGED <<pc, pool, fresh, lock>>
           /\ \A d \in Clients \ {c} : cl'[d] = cl[d]
           /\ \/ /\ cl[c].hooked /\ cl'[c] = SessionEnds(cl[c], s)
                 /\ tunnel' = IF Closes(cl[c], s) THEN TunnelAfterClose(c) ELSE tunnel
                 /\ LateEnd(c, s) \subseteq quirks'
                 /\ Closes(cl[c], s) => TunnelQuirk(c) \subseteq quirks'
              \/ ~cl[c].hooked /\ cl[c].sessions = {} /\ UNCHANGED <<cl, tunnel>>
<1>1. /\ emit[s] # None /\ emit[s].left \in SUBSET Clients /\ c \in emit[s].left
      /\ \/ cl[c].hooked /\ cl' = [cl EXCEPT ![c] = SessionEnds(cl[c], s)]
         \/ ~cl[c].hooked /\ UNCHANGED <<cl, tunnel>>
  BY EmitClients
<1>2. UNCHANGED <<pc, pool, fresh, lock>>
  BY DEF EmitTo
<1>3. emit' = [emit EXCEPT ![s].left = emit[s].left \ {c}]
  BY DEF EmitTo, TypeInv
<1>4. \A d \in Clients \ {c} : cl'[d] = cl[d]
  BY <1>1 DEF TypeInv
<1>5. CASE cl[c].hooked
  <2>1. cl'[c] = SessionEnds(cl[c], s)
    BY <1>1, <1>5 DEF TypeInv
  <2>2. tunnel' = IF Closes(cl[c], s) THEN TunnelAfterClose(c) ELSE tunnel
    BY <1>5 DEF EmitTo, client_session_removed
  <2>3. PICK q : q \subseteq quirks' /\ LateEnd(c, s) \subseteq q /\ (Closes(cl[c], s) => TunnelQuirk(c) \subseteq q)
    <3> DEFINE q == LateEnd(c, s) \cup Corrupts(c, s) \cup IF Closes(cl[c], s) THEN TunnelQuirk(c) ELSE {}
    <3>1. Settle(Unfiltered(c, s), prepared, q)
      BY <1>5 DEF EmitTo
    <3>2. q \subseteq quirks'
      BY <3>1 DEF Settle, Quirk
    <3> QED BY <3>2
  <2> QED BY <1>1, <1>2, <1>3, <1>4, <1>5, <2>1, <2>2, <2>3
<1>6. CASE ~cl[c].hooked
  BY <1>1, <1>2, <1>3, <1>4, <1>6 DEF LifeInv, Lives
<1> QED BY <1>5, <1>6

LEMMA PoolRequests ==
    ASSUME TypeInv, RequestInv, KnownInv, LifeInv, NEW s \in Sessions, PoolStep(s)
    PROVE  RequestInv'
<1>1. CASE EmitBegin(s) \/ Expire(s)
  <2>1. cl' = cl /\ pc' = pc /\ lock' = lock
    BY <1>1 DEF EmitBegin, Expire, callVars, mediaVars
  <2>2. ASSUME NEW d \in Clients
        PROVE  Requesting(d)'
    BY <2>1, <2>2, OthersStill
  <2> QED BY <2>2 DEF RequestInv
<1>2. ASSUME NEW c \in Clients, EmitTo(s, c)
      PROVE  RequestInv'
  <2>1. /\ pc' = pc /\ lock' = lock /\ \A d \in Clients \ {c} : cl'[d] = cl[d]
        /\ cl'[c] = SessionEnds(cl[c], s) \/ cl' = cl
    BY <1>2, EmitFields
  <2>2. /\ cl'[c].cached = cl[c].cached
        /\ cl'[c].watch = cl[c].watch \/ (cl[c].watch = "live" /\ cl'[c].watch = "dying")
    <3>1. CASE cl' = cl
      BY <3>1
    <3>2. CASE cl'[c] = SessionEnds(cl[c], s)
      BY <3>2, SessionEndsFields DEF TypeInv
    <3> QED BY <2>1, <3>1, <3>2
  <2>3. ASSUME NEW d \in Clients
        PROVE  Requesting(d)'
    BY <2>1, <2>2, <2>3, OthersStill
  <2> QED BY <2>3 DEF RequestInv
<1>3. CASE EmitEnd(s)
  <2>1. /\ cl' = cl /\ lock' = lock
        /\ \/ pc' = pc
           \/ /\ emit[s].by \in Clients /\ Go(emit[s].by, "emitted")
              /\ pc[emit[s].by].at = "emit"
    BY <1>3, EmitEndRequest
  <2>2. CASE pc' = pc
    <3>1. ASSUME NEW d \in Clients
          PROVE  Requesting(d)'
      BY <2>1, <2>2, <3>1, OthersStill
    <3> QED BY <3>1 DEF RequestInv
  <2>3. CASE emit[s].by \in Clients /\ Go(emit[s].by, "emitted") /\ pc[emit[s].by].at = "emit"
    <3> PICK c \in Clients : c = emit[s].by
      BY <2>3
    <3>1. Go(c, "emitted") /\ pc[c].at = "emit" /\ pc[c] \in RequestRecord /\ Shape(pc[c])
      BY <2>3 DEF TypeInv, RequestInv, Requesting
    <3>2. Requesting(c)'
      <4>1. Shape([pc[c] EXCEPT !.at = "emitted"])
        BY <3>1, GoShapes
      <4>2. ~Caches([pc[c] EXCEPT !.at = "emitted"])
        BY <3>1, GoCaches DEF At
      <4> QED BY <2>1, <3>1, <4>1, <4>2, GoRequests DEF At
    <3>3. ASSUME NEW d \in Clients \ {c}
          PROVE  Requesting(d)'
      <4>1. pc'[d] = pc[d]
        BY <3>1, <3>3 DEF Go, TypeInv
      <4> QED BY <2>1, <3>3, <4>1, OthersStill
    <3> QED BY <3>2, <3>3 DEF RequestInv
  <2> QED BY <2>1, <2>2, <2>3
<1> QED BY <1>1, <1>2, <1>3 DEF PoolStep

LEMMA RequestInvStep ==
    ASSUME TypeInv, RequestInv, KnownInv, LifeInv, Steps
    PROVE  RequestInv'
BY RequestRequests, MergeRequests, OtherRequests, PoolRequests DEF Steps
-----------------------------------------------------------------------------
\* How the request of a client moves on.

Keeps(n, r) == n.method = r.method /\ n.sess = r.sess /\ n.path = r.path

RequestMove(c, n, r) ==
    \/ n = Idle
    \/ /\ Finds(c) /\ Keeps(n, r) /\ n.media = None /\ r.media = None
       /\ r.at = "go" /\ n.at \in {"described", "announced", "setup"} /\ (n.at = "setup" <=> r.method = "SETUP")
       /\ n.at = "setup" /\ r.sess # None => sm[r.sess][r.path] = None
    \/ /\ DupMedia(c) \/ SetupFound(c)
       /\ Keeps(n, r) /\ n.media = <<r.sess, r.path>> /\ r.sess # None /\ Manages(r.sess, r.path)
       /\ r.at = "go" /\ n.at \in {"dup", "setup_lock"} /\ (n.at = "setup_lock" <=> r.method = "SETUP")
    \/ Teardown(c) /\ Keeps(n, r) /\ n.media = r.media /\ r.at = "dup" /\ n.at \in {"emitted", "remove"}
    \/ PoolRemove(c) /\ Keeps(n, r) /\ n.media = r.media /\ r.at = "remove" /\ n.at \in {"emit", "emitted"}
    \/ SetupLock(c) /\ Keeps(n, r) /\ n.media = r.media /\ r.at = "setup_lock" /\ n.at = "setup"
    \/ /\ SetupCreate(c) /\ r.sess = None /\ n.sess \in fresh /\ n.sess \notin fresh'
       /\ n.media = r.media /\ n.path = r.path /\ n.method = r.method /\ r.at = "setup" /\ n.at = "setup_watch"
    \/ /\ Watches(c) /\ Keeps(n, r) /\ n.media = r.media
       /\ (r.at = "found" /\ n.at = "go") \/ (r.at = "setup_watch" /\ n.at = "setup")
    \/ /\ \E b \in BOOLEAN : SetupFails(c, b)
       /\ Keeps(n, r) /\ n.media = None /\ r.at = "setup" /\ n.at = "remove"

LEMMA AtMoves ==
    ASSUME NEW r \in RequestRecord, NEW a \in At, NEW n, n = [r EXCEPT !.at = a]
    PROVE  Keeps(n, r) /\ n.at = a /\ n.media = r.media
BY DEF RequestRecord, Keeps

LEMMA RequestMoves ==
    ASSUME TypeInv, RequestInv, NEW c \in Clients, RequestStep(c), NEW n, n = pc'[c], NEW r, r = pc[c]
    PROVE  /\ RequestMove(c, n, r) /\ \A d \in Clients \ {c} : pc'[d] = pc[d]
           /\ r \in RequestRecord /\ Shape(r) /\ r.at \notin {"idle", "emit"} /\ (r.at = "tunnel" => MergeTunnel(c))
<1>0. pc \in [Clients -> RequestRecord] /\ r \in RequestRecord /\ Shape(r)
  BY DEF TypeInv, RequestInv, Requesting
<1>1. \A d \in Clients \ {c} : pc'[d] = pc[d]
  BY RequestAlone, MergeRequests DEF Alone
<1>2. r.at \notin {"idle", "emit"} /\ (r.at = "tunnel" => MergeTunnel(c))
  BY DEF RequestStep, Returns, Misses, Finds, Seeks, HandleSdp, DupMedia, Teardown, PoolRemove, TeardownEnd,
         SetupFound, SetupLock, SetupCreate, Watches, SetupTransport, SetupFails, MergeTunnel
<1>3. RequestMove(c, n, r)
  <2>1. CASE \/ Returns(c) \/ Misses(c) \/ HandleSdp(c) \/ TeardownEnd(c)
             \/ (\E k \in Chan \cup {None} : SetupTransport(c, k)) \/ MergeTunnel(c)
    <3>1. n = Idle
      BY <2>1, RequestDone, MergeRequests
    <3> QED BY <3>1 DEF RequestMove
  <2>2. CASE Finds(c)
    <3>1. n = [r EXCEPT !.at = FoundAt(c)] /\ r.media = None /\ r.at = "go"
          /\ r.method \in {"DESCRIBE", "ANNOUNCE", "SETUP"}
      BY <2>2, RequestFinds
    <3>2. FoundAt(c) \in {"described", "announced", "setup"} /\ (FoundAt(c) = "setup" <=> r.method = "SETUP")
      BY <3>1 DEF FoundAt
    <3>3. Keeps(n, r) /\ n.at = FoundAt(c) /\ n.media = None
      <4>1. FoundAt(c) \in At
        BY <3>2 DEF At
      <4> QED BY <1>0, <3>1, <4>1, AtMoves
    <3>4. r.method = "SETUP" /\ r.sess # None => sm[r.sess][r.path] = None
      BY <2>2 DEF Finds, Seeks
    <3> QED BY <2>2, <3>1, <3>2, <3>3, <3>4 DEF RequestMove
  <2>3. CASE DupMedia(c) \/ SetupFound(c)
    <3> PICK x : x = <<r.sess, r.path>>
      OBVIOUS
    <3>1. PICK a \in {"dup", "setup_lock"} :
            pc' = [pc EXCEPT ![c].at = a, ![c].media = x] /\ (a = "setup_lock" <=> r.method = "SETUP")
      BY <2>3 DEF DupMedia, SetupFound
    <3>2. n = [r EXCEPT !.at = a, !.media = x]
      BY <1>0, <3>1
    <3>3. Keeps(n, r) /\ n.at = a /\ n.media = x
      BY <1>0, <3>2 DEF RequestRecord, Keeps
    <3>4. r.at = "go" /\ Manages(r.sess, r.path)
      BY <2>3 DEF DupMedia, SetupFound
    <3>5. r.sess # None
      BY <3>4 DEF Manages
    <3> QED BY <2>3, <3>1, <3>3, <3>4, <3>5 DEF RequestMove
  <2>4. CASE Teardown(c)
    <3>1. PICK a \in {"emitted", "remove"} : Go(c, a) /\ r.at = "dup"
      BY <2>4 DEF Teardown
    <3>2. Keeps(n, r) /\ n.at = a /\ n.media = r.media
      BY <1>0, <3>1, AtMoves DEF Go, At
    <3> QED BY <2>4, <3>1, <3>2 DEF RequestMove
  <2>5. CASE PoolRemove(c)
    <3>1. PICK a \in {"emitted", "emit"} : Go(c, a) /\ r.at = "remove"
      BY <2>5 DEF PoolRemove
    <3>2. Keeps(n, r) /\ n.at = a /\ n.media = r.media
      BY <1>0, <3>1, AtMoves DEF Go, At
    <3> QED BY <2>5, <3>1, <3>2 DEF RequestMove
  <2>6. CASE SetupLock(c)
    <3>1. Go(c, "setup") /\ r.at = "setup_lock"
      BY <2>6 DEF SetupLock
    <3>2. Keeps(n, r) /\ n.at = "setup" /\ n.media = r.media
      BY <1>0, <3>1, AtMoves DEF Go, At
    <3> QED BY <2>6, <3>1, <3>2 DEF RequestMove
  <2>7. CASE Watches(c)
    <3>1. PICK a \in {"go", "setup"} :
            Go(c, a) /\ ((r.at = "found" /\ a = "go") \/ (r.at = "setup_watch" /\ a = "setup"))
      BY <2>7 DEF Watches
    <3>2. Keeps(n, r) /\ n.at = a /\ n.media = r.media
      BY <1>0, <3>1, AtMoves DEF Go, At
    <3> QED BY <2>7, <3>1, <3>2 DEF RequestMove
  <2>8. CASE SetupCreate(c)
    <3>1. PICK s \in fresh : pc' = [pc EXCEPT ![c].at = "setup_watch", ![c].sess = s, ![c].made = TRUE]
                             /\ fresh' = fresh \ {s}
      BY <2>8 DEF SetupCreate
    <3>2. n = [r EXCEPT !.at = "setup_watch", !.sess = s, !.made = TRUE]
      BY <1>0, <3>1
    <3>3. n.at = "setup_watch" /\ n.sess = s /\ n.media = r.media /\ n.path = r.path /\ n.method = r.method
      BY <1>0, <3>2 DEF RequestRecord
    <3>4. r.at = "setup" /\ r.sess = None
      BY <2>8 DEF SetupCreate
    <3> QED BY <2>8, <3>1, <3>3, <3>4 DEF RequestMove
  <2>9. ASSUME NEW b \in BOOLEAN, SetupFails(c, b)
        PROVE  RequestMove(c, n, r)
    <3>1. n = FailRequest(c) /\ r.at = "setup"
      <4>1. pc' = [pc EXCEPT ![c] = FailRequest(c)]
        BY <2>9, SetupPuts
      <4>2. pc[c].at = "setup"
        BY <2>9 DEF SetupFails
      <4> QED BY <4>1, <4>2 DEF TypeInv
    <3>2. CASE r.made
      <4>1. n = [r EXCEPT !.at = "remove", !.media = None]
        BY <3>1, <3>2 DEF FailRequest
      <4>2. Keeps(n, r) /\ n.at = "remove" /\ n.media = None
        BY <1>0, <4>1 DEF RequestRecord, Keeps
      <4> QED BY <2>9, <3>1, <4>2 DEF RequestMove
    <3>3. CASE ~r.made
      BY <3>1, <3>3 DEF FailRequest, RequestMove
    <3> QED BY <3>2, <3>3
  <2> QED BY <2>1, <2>2, <2>3, <2>4, <2>5, <2>6, <2>7, <2>8, <2>9 DEF RequestStep
<1> QED BY <1>0, <1>1, <1>2, <1>3

\* The moves of all steps.
Move(d, n, r) ==
    \/ n = r
    \/ RequestStep(d) /\ RequestMove(d, n, r)
    \/ /\ r = Idle /\ cl[d].watch = "live" /\ n.at = "tunnel" /\ n.sess = None /\ n.method = None
       /\ n.media = tunnel /\ tunnel \in Clients /\ \E h \in {"GET", "POST"} : HandleTunnel(d, h)
    \/ /\ r = Idle /\ cl' = cl /\ n.media = None /\ UNCHANGED <<pool, fresh, emit, sm>>
       /\ (n.at = "go" /\ n.sess = None) \/ (n.at = "found" /\ n.sess \in pool /\ n.sess \notin fresh)
    \/ /\ r.at = "emit" /\ n.at = "emitted" /\ Keeps(n, r) /\ n.media = r.media /\ emit[r.sess] # None
       /\ emit' = [emit EXCEPT ![r.sess] = None] /\ UNCHANGED <<cl, pool>>

LEMMA StepMoves ==
    ASSUME TypeInv, RequestInv, KnownInv, LifeInv, Steps, NEW d \in Clients
    PROVE  Move(d, pc'[d], pc[d])
<1> DEFINE n == pc'[d]
           r == pc[d]
<1>1. ASSUME NEW c \in Clients, RequestStep(c)
      PROVE  Move(d, n, r)
  BY <1>1, RequestMoves DEF Move
<1>2. ASSUME NEW c \in Clients, ConnectionStep(c)
      PROVE  Move(d, n, r)
  <2>1. CASE pc' = pc
    BY <2>1 DEF Move
  <2>2. ASSUME NEW h \in {"GET", "POST"}, HandleTunnel(c, h)
        PROVE  Move(d, n, r)
    <3>1. CASE d # c
      <4>1. \A x \in Clients \ {c} : pc'[x] = pc[x]
        BY <2>2, TunnelRequest
      <4>2. n = r
        BY <3>1, <4>1
      <4> QED BY <4>2 DEF Move
    <3>2. CASE d = c
      BY <2>2, <3>2, TunnelRequest DEF Move
    <3> QED BY <3>1, <3>2
  <2> QED BY <1>2, <2>1, <2>2, ConnectionIdle
<1>3. ASSUME NEW c \in Clients, NEW s \in Sessions \cup {None}, todo[c] # <<>>,
             Head(todo[c]).method \notin {"GET", "POST"}, HandleRequest(c, Head(todo[c]), s)
      PROVE  Move(d, n, r)
  <2>1. CASE d # c
    <3>1. n = r
      BY <1>3, <2>1, NewRequest
    <3> QED BY <3>1 DEF Move
  <2>2. CASE d = c
    <3>1. /\ r = Idle /\ cl' = cl /\ n.media = None /\ UNCHANGED <<pool, fresh, emit, sm>>
          /\ n.at = (IF s = None THEN "go" ELSE "found") /\ n.sess = s
          /\ s # None => s \in pool \cap Known
      BY <1>3, <2>2, NewRequest
    <3>2. (n.at = "go" /\ n.sess = None) \/ (n.at = "found" /\ n.sess \in pool /\ n.sess \notin fresh)
      BY <3>1 DEF Known
    <3> QED BY <3>1, <3>2 DEF Move
  <2> QED BY <2>1, <2>2
<1>4. ASSUME NEW s \in Sessions, PoolStep(s)
      PROVE  Move(d, n, r)
  <2>1. CASE EmitEnd(s)
    <3>1. /\ emit[s] # None /\ emit' = [emit EXCEPT ![s] = None] /\ UNCHANGED <<cl, pool>>
          /\ Keeps(n, r) /\ n.media = r.media
          /\ n.at = r.at \/ (r.at = "emit" /\ n.at = "emitted" /\ r.sess = s)
      BY <2>1, EmitEndRequest DEF Keeps
    <3>2. CASE r.at = "emit" /\ n.at = "emitted" /\ r.sess = s
      BY <3>1, <3>2 DEF Move
    <3>3. CASE n.at = r.at
      <4>1. n = r \/ (n = [r EXCEPT !.at = "emitted"] /\ r.at = "emit")
        <5>1. \/ pc' = pc
              \/ emit[s].by \in Clients /\ Go(emit[s].by, "emitted") /\ pc[emit[s].by].at = "emit"
          BY <2>1, EmitEndRequest
        <5> QED BY <5>1 DEF Go, TypeInv
      <4>2. r \in RequestRecord
        BY DEF TypeInv
      <4>3. n = r
        BY <3>3, <4>1, <4>2 DEF RequestRecord
      <4> QED BY <4>3 DEF Move
    <3> QED BY <3>1, <3>2, <3>3
  <2>2. CASE ~EmitEnd(s)
    <3>1. pc' = pc
      BY <1>4, <2>2 DEF PoolStep, EmitBegin, EmitTo, Expire, callVars
    <3> QED BY <3>1 DEF Move
  <2> QED BY <2>1, <2>2
<1>5. ASSUME NEW c \in Clients, OtherStep(c)
      PROVE  Move(d, n, r)
  BY <1>2, <1>3, <1>5 DEF OtherStep, ConnectionStep
<1> QED BY <1>1, <1>4, <1>5 DEF Steps
\* How the pool and its emissions move on.
PoolMove ==
    \/ UNCHANGED <<pool, fresh, emit>>
    \/ \E c \in Clients : \E s \in fresh :
         /\ SetupCreate(c) /\ pc'[c].sess = s
         /\ fresh' = fresh \ {s} /\ pool' = pool \cup {s} /\ emit' = emit /\ UNCHANGED <<cl, sm>>
    \/ \E s \in pool : \E b \in Clients \cup {None} :
         /\ Remove(s, b) /\ UNCHANGED <<cl, sm>>
         /\ b # None => pc'[b].at = "emit" /\ pc'[b].sess = s
    \/ \E s \in Sessions : \E l \in {None} \cup SUBSET Clients :
         /\ EmitBegin(s) \/ \E c \in Clients : EmitTo(s, c)
         /\ emit[s] # None /\ emit' = [emit EXCEPT ![s].left = l] /\ UNCHANGED <<pc, pool, fresh>>
    \/ \E s \in Sessions :
         /\ EmitEnd(s)
         /\ emit[s] # None /\ emit' = [emit EXCEPT ![s] = None] /\ UNCHANGED <<cl, pool, fresh>>

LEMMA PoolMoves ==
    ASSUME TypeInv, RequestInv, KnownInv, LifeInv, Steps
    PROVE  PoolMove
<1>1. ASSUME NEW c \in Clients, RequestStep(c)
      PROVE  PoolMove
  <2>1. CASE SetupCreate(c)
    <3>1. PICK s \in fresh : fresh' = fresh \ {s} /\ pool' = pool \cup {s}
                             /\ pc' = [pc EXCEPT ![c].at = "setup_watch", ![c].sess = s, ![c].made = TRUE]
      BY <2>1 DEF SetupCreate
    <3>2. pc'[c].sess = s
      <4>1. pc[c] \in RequestRecord
        BY DEF TypeInv
      <4>2. pc'[c] = [pc[c] EXCEPT !.at = "setup_watch", !.sess = s, !.made = TRUE]
        BY <3>1 DEF TypeInv
      <4> QED BY <4>1, <4>2 DEF RequestRecord
    <3>3. emit' = emit /\ UNCHANGED <<cl, sm>>
      BY <2>1 DEF SetupCreate, mediaVars
    <3> QED BY <2>1, <3>1, <3>2, <3>3 DEF PoolMove
  <2>2. CASE PoolRemove(c)
    <3>1. CASE pc[c].sess \in pool
      <4>1. Remove(pc[c].sess, c) /\ Go(c, "emit") /\ UNCHANGED <<cl, sm>>
        BY <2>2, <3>1 DEF PoolRemove, mediaVars
      <4>2. pc'[c].at = "emit" /\ pc'[c].sess = pc[c].sess
        <5>1. pc[c] \in RequestRecord /\ pc'[c] = [pc[c] EXCEPT !.at = "emit"]
          BY <4>1 DEF TypeInv, Go
        <5> QED BY <5>1, AtMoves DEF At, Keeps
      <4> QED BY <3>1, <4>1, <4>2 DEF PoolMove
    <3>2. CASE pc[c].sess \notin pool
      <4>1. UNCHANGED <<pool, fresh, emit>>
        BY <2>2, <3>2 DEF PoolRemove, poolVars
      <4> QED BY <4>1 DEF PoolMove
    <3> QED BY <3>1, <3>2
  <2>3. CASE ~SetupCreate(c) /\ ~PoolRemove(c)
    <3>1. UNCHANGED <<pool, fresh, emit>>
      BY <1>1, <2>3 DEF RequestStep, Returns, Misses, FindFails, Finds, FindMedia, HandleSdp, DupMedia, Teardown,
                        TeardownEnd, SetupFound, SetupLock, Watches, SetupTransport, SetupFails, MergeTunnel, poolVars
    <3> QED BY <3>1 DEF PoolMove
  <2> QED BY <2>1, <2>2, <2>3
<1>2. ASSUME NEW c \in Clients, OtherStep(c)
      PROVE  PoolMove
  <2>1. UNCHANGED <<pool, fresh, emit>>
    <3>1. CASE ConnectionStep(c)
      BY <3>1, ConnectionIdle
    <3>2. CASE \E s \in Sessions \cup {None} : HandleRequest(c, Head(todo[c]), s)
      BY <3>2 DEF HandleRequest, poolVars
    <3> QED BY <1>2, <3>1, <3>2 DEF OtherStep, ConnectionStep
  <2> QED BY <2>1 DEF PoolMove
<1>3. ASSUME NEW s \in Sessions, PoolStep(s)
      PROVE  PoolMove
  <2>1. CASE EmitBegin(s)
    <3>1. {c \in Clients : cl[c].hooked} \in {None} \cup SUBSET Clients
      OBVIOUS
    <3>2. emit[s] # None /\ UNCHANGED <<pc, pool, fresh>>
          /\ emit' = [emit EXCEPT ![s].left = {c \in Clients : cl[c].hooked}]
      BY <2>1 DEF EmitBegin, callVars
    <3> QED BY <2>1, <3>1, <3>2 DEF PoolMove
  <2>2. ASSUME NEW c \in Clients, EmitTo(s, c)
        PROVE  PoolMove
    <3>1. /\ emit[s] # None /\ emit[s].left \in SUBSET Clients /\ UNCHANGED <<pc, pool, fresh>>
          /\ emit' = [emit EXCEPT ![s].left = emit[s].left \ {c}]
      BY <2>2, EmitFields
    <3>2. emit[s].left \ {c} \in {None} \cup SUBSET Clients
      BY <3>1
    <3> QED BY <2>2, <3>1, <3>2 DEF PoolMove
  <2>3. CASE EmitEnd(s)
    <3>1. emit[s] # None /\ emit' = [emit EXCEPT ![s] = None] /\ UNCHANGED <<cl, pool, fresh>>
      BY <2>3 DEF EmitEnd
    <3> QED BY <2>3, <3>1 DEF PoolMove
  <2>4. CASE Expire(s)
    <3>1. s \in pool /\ Remove(s, None) /\ UNCHANGED <<cl, sm>>
      BY <2>4 DEF Expire, callVars, mediaVars
    <3> QED BY <3>1 DEF PoolMove
  <2> QED BY <1>3, <2>1, <2>2, <2>3, <2>4 DEF PoolStep
<1> QED BY <1>1, <1>2, <1>3 DEF Steps

\* The sessions a client watches: none are new but the one of its request.
LEMMA SessionsMove ==
    ASSUME TypeInv, RequestInv, KnownInv, LifeInv, Steps, NEW d \in Clients
    PROVE  \/ cl'[d].sessions = cl[d].sessions
           \/ /\ Watches(d) /\ cl'[d].sessions = cl[d].sessions \cup {pc[d].sess} /\ cl'[d].hooked
              /\ UNCHANGED <<pool, emit>> /\ Quirk(LateWatch(pc[d].sess))
           \/ /\ pc[d] = Idle /\ cl[d].watch = "notify" /\ UNCHANGED <<pc, pool, emit>>
              /\ \E s \in Sessions : cleanup_session(d, s) /\ cl'[d].sessions = cl[d].sessions \ {s}
           \/ \E s \in Sessions : EmitTo(s, d) /\ emit[s] # None /\ cl'[d].sessions = cl[d].sessions \ {s}
<1> DEFINE G == \/ cl'[d].sessions = cl[d].sessions
                \/ /\ Watches(d) /\ cl'[d].sessions = cl[d].sessions \cup {pc[d].sess} /\ cl'[d].hooked
                   /\ UNCHANGED <<pool, emit>> /\ Quirk(LateWatch(pc[d].sess))
                \/ /\ pc[d] = Idle /\ cl[d].watch = "notify" /\ UNCHANGED <<pc, pool, emit>>
                   /\ \E s \in Sessions : cleanup_session(d, s) /\ cl'[d].sessions = cl[d].sessions \ {s}
                \/ \E s \in Sessions : EmitTo(s, d) /\ emit[s] # None /\ cl'[d].sessions = cl[d].sessions \ {s}
<1>1. ASSUME NEW c \in Clients, RequestStep(c)
      PROVE  G
  <2>1. CASE MergeTunnel(c)
    BY <2>1, MergeFields
  <2>2. CASE ~MergeTunnel(c)
    <3>1. CASE d # c
      BY <1>1, <2>2, <3>1, RequestAlone DEF Alone
    <3>2. CASE d = c
      <4>1. \/ cl'[c].sessions = cl[c].sessions
            \/ Watches(c) /\ cl'[c].sessions = cl[c].sessions \cup {pc[c].sess} /\ cl'[c].hooked
        BY <1>1, <2>2, RequestFields
      <4>2. Watches(c) => UNCHANGED <<pool, emit>> /\ Quirk(LateWatch(pc[c].sess))
        BY DEF Watches, poolVars
      <4> QED BY <3>2, <4>1, <4>2
    <3> QED BY <3>1, <3>2
  <2> QED BY <2>1, <2>2
<1>2. ASSUME NEW c \in Clients, ConnectionStep(c)
      PROVE  G
  <2>1. CASE d # c
    <3>1. cl'[d] = cl[d]
      BY <1>2, <2>1, ConnectionFields
    <3> QED BY <3>1
  <2>2. CASE d = c
    <3>1. cl'[c].sessions = cl[c].sessions \/ Leaves(c, cl'[c], cl[c])
      BY <1>2, ConnectionFields DEF ConnectionEffect
    <3>2. ASSUME Leaves(c, cl'[c], cl[c])
          PROVE  G
      <4>1. PICK s \in Sessions : /\ cleanup_session(c, s) /\ cl[c].watch = "notify"
                                  /\ cl'[c].sessions = cl[c].sessions \/ cl'[c].sessions = cl[c].sessions \ {s}
        BY <3>2 DEF Leaves
      <4>2. pc[c] = Idle /\ UNCHANGED <<pc, pool, emit>>
        <5>1. pc[c] = Idle \/ Close(c)
          BY <1>2, ConnectionIdle
        <5> QED BY <4>1, <5>1 DEF Close, cleanup_session, poolVars
      <4> QED BY <2>2, <4>1, <4>2
    <3> QED BY <2>2, <3>1, <3>2
  <2> QED BY <2>1, <2>2
<1>3. ASSUME NEW c \in Clients, OtherStep(c)
      PROVE  G
  <2>1. CASE \E s \in Sessions \cup {None} : HandleRequest(c, Head(todo[c]), s)
    BY <2>1 DEF HandleRequest
  <2> QED BY <1>2, <1>3, <2>1 DEF OtherStep, ConnectionStep
<1>4. ASSUME NEW s \in Sessions, PoolStep(s)
      PROVE  G
  <2>1. ASSUME NEW c \in Clients, EmitTo(s, c)
        PROVE  G
    <3>1. /\ emit[s] # None /\ \A x \in Clients \ {c} : cl'[x] = cl[x]
          /\ cl'[c] = SessionEnds(cl[c], s) \/ cl' = cl
      BY <2>1, EmitFields
    <3>2. CASE d = c /\ cl'[c] = SessionEnds(cl[c], s)
      <4>1. cl'[c].sessions = cl[c].sessions \ {s}
        BY <3>2, SessionEndsFields DEF TypeInv
      <4> QED BY <2>1, <3>1, <3>2, <4>1
    <3> QED BY <3>1, <3>2
  <2>2. CASE EmitBegin(s) \/ EmitEnd(s) \/ Expire(s)
    BY <2>2 DEF EmitBegin, EmitEnd, Expire, callVars
  <2> QED BY <1>4, <2>1, <2>2 DEF PoolStep
<1> QED BY <1>1, <1>3, <1>4 DEF Steps
-----------------------------------------------------------------------------
\* What is known.

\* A session of a request is its own, or new, or the client found it in the pool.
LEMMA SessMoves ==
    ASSUME TypeInv, RequestInv, KnownInv, LifeInv, Steps, NEW d \in Clients
    PROVE  \/ pc'[d].sess \in {pc[d].sess, None}
           \/ SetupCreate(d) /\ pc'[d].sess \in fresh /\ pc'[d].sess \notin fresh' /\ pc[d].sess = None
           \/ pc'[d].sess \in pool /\ pc'[d].sess \notin fresh /\ UNCHANGED <<pool, fresh>>
<1>1. Move(d, pc'[d], pc[d])
  BY StepMoves
<1>2. Idle.sess = None
  BY DEF Idle
<1> QED BY <1>1, <1>2 DEF Move, RequestMove, Keeps

LEMMA FreshShrinks ==
    ASSUME TypeInv, RequestInv, KnownInv, LifeInv, Steps
    PROVE  fresh' \subseteq fresh /\ pool' \cap fresh' = {}
<1>1. PoolMove
  BY PoolMoves
<1> QED BY <1>1 DEF PoolMove, Remove, KnownInv, TypeInv

LEMMA FreshMedia ==
    ASSUME TypeInv, RequestInv, MediaInv, KnownInv, LifeInv, "freed_media" \notin quirks, Steps
    PROVE  \A s \in fresh' : \A p \in Paths : sm'[s][p] = None
<1> SUFFICES ASSUME NEW s \in fresh', NEW p \in Paths
             PROVE  sm'[s][p] = None
  OBVIOUS
<1>1. s \in fresh /\ s \in Sessions /\ sm[s][p] = None
  BY FreshShrinks DEF KnownInv, TypeInv
<1>2. CASE Fading
  BY <1>1, <1>2 DEF Fading, Weaker
<1>3. ASSUME NEW c \in Clients, Makes(c)
      PROVE  sm'[s][p] = None
  <2>1. PICK n \in SM : Making(c, n)
    BY <1>3, MakesMakes
  <2>2. s # pc[c].sess
    BY <1>1 DEF KnownInv
  <2> QED BY <1>1, <2>1, <2>2 DEF Making, Weaker
<1> QED BY <1>2, <1>3, StepFades

LEMMA EmitByMoves ==
    ASSUME TypeInv, RequestInv, KnownInv, LifeInv, Steps, NEW s \in Sessions, emit'[s] # None
    PROVE  /\ s \notin pool' /\ s \notin fresh'
           /\ emit'[s].by # None => pc'[emit'[s].by].at = "emit" /\ pc'[emit'[s].by].sess = s
<1>1. PoolMove /\ fresh' \subseteq fresh
  BY PoolMoves, FreshShrinks
<1>2. emit \in [Sessions -> Emissions \cup {None}]
  BY DEF TypeInv
\* An emission that was there: its request waits until it ends.
<1>3. ASSUME emit[s] # None, emit'[s].by = emit[s].by
      PROVE  emit'[s].by # None => pc'[emit'[s].by].at = "emit" /\ pc'[emit'[s].by].sess = s
  <2> SUFFICES ASSUME emit[s].by # None
               PROVE  pc'[emit[s].by].at = "emit" /\ pc'[emit[s].by].sess = s
    BY <1>3
  <2> PICK d : d = emit[s].by
    OBVIOUS
  <2>1. d \in Clients
    BY <1>2, <1>3, EmissionTypes
  <2>2. pc[d].at = "emit" /\ pc[d].sess = s
    BY <1>3 DEF KnownInv
  <2>3. Move(d, pc'[d], pc[d])
    BY <2>1, StepMoves
  <2>4. ~RequestStep(d)
    BY <2>1, <2>2, RequestMoves
  <2>5. pc[d] # Idle
    BY <2>2 DEF Idle
  <2>6. pc'[d] = pc[d] \/ emit' = [emit EXCEPT ![s] = None]
    BY <2>2, <2>3, <2>4, <2>5 DEF Move
  <2> QED BY <1>2, <2>2, <2>6
<1>4. CASE emit'[s] = emit[s] /\ pool' \subseteq pool
  BY <1>1, <1>3, <1>4 DEF KnownInv
<1>5. CASE UNCHANGED <<pool, fresh, emit>>
  BY <1>4, <1>5
<1>6. CASE \E c \in Clients : \E t \in fresh :
             /\ SetupCreate(c) /\ pc'[c].sess = t
             /\ fresh' = fresh \ {t} /\ pool' = pool \cup {t} /\ emit' = emit /\ UNCHANGED <<cl, sm>>
  BY <1>1, <1>3, <1>6 DEF KnownInv
<1>7. CASE \E t \in pool : \E b \in Clients \cup {None} :
             /\ Remove(t, b) /\ UNCHANGED <<cl, sm>>
             /\ b # None => pc'[b].at = "emit" /\ pc'[b].sess = t
  <2> PICK t \in pool, b \in Clients \cup {None} :
             /\ Remove(t, b) /\ UNCHANGED <<cl, sm>>
             /\ b # None => pc'[b].at = "emit" /\ pc'[b].sess = t
    BY <1>7
  <2>1. /\ pool' = pool \ {t} /\ fresh' = fresh /\ t \in Sessions
        /\ emit' = [emit EXCEPT ![t] = [by |-> b, left |-> None]]
    BY DEF Remove, TypeInv
  <2>2. CASE s = t
    <3>1. emit'[s] = [by |-> b, left |-> None]
      BY <1>2, <2>1, <2>2
    <3>2. emit'[s].by = b
      BY <3>1
    <3> QED BY <2>1, <2>2, <3>2 DEF KnownInv
  <2>3. CASE s # t
    BY <1>2, <1>4, <2>1, <2>3
  <2> QED BY <2>2, <2>3
<1>8. CASE \E t \in Sessions : \E l \in {None} \cup SUBSET Clients :
             /\ EmitBegin(t) \/ \E c \in Clients : EmitTo(t, c)
             /\ emit[t] # None /\ emit' = [emit EXCEPT ![t].left = l] /\ UNCHANGED <<pc, pool, fresh>>
  <2> PICK t \in Sessions, l \in {None} \cup SUBSET Clients :
             /\ emit[t] # None /\ emit' = [emit EXCEPT ![t].left = l] /\ UNCHANGED <<pc, pool, fresh>>
    BY <1>8
  <2>1. CASE s = t
    <3>1. emit[s] \in Emissions /\ emit'[s] = [emit[s] EXCEPT !.left = l]
      BY <1>2, <2>1
    <3>2. emit'[s].by = emit[s].by
      BY <3>1 DEF Emissions
    <3> QED BY <2>1, <3>2 DEF KnownInv
  <2>2. CASE s # t
    BY <1>2, <1>4, <2>2
  <2> QED BY <2>1, <2>2
<1>9. CASE \E t \in Sessions :
             /\ EmitEnd(t)
             /\ emit[t] # None /\ emit' = [emit EXCEPT ![t] = None] /\ UNCHANGED <<cl, pool, fresh>>
  <2> PICK t \in Sessions :
             emit[t] # None /\ emit' = [emit EXCEPT ![t] = None] /\ UNCHANGED <<cl, pool, fresh>>
    BY <1>9
  <2>1. s # t /\ emit'[s] = emit[s]
    BY <1>2
  <2> QED BY <1>4, <2>1
<1> QED BY <1>1, <1>5, <1>6, <1>7, <1>8, <1>9 DEF PoolMove

LEMMA KnownStep ==
    ASSUME TypeInv, RequestInv, MediaInv, KnownInv, LifeInv, "freed_media" \notin quirks, Steps
    PROVE  KnownInv'
<1>1. fresh' \subseteq fresh /\ pool' \cap fresh' = {}
  BY FreshShrinks
<1>2. ASSUME NEW c \in Clients
      PROVE  cl'[c].sessions \cap fresh' = {} /\ pc'[c].sess \notin fresh'
  <2>1. cl[c].sessions \cap fresh = {} /\ pc[c].sess \notin fresh
    BY <1>2 DEF KnownInv
  <2>2. cl'[c].sessions \subseteq cl[c].sessions \cup {pc[c].sess}
    BY <1>2, SessionsMove
  <2>3. None \notin fresh'
    BY <1>1, Apart DEF TypeInv
  <2>4. pc'[c].sess \notin fresh'
    BY <1>1, <1>2, <2>1, <2>3, SessMoves
  <2> QED BY <1>1, <2>1, <2>2, <2>4
<1>3. \A s \in Sessions : emit'[s] # None =>
         /\ s \notin pool' /\ s \notin fresh'
         /\ emit'[s].by # None => pc'[emit'[s].by].at = "emit" /\ pc'[emit'[s].by].sess = s
  BY EmitByMoves
<1>4. \A s \in fresh' : \A p \in Paths : sm'[s][p] = None
  BY FreshMedia
<1> QED BY <1>1, <1>2, <1>3, <1>4 DEF KnownInv
-----------------------------------------------------------------------------
\* A client by itself.

\* A timer goes with the watch; one that starts later is a late one.
Timed(r) == r.watch \in {"notify", "gone"} => r.timer = None

LEMMA RequestLives ==
    ASSUME TypeInv, RequestInv, LifeInv, TypeInv', NEW c \in Clients, RequestStep(c), NEW d \in Clients
    PROVE  Lives(cl'[d]) /\ (Timed(cl[d]) => Timed(cl'[d]))
<1> PICK n : n = cl'[d]
  OBVIOUS
<1> PICK r : r = cl[d]
  OBVIOUS
<1>0. Lives(r) /\ r \in ClientRecord /\ n \in ClientRecord
  BY DEF LifeInv, TypeInv
<1>1. CASE MergeTunnel(c)
  <2>1. /\ n.sessions = r.sessions /\ n.hooked = r.hooked /\ n.visited = r.visited /\ n.finalized = r.finalized
        /\ n.tstate = r.tstate /\ n.had = r.had
        /\ \/ n.watch = r.watch /\ n.timer = r.timer
           \/ r.watch = "live" /\ n.watch = "dying" /\ n.timer = None
    BY <1>1, MergeFields
  <2>2. Lives(n) /\ (Timed(r) => Timed(n))
    BY <1>0, <2>1 DEF Lives, Timed
  <2> QED BY <2>2
<1>2. CASE ~MergeTunnel(c) /\ d # c
  <2>1. n = r
    BY <1>2, RequestAlone DEF Alone
  <2> QED BY <1>0, <2>1
<1>3. CASE ~MergeTunnel(c) /\ d = c
  <2>1. /\ n.watch = r.watch /\ n.finalized = r.finalized /\ n.visited = r.visited /\ n.tstate = r.tstate
        /\ \/ n.sessions = r.sessions /\ n.hooked = r.hooked
           \/ n.sessions = r.sessions \cup {pc[c].sess} /\ n.hooked
        /\ (n.timer = r.timer /\ n.had = r.had) \/ (n.timer = None /\ n.had)
    BY <1>3, RequestFields
  <2>2. r.watch \in {"live", "dying"}
    BY <1>3, RequestMoves DEF RequestInv, Requesting
  <2>3. n.hooked \in BOOLEAN
    BY <1>0 DEF ClientRecord
  <2>4. n.hooked = (n.sessions # {})
    BY <1>0, <2>1, <2>3 DEF Lives
  <2>5. Lives(n) /\ Timed(n)
    BY <1>0, <2>1, <2>2, <2>4 DEF Lives, Timed
  <2> QED BY <2>5
<1> QED BY <1>1, <1>2, <1>3

LEMMA ConnectionLives ==
    ASSUME TypeInv, RequestInv, LifeInv, TypeInv', NEW c \in Clients, ConnectionStep(c), NEW d \in Clients
    PROVE  Lives(cl'[d]) /\ (Timed(cl[d]) => Timed(cl'[d]))
<1> PICK n : n = cl'[d]
  OBVIOUS
<1> PICK r : r = cl[d]
  OBVIOUS
<1>0. Lives(r) /\ r \in ClientRecord /\ n \in ClientRecord
  BY DEF LifeInv, TypeInv
<1>1. CASE d # c
  <2>1. n = r
    BY <1>1, ConnectionFields
  <2> QED BY <1>0, <2>1
<1>2. CASE d = c
  <2>1. ConnectionEffect(c, n, r)
    BY <1>2, ConnectionFields
  <2>2. \/ n.sessions = r.sessions /\ n.hooked = r.hooked
        \/ \E s \in r.sessions : n.sessions = r.sessions \ {s} /\ (n.hooked <=> r.sessions # {s}) /\ r.watch = "notify"
    BY <2>1 DEF ConnectionEffect, Leaves
  <2>3. n.hooked = (n.sessions # {})
    <3>1. n.hooked \in BOOLEAN /\ r.hooked = (r.sessions # {})
      BY <1>0 DEF ClientRecord, Lives
    <3>2. CASE n.sessions = r.sessions /\ n.hooked = r.hooked
      BY <3>1, <3>2
    <3>3. CASE \E s \in r.sessions : n.sessions = r.sessions \ {s} /\ (n.hooked <=> r.sessions # {s})
      BY <3>1, <3>3
    <3> QED BY <2>2, <3>2, <3>3
  <2>4. n.visited = r.visited \/ r.watch = "notify" \/ n.visited = {}
    BY <2>1 DEF ConnectionEffect, Leaves
  <2>5. n.watch # "notify" => n.visited = {}
    <3>1. Leaves(c, n, r) => n.watch = "notify"
      <4>1. Leaves(c, n, r) => r.watch = "notify" /\ r.sessions \ r.visited # {}
        BY DEF Leaves
      <4> QED BY <2>1, <4>1 DEF ConnectionEffect
    <3>2. r.watch # "notify" => r.visited = {}
      BY <1>0 DEF Lives
    <3> QED BY <2>1, <3>1, <3>2 DEF ConnectionEffect
  <2>6. n.watch = "none" => n.tstate = "none"
    <3>1. n.tstate # r.tstate => r.watch = "live"
      <4>1. n.tstate # r.tstate => \E h : HandleTunnel(c, h)
        BY <2>1 DEF ConnectionEffect
      <4> QED BY <1>2, <4>1, TunnelRequest
    <3>2. n.watch = "none" => r.watch = "none"
      BY <2>1 DEF ConnectionEffect
    <3> QED BY <1>0, <3>1, <3>2 DEF Lives
  <2>7. n.watch = "live" /\ n.timer = None => n.had
    <3>1. 0 # None /\ (n.timer \in Nat => n.timer # None)
      BY Apart
    <3>2. n.had = r.had /\ (n.watch = "live" /\ n.timer = None => r.watch = "live" /\ r.timer = None)
      BY <2>1, <3>1 DEF ConnectionEffect
    <3> QED BY <1>0, <3>2 DEF Lives
  <2>8. n.finalized => n.watch = "gone" /\ n.sessions = {}
    <3>1. CASE n.finalized = r.finalized
      <4>1. r.finalized => r.watch = "gone" /\ r.sessions = {}
        BY <1>0 DEF Lives
      <4>2. r.watch = "gone" => n.watch = "gone"
        BY <2>1 DEF ConnectionEffect
      <4> QED BY <2>2, <3>1, <4>1, <4>2
    <3>2. CASE n.finalized # r.finalized
      <4>1. r.watch = "gone" /\ n.watch = "gone" /\ ~r.hooked
        BY <2>1, <3>2 DEF ConnectionEffect
      <4>2. r.sessions = {}
        BY <1>0, <4>1 DEF Lives
      <4> QED BY <2>2, <4>1, <4>2
    <3> QED BY <3>1, <3>2
  <2>9. Lives(n)
    BY <2>3, <2>5, <2>6, <2>7, <2>8 DEF Lives
  <2>10. Timed(r) => Timed(n)
    BY <2>1 DEF ConnectionEffect, Timed
  <2> QED BY <2>9, <2>10
<1> QED BY <1>1, <1>2

LEMMA EmissionLives ==
    ASSUME TypeInv, RequestInv, LifeInv, TypeInv', NEW s \in Sessions, NEW c \in Clients, EmitTo(s, c),
           NEW d \in Clients
    PROVE  Lives(cl'[d]) /\ (Timed(cl[d]) /\ "late_timer" \notin quirks' => Timed(cl'[d]))
<1> PICK n : n = cl'[d]
  OBVIOUS
<1> PICK r : r = cl[d]
  OBVIOUS
<1>0. Lives(r) /\ r \in ClientRecord /\ n \in ClientRecord
  BY DEF LifeInv, TypeInv
<1>1. /\ \A x \in Clients \ {c} : cl'[x] = cl[x]
      /\ \/ cl[c].hooked /\ cl'[c] = SessionEnds(cl[c], s) /\ LateEnd(c, s) \subseteq quirks'
         \/ cl' = cl
  BY EmitFields
<1>2. CASE n = r
  BY <1>0, <1>2
<1>3. CASE d = c /\ r.hooked /\ n = SessionEnds(r, s) /\ LateEnd(c, s) \subseteq quirks'
  <2>0. n = SessionEnds(r, s)
    BY <1>3
  <2>1. /\ n.sessions = r.sessions \ {s}
        /\ s \in r.sessions => (n.hooked <=> r.sessions # {s})
        /\ s \notin r.sessions => n.hooked = r.hooked
    BY <1>0, <2>0, SessionEndsFields
  <2>10. /\ n.visited = r.visited /\ n.tstate = r.tstate /\ n.had = r.had /\ n.finalized = r.finalized
         /\ \/ n.watch = r.watch /\ n.timer = r.timer
            \/ n.watch = r.watch /\ n.timer = 0 /\ n.sessions = {}
            \/ r.watch = "live" /\ n.watch = "dying" /\ n.timer = None
    BY <1>0, <2>0, SessionEndsFields
  <2>2. r.sessions # {} /\ ~r.finalized
    BY <1>0, <1>3 DEF Lives
  <2>3. n.hooked = (n.sessions # {})
    <3>1. n.hooked \in BOOLEAN /\ r.hooked = (r.sessions # {})
      BY <1>0 DEF ClientRecord, Lives
    <3> QED BY <1>3, <2>1, <2>2, <3>1
  <2>4. 0 # None
    BY Apart
  <2>5. Lives(n)
    BY <1>0, <2>1, <2>10, <2>2, <2>3, <2>4 DEF Lives
  <2>6. ASSUME Timed(r), "late_timer" \notin quirks', n.watch \in {"notify", "gone"}, n.timer # None
        PROVE  FALSE
    <3>1. r.watch = n.watch /\ n.sessions = {}
      BY <2>10, <2>6 DEF Timed
    <3>2. s \in r.sessions
      BY <2>1, <2>2, <3>1
    <3>3. SessionEnds(cl[c], s).timer # None /\ cl[c].watch \in {"notify", "gone"} /\ s \in cl[c].sessions
      BY <1>3, <2>6, <3>1, <3>2
    <3>4. "late_timer" \in LateEnd(c, s)
      BY <3>3 DEF LateEnd
    <3> QED BY <1>3, <2>6, <3>4
  <2> QED BY <2>5, <2>6 DEF Timed
<1> QED BY <1>1, <1>2, <1>3

LEMMA LifeStep ==
    ASSUME TypeInv, RequestInv, MediaInv, LifeInv, UntimedInv, TypeInv', "freed_media" \notin quirks, Steps
    PROVE  LifeInv' /\ UntimedInv'
<1>1. quirks \subseteq quirks'
  BY StepFades, MakesMakes DEF Fading, Making, Counts
<1>2. ASSUME NEW d \in Clients
      PROVE  Lives(cl'[d]) /\ (Timed(cl[d]) /\ "late_timer" \notin quirks' => Timed(cl'[d]))
  <2>1. Lives(cl[d])
    BY <1>2 DEF LifeInv
  <2>2. CASE cl' = cl
    BY <2>1, <2>2
  <2>3. ASSUME NEW c \in Clients, RequestStep(c) \/ ConnectionStep(c)
        PROVE  Lives(cl'[d]) /\ (Timed(cl[d]) => Timed(cl'[d]))
    BY <1>2, <2>3, RequestLives, ConnectionLives
  <2>4. ASSUME NEW c \in Clients, OtherStep(c), ~ConnectionStep(c)
        PROVE  cl' = cl
    BY <2>4 DEF OtherStep, ConnectionStep, HandleRequest
  <2>5. ASSUME NEW s \in Sessions, PoolStep(s), ~\E c \in Clients : EmitTo(s, c)
        PROVE  cl' = cl
    BY <2>5 DEF PoolStep, EmitBegin, EmitEnd, Expire, callVars
  <2> QED BY <1>2, <2>2, <2>3, <2>4, <2>5, EmissionLives DEF Steps
<1>3. LifeInv'
  BY <1>2 DEF LifeInv
<1>4. UntimedInv'
  <2> SUFFICES ASSUME Without({"late_timer"})', NEW c \in Clients, cl'[c].watch \in {"notify", "gone"}
               PROVE  cl'[c].timer = None
    BY DEF UntimedInv
  <2>1. "late_timer" \notin quirks'
    BY DEF Without
  <2>2. Timed(cl[c])
    BY <1>1, <2>1 DEF UntimedInv, Without, Timed
  <2> QED BY <1>2, <2>1, <2>2 DEF Timed
<1> QED BY <1>3, <1>4
-----------------------------------------------------------------------------
\* The media a request uses.

LEMMA MakesAt ==
    ASSUME TypeInv, RequestInv, NEW c \in Clients, Makes(c)
    PROVE  /\ RequestStep(c) /\ pc[c].at = "setup" /\ pc[c].sess # None /\ pc'[c].media = None
           /\ pc'[c].at \in {"idle", "remove"} /\ \A d \in Clients \ {c} : pc'[d] = pc[d]
           /\ pc'[c].at = "remove" \/ pc'[c] = Idle
<1>1. RequestStep(c) /\ pc[c].at = "setup" /\ pc[c].sess # None
  BY DEF Makes, FailsNew, RequestStep, SetupTransport, SetupFails
<1>2. RequestMove(c, pc'[c], pc[c]) /\ \A d \in Clients \ {c} : pc'[d] = pc[d]
  BY <1>1, RequestMoves
<1>3. \/ pc'[c] = Idle
      \/ pc'[c].media = None /\ pc'[c].at = "remove"
      \/ SetupCreate(c)
  BY <1>1, <1>2 DEF RequestMove
<1>4. ~SetupCreate(c)
  BY <1>1 DEF SetupCreate
<1> QED BY <1>1, <1>2, <1>3, <1>4 DEF Idle

LEMMA SetupStep ==
    ASSUME TypeInv, RequestInv, MediaInv, KnownInv, LifeInv, SetupInv, RequestInv', TypeInv',
           "freed_media" \notin quirks, Steps
    PROVE  SetupInv'
<1> SUFFICES ASSUME NEW c \in Clients, pc'[c].at \in {"setup", "setup_watch"}, pc'[c].media = None,
                    pc'[c].sess # None
             PROVE  sm'[pc'[c].sess][pc'[c].path] = None
  BY DEF SetupInv
<1> PICK n : n = pc'[c]
  OBVIOUS
<1> PICK r : r = pc[c]
  OBVIOUS
<1>0. n \in RequestRecord /\ Shape(n) /\ Shape(r) /\ Move(c, n, r)
  BY StepMoves DEF TypeInv, RequestInv, Requesting
<1>1. n.sess \in Sessions /\ n.path \in Paths
  <2>1. n.method = "SETUP" /\ n.path # None
    BY <1>0 DEF Shape, MediaMethods
  <2> QED BY <1>0, <2>1 DEF RequestRecord
<1>2. n.at \in {"setup", "setup_watch"} /\ n.media = None /\ n.sess # None
  OBVIOUS
<1>3. sm[n.sess][n.path] = None
  <2>1. \A p \in Paths : n.sess \in fresh => sm[n.sess][p] = None
    BY DEF KnownInv
  <2>2. r.at \in {"setup", "setup_watch"} /\ r.media = None /\ r.sess # None => sm[r.sess][r.path] = None
    BY DEF SetupInv
  <2>3. r.at = "setup_lock" => r.media # None
    BY <1>0, Apart DEF Shape
  <2>4. n # Idle
    BY <1>2 DEF Idle
  <2> QED BY <1>0, <1>1, <1>2, <2>1, <2>2, <2>3, <2>4 DEF Move, RequestMove, Keeps
<1>4. CASE Fading
  BY <1>1, <1>3, <1>4 DEF Fading, Weaker
<1>5. ASSUME NEW d \in Clients, Makes(d)
      PROVE  sm'[n.sess][n.path] = None
  <2>1. /\ pc[d].at = "setup" /\ pc[d].sess # None /\ pc'[d].at \in {"idle", "remove"}
        /\ \A e \in Clients \ {d} : pc'[e] = pc[e]
    BY <1>5, MakesAt
  <2>2. d # c /\ r = n
    BY <1>2, <2>1
  <2>3. lock[pc[d].path] = d /\ lock[n.path] = c
    BY <1>2, <2>1, <2>2 DEF RequestInv, Requesting, Locks
  <2>4. n.path # pc[d].path
    BY <2>2, <2>3
  <2>5. PICK x \in SM : Making(d, x)
    BY <1>5, MakesMakes
  <2>6. Weaker(sm'[n.sess][n.path], sm[n.sess][n.path])
    BY <1>1, <2>4, <2>5 DEF Making
  <2> QED BY <1>3, <2>6 DEF Weaker
<1> QED BY <1>4, <1>5, StepFades

LEMMA StepUnused ==
    ASSUME TypeInv, RequestInv, MediaInv, "freed_media" \notin quirks, Steps
    PROVE  \A s \in Sessions : \A p \in Paths : sm'[s][p] = None /\ sm[s][p] # None => Unused(s, p)
BY StepFades, MakesMakes DEF Fading, Making

LEMMA MediaStep ==
    ASSUME TypeInv, RequestInv, MediaInv, KnownInv, LifeInv, "freed_media" \notin quirks, Steps
    PROVE  MediaInv'
<1> SUFFICES ASSUME Without({"freed_media"})', NEW c \in Clients, pc'[c].media \in Pairs
             PROVE  sm'[pc'[c].media[1]][pc'[c].media[2]] # None
  BY DEF MediaInv
<1> PICK n : n = pc'[c]
  OBVIOUS
<1> PICK r : r = pc[c]
  OBVIOUS
<1>0. Move(c, n, r)
  BY StepMoves
<1>1. PICK s \in Sessions, p \in Paths : n.media = <<s, p>>
  BY DEF Pairs
<1>2. n.media # None /\ n.media \notin Clients
  BY Apart
<1>3. r.media = <<s, p>> => sm[s][p] # None
  <2>1. <<s, p>> \in Pairs /\ <<s, p>>[1] = s /\ <<s, p>>[2] = p
    BY DEF Pairs
  <2> QED BY <2>1 DEF MediaInv, Without
<1>4. sm[s][p] # None
  <2>1. Manages(s, p) => sm[s][p] # None
    BY DEF Manages
  <2>2. <<s, p>> = <<r.sess, r.path>> => s = r.sess /\ p = r.path
    OBVIOUS
  <2>3. n # Idle
    BY <1>2 DEF Idle
  <2> QED BY <1>0, <1>1, <1>2, <1>3, <2>1, <2>2, <2>3 DEF Move, RequestMove
<1>5. sm'[s][p] # None
  <2> SUFFICES ASSUME sm'[s][p] = None
               PROVE  FALSE
    OBVIOUS
  <2>1. Unused(s, p)
    BY <1>4, StepUnused
  <2> QED BY <1>1, <2>1 DEF Unused, Uses, Without
<1> QED BY <1>1, <1>5

\* SETUP again does not put back what TEARDOWN took out.
LEMMA AgainMakes ==
    ASSUME TypeInv, RequestInv, MediaInv, "freed_media" \notin quirks, NEW c \in Clients,
           NEW k \in Chan \cup {None}, SetupTransport(c, k), pc[c].media # None,
           NEW s \in Sessions, s = pc[c].sess, NEW p \in Paths, p = pc[c].path
    PROVE  sm'[s][p] = None \/ (sm'[s][p].in <=> sm[s][p].in)
<1>0. PICK n \in SM : Made(c, k, n)
  BY TransportMakes
<1>1. /\ Making(c, n) /\ Put(c, n)
      /\ n.owner = c /\ n.lower = lower[c] /\ n.ch = k
      /\ n.in = IF pc[c].media = None THEN TRUE ELSE sm[pc[c].sess][pc[c].path].in
  BY <1>0 DEF Made
<1>2. n.in = sm[s][p].in
  BY <1>1
<1>3. sm'[s][p] \in {None, n}
  BY <1>1 DEF Making
<1> QED BY <1>2, <1>3

LEMMA TornStep ==
    ASSUME TypeInv, RequestInv, MediaInv, KnownInv, LifeInv, SetupInv, TornInv, RequestInv', TypeInv',
           "freed_media" \notin quirks, Steps
    PROVE  TornInv'
<1> SUFFICES ASSUME NEW c \in Clients, NEW s \in Sessions, NEW p \in Paths,
                    pc'[c].at \in {"remove", "emit", "emitted"}, pc'[c].media = <<s, p>>
             PROVE  ~Manages(s, p)'
  BY DEF TornInv
<1> PICK n : n = pc'[c]
  OBVIOUS
<1> PICK r : r = pc[c]
  OBVIOUS
<1>0. n \in RequestRecord /\ Shape(n) /\ Move(c, n, r) /\ Shape(r)
  BY StepMoves DEF TypeInv, RequestInv, Requesting
<1>1. /\ n.at \in {"remove", "emit", "emitted"} /\ n.media = <<s, p>> /\ n.media # None /\ n # Idle
      /\ n.sess = s /\ n.path = p
  <2>1. <<s, p>> \in Pairs /\ n.at \in {"remove", "emit", "emitted"} /\ n.media = <<s, p>>
    BY DEF Pairs
  <2>2. n.media # None
    BY <2>1, Apart
  <2>3. n.media = <<n.sess, n.path>>
    BY <1>0, <2>1, <2>2 DEF Shape
  <2> QED BY <2>1, <2>2, <2>3 DEF Idle
<1>2. s # None
  BY Apart
<1>3. CASE Teardown(c)
  <2>1. sm'[r.sess][r.path] # None /\ ~sm'[r.sess][r.path].in
    BY <1>3, TornFades
  <2>2. r.sess = s /\ r.path = p
    <3>1. r.at = "dup" /\ r.at # "emit"
      BY <1>3 DEF Teardown
    <3>2. n.at # r.at /\ n # r
      BY <1>1, <3>1
    <3> QED BY <1>0, <1>1, <3>1, <3>2 DEF Move, RequestMove, Keeps
  <2> QED BY <1>2, <2>1, <2>2 DEF Manages
<1>4. CASE ~Teardown(c)
  <2>1. r.media = n.media /\ r.at \in {"remove", "emit", "emitted"}
    BY <1>0, <1>1, <1>4 DEF Move, RequestMove
  <2>2. ~Manages(s, p) /\ sm[s][p] # None
    <3>1. <<s, p>> \in Pairs /\ <<s, p>>[1] = s /\ <<s, p>>[2] = p
      BY DEF Pairs
    <3> QED BY <1>1, <2>1, <3>1 DEF TornInv, MediaInv, Without
  <2>3. ~sm[s][p].in
    BY <1>2, <2>2 DEF Manages
  <2>4. sm'[s][p] = None \/ ~sm'[s][p].in
    <3>1. CASE Weaker(sm'[s][p], sm[s][p])
      BY <2>3, <3>1 DEF Weaker
    <3>2. CASE Fading
      BY <3>1, <3>2 DEF Fading
    <3>3. ASSUME NEW d \in Clients, Makes(d), ~Weaker(sm'[s][p], sm[s][p])
          PROVE  sm'[s][p] = None \/ ~sm'[s][p].in
      <4>1. pc[d].at = "setup" /\ pc[d].sess # None
        BY <3>3, MakesAt
      <4>2. PICK y \in SM : Making(d, y)
        BY <3>3, MakesMakes
      <4>3. s = pc[d].sess /\ p = pc[d].path
        BY <3>3, <4>2 DEF Making
      <4>4. pc[d].media # None
        BY <2>2, <4>1, <4>3 DEF SetupInv
      <4>5. ~FailsNew(d)
        BY <4>4 DEF FailsNew
      <4>6. PICK k \in Chan \cup {None} : SetupTransport(d, k)
        BY <3>3, <4>5 DEF Makes
      <4>7. sm'[s][p] = None \/ (sm'[s][p].in <=> sm[s][p].in)
        BY <4>3, <4>4, <4>6, AgainMakes
      <4> QED BY <2>3, <4>7
    <3> QED BY <3>1, <3>2, <3>3, StepFades
  <2> QED BY <1>2, <2>4 DEF Manages
<1> QED BY <1>3, <1>4

LEMMA PoolGrows ==
    ASSUME TypeInv, RequestInv, KnownInv, LifeInv, Steps
    PROVE  pool' \subseteq pool \cup fresh
<1>1. PoolMove
  BY PoolMoves
<1> QED BY <1>1 DEF PoolMove, Remove

LEMMA WatchesSession ==
    ASSUME TypeInv, RequestInv, NEW c \in Clients, Watches(c)
    PROVE  pc[c].sess \in cl'[c].sessions
<1>1. pc[c].sess \in Sessions
  BY DEF Watches, RequestInv, Requesting, Shape, TypeInv, RequestRecord
<1>2. cl'[c] = client_watch_session(cl[c], pc[c].sess) /\ cl[c] \in ClientRecord
  BY DEF Watches, TypeInv
<1>3. cl'[c].sessions = cl[c].sessions \cup {pc[c].sess}
  BY <1>1, <1>2, WatchSession
<1> QED BY <1>3

LEMMA HeldStep ==
    ASSUME TypeInv, RequestInv, KnownInv, LifeInv, HeldInv, Steps
    PROVE  HeldInv'
<1> SUFFICES ASSUME NEW c \in Clients, pc'[c].sess # None, pc'[c].at \notin {"found", "setup_watch"},
                    pc'[c].sess \in pool'
             PROVE  pc'[c].sess \in cl'[c].sessions
  BY DEF HeldInv
<1> PICK n : n = pc'[c]
  OBVIOUS
<1> PICK r : r = pc[c]
  OBVIOUS
<1>0. Move(c, n, r)
  BY StepMoves
<1>1. n.sess # None /\ n.at \notin {"found", "setup_watch"} /\ n.sess \in pool' /\ n # Idle
  BY DEF Idle
<1>2. CASE Watches(c)
  <2>1. r.sess \in cl'[c].sessions
    BY <1>2, WatchesSession
  <2>2. n.sess = r.sess
    <3>1. pc[c].at \in {"found", "setup_watch"}
      BY <1>2 DEF Watches
    <3>2. r # Idle
      BY <3>1 DEF Idle
    <3> QED BY <1>0, <1>1, <3>1, <3>2 DEF Move, RequestMove, Keeps
  <2> QED BY <2>1, <2>2
<1>3. CASE ~Watches(c)
  <2>1. n.sess = r.sess /\ r.at \notin {"found", "setup_watch"}
    BY <1>0, <1>1, <1>3 DEF Move, RequestMove, Keeps
  <2>2. r.sess \in pool
    BY <1>1, <2>1, PoolGrows DEF KnownInv
  <2>3. r.sess \in cl[c].sessions
    BY <1>1, <2>1, <2>2 DEF HeldInv
  <2>4. r.sess # None
    BY <1>1, <2>1
  <2>5. \/ cl'[c].sessions = cl[c].sessions
        \/ pc[c] = Idle
        \/ \E s \in Sessions : emit[s] # None /\ cl'[c].sessions = cl[c].sessions \ {s}
    BY <1>3, SessionsMove
  <2>6. pc[c] # Idle
    BY <2>4 DEF Idle
  <2>7. \A s \in Sessions : emit[s] # None => s # r.sess
    BY <2>2 DEF KnownInv
  <2> QED BY <2>1, <2>3, <2>5, <2>6, <2>7
<1> QED BY <1>2, <1>3
-----------------------------------------------------------------------------
\* A client is told that a session it watches left.

Told(s, c) == s \in pool \/ (emit[s] # None /\ (emit[s].left = None \/ c \in emit[s].left))

LEMMA ToldTwice ==
    ASSUME TypeInv, LifeInv
    PROVE  WatchersAreTold <=>
             (Without({"late_watch"}) => \A c \in Clients : \A s \in cl[c].sessions : Told(s, c))
<1>1. \A c \in Clients : cl[c].sessions # {} => cl[c].hooked
  BY DEF LifeInv, Lives, TypeInv, ClientRecord
<1> QED BY <1>1 DEF WatchersAreTold, Told

\* An emission that has begun goes to all that watch the session; one that
\* was gone to a client has made it forget the session.
LEMMA EmissionTells ==
    ASSUME TypeInv, LifeInv, NEW c \in Clients, NEW s \in Sessions, NEW t \in Sessions, Told(s, c),
           s \in cl[c].sessions, s \in cl'[c].sessions,
           EmitBegin(t) \/ \E d \in Clients : EmitTo(t, d)
    PROVE  Told(s, c)'
<1>1. cl[c].hooked
  BY DEF LifeInv, Lives, TypeInv, ClientRecord
<1>2. CASE EmitBegin(t)
  <2> DEFINE h == {d \in Clients : cl[d].hooked}
  <2>1. emit' = [emit EXCEPT ![t].left = h] /\ pool' = pool /\ emit[t] # None
    BY <1>2 DEF EmitBegin
  <2>2. c \in h /\ h \in {None} \cup SUBSET Clients
    BY <1>1
  <2> HIDE DEF h
  <2>3. CASE s = t
    <3> PICK e : e = emit[s]
      OBVIOUS
    <3>0. emit'[s] = [e EXCEPT !.left = h] /\ e \in Emissions
      BY <2>1, <2>3 DEF TypeInv
    <3>1. emit'[s].left = h /\ emit'[s] # None
      <4>1. emit'[s] \in Emissions /\ emit'[s].left = h
        BY <2>2, <3>0 DEF Emissions
      <4> QED BY <4>1, Apart
    <3> QED BY <2>2, <3>1 DEF Told
  <2>4. CASE s # t
    <3>1. emit'[s] = emit[s]
      BY <2>1, <2>4 DEF TypeInv
    <3> QED BY <2>1, <3>1 DEF Told
  <2> QED BY <2>3, <2>4
<1>3. ASSUME NEW d \in Clients, EmitTo(t, d)
      PROVE  Told(s, c)'
  <2> DEFINE h == emit[t].left \ {d}
  <2>1. /\ emit' = [emit EXCEPT ![t].left = h] /\ pool' = pool /\ emit[t] # None
        /\ emit[t].left \in SUBSET Clients
        /\ cl[d].hooked => cl'[d] = SessionEnds(cl[d], t)
    BY <1>3, EmitFields
  <2>2. CASE s = t
    <3>1. h \in {None} \cup SUBSET Clients
      BY <2>1
    <3>2. emit'[s].left = h /\ emit'[s] # None
      <4> PICK e : e = emit[s]
        OBVIOUS
      <4> HIDE DEF h
      <4>1. emit'[s] = [e EXCEPT !.left = h] /\ e \in Emissions
        BY <2>1, <2>2 DEF TypeInv
      <4>2. emit'[s] \in Emissions /\ emit'[s].left = h
        BY <3>1, <4>1 DEF Emissions
      <4> QED BY <4>2, Apart
    <3>3. c # d
      <4>1. cl[c].hooked => SessionEnds(cl[c], t).sessions = cl[c].sessions \ {t}
        BY SessionEndsFields DEF TypeInv
      <4> QED BY <1>1, <2>1, <2>2, <4>1
    <3>4. emit[s].left # None
      BY <1>3, <2>2 DEF EmitTo
    <3>5. s \in pool \/ c \in emit[s].left
      BY <3>4 DEF Told
    <3>6. s \in pool' \/ c \in emit'[s].left
      BY <2>1, <2>2, <3>2, <3>3, <3>5
    <3> QED BY <3>2, <3>6 DEF Told
  <2>3. CASE s # t
    <3>1. emit'[s] = emit[s]
      BY <2>1, <2>3 DEF TypeInv
    <3> QED BY <2>1, <3>1 DEF Told
  <2> QED BY <2>2, <2>3
<1> QED BY <1>2, <1>3

LEMMA StillTold ==
    ASSUME TypeInv, RequestInv, KnownInv, LifeInv, Steps, NEW c \in Clients, NEW s \in Sessions, Told(s, c),
           s \in cl[c].sessions, s \in cl'[c].sessions
    PROVE  Told(s, c)'
<1>0. PoolMove
  BY PoolMoves
<1>1. CASE UNCHANGED <<pool, fresh, emit>>
  BY <1>1 DEF Told
<1>2. CASE \E d \in Clients : \E t \in fresh :
             /\ SetupCreate(d) /\ pc'[d].sess = t
             /\ fresh' = fresh \ {t} /\ pool' = pool \cup {t} /\ emit' = emit /\ UNCHANGED <<cl, sm>>
  BY <1>2 DEF Told
<1>3. CASE \E t \in pool : \E b \in Clients \cup {None} :
             /\ Remove(t, b) /\ UNCHANGED <<cl, sm>>
             /\ b # None => pc'[b].at = "emit" /\ pc'[b].sess = t
  <2> PICK t \in pool, b \in Clients \cup {None} : Remove(t, b)
    BY <1>3
  <2>1. pool' = pool \ {t} /\ t \in Sessions /\ emit' = [emit EXCEPT ![t] = [by |-> b, left |-> None]]
    BY DEF Remove, TypeInv
  <2>2. CASE s = t
    <3>1. emit'[s] = [by |-> b, left |-> None]
      BY <2>1, <2>2 DEF TypeInv
    <3>2. emit'[s].left = None /\ emit'[s] \in Emissions
      BY <3>1 DEF Emissions
    <3> QED BY <3>2, Apart DEF Told
  <2>3. CASE s # t
    <3>1. emit'[s] = emit[s]
      BY <2>1, <2>3 DEF TypeInv
    <3> QED BY <2>1, <2>3, <3>1 DEF Told
  <2> QED BY <2>2, <2>3
<1>4. CASE \E t \in Sessions : EmitBegin(t) \/ \E d \in Clients : EmitTo(t, d)
  BY <1>4, EmissionTells
<1>5. CASE \E t \in Sessions :
             /\ EmitEnd(t)
             /\ emit[t] # None /\ emit' = [emit EXCEPT ![t] = None] /\ UNCHANGED <<cl, pool, fresh>>
  <2> PICK t \in Sessions :
             /\ EmitEnd(t)
             /\ emit[t] # None /\ emit' = [emit EXCEPT ![t] = None] /\ UNCHANGED <<cl, pool, fresh>>
    BY <1>5
  <2>1. CASE s = t
    <3>1. emit[s].left = {} /\ None # {}
      BY <2>1, Apart DEF EmitEnd
    <3>2. s \in pool
      BY <3>1 DEF Told
    <3> QED BY <3>2 DEF Told
  <2>2. CASE s # t
    <3>1. emit'[s] = emit[s]
      BY <2>2 DEF TypeInv
    <3> QED BY <3>1 DEF Told
  <2> QED BY <2>1, <2>2
<1> QED BY <1>0, <1>1, <1>2, <1>3, <1>4, <1>5 DEF PoolMove

LEMMA TellsStep ==
    ASSUME TypeInv, RequestInv, MediaInv, KnownInv, LifeInv, WatchersAreTold, TypeInv', LifeInv',
           "freed_media" \notin quirks, Steps
    PROVE  WatchersAreTold'
<1>0. quirks \subseteq quirks'
  BY StepFades, MakesMakes DEF Fading, Making, Counts
<1> SUFFICES ASSUME "late_watch" \notin quirks', NEW c \in Clients, NEW s \in cl'[c].sessions
             PROVE  Told(s, c)'
  <2>1. \A c \in Clients : cl'[c].sessions # {} => cl'[c].hooked
    BY DEF LifeInv, Lives, TypeInv, ClientRecord
  <2> QED BY <2>1 DEF WatchersAreTold, Told, Without
<1>1. s \in Sessions
  BY DEF TypeInv, ClientRecord
<1>2. CASE s \in cl[c].sessions
  <2>1. Told(s, c)
    BY <1>0, <1>2, ToldTwice DEF Without
  <2> QED BY <1>1, <1>2, <2>1, StillTold
<1>3. CASE s \notin cl[c].sessions
  <2>1. /\ Watches(c) /\ cl'[c].sessions = cl[c].sessions \cup {pc[c].sess}
        /\ UNCHANGED <<pool, emit>> /\ Quirk(LateWatch(pc[c].sess))
    BY <1>3, SessionsMove
  <2>2. s = pc[c].sess
    BY <1>3, <2>1
  <2>3. s \in pool \/ (emit[s] # None /\ emit[s].left = None)
    BY <2>1, <2>2 DEF Quirk, LateWatch
  <2> QED BY <2>1, <2>3 DEF Told
<1> QED BY <1>2, <1>3
-----------------------------------------------------------------------------
\* The channels.

LEMMA ChanMoves ==
    ASSUME TypeInv, RequestInv, KnownInv, LifeInv, Steps, NEW d \in Clients
    PROVE  cl'[d].chan = cl[d].chan \/ Rechannels(d)
<1>1. ASSUME NEW c \in Clients, RequestStep(c)
      PROVE  cl'[d].chan = cl[d].chan \/ Rechannels(d)
  <2>1. CASE MergeTunnel(c)
    BY <2>1, MergeFields
  <2>2. CASE ~MergeTunnel(c) /\ d # c
    BY <1>1, <2>2, RequestAlone DEF Alone
  <2>3. CASE ~MergeTunnel(c) /\ d = c
    BY <1>1, <2>3, RequestFields
  <2> QED BY <2>1, <2>2, <2>3
<1>2. ASSUME NEW c \in Clients, OtherStep(c)
      PROVE  cl'[d].chan = cl[d].chan
  <2>1. CASE \E s \in Sessions \cup {None} : HandleRequest(c, Head(todo[c]), s)
    BY <2>1 DEF HandleRequest
  <2>2. CASE ConnectionStep(c)
    <3>1. /\ \A x \in Clients \ {c} : cl'[x] = cl[x]
          /\ ConnectionEffect(c, cl'[c], cl[c])
      BY <2>2, ConnectionFields
    <3>2. cl'[c].chan = cl[c].chan
      BY <3>1 DEF ConnectionEffect
    <3> QED BY <3>1, <3>2
  <2> QED BY <1>2, <2>1, <2>2 DEF OtherStep, ConnectionStep
<1>3. ASSUME NEW s \in Sessions, PoolStep(s)
      PROVE  cl'[d].chan = cl[d].chan
  <2>1. ASSUME NEW c \in Clients, EmitTo(s, c)
        PROVE  cl'[d].chan = cl[d].chan
    <3>1. \A x \in Clients \ {c} : cl'[x] = cl[x]
      BY <2>1, EmitFields
    <3>2. cl'[c] = SessionEnds(cl[c], s) \/ cl' = cl
      BY <2>1, EmitFields
    <3>3. SessionEnds(cl[c], s).chan = cl[c].chan
      BY SessionEndsFields DEF TypeInv
    <3> QED BY <3>1, <3>2, <3>3
  <2>2. CASE EmitBegin(s) \/ EmitEnd(s) \/ Expire(s)
    BY <2>2 DEF EmitBegin, EmitEnd, Expire, callVars
  <2> QED BY <1>3, <2>1, <2>2 DEF PoolStep
<1> QED BY <1>1, <1>2, <1>3 DEF Steps

LEMMA TransportChan ==
    ASSUME TypeInv, RequestInv, NEW c \in Clients, NEW k \in Chan \cup {None}, SetupTransport(c, k)
    PROVE  /\ \A j \in Chan : cl'[c].chan[j] = IF j = k THEN <<pc[c].sess, pc[c].path>> ELSE cl[c].chan[j]
           /\ IF lower[c] = "tcp" THEN k \in Chan /\ cl[c].chan[k] = None ELSE k = None
<1> PICK r : r = HadSession(cl[c])
  OBVIOUS
<1>1. r \in ClientRecord /\ r.chan = cl[c].chan
  <2>1. cl[c] \in ClientRecord
    BY DEF TypeInv
  <2> QED BY <2>1 DEF HadSession, ClientRecord
<1>2. /\ cl'[c] = [r EXCEPT !.cached = IF pc[c].media = None THEN None ELSE @,
                            !.chan = [j \in Chan |-> IF j = k THEN <<pc[c].sess, pc[c].path>> ELSE @[j]]]
      /\ IF lower[c] = "tcp" THEN k \in Chan /\ r.chan[k] = None ELSE k = None
  BY DEF SetupTransport, ChannelFree, TypeInv
<1>3. cl'[c].chan = [j \in Chan |-> IF j = k THEN <<pc[c].sess, pc[c].path>> ELSE r.chan[j]]
  BY <1>1, <1>2 DEF ClientRecord
<1> QED BY <1>1, <1>2, <1>3

LEMMA TeardownChan ==
    ASSUME TypeInv, NEW c \in Clients, TeardownEnd(c), NEW j \in Chan
    PROVE  /\ Foreign(c, Lookup(c)) \subseteq quirks'
           /\ \/ cl'[c].chan[j] = cl[c].chan[j]
              \/ Lookup(c) # None /\ Lookup(c).lower = "tcp" /\ Lookup(c).ch = j
<1> PICK r : r = cl[c]
  OBVIOUS
<1>0. r \in ClientRecord
  BY DEF TypeInv
<1>1. cl'[c] = cleanup_transports(c, Lookup(c)) /\ Settle(sm, prepared, Foreign(c, Lookup(c)))
  BY DEF TeardownEnd, TypeInv
<1>2. Foreign(c, Lookup(c)) \subseteq quirks'
  BY <1>1 DEF Settle, Quirk
<1>3. CASE Lookup(c) # None /\ Lookup(c).lower = "tcp"
  <2>1. cl'[c] = [r EXCEPT !.chan = [r.chan EXCEPT ![Lookup(c).ch] = None]]
    BY <1>1, <1>3 DEF cleanup_transports
  <2>2. cl'[c].chan = [r.chan EXCEPT ![Lookup(c).ch] = None]
    BY <1>0, <2>1 DEF ClientRecord
  <2>3. r.chan \in [Chan -> Pairs \cup {None}]
    BY <1>0 DEF ClientRecord
  <2>4. j # Lookup(c).ch => cl'[c].chan[j] = r.chan[j]
    BY <2>2, <2>3
  <2> QED BY <1>2, <1>3, <2>4
<1>4. CASE ~(Lookup(c) # None /\ Lookup(c).lower = "tcp")
  <2>1. cl'[c] = r
    BY <1>1, <1>4 DEF cleanup_transports
  <2> QED BY <1>2, <2>1
<1> QED BY <1>3, <1>4

LEMMA TransportKeeps ==
    ASSUME TypeInv, RequestInv, NEW c \in Clients, \E k \in Chan \cup {None} : SetupTransport(c, k),
           NEW i \in Chan, cl[c].chan[i] # None
    PROVE  cl'[c].chan[i] = cl[c].chan[i]
<1> PICK k \in Chan \cup {None} : SetupTransport(c, k)
  OBVIOUS
<1>1. /\ \A j \in Chan : cl'[c].chan[j] = IF j = k THEN <<pc[c].sess, pc[c].path>> ELSE cl[c].chan[j]
      /\ IF lower[c] = "tcp" THEN k \in Chan /\ cl[c].chan[k] = None ELSE k = None
  BY TransportChan
<1>2. i # k
  BY <1>1, Apart
<1> QED BY <1>1, <1>2

LEMMA ChanFound ==
    ASSUME ChanInv, "foreign_channel" \notin quirks, NEW s \in Sessions, NEW p \in Paths,
           Interleaved(sm[s][p]), pc[sm[s][p].owner].media = <<s, p>>
    PROVE  Found(sm[s][p], s, p)
BY DEF ChanInv, Without

LEMMA MediaApart ==
    ASSUME NEW s \in Sessions, NEW p \in Paths, NEW r, r.media = <<s, p>>
    PROVE  r.media # None /\ r.media \notin Clients /\ r # Idle
<1>1. r.media \in Pairs
  BY DEF Pairs
<1>2. r.media # None /\ r.media \notin Clients
  BY <1>1, Apart
<1> QED BY <1>2 DEF Idle

\* A request that has a media had it before, or has found it in its session.
LEMMA MoveKeeps ==
    ASSUME NEW c \in Clients, NEW n, NEW r, Move(c, n, r), NEW s \in Sessions, NEW p \in Paths, n.media = <<s, p>>
    PROVE  r.media = n.media \/ Manages(s, p)
<1>1. n.media # None /\ n.media \notin Clients /\ n # Idle
  BY MediaApart
<1>2. n.media = <<r.sess, r.path>> => r.sess = s /\ r.path = p
  OBVIOUS
<1> QED BY <1>1, <1>2 DEF Move, RequestMove

\* The channel of a media that is used stays: TEARDOWN takes its own, or
\* one that is not of its client.
LEMMA ChanStays ==
    ASSUME TypeInv, RequestInv, KnownInv, LifeInv, TornInv, ChanInv, Steps, "foreign_channel" \notin quirks',
           "foreign_channel" \notin quirks,
           NEW s \in Sessions, NEW p \in Paths, Interleaved(sm[s][p]), NEW m, m = sm[s][p],
           Found(m, s, p), m.in \/ pc'[m.owner].media = <<s, p>>
    PROVE  cl'[m.owner].chan[m.ch] = <<s, p>>
<1>0. m \in SM /\ m.owner \in Clients /\ m.ch \in Chan
  BY DEF TypeInv, Interleaved, SM, ChanInv
<1> PICK o \in Clients : o = m.owner
  BY <1>0
<1> PICK k \in Chan : k = m.ch
  BY <1>0
<1>1. cl[o].chan[k] = <<s, p>> /\ <<s, p>> # None /\ <<s, p>> \in Pairs
  <2>1. <<s, p>> \in Pairs
    BY DEF Pairs
  <2>2. <<s, p>> # None
    BY <2>1, Apart
  <2> QED BY <2>1, <2>2 DEF Found
<1>2. CASE cl'[o].chan = cl[o].chan
  BY <1>1, <1>2
<1>3. CASE \E j \in Chan \cup {None} : SetupTransport(o, j)
  <2>1. cl[o].chan[k] # None
    BY <1>1
  <2>2. cl'[o].chan[k] = cl[o].chan[k]
    BY <1>3, <2>1, TransportKeeps
  <2> QED BY <1>1, <2>2
<1>4. CASE TeardownEnd(o)
  <2> SUFFICES ASSUME cl'[o].chan[k] # cl[o].chan[k]
               PROVE  FALSE
    BY <1>1
  <2> PICK x : x = Lookup(o)
    OBVIOUS
  <2>1. x # None /\ x.lower = "tcp" /\ x.ch = k /\ Foreign(o, x) \subseteq quirks'
    BY <1>4, TeardownChan
  <2>2. x.owner = o
    BY <1>1, <2>1 DEF Foreign
  <2>3. /\ pc[o].at = "emitted" /\ pc[o].method = "TEARDOWN"
    BY <1>4 DEF TeardownEnd
  <2>4. pc[o].media \in Pairs /\ pc[o].media = <<pc[o].sess, pc[o].path>>
    BY <2>3 DEF RequestInv, Requesting, Shape
  <2> PICK y : y = pc[o].media
    OBVIOUS
  <2>50. pc[o].sess \in Sessions /\ pc[o].path \in Paths
    <3> PICK a : a = pc[o].sess
      OBVIOUS
    <3> PICK b : b = pc[o].path
      OBVIOUS
    <3>1. <<a, b>> \in Sessions \X Paths
      BY <2>4 DEF Pairs
    <3> QED BY <3>1
  <2> PICK t \in Sessions, q \in Paths : t = pc[o].sess /\ q = pc[o].path
    BY <2>50
  <2>51. y = <<t, q>> /\ y \in Pairs
    BY <2>4
  <2>52. y # None
    BY <2>51, Apart
  <2>5. pc[o].media # None /\ pc[o].media = <<t, q>>
    BY <2>51, <2>52
  <2>6. x = sm[t][q]
    BY <2>5, LookupIs
  <2>7. Found(x, t, q)
    <3>1. Interleaved(sm[t][q])
      BY <2>1, <2>6 DEF Interleaved
    <3>2. pc[sm[t][q].owner].media = <<t, q>>
      BY <2>2, <2>5, <2>6
    <3>3. Found(sm[t][q], t, q)
      BY <3>1, <3>2, ChanFound
    <3> QED BY <2>6, <3>3
  <2>8. t = s /\ q = p
    <3>1. cl[o].chan[k] = <<t, q>>
      BY <2>1, <2>2, <2>7 DEF Found
    <3>2. <<t, q>> = <<s, p>>
      BY <1>1, <3>1
    <3> QED BY <3>2
  <2>9. ~Manages(s, p)
    BY <2>3, <2>5, <2>8 DEF TornInv
  <2>10. ~m.in
    BY <2>9, Apart DEF Manages, Interleaved
  <2>11. pc'[o].media = None
    <3>1. pc'[o] = Idle
      BY <1>4 DEF TeardownEnd, Done, TypeInv
    <3> QED BY <3>1 DEF Idle
  <2> QED BY <1>1, <2>10, <2>11
<1> QED BY <1>2, <1>3, <1>4, ChanMoves DEF Rechannels

LEMMA ChanStep ==
    ASSUME TypeInv, RequestInv, MediaInv, KnownInv, LifeInv, TornInv, ChanInv, TypeInv',
           "freed_media" \notin quirks, Steps
    PROVE  ChanInv'
<1>0. quirks \subseteq quirks'
  BY StepFades, MakesMakes DEF Fading, Making, Counts
<1> SUFFICES ASSUME NEW s \in Sessions, NEW p \in Paths, Interleaved(sm'[s][p]), NEW n, n = sm'[s][p]
             PROVE  /\ n.ch \in Chan
                    /\ "foreign_channel" \notin quirks' /\ (n.in \/ pc'[n.owner].media = <<s, p>>) =>
                         cl'[n.owner].chan[n.ch] = <<s, p>>
  BY DEF ChanInv, Without, Found, Interleaved
<1>1. n # None /\ n.lower = "tcp" /\ n \in SM
  BY DEF Interleaved, TypeInv
<1>2. CASE Weaker(n, sm[s][p])
  <2> PICK m : m = sm[s][p]
    OBVIOUS
  <2>1. m # None /\ n.owner = m.owner /\ n.lower = m.lower /\ n.ch = m.ch /\ (n.in => m.in)
    BY <1>1, <1>2 DEF Weaker
  <2>2. Interleaved(m) /\ m.ch \in Chan /\ m \in SM
    BY <1>1, <2>1 DEF ChanInv, TypeInv, Interleaved
  <2>3. ASSUME "foreign_channel" \notin quirks', n.in \/ pc'[n.owner].media = <<s, p>>
        PROVE  cl'[n.owner].chan[n.ch] = <<s, p>>
    <3>1. m.owner \in Clients
      BY <2>2 DEF SM
    <3>2. m.in \/ pc[m.owner].media = <<s, p>>
      <4> SUFFICES ASSUME pc'[m.owner].media = <<s, p>>
                   PROVE  m.in \/ pc[m.owner].media = <<s, p>>
        BY <2>1, <2>3
      <4> PICK x : x = pc'[m.owner]
        OBVIOUS
      <4> PICK r : r = pc[m.owner]
        OBVIOUS
      <4>1. Move(m.owner, x, r)
        BY <3>1, StepMoves
      <4>2. x.media = <<s, p>>
        OBVIOUS
      <4>3. r.media = x.media \/ Manages(s, p)
        BY <3>1, <4>1, <4>2, MoveKeeps
      <4>4. Manages(s, p) => m.in
        BY DEF Manages
      <4> QED BY <4>2, <4>3, <4>4
    <3>3. "foreign_channel" \notin quirks
      BY <1>0, <2>3
    <3>4. Found(m, s, p)
      BY <2>2, <3>2, <3>3 DEF ChanInv, Without
    <3>5. m.in \/ pc'[m.owner].media = <<s, p>>
      BY <2>1, <2>3
    <3>6. cl'[m.owner].chan[m.ch] = <<s, p>>
      BY <2>2, <2>3, <3>3, <3>4, <3>5, ChanStays
    <3> QED BY <2>1, <3>6
  <2> QED BY <2>1, <2>2, <2>3
<1>3. ASSUME NEW d \in Clients, Makes(d), ~Weaker(n, sm[s][p])
      PROVE  n.ch \in Chan /\ cl'[n.owner].chan[n.ch] = <<s, p>>
  <2>1. CASE FailsNew(d)
    <3>1. PICK y \in SM :
             /\ Making(d, y) /\ Put(d, y)
             /\ y.lower = "none"
      BY <2>1, FailsMakes
    <3> QED BY <1>1, <1>3, <3>1 DEF Making
  <2>2. ASSUME NEW k \in Chan \cup {None}, SetupTransport(d, k)
        PROVE  n.ch \in Chan /\ cl'[n.owner].chan[n.ch] = <<s, p>>
    <3>0. PICK y \in SM : Made(d, k, y)
      BY <2>2, TransportMakes
    <3>1. /\ Making(d, y) /\ Put(d, y)
          /\ y.owner = d /\ y.lower = lower[d] /\ y.ch = k
          /\ y.in = IF pc[d].media = None THEN TRUE ELSE sm[pc[d].sess][pc[d].path].in
      BY <3>0 DEF Made
    <3>2. n = y /\ s = pc[d].sess /\ p = pc[d].path
      BY <1>1, <1>3, <3>1 DEF Making
    <3>3. k \in Chan /\ cl'[d].chan[k] = <<s, p>>
      <4>1. lower[d] = "tcp"
        BY <1>1, <3>1, <3>2
      <4>2. /\ \A j \in Chan : cl'[d].chan[j] = IF j = k THEN <<pc[d].sess, pc[d].path>> ELSE cl[d].chan[j]
            /\ IF lower[d] = "tcp" THEN k \in Chan /\ cl[d].chan[k] = None ELSE k = None
        BY <2>2, TransportChan
      <4> QED BY <3>2, <4>1, <4>2
    <3> QED BY <3>1, <3>2, <3>3
  <2> QED BY <1>3, <2>1, <2>2 DEF Makes
<1>4. Weaker(n, sm[s][p]) \/ \E d \in Clients : Makes(d)
  BY StepFades DEF Fading
<1> QED BY <1>2, <1>3, <1>4
-----------------------------------------------------------------------------
\* The interleaved media of a connection.

Visits(d) ==
    \E s \in Sessions : /\ cleanup_session(d, s) /\ cl'[d].visited = cl[d].visited \cup {s}
                        /\ cl'[d].watch # "gone"

LEMMA VisitMoves ==
    ASSUME TypeInv, RequestInv, KnownInv, LifeInv, Steps, NEW d \in Clients
    PROVE  \/ Visits(d)
           \/ /\ cl'[d].visited \subseteq cl[d].visited
              /\ cl'[d].watch = "gone" => cl[d].watch = "gone" \/ cl[d].sessions \ cl[d].visited = {}
<1> DEFINE G == /\ cl'[d].visited \subseteq cl[d].visited
                /\ cl'[d].watch = "gone" => cl[d].watch = "gone" \/ cl[d].sessions \ cl[d].visited = {}
<1>1. ASSUME NEW c \in Clients, RequestStep(c)
      PROVE  G
  <2>1. CASE MergeTunnel(c)
    BY <2>1, MergeFields
  <2>2. CASE ~MergeTunnel(c) /\ d # c
    BY <1>1, <2>2, RequestAlone DEF Alone
  <2>3. CASE ~MergeTunnel(c) /\ d = c
    BY <1>1, <2>3, RequestFields
  <2> QED BY <2>1, <2>2, <2>3
<1>2. ASSUME NEW c \in Clients, ConnectionStep(c)
      PROVE  G \/ Visits(d)
  <2>1. CASE d # c
    <3>1. cl'[d] = cl[d]
      BY <1>2, <2>1, ConnectionFields
    <3> QED BY <3>1
  <2>2. CASE d = c
    <3> PICK n : n = cl'[d]
      OBVIOUS
    <3> PICK r : r = cl[d]
      OBVIOUS
    <3>1. ConnectionEffect(c, n, r)
      BY <1>2, <2>2, ConnectionFields
    <3>2. CASE Leaves(c, n, r)
      <4>1. PICK s \in Sessions : /\ cleanup_session(c, s) /\ r.watch = "notify" /\ s \in r.sessions \ r.visited
                                  /\ n.visited = r.visited \cup {s}
        BY <3>2 DEF Leaves
      <4>2. n.watch # "gone"
        BY <3>1, <4>1 DEF ConnectionEffect
      <4> QED BY <2>2, <4>1, <4>2 DEF Visits
    <3>3. CASE ~Leaves(c, n, r)
      <4>1. n.visited \subseteq r.visited
        BY <3>1, <3>3 DEF ConnectionEffect
      <4>2. n.watch = "gone" => r.watch = "gone" \/ r.sessions \ r.visited = {}
        BY <3>1 DEF ConnectionEffect
      <4> QED BY <4>1, <4>2
    <3> QED BY <3>2, <3>3
  <2> QED BY <2>1, <2>2
<1>3. ASSUME NEW c \in Clients, OtherStep(c)
      PROVE  G \/ Visits(d)
  <2>1. CASE \E s \in Sessions \cup {None} : HandleRequest(c, Head(todo[c]), s)
    BY <2>1 DEF HandleRequest
  <2> QED BY <1>2, <1>3, <2>1 DEF OtherStep, ConnectionStep
<1>4. ASSUME NEW s \in Sessions, PoolStep(s)
      PROVE  G
  <2>1. ASSUME NEW c \in Clients, EmitTo(s, c)
        PROVE  G
    <3>1. \A x \in Clients \ {c} : cl'[x] = cl[x]
      BY <2>1, EmitFields
    <3>2. cl'[c] = SessionEnds(cl[c], s) \/ cl' = cl
      BY <2>1, EmitFields
    <3> PICK n : n = SessionEnds(cl[c], s)
      OBVIOUS
    <3> PICK r : r = cl[c]
      OBVIOUS
    <3>0. r \in ClientRecord /\ n = SessionEnds(r, s)
      BY DEF TypeInv
    <3>3. n.visited = r.visited
      BY <3>0, SessionEndsFields
    <3>4. n.watch = r.watch \/ n.watch = "dying"
      BY <3>0, SessionEndsFields
    <3> QED BY <3>1, <3>2, <3>3, <3>4
  <2>2. CASE EmitBegin(s) \/ EmitEnd(s) \/ Expire(s)
    BY <2>2 DEF EmitBegin, EmitEnd, Expire, callVars
  <2> QED BY <1>4, <2>1, <2>2 DEF PoolStep
<1> QED BY <1>1, <1>3, <1>4 DEF Steps

\* What the filter of a client that ends leaves of a session.
LEMMA CleanedMedia ==
    ASSUME TypeInv, NEW c \in Clients, NEW s \in Sessions, cleanup_session(c, s), NEW p \in Paths
    PROVE  ~(Interleaved(sm'[s][p]) /\ sm'[s][p].in)
<1> DEFINE m == FilteredMedia(s)
<1>1. PICK q : Settle(m, prepared, q)
  BY DEF cleanup_session
<1>2. Tame(m) /\ \A x \in Paths : m[s][x] # None /\ m[s][x].in => ~MustEnd(m[s][x], x)
  BY TameFilter
<1>3. m \in MediaType /\ prepared \in CountType
  BY <1>2 DEF Tame, TypeInv, CountType
<1> HIDE DEF m
<1>4. Settled(m, prepared, q)
  BY <1>1, <1>3, SettleSettles
<1>5. sm'[s][p] = m[s][p] \/ sm'[s][p] = None
  BY <1>4 DEF Settled
<1> QED BY <1>2, <1>5 DEF Interleaved, MustEnd

LEMMA TcpStep ==
    ASSUME TypeInv, RequestInv, MediaInv, KnownInv, LifeInv, HeldInv, TcpInv, TypeInv',
           "freed_media" \notin quirks, Steps
    PROVE  TcpInv'
<1> SUFFICES ASSUME NEW s \in pool', NEW p \in Paths, Interleaved(sm'[s][p]), NEW n, n = sm'[s][p], n.in
             PROVE  /\ s \in cl'[n.owner].sessions \ cl'[n.owner].visited
                    /\ cl'[n.owner].watch # "gone"
  BY DEF TcpInv, Interleaved
<1>1. s \in Sessions /\ n \in SM /\ n # None /\ n.lower = "tcp"
  BY DEF TypeInv, Interleaved
<1>2. s \in pool
  <2>1. s \in pool \/ (s \in fresh /\ sm' = sm)
    BY PoolMoves DEF PoolMove, Remove
  <2>2. s \in fresh => sm[s][p] = None
    BY DEF KnownInv
  <2> QED BY <1>1, <2>1, <2>2
<1>3. CASE Weaker(n, sm[s][p])
  <2> PICK m : m = sm[s][p]
    OBVIOUS
  <2>1. m # None /\ n.owner = m.owner /\ m.lower = "tcp" /\ m.in
    BY <1>1, <1>3 DEF Weaker
  <2> PICK o \in Clients : o = n.owner
    BY <1>1 DEF SM
  <2>2. s \in cl[o].sessions \ cl[o].visited /\ cl[o].watch # "gone"
    BY <1>2, <2>1 DEF TcpInv, Interleaved
  <2>3. ~cleanup_session(o, s)
    BY <1>1, CleanedMedia
  <2>4. emit[s] = None
    BY <1>1, <1>2 DEF KnownInv
  <2>5. s \in cl'[o].sessions
    BY <2>2, <2>3, <2>4, SessionsMove
  <2>6. s \notin cl'[o].visited /\ cl'[o].watch # "gone"
    BY <2>2, <2>3, VisitMoves DEF Visits
  <2> QED BY <2>5, <2>6
<1>4. ASSUME NEW d \in Clients, Makes(d), ~Weaker(n, sm[s][p])
      PROVE  s \in cl'[n.owner].sessions \ cl'[n.owner].visited /\ cl'[n.owner].watch # "gone"
  <2>1. CASE FailsNew(d)
    <3>1. PICK y \in SM :
             /\ Making(d, y) /\ Put(d, y)
             /\ y.lower = "none"
      BY <2>1, FailsMakes
    <3> QED BY <1>1, <1>4, <3>1 DEF Making
  <2>2. ASSUME NEW k \in Chan \cup {None}, SetupTransport(d, k)
        PROVE  s \in cl'[n.owner].sessions \ cl'[n.owner].visited /\ cl'[n.owner].watch # "gone"
    <3>0. PICK y \in SM : Made(d, k, y)
      BY <2>2, TransportMakes
    <3>1. /\ Making(d, y) /\ Put(d, y)
          /\ y.owner = d /\ y.lower = lower[d] /\ y.ch = k
          /\ y.in = IF pc[d].media = None THEN TRUE ELSE sm[pc[d].sess][pc[d].path].in
      BY <3>0 DEF Made
    <3>2. n = y /\ s = pc[d].sess
      BY <1>1, <1>4, <3>1 DEF Making
    <3>3. n.owner = d
      BY <3>1, <3>2
    <3>4. pc[d].at = "setup"
      BY <2>2 DEF SetupTransport
    <3>5. s \in cl[d].sessions
      <4>1. s # None
        BY <1>1, Apart
      <4> QED BY <1>2, <3>2, <3>4, <4>1 DEF HeldInv
    <3>6. cl[d].watch \in {"live", "dying"} /\ cl[d].visited = {}
      <4>1. cl[d].watch \in {"live", "dying"}
        BY <3>4 DEF RequestInv, Requesting
      <4> QED BY <4>1 DEF LifeInv, Lives
    <3>7. RequestStep(d) /\ ~MergeTunnel(d) /\ ~Watches(d)
      <4>1. RequestStep(d)
        BY <2>2 DEF RequestStep
      <4> QED BY <3>4, <4>1 DEF MergeTunnel, Watches
    <3>8. cl'[d].watch = cl[d].watch /\ cl'[d].visited = cl[d].visited /\ cl'[d].sessions = cl[d].sessions
      BY <3>7, RequestFields
    <3> QED BY <3>3, <3>5, <3>6, <3>8
  <2> QED BY <1>4, <2>1, <2>2 DEF Makes
<1>5. Weaker(n, sm[s][p]) \/ \E d \in Clients : Makes(d)
  BY <1>1, StepFades DEF Fading
<1> QED BY <1>3, <1>4, <1>5
-----------------------------------------------------------------------------
\* The timer of a connection.

LEMMA EmitLate ==
    ASSUME TypeInv, LifeInv, NEW s \in Sessions, NEW c \in Clients, EmitTo(s, c), s \in cl[c].sessions,
           pc[c].method = "SETUP", pc[c].sess = s, pc[c].at \notin {"remove", "emit", "emitted"}
    PROVE  "ended_in_setup" \in quirks'
<1>1. cl[c].hooked
  BY DEF LifeInv, Lives, TypeInv, ClientRecord
<1>2. LateEnd(c, s) \subseteq quirks'
  BY <1>1, EmitFields
<1>3. "ended_in_setup" \in LateEnd(c, s)
  BY DEF LateEnd
<1> QED BY <1>2, <1>3

LEMMA SetupWatches ==
    ASSUME TypeInv, RequestInv, KnownInv, LifeInv, Steps, "ended_in_setup" \notin quirks', TimeInv,
           "ended_in_setup" \notin quirks, NEW c \in Clients,
           pc'[c].at \in {"go", "setup_lock", "setup"}, pc'[c].method = "SETUP", pc'[c].sess # None
    PROVE  pc'[c].sess \in cl'[c].sessions
<1> PICK n : n = pc'[c]
  OBVIOUS
<1> PICK r : r = pc[c]
  OBVIOUS
<1>0. Move(c, n, r)
  BY StepMoves
<1>1. n.at \in {"go", "setup_lock", "setup"} /\ n.method = "SETUP" /\ n.sess # None /\ n # Idle
  BY DEF Idle
<1>2. CASE Watches(c)
  <2>1. r.sess \in cl'[c].sessions
    BY <1>2, WatchesSession
  <2>2. n.sess = r.sess
    <3>1. pc[c].at \in {"found", "setup_watch"}
      BY <1>2 DEF Watches
    <3>2. r # Idle
      BY <3>1 DEF Idle
    <3> QED BY <1>0, <1>1, <3>1, <3>2 DEF Move, RequestMove, Keeps
  <2> QED BY <2>1, <2>2
<1>3. CASE ~Watches(c)
  <2>1. n.sess = r.sess /\ n.method = r.method /\ r.at \in {"go", "setup_lock", "setup"}
    BY <1>0, <1>1, <1>3 DEF Move, RequestMove, Keeps
  <2>2. r.sess \in cl[c].sessions
    BY <1>1, <2>1 DEF TimeInv, Without
  <2>3. \/ cl'[c].sessions = cl[c].sessions
        \/ pc[c] = Idle
        \/ \E s \in Sessions : EmitTo(s, c) /\ cl'[c].sessions = cl[c].sessions \ {s}
    BY <1>3, SessionsMove
  <2>4. pc[c] # Idle
    BY <2>1 DEF Idle
  <2>5. \A s \in Sessions : EmitTo(s, c) => s # r.sess
    BY <1>1, <2>1, <2>2, EmitLate
  <2> QED BY <2>1, <2>2, <2>3, <2>4, <2>5
<1> QED BY <1>2, <1>3

Untimed(r) == r.watch = "live" /\ r.sessions = {} /\ r.timer = None

LEMMA RequestTimes ==
    ASSUME TypeInv, RequestInv, "ended_in_setup" \notin quirks, TimeInv, NEW c \in Clients, RequestStep(c),
           NEW d \in Clients, Untimed(cl'[d])
    PROVE  Untimed(cl[d])
<1>1. CASE MergeTunnel(c)
  BY <1>1, MergeFields DEF Untimed
<1>2. CASE ~MergeTunnel(c) /\ d # c
  BY <1>2, RequestAlone DEF Alone
<1>3. CASE ~MergeTunnel(c) /\ d = c
  <2> PICK n : n = cl'[d]
    OBVIOUS
  <2> PICK r : r = cl[d]
    OBVIOUS
  <2>1. n.watch = r.watch /\ n.sessions = r.sessions
    BY <1>3, RequestFields DEF Untimed
  <2>2. n.timer = r.timer \/ Retimes(c)
    BY <1>3, RequestFields
  <2>3. ~Retimes(c)
    <3> SUFFICES ASSUME Retimes(c)
                 PROVE  FALSE
      OBVIOUS
    <3>1. pc[c].at = "setup" /\ pc[c].sess # None
      BY DEF Retimes, SetupTransport, SetupFails
    <3>2. pc[c].method = "SETUP"
      BY <3>1 DEF RequestInv, Requesting, Shape
    <3>3. pc[c].sess \in r.sessions
      BY <1>3, <3>1, <3>2 DEF TimeInv, Without
    <3> QED BY <2>1, <3>3 DEF Untimed
  <2> QED BY <2>1, <2>2, <2>3 DEF Untimed
<1> QED BY <1>1, <1>2, <1>3

LEMMA ConnectionTimes ==
    ASSUME TypeInv, RequestInv, NEW c \in Clients, ConnectionStep(c), NEW d \in Clients, Untimed(cl'[d])
    PROVE  Untimed(cl[d])
<1>1. CASE d # c
  <2>1. cl'[d] = cl[d]
    BY <1>1, ConnectionFields
  <2> QED BY <2>1
<1>2. CASE d = c
  <2> PICK n : n = cl'[d]
    OBVIOUS
  <2> PICK r : r = cl[d]
    OBVIOUS
  <2>1. ConnectionEffect(c, n, r)
    BY <1>2, ConnectionFields
  <2>2. n.watch = "live" /\ n.sessions = {} /\ n.timer = None /\ None \notin Nat
    BY Apart DEF Untimed
  <2>3. n.watch = r.watch /\ n.timer = r.timer
    BY <2>1, <2>2 DEF ConnectionEffect
  <2>4. ~Leaves(c, n, r)
    BY <2>2, <2>3 DEF Leaves
  <2>5. n.sessions = r.sessions
    BY <2>1, <2>4 DEF ConnectionEffect
  <2> QED BY <2>2, <2>3, <2>5 DEF Untimed
<1> QED BY <1>1, <1>2

LEMMA EmissionTimes ==
    ASSUME TypeInv, LifeInv, NEW s \in Sessions, NEW c \in Clients, EmitTo(s, c), NEW d \in Clients,
           Untimed(cl'[d])
    PROVE  Untimed(cl[d]) \/ PostTimeout = -1
<1>1. CASE cl'[d] = cl[d]
  BY <1>1
<1>2. CASE cl'[d] # cl[d]
  <2> PICK n : n = cl'[d]
    OBVIOUS
  <2> PICK r : r = cl[d]
    OBVIOUS
  <2>1. d = c /\ (cl'[c] = SessionEnds(cl[c], s) \/ cl' = cl)
    BY <1>2, EmitFields
  <2>2. n = SessionEnds(r, s) /\ r \in ClientRecord
    BY <1>2, <2>1 DEF TypeInv
  <2>3. n.watch = "live" /\ n.sessions = {} /\ n.timer = None /\ None \notin Nat
    BY Apart DEF Untimed
  <2>4. \/ /\ n.watch = r.watch /\ n.timer = r.timer
           /\ n.sessions # {} \/ r.timer # None \/ PostTimeout = -1
        \/ n.timer = 0
        \/ n.watch = "dying"
        \/ r.watch # "live" /\ n.watch = r.watch
    BY <2>2, SessionEndsFields
  <2> QED BY <2>3, <2>4
<1> QED BY <1>1, <1>2

LEMMA TimeStep ==
    ASSUME TypeInv, RequestInv, MediaInv, KnownInv, LifeInv, TimeInv, "freed_media" \notin quirks, Steps
    PROVE  TimeInv'
<1>0. quirks \subseteq quirks'
  BY StepFades, MakesMakes DEF Fading, Making, Counts
<1> SUFFICES ASSUME "ended_in_setup" \notin quirks', NEW c \in Clients
             PROVE  /\ Untimed(cl'[c]) => PostTimeout = -1
                    /\ pc'[c].at \in {"go", "setup_lock", "setup"} /\ pc'[c].method = "SETUP" /\ pc'[c].sess # None
                         => pc'[c].sess \in cl'[c].sessions
  BY DEF TimeInv, Without, Untimed
<1>1. "ended_in_setup" \notin quirks
  BY <1>0
<1>2. Untimed(cl[c]) => PostTimeout = -1
  BY <1>1 DEF TimeInv, Without, Untimed
<1>3. ASSUME Untimed(cl'[c])
      PROVE  PostTimeout = -1
  <2>1. ASSUME NEW d \in Clients, RequestStep(d)
        PROVE  PostTimeout = -1
    BY <1>1, <1>2, <1>3, <2>1, RequestTimes
  <2>2. ASSUME NEW d \in Clients, OtherStep(d)
        PROVE  PostTimeout = -1
    <3>1. CASE \E s \in Sessions \cup {None} : HandleRequest(d, Head(todo[d]), s)
      <4>1. cl' = cl
        BY <3>1 DEF HandleRequest
      <4> QED BY <1>2, <1>3, <4>1
    <3>2. CASE ConnectionStep(d)
      BY <1>2, <1>3, <3>2, ConnectionTimes
    <3> QED BY <2>2, <3>1, <3>2 DEF OtherStep, ConnectionStep
  <2>3. ASSUME NEW s \in Sessions, PoolStep(s)
        PROVE  PostTimeout = -1
    <3>1. CASE \E d \in Clients : EmitTo(s, d)
      BY <1>2, <1>3, <3>1, EmissionTimes
    <3>2. CASE EmitBegin(s) \/ EmitEnd(s) \/ Expire(s)
      <4>1. cl' = cl
        BY <3>2 DEF EmitBegin, EmitEnd, Expire, callVars
      <4> QED BY <1>2, <1>3, <4>1
    <3> QED BY <2>3, <3>1, <3>2 DEF PoolStep
  <2> QED BY <2>1, <2>2, <2>3 DEF Steps
<1> QED BY <1>1, <1>3, SetupWatches
-----------------------------------------------------------------------------
\* The tunnels.

Merges(d) == \E c \in Clients : MergeTunnel(c) /\ d \in {c, pc[c].media} /\ Halves(c, pc[c].media)
HalfMove(d, n, r) ==
    /\ n.tstate = r.tstate \/ (\E h \in {"GET", "POST"} : HandleTunnel(d, h) /\ n.tstate = h /\ r.tstate = "none")
    /\ n.watch = "live" => r.watch \in {"live", "none"}
    /\ (n.merged <=> r.merged) \/ (tunnel_lost(d) /\ ~n.merged) \/ (Merges(d) /\ n.merged)

LEMMA HalfMoves ==
    ASSUME TypeInv, RequestInv, KnownInv, LifeInv, Steps, NEW d \in Clients
    PROVE  HalfMove(d, cl'[d], cl[d])
<1> PICK n : n = cl'[d]
  OBVIOUS
<1> PICK r : r = cl[d]
  OBVIOUS
<1>0. n = r => HalfMove(d, n, r)
  BY DEF HalfMove
<1>1. ASSUME NEW c \in Clients, RequestStep(c)
      PROVE  HalfMove(d, n, r)
  <2>1. CASE MergeTunnel(c)
    <3>1. /\ n.tstate = r.tstate /\ (n.watch = "live" => r.watch = "live")
          /\ n.merged = r.merged \/ (n.merged /\ d \in {c, pc[c].media} /\ Halves(c, pc[c].media))
      BY <2>1, MergeFields
    <3> QED BY <2>1, <3>1 DEF HalfMove, Merges
  <2>2. CASE ~MergeTunnel(c) /\ d # c
    BY <1>0, <1>1, <2>2, RequestAlone DEF Alone
  <2>3. CASE ~MergeTunnel(c) /\ d = c
    <3>1. n.tstate = r.tstate /\ n.watch = r.watch /\ n.merged = r.merged
      BY <1>1, <2>3, RequestFields
    <3> QED BY <3>1 DEF HalfMove
  <2> QED BY <2>1, <2>2, <2>3
<1>2. ASSUME NEW c \in Clients, ConnectionStep(c)
      PROVE  HalfMove(d, n, r)
  <2>1. CASE d # c
    BY <1>0, <1>2, <2>1, ConnectionFields
  <2>2. CASE d = c
    <3>1. ConnectionEffect(d, n, r)
      BY <1>2, <2>2, ConnectionFields
    <3>2. n.tstate = r.tstate \/ (\E h \in {"GET", "POST"} : HandleTunnel(d, h) /\ n.tstate = h /\ r.tstate = "none")
      BY <3>1 DEF ConnectionEffect
    <3>3. n.watch = "live" => r.watch \in {"live", "none"}
      BY <3>1 DEF ConnectionEffect
    <3>4. (n.merged <=> r.merged) \/ (tunnel_lost(d) /\ ~n.merged)
      BY <3>1 DEF ConnectionEffect
    <3> QED BY <3>2, <3>3, <3>4 DEF HalfMove
  <2> QED BY <2>1, <2>2
<1>3. ASSUME NEW c \in Clients, OtherStep(c)
      PROVE  HalfMove(d, n, r)
  <2>1. CASE \E s \in Sessions \cup {None} : HandleRequest(c, Head(todo[c]), s)
    BY <1>0, <2>1 DEF HandleRequest
  <2> QED BY <1>2, <1>3, <2>1 DEF OtherStep, ConnectionStep
<1>4. ASSUME NEW s \in Sessions, PoolStep(s)
      PROVE  HalfMove(d, n, r)
  <2>1. ASSUME NEW c \in Clients, EmitTo(s, c), n # r
        PROVE  HalfMove(d, n, r)
    <3>1. d = c /\ (cl'[c] = SessionEnds(cl[c], s) \/ cl' = cl)
      BY <2>1, EmitFields
    <3>2. n = SessionEnds(r, s) /\ r \in ClientRecord
      BY <2>1, <3>1 DEF TypeInv
    <3>3. n.tstate = r.tstate /\ n.merged = r.merged
      BY <3>2, SessionEndsFields
    <3>4. n.watch = r.watch \/ n.watch = "dying"
      BY <3>2, SessionEndsFields
    <3> QED BY <3>3, <3>4 DEF HalfMove
  <2>2. CASE EmitBegin(s) \/ EmitEnd(s) \/ Expire(s)
    BY <1>0, <2>2 DEF EmitBegin, EmitEnd, Expire, callVars
  <2> QED BY <1>0, <1>4, <2>1, <2>2 DEF PoolStep
<1> QED BY <1>1, <1>3, <1>4 DEF Steps

\* What happens to the tunnel id.
TunnelClosed(d) ==
    cl[d].tstate # "none" /\ tunnel' = None /\ TunnelQuirk(d) \subseteq quirks' /\ cl'[d].watch # "live"
TunnelMove ==
    \/ tunnel' = tunnel
    \/ \E d \in Clients : \/ \E h \in {"GET", "POST"} : HandleTunnel(d, h)
                          \/ tunnel_lost(d)
                          \/ TunnelClosed(d)

LEMMA ClosesWatch ==
    ASSUME NEW r \in ClientRecord
    PROVE  CloseEffect(r).watch # "live" /\ [CloseEffect(r) EXCEPT !.timer = None].watch # "live"
<1>1. CASE r.watch = "live"
  <2>1. CloseEffect(r) = [r EXCEPT !.watch = "dying", !.timer = None]
    BY <1>1 DEF CloseEffect
  <2> QED BY <2>1 DEF ClientRecord
<1>2. CASE r.watch # "live"
  <2>1. CloseEffect(r) = r
    BY <1>2 DEF CloseEffect
  <2> QED BY <1>2, <2>1 DEF ClientRecord
<1> QED BY <1>1, <1>2

LEMMA TunnelMoves ==
    ASSUME TypeInv, RequestInv, KnownInv, LifeInv, Steps
    PROVE  TunnelMove
<1>0. \A d \in Clients : cl[d].tstate = "none" => TunnelAfterClose(d) = tunnel
  BY DEF TunnelAfterClose
<1>1. ASSUME NEW c \in Clients, RequestStep(c)
      PROVE  tunnel' = tunnel
  BY <1>1 DEF RequestStep, Returns, Misses, FindFails, Finds, FindMedia, HandleSdp, DupMedia, Teardown, PoolRemove,
              TeardownEnd, SetupFound, SetupLock, SetupCreate, Watches, SetupTransport, SetupFails, MergeTunnel
<1>2. ASSUME NEW c \in Clients, Close(c) \/ rtsp_ctrl_timeout_cb(c)
      PROVE  TunnelMove
  <2> PICK r : r = cl[c]
    OBVIOUS
  <2>0. r \in ClientRecord
    BY DEF TypeInv
  <2>1. CASE tunnel' = tunnel
    BY <2>1 DEF TunnelMove
  <2>2. CASE tunnel' # tunnel
    <3>1. /\ tunnel' = TunnelAfterClose(c) /\ Quirk(TunnelQuirk(c))
          /\ \/ cl' = [cl EXCEPT ![c] = CloseEffect(cl[c])]
             \/ cl' = [cl EXCEPT ![c] = [CloseEffect(cl[c]) EXCEPT !.timer = None]]
      BY <1>2, <2>2 DEF Close, rtsp_ctrl_timeout_cb
    <3>2. cl'[c] = CloseEffect(r) \/ cl'[c] = [CloseEffect(r) EXCEPT !.timer = None]
      BY <3>1 DEF TypeInv
    <3>3. cl'[c].watch # "live"
      BY <2>0, <3>2, ClosesWatch
    <3>4. cl[c].tstate # "none" /\ tunnel' = None /\ TunnelQuirk(c) \subseteq quirks'
      BY <1>0, <2>2, <3>1 DEF TunnelAfterClose, Quirk
    <3> QED BY <3>3, <3>4 DEF TunnelMove, TunnelClosed
  <2> QED BY <2>1, <2>2
<1>3. ASSUME NEW c \in Clients, OtherStep(c)
      PROVE  TunnelMove
  <2>1. CASE Close(c) \/ rtsp_ctrl_timeout_cb(c)
    BY <1>2, <2>1
  <2>2. CASE \/ tunnel_lost(c)
             \/ Head(todo[c]).method \in {"GET", "POST"} /\ HandleTunnel(c, Head(todo[c]).method)
    BY <2>2 DEF TunnelMove
  <2>3. CASE \/ client_watch_notify(c) \/ (\E s \in Sessions : cleanup_session(c, s)) \/ NotifyEnd(c) \/ Finalize(c)
             \/ gst_rtsp_client_attach(c) \/ \E s \in Sessions \cup {None} : HandleRequest(c, Head(todo[c]), s)
    <3>1. tunnel' = tunnel
      BY <2>3 DEF client_watch_notify, cleanup_session, NotifyEnd, Finalize, gst_rtsp_client_attach, HandleRequest
    <3> QED BY <3>1 DEF TunnelMove
  <2> QED BY <1>3, <2>1, <2>2, <2>3 DEF OtherStep
<1>4. ASSUME NEW s \in Sessions, PoolStep(s)
      PROVE  TunnelMove
  <2>1. ASSUME NEW c \in Clients, EmitTo(s, c), tunnel' # tunnel
        PROVE  TunnelMove
    <3>1. /\ cl[c].hooked /\ cl'[c] = SessionEnds(cl[c], s)
          /\ tunnel' = IF Closes(cl[c], s) THEN TunnelAfterClose(c) ELSE tunnel
          /\ Closes(cl[c], s) => TunnelQuirk(c) \subseteq quirks'
      BY <2>1, EmitFields
    <3>2. Closes(cl[c], s) /\ tunnel' = TunnelAfterClose(c)
      BY <2>1, <3>1
    <3> PICK n : n = cl'[c]
      OBVIOUS
    <3> PICK r : r = cl[c]
      OBVIOUS
    <3>3. n = SessionEnds(r, s) /\ r \in ClientRecord
      BY <3>1 DEF TypeInv
    <3>4. Closes(r, s)
      BY <3>2
    <3>5. n.watch # "live"
      BY <3>3, <3>4, SessionEndsFields
    <3>6. cl[c].tstate # "none" /\ tunnel' = None
      BY <1>0, <2>1, <3>2 DEF TunnelAfterClose
    <3> QED BY <3>1, <3>2, <3>5, <3>6 DEF TunnelMove, TunnelClosed
  <2>2. CASE EmitBegin(s) \/ EmitEnd(s) \/ Expire(s)
    BY <2>2 DEF EmitBegin, EmitEnd, Expire, TunnelMove
  <2>3. CASE tunnel' = tunnel
    BY <2>3 DEF TunnelMove
  <2> QED BY <1>4, <2>1, <2>2, <2>3 DEF PoolStep
<1>5. CASE tunnel' = tunnel
  BY <1>5 DEF TunnelMove
<1> QED BY <1>1, <1>3, <1>4, <1>5 DEF Steps
LEMMA HalfStays ==
    ASSUME TypeInv, RequestInv, KnownInv, LifeInv, Steps, NEW d \in Clients, cl[d].tstate # "none"
    PROVE  cl'[d].tstate = cl[d].tstate
BY HalfMoves DEF HalfMove

\* The media of a request for a tunnel is the half it found.
LEMMA TunnelAsks ==
    ASSUME TypeInv, RequestInv, KnownInv, LifeInv, Steps, NEW d \in Clients, pc'[d].at = "tunnel"
    PROVE  \/ pc'[d] = pc[d]
           \/ /\ pc'[d].media = tunnel /\ tunnel \in Clients
              /\ \E h \in {"GET", "POST"} : HandleTunnel(d, h)
<1> PICK n : n = pc'[d]
  OBVIOUS
<1> PICK r : r = pc[d]
  OBVIOUS
<1>1. Move(d, n, r) /\ n.at = "tunnel" /\ n # Idle
  BY StepMoves DEF Idle
<1>2. ~RequestMove(d, n, r)
  BY <1>1 DEF RequestMove
<1> QED BY <1>1, <1>2 DEF Move

LEMMA HandleHalf ==
    ASSUME TypeInv, NEW d \in Clients, NEW h \in {"GET", "POST"}, HandleTunnel(d, h)
    PROVE  cl'[d].tstate # "none"
<1> PICK r : r = cl[d]
  OBVIOUS
<1>1. r \in ClientRecord
  BY DEF TypeInv
<1>2. cl'[d] = [r EXCEPT !.tstate = h]
  BY DEF HandleTunnel, TypeInv
<1>3. cl'[d].tstate = h
  BY <1>1, <1>2 DEF ClientRecord
<1> QED BY <1>3

LEMMA CloseType ==
    ASSUME NEW r \in ClientRecord
    PROVE  CloseEffect(r) \in ClientRecord
<1>1. [r EXCEPT !.watch = "dying", !.timer = None] \in ClientRecord
  BY DEF ClientRecord
<1> QED BY <1>1 DEF CloseEffect

LEMMA MergedStep ==
    ASSUME TypeInv, RequestInv, KnownInv, LifeInv, TunnelInv, Steps
    PROVE  MergedInv'
<1> SUFFICES ASSUME NEW c \in Clients, cl'[c].merged
             PROVE  /\ cl'[c].tstate # "none"
                    /\ \E d \in Clients \ {c} : cl'[d].tstate \notin {"none", cl'[c].tstate}
  BY DEF MergedInv
<1>1. CASE cl[c].merged
  <2>1. PICK d \in Clients \ {c} : cl[d].tstate \notin {"none", cl[c].tstate} /\ cl[c].tstate # "none"
    BY <1>1 DEF TunnelInv, MergedInv
  <2>2. cl'[c].tstate = cl[c].tstate /\ cl'[d].tstate = cl[d].tstate
    BY <2>1, HalfStays
  <2> QED BY <2>1, <2>2
<1>2. CASE ~cl[c].merged
  <2>1. PICK d \in Clients : MergeTunnel(d) /\ c \in {d, pc[d].media} /\ Halves(d, pc[d].media)
    BY <1>2, HalfMoves DEF HalfMove, Merges
  <2>2. pc[d].at = "tunnel"
    BY <2>1 DEF MergeTunnel
  <2>3. pc[d].media \in Clients
    BY <2>2 DEF RequestInv, Requesting, Shape
  <2> PICK o \in Clients : o = pc[d].media
    BY <2>3
  <2>4. cl[d].tstate # "none" /\ cl[o].tstate # "none" /\ cl[o].tstate # cl[d].tstate
    BY <2>1, <2>2 DEF TunnelInv, Halves
  <2>5. cl'[d].tstate = cl[d].tstate /\ cl'[o].tstate = cl[o].tstate /\ o # d
    BY <2>4, HalfStays
  <2> QED BY <2>1, <2>4, <2>5
<1> QED BY <1>1, <1>2

\* The half of a tunnel that is sought stays so, until it is merged.
LEMMA SoughtStays ==
    ASSUME TypeInv, RequestInv, KnownInv, LifeInv, TunnelInv, Steps, "tunnel_forgotten" \notin quirks',
           NEW c \in Clients, cl[c].watch = "live", cl[c].tstate # "none", cl'[c].watch = "live",
           ~cl'[c].merged, Sought(c)
    PROVE  Sought(c)'
<1>1. CASE tunnel = c
  <2>1. CASE tunnel' = tunnel
    BY <1>1, <2>1 DEF Sought
  <2>2. ASSUME NEW d \in Clients, NEW h \in {"GET", "POST"}, HandleTunnel(d, h)
        PROVE  Sought(c)'
    <3>1. tunnel # None
      BY <1>1, Apart
    <3>2. pc'[d].media = c
      BY <1>1, <2>2, <3>1, TunnelRequest
    <3> QED BY <3>2 DEF Sought
  <2>3. ASSUME NEW d \in Clients, tunnel_lost(d)
        PROVE  Sought(c)'
    <3>1. tunnel # None
      BY <1>1, Apart
    <3>2. tunnel' = tunnel
      BY <2>3, <3>1 DEF tunnel_lost
    <3> QED BY <1>1, <3>2 DEF Sought
  <2>4. ASSUME NEW d \in Clients, TunnelClosed(d)
        PROVE  Sought(c)'
    <3>1. d # c
      BY <2>4 DEF TunnelClosed
    <3>2. tunnel \notin {None, d}
      BY <1>1, <3>1, Apart
    <3>3. "tunnel_forgotten" \in TunnelQuirk(d)
      BY <2>4, <3>2 DEF TunnelQuirk, TunnelClosed
    <3> QED BY <2>4, <3>3 DEF TunnelClosed
  <2> QED BY <2>1, <2>2, <2>3, <2>4, TunnelMoves DEF TunnelMove
<1>2. ASSUME NEW d \in Clients, pc[d].media = c
      PROVE  Sought(c)'
  <2>1. pc[d].at = "tunnel"
    BY <1>2 DEF RequestInv, Requesting, Shape
  <2>2. CASE pc'[d] = pc[d]
    BY <1>2, <2>2 DEF Sought
  <2>3. CASE pc'[d] # pc[d]
    <3>1. Move(d, pc'[d], pc[d]) /\ pc[d] # Idle
      BY <2>1, StepMoves DEF Idle
    <3>2. RequestStep(d)
      BY <2>1, <2>3, <3>1 DEF Move
    <3>3. MergeTunnel(d)
      BY <2>1, <3>2, RequestMoves
    <3>4. Halves(d, c) /\ cl' = [cl EXCEPT ![c].merged = TRUE, ![d] = [CloseEffect(@) EXCEPT !.merged = TRUE]]
      BY <1>2, <3>3 DEF MergeTunnel, Quirk
    <3>5. d # c
      BY <3>4 DEF Halves
    <3> PICK r : r = cl[c]
      OBVIOUS
    <3>6. r \in ClientRecord /\ cl'[c] = [r EXCEPT !.merged = TRUE]
      BY <3>4, <3>5 DEF TypeInv
    <3>7. cl'[c].merged
      BY <3>6 DEF ClientRecord
    <3> QED BY <3>7
  <2> QED BY <2>2, <2>3
<1>3. ASSUME NEW o \in Clients \ {c}, cl[o].tstate # "none", cl[o].watch # "live"
      PROVE  Sought(c)'
  <2>1. cl'[o].tstate # "none"
    BY <1>3, HalfStays
  <2>2. cl[o].watch # "none"
    BY <1>3 DEF LifeInv, Lives
  <2>3. cl'[o].watch # "live"
    BY <1>3, <2>2, HalfMoves DEF HalfMove
  <2> QED BY <2>1, <2>3 DEF Sought
<1> QED BY <1>1, <1>2, <1>3 DEF Sought

LEMMA HalfStep ==
    ASSUME TypeInv, RequestInv, KnownInv, LifeInv, TunnelInv, Steps, quirks \subseteq quirks'
    PROVE  HalfInv'
<1> SUFFICES ASSUME "tunnel_forgotten" \notin quirks', NEW c \in Clients, cl'[c].watch = "live",
                    cl'[c].tstate # "none", ~cl'[c].merged, pc'[c].at # "tunnel"
             PROVE  Sought(c)'
  BY DEF HalfInv, Without
<1>1. HalfMove(c, cl'[c], cl[c])
  BY HalfMoves
<1>2. CASE cl[c].tstate = "none"
  <2>1. PICK h \in {"GET", "POST"} : HandleTunnel(c, h)
    BY <1>1, <1>2 DEF HalfMove
  <2>2. tunnel = None /\ tunnel' = c
    BY <2>1, TunnelRequest
  <2> QED BY <2>2 DEF Sought
<1>3. CASE cl[c].tstate # "none"
  <2>1. cl[c].watch = "live"
    BY <1>1, <1>3 DEF HalfMove, LifeInv, Lives
  <2>2. CASE cl[c].merged
    <3>1. tunnel_lost(c)
      BY <1>1, <2>2 DEF HalfMove
    <3>2. tunnel' = c
      BY <3>1 DEF tunnel_lost, Quirk
    <3> QED BY <3>2 DEF Sought
  <2>3. CASE ~cl[c].merged /\ pc[c].at = "tunnel"
    <3>1. pc'[c] # pc[c] /\ Move(c, pc'[c], pc[c]) /\ pc[c] # Idle
      BY <2>3, StepMoves DEF Idle
    <3>2. RequestStep(c)
      BY <2>3, <3>1 DEF Move
    <3>3. MergeTunnel(c)
      BY <2>3, <3>2, RequestMoves
    <3>4. pc[c].media \in Clients
      BY <2>3 DEF RequestInv, Requesting, Shape
    <3> PICK o \in Clients : o = pc[c].media
      BY <3>4
    <3>5. CASE cl[o].watch # "live" /\ cl' = cl
      <4>1. o # c /\ cl[o].tstate # "none"
        BY <2>1, <2>3, <3>5 DEF TunnelInv
      <4> QED BY <3>5, <4>1 DEF Sought
    <3>6. CASE Halves(c, o) /\ cl' = [cl EXCEPT ![o].merged = TRUE, ![c] = [CloseEffect(@) EXCEPT !.merged = TRUE]]
      <4>1. cl'[c].merged
        <5>1. cl'[c].merged \/ cl'[c].merged = cl[c].merged
          BY <3>3, MergeFields
        <5> PICK r : r = CloseEffect(cl[c])
          OBVIOUS
        <5>2. o # c /\ cl'[c] = [r EXCEPT !.merged = TRUE]
          BY <3>6 DEF Halves, TypeInv
        <5>3. r \in ClientRecord
          BY CloseType DEF TypeInv
        <5> QED BY <5>2, <5>3 DEF ClientRecord
      <4> QED BY <4>1
    <3> QED BY <3>3, <3>5, <3>6 DEF MergeTunnel, Quirk
  <2>4. CASE ~cl[c].merged /\ pc[c].at # "tunnel"
    <3>1. Sought(c)
      BY <1>3, <2>1, <2>4 DEF TunnelInv, HalfInv, Without
    <3> QED BY <1>3, <2>1, <3>1, SoughtStays
  <2> QED BY <2>2, <2>3, <2>4
<1> QED BY <1>2, <1>3

LEMMA TunnelStep ==
    ASSUME TypeInv, RequestInv, MediaInv, KnownInv, LifeInv, TunnelInv, "freed_media" \notin quirks, Steps
    PROVE  TunnelInv'
<1>1. quirks \subseteq quirks'
  BY StepFades, MakesMakes DEF Fading, Making, Counts
<1>2. HalfInv' /\ MergedInv'
  BY <1>1, HalfStep, MergedStep
<1>3. ASSUME tunnel' # None
      PROVE  cl'[tunnel'].tstate # "none"
  <2>1. CASE tunnel' = tunnel
    <3>1. tunnel \in Clients /\ cl[tunnel].tstate # "none"
      BY <1>3, <2>1 DEF TunnelInv, TypeInv
    <3> QED BY <2>1, <3>1, HalfStays
  <2>2. ASSUME NEW d \in Clients, NEW h \in {"GET", "POST"}, HandleTunnel(d, h)
        PROVE  cl'[tunnel'].tstate # "none"
    <3>1. tunnel' = d
      BY <1>3, <2>2, TunnelRequest
    <3> QED BY <2>2, <3>1, HandleHalf
  <2>3. ASSUME NEW d \in Clients, tunnel_lost(d), tunnel' # tunnel
        PROVE  cl'[tunnel'].tstate # "none"
    <3>1. tunnel' = d /\ cl[d].merged
      BY <2>3 DEF tunnel_lost
    <3>2. cl[d].tstate # "none"
      BY <3>1 DEF TunnelInv, MergedInv
    <3> QED BY <3>1, <3>2, HalfStays
  <2>4. ~\E d \in Clients : TunnelClosed(d)
    BY <1>3 DEF TunnelClosed
  <2> QED BY <2>1, <2>2, <2>3, <2>4, TunnelMoves DEF TunnelMove
<1>4. ASSUME NEW c \in Clients, pc'[c].at = "tunnel"
      PROVE  cl'[c].tstate # "none" /\ cl'[pc'[c].media].tstate # "none"
  <2>1. CASE pc'[c] = pc[c]
    <3>1. pc[c].at = "tunnel" /\ pc[c].media \in Clients
      BY <1>4, <2>1 DEF RequestInv, Requesting, Shape
    <3>2. cl[c].tstate # "none" /\ cl[pc[c].media].tstate # "none"
      BY <3>1 DEF TunnelInv
    <3> QED BY <2>1, <3>1, <3>2, HalfStays
  <2>2. CASE pc'[c] # pc[c]
    <3>1. PICK h \in {"GET", "POST"} : pc'[c].media = tunnel /\ tunnel \in Clients /\ HandleTunnel(c, h)
      BY <1>4, <2>2, TunnelAsks
    <3>2. cl[tunnel].tstate # "none"
      BY <3>1, Apart DEF TunnelInv
    <3> QED BY <3>1, <3>2, HandleHalf, HalfStays
  <2> QED BY <2>1, <2>2
<1> QED BY <1>2, <1>3, <1>4 DEF TunnelInv
-----------------------------------------------------------------------------
\* How often a media is prepared.

Cachers(p) == Cardinality({c \in Clients : cl[c].cached = p})
Managers(m, p) == Cardinality({s \in Sessions : m[s][p] # None})
Bal(k, h, p) == k <= h /\ (p \notin Records => k = h)
Without2 == "announced_again" \notin quirks /\ "freed_media" \notin quirks

LEMMA BalanceTwice ==
    PreparedBalance <=> (Without2 => \A p \in Paths : Bal(prepared[p], Cachers(p) + Managers(sm, p), p))
BY DEF PreparedBalance, Holders, Cachers, Managers, Bal, Without, Without2

LEMMA BalancePrime ==
    PreparedBalance' <=>
        (Without2' => \A p \in Paths : Bal(prepared'[p], Cachers(p)' + Managers(sm', p), p))
BY DEF PreparedBalance, Holders, Cachers, Managers, Bal, Without, Without2

LEMMA CountsType ==
    ASSUME NEW p
    PROVE  /\ Cachers(p) \in Nat /\ Cachers(p)' \in Nat
           /\ \A m : Managers(m, p) \in Nat /\ IsFiniteSet({s \in Sessions : m[s][p] # None})
           /\ IsFiniteSet({c \in Clients : cl[c].cached = p})
           /\ IsFiniteSet({c \in Clients : cl'[c].cached = p})
<1>1. IsFiniteSet(Clients) /\ IsFiniteSet(Sessions)
  BY ClientAssumption DEF ClientAssumption
<1>2. \A T \in SUBSET Clients : IsFiniteSet(T) /\ Cardinality(T) \in Nat
  BY <1>1, FS_Subset, FS_CardinalityType
<1>3. \A T \in SUBSET Sessions : IsFiniteSet(T) /\ Cardinality(T) \in Nat
  BY <1>1, FS_Subset, FS_CardinalityType
<1>4. \A m : {s \in Sessions : m[s][p] # None} \in SUBSET Sessions
  OBVIOUS
<1>5. {c \in Clients : cl[c].cached = p} \in SUBSET Clients /\ {c \in Clients : cl'[c].cached = p} \in SUBSET Clients
  OBVIOUS
<1> QED BY <1>2, <1>3, <1>4, <1>5 DEF Cachers, Managers

\* What a step ends gives its preparation back.
LEMMA SettledBal ==
    ASSUME NEW m \in MediaType, NEW n \in CountType, NEW q, Settled(m, n, q), NEW p \in Paths, NEW h \in Nat,
           Bal(n[p], h + Managers(m, p), p)
    PROVE  Bal(prepared'[p], h + Managers(sm', p), p)
<1> DEFINE S == {s \in Sessions : m[s][p] # None}
           T == {s \in Sessions : sm'[s][p] = None}
           E == {s \in Sessions : m[s][p] # None /\ sm'[s][p] = None}
           R == {s \in Sessions : sm'[s][p] # None}
<1>1. \A s \in Sessions : sm'[s][p] = m[s][p] \/ sm'[s][p] = None
  BY DEF Settled
<1>2. R = S \ T /\ E = S \cap T
  BY <1>1
<1>3. IsFiniteSet(S) /\ Cardinality(S) \in Nat /\ Cardinality(R) \in Nat
  BY CountsType DEF Managers
<1>4. IsFiniteSet(E) /\ Cardinality(E) \in Nat
  <2>1. E \in SUBSET S
    BY <1>2
  <2> QED BY <1>3, <2>1, FS_Subset, FS_CardinalityType
<1>5. Cardinality(R) = Cardinality(S) - Cardinality(E)
  <2> HIDE DEF S, T, E, R
  <2> QED BY <1>2, <1>3, FS_Difference
<1>6. prepared'[p] = Unprepared(n[p], Cardinality(E)) /\ n[p] \in Nat
  BY DEF Settled, CountType
<1>7. Managers(m, p) = Cardinality(S) /\ Managers(sm', p) = Cardinality(R)
  BY DEF Managers
<1> HIDE DEF S, T, E, R
<1> QED BY <1>3, <1>4, <1>5, <1>6, <1>7 DEF Bal, Unprepared

\* A client that caches another media, or none.
Fewer(c, p) == IF cl[c].cached = p THEN Cachers(p) - 1 ELSE Cachers(p)

LEMMA CachersMove ==
    ASSUME NEW c \in Clients, \A d \in Clients \ {c} : cl'[d].cached = cl[d].cached, NEW p
    PROVE  /\ Fewer(c, p) \in Nat
           /\ Cachers(p)' = IF cl'[c].cached = p THEN Fewer(c, p) + 1 ELSE Fewer(c, p)
<1> DEFINE S == {d \in Clients : cl[d].cached = p}
           T == {d \in Clients : cl'[d].cached = p}
<1>1. S \ {c} = T \ {c}
  OBVIOUS
<1>2. (c \in S <=> cl[c].cached = p) /\ (c \in T <=> cl'[c].cached = p)
  OBVIOUS
<1>3. IsFiniteSet(S) /\ IsFiniteSet(T) /\ Cardinality(S) \in Nat /\ Cardinality(T) \in Nat
  BY CountsType DEF Cachers
<1>4. Cachers(p) = Cardinality(S) /\ Cachers(p)' = Cardinality(T)
  BY DEF Cachers
<1> HIDE DEF S, T
<1>5. /\ Cardinality(S \ {c}) = IF c \in S THEN Cardinality(S) - 1 ELSE Cardinality(S)
      /\ Cardinality(T \ {c}) = IF c \in T THEN Cardinality(T) - 1 ELSE Cardinality(T)
  BY <1>3, FS_RemoveElement
<1>6. Cardinality(S \ {c}) \in Nat
  BY <1>3, FS_RemoveElement, FS_CardinalityType
<1>7. Fewer(c, p) = Cardinality(S \ {c})
  BY <1>2, <1>4, <1>5 DEF Fewer
<1>8. Cardinality(T \ {c}) = Fewer(c, p)
  BY <1>1, <1>7
<1>9. CASE cl'[c].cached = p
  <2>1. Cardinality(T) = Fewer(c, p) + 1
    BY <1>2, <1>3, <1>5, <1>8, <1>9
  <2> QED BY <1>4, <1>6, <1>7, <1>9, <2>1
<1>10. CASE cl'[c].cached # p
  <2>1. Cardinality(T) = Fewer(c, p)
    BY <1>2, <1>5, <1>8, <1>10
  <2> QED BY <1>4, <1>6, <1>7, <1>10, <2>1
<1> QED BY <1>9, <1>10

LEMMA CachersStay ==
    ASSUME \A d \in Clients : cl'[d].cached = cl[d].cached, NEW p
    PROVE  Cachers(p)' = Cachers(p)
BY DEF Cachers

LEMMA CleanedBal ==
    ASSUME TypeInv, NEW c \in Clients, NEW p \in Paths, NEW k \in Nat, Bal(prepared[p], Cachers(p) + k, p)
    PROVE  Bal(CacheCleaned(c)[p], Fewer(c, p) + k, p)
<1>1. Cachers(p) \in Nat /\ Fewer(c, p) \in Nat
  <2>1. Cachers(p) \in Nat
    BY CountsType
  <2>2. cl[c].cached = p => Cachers(p) # 0
    <3>1. cl[c].cached = p => {d \in Clients : cl[d].cached = p} # {}
      OBVIOUS
    <3>2. IsFiniteSet({d \in Clients : cl[d].cached = p})
      BY CountsType
    <3> QED BY <3>1, <3>2, FS_EmptySet DEF Cachers
  <2> QED BY <2>1, <2>2 DEF Fewer
<1>2. prepared \in CountType
  BY DEF TypeInv, CountType
<1>3. prepared[p] \in Nat
  BY <1>2 DEF CountType
<1>4. CacheCleaned(c)[p] = IF cl[c].cached = p THEN Unprepared(prepared[p], 1) ELSE prepared[p]
  BY <1>2, Apart DEF CacheCleaned, CountType
<1>5. CASE cl[c].cached = p
  BY <1>1, <1>3, <1>4, <1>5 DEF Bal, Fewer, Unprepared
<1>6. CASE cl[c].cached # p
  BY <1>4, <1>6 DEF Fewer
<1> QED BY <1>5, <1>6
\* What a step makes of the balance of a media.
Was(p) == Bal(prepared[p], Cachers(p) + Managers(sm, p), p)
Balanced(p) == Bal(prepared'[p], Cachers(p)' + Managers(sm', p), p)

LEMMA TameManagers ==
    ASSUME NEW m, Tame(m), NEW p \in Paths
    PROVE  Managers(m, p) = Managers(sm, p)
<1>1. \A s \in Sessions : m[s][p] = None <=> sm[s][p] = None
  BY DEF Tame, Weaker
<1> QED BY <1>1 DEF Managers

LEMMA PutManagers ==
    ASSUME TypeInv, NEW s \in Sessions, NEW u \in Paths, NEW n \in SM, NEW p \in Paths
    PROVE  Managers([sm EXCEPT ![s][u] = n], p) =
             IF p = u /\ sm[s][u] = None THEN Managers(sm, p) + 1 ELSE Managers(sm, p)
<1> DEFINE m == [sm EXCEPT ![s][u] = n]
           S == {t \in Sessions : sm[t][p] # None}
           T == {t \in Sessions : m[t][p] # None}
<1>1. sm \in [Sessions -> [Paths -> SM \cup {None}]]
  BY DEF TypeInv
<1>2. \A t \in Sessions : m[t][p] = IF t = s /\ p = u THEN n ELSE sm[t][p]
  BY <1>1
<1>3. n # None
  BY Apart
<1>4. IsFiniteSet(S) /\ Managers(sm, p) = Cardinality(S) /\ Managers(m, p) = Cardinality(T)
  BY CountsType DEF Managers
<1> HIDE DEF m
<1>5. CASE p = u /\ sm[s][u] = None
  <2>1. T = S \cup {s} /\ s \notin S
    BY <1>2, <1>3, <1>5
  <2> HIDE DEF S, T
  <2>2. Cardinality(T) = Cardinality(S) + 1
    BY <1>4, <2>1, FS_AddElement
  <2> QED BY <1>4, <1>5, <2>2 DEF m
<1>6. CASE ~(p = u /\ sm[s][u] = None)
  <2>1. T = S
    BY <1>2, <1>3, <1>6
  <2> QED BY <1>4, <1>6, <2>1 DEF m
<1> QED BY <1>5, <1>6

LEMMA TameBalanced ==
    ASSUME TypeInv, NEW p \in Paths, Was(p), NEW m, Tame(m), NEW q, Settle(m, prepared, q),
           \A d \in Clients : cl'[d].cached = cl[d].cached
    PROVE  Balanced(p)
<1>1. m \in MediaType /\ prepared \in CountType
  BY DEF Tame, TypeInv, CountType
<1>2. Settled(m, prepared, q)
  BY <1>1, SettleSettles
<1>3. Cachers(p)' = Cachers(p) /\ Cachers(p) \in Nat
  BY CachersStay, CountsType
<1>4. Bal(prepared[p], Cachers(p) + Managers(m, p), p)
  BY TameManagers DEF Was
<1> HIDE DEF Bal
<1>5. Bal(prepared'[p], Cachers(p) + Managers(sm', p), p)
  BY <1>1, <1>2, <1>3, <1>4, SettledBal
<1> QED BY <1>3, <1>5 DEF Balanced

LEMMA StillBalanced ==
    ASSUME NEW p \in Paths, Was(p), sm' = sm, prepared' = prepared,
           \A d \in Clients : cl'[d].cached = cl[d].cached
    PROVE  Balanced(p)
BY CachersStay DEF Was, Balanced

\* A media that was not found: the old one went.
LEMMA MissBalanced ==
    ASSUME TypeInv, NEW p \in Paths, Was(p), NEW c \in Clients, Misses(c)
    PROVE  Balanced(p)
<1>1. /\ Settle(sm, CacheCleaned(c), {}) /\ cl' = [cl EXCEPT ![c].cached = None]
  BY DEF Misses, FindFails
<1>2. CacheCleaned(c) \in CountType /\ sm \in MediaType
  BY CleanedType DEF TypeInv, MediaType
<1>3. Settled(sm, CacheCleaned(c), {})
  BY <1>1, <1>2, SettleSettles
<1>4. cl'[c].cached = None /\ \A d \in Clients \ {c} : cl'[d].cached = cl[d].cached
  BY <1>1 DEF TypeInv, ClientRecord
<1>5. Cachers(p)' = Fewer(c, p) /\ Fewer(c, p) \in Nat
  BY <1>4, CachersMove, Apart
<1>6. Managers(sm, p) \in Nat
  BY CountsType
<1>7. Bal(CacheCleaned(c)[p], Fewer(c, p) + Managers(sm, p), p)
  BY <1>6, CleanedBal DEF Was
<1>8. Bal(prepared'[p], Fewer(c, p) + Managers(sm', p), p)
  BY <1>2, <1>3, <1>5, <1>7, SettledBal
<1> QED BY <1>5, <1>8 DEF Balanced

LEMMA FoundBalanced ==
    ASSUME TypeInv, RequestInv, NEW p \in Paths, Was(p), NEW c \in Clients, Finds(c)
    PROVE  Balanced(p)
<1> DEFINE u == pc[c].path
<1>1. /\ u \in Paths /\ cl' = [cl EXCEPT ![c].cached = u] /\ sm' = sm
      /\ prepared' = IF Cached(c, u) THEN prepared ELSE FoundNew(c, u)
  BY RequestFinds DEF Finds, FindMedia
<1>2. cl'[c].cached = u /\ \A d \in Clients \ {c} : cl'[d].cached = cl[d].cached
  BY <1>1 DEF TypeInv, ClientRecord
<1>3. CASE Cached(c, u)
  <2>1. \A d \in Clients : cl'[d].cached = cl[d].cached
    BY <1>2, <1>3 DEF Cached
  <2> QED BY <1>1, <1>3, <2>1, StillBalanced
<1>4. CASE ~Cached(c, u)
  <2>1. Cachers(p)' = (IF u = p THEN Fewer(c, p) + 1 ELSE Fewer(c, p)) /\ Fewer(c, p) \in Nat
    BY <1>2, CachersMove
  <2>2. Managers(sm, p) \in Nat
    BY CountsType
  <2>3. Bal(CacheCleaned(c)[p], Fewer(c, p) + Managers(sm, p), p)
    BY <2>2, CleanedBal DEF Was
  <2> DEFINE n == CacheCleaned(c)
  <2>4. n \in [Paths -> Nat]
    BY CleanedType DEF CountType
  <2>5. prepared' = [n EXCEPT ![u] = IF u \in Records THEN @ ELSE @ + 1]
    BY <1>1, <1>4 DEF FoundNew
  <2> HIDE DEF n
  <2>6. prepared'[p] = IF p = u /\ u \notin Records THEN n[p] + 1 ELSE n[p]
    BY <1>1, <2>4, <2>5
  <2>7. Bal(n[p], Fewer(c, p) + Managers(sm, p), p) /\ n[p] \in Nat
    BY <2>3, <2>4 DEF n
  <2> HIDE DEF u
  <2> QED BY <1>1, <2>1, <2>2, <2>6, <2>7 DEF Balanced, Bal
<1> QED BY <1>3, <1>4

LEMMA AnnouncedBalanced ==
    ASSUME TypeInv, RequestInv, NEW p \in Paths, Was(p), NEW c \in Clients, HandleSdp(c),
           "announced_again" \notin quirks'
    PROVE  Balanced(p)
<1> DEFINE u == pc[c].path
           n == [prepared EXCEPT ![u] = @ + 1]
<1>1. \A d \in Clients : cl'[d].cached = cl[d].cached
  BY DEF HandleSdp
<1>2. CASE Settle(sm, prepared, {})
  BY <1>1, <1>2, TameBalanced, TameItself
<1>3. CASE u \in Records /\ Settle(sm, n, IF prepared[u] > 0 THEN {"announced_again"} ELSE {})
  <2>1. ~(prepared[u] > 0)
    BY <1>3 DEF Settle, Quirk
  <2>2. cl[c].cached = u /\ u \in Paths
    <3>1. pc[c].at = "announced" /\ Requesting(c)
      BY DEF HandleSdp, RequestInv
    <3>2. cl[c].cached = u
      BY <3>1 DEF Requesting, Caches
    <3>3. Shape(pc[c])
      BY <3>1 DEF Requesting
    <3>4. pc[c].path # None
      BY <3>1, <3>3 DEF Shape, MediaMethods
    <3>5. pc[c].path \in Paths \cup {None}
      BY DEF TypeInv, RequestRecord
    <3> QED BY <3>2, <3>4, <3>5
  <2>3. prepared \in CountType /\ sm \in MediaType /\ prepared[p] \in Nat /\ prepared[u] = 0
    BY <2>1, <2>2 DEF TypeInv, CountType, MediaType
  <2>4. n \in CountType /\ n[p] = IF p = u THEN 1 ELSE prepared[p]
    BY <2>2, <2>3 DEF CountType
  <2> HIDE DEF n
  <2>5. Settled(sm, n, IF prepared[u] > 0 THEN {"announced_again"} ELSE {})
    BY <1>3, <2>3, <2>4, SettleSettles
  <2>6. Cachers(p)' = Cachers(p) /\ Cachers(p) \in Nat /\ Managers(sm, p) \in Nat
    BY <1>1, CachersStay, CountsType
  <2>7. p = u => Cachers(p) >= 1
    <3>1. p = u => Fewer(c, p) = Cachers(p) - 1
      BY <2>2 DEF Fewer
    <3>2. Fewer(c, p) \in Nat
      BY <1>1, CachersMove
    <3> QED BY <2>6, <3>1, <3>2
  <2>8. Bal(n[p], Cachers(p) + Managers(sm, p), p)
    BY <1>3, <2>4, <2>6, <2>7 DEF Was, Bal
  <2> HIDE DEF u
  <2>9. Bal(prepared'[p], Cachers(p) + Managers(sm', p), p)
    BY <2>3, <2>4, <2>5, <2>6, <2>8, SettledBal
  <2> QED BY <2>6, <2>9 DEF Balanced
<1> QED BY <1>2, <1>3 DEF HandleSdp

\* SETUP hands a media over from the cache to the session, or has it there.
LEMMA MadeBalanced ==
    ASSUME TypeInv, RequestInv, MediaInv, SetupInv, "freed_media" \notin quirks, NEW p \in Paths, Was(p),
           NEW c \in Clients, pc[c].at = "setup", pc[c].sess # None, NEW n \in SM,
           Put(c, n),
           \A d \in Clients \ {c} : cl'[d].cached = cl[d].cached,
           cl'[c].cached = IF pc[c].media = None THEN None ELSE cl[c].cached
    PROVE  Balanced(p)
<1> DEFINE s == pc[c].sess
           u == pc[c].path
           m == [sm EXCEPT ![s][u] = n]
<1>1. s \in Sessions /\ u \in Paths /\ (pc[c].media # None => sm[s][u] # None)
  BY SetupKnows, Apart
<1>2. pc[c].media = None => sm[s][u] = None /\ cl[c].cached = u
  BY DEF SetupInv, RequestInv, Requesting, Caches
<1>3. m \in MediaType /\ prepared \in CountType
  BY <1>1 DEF TypeInv, MediaType, CountType
<1>4. Managers(m, p) = IF p = u /\ sm[s][u] = None THEN Managers(sm, p) + 1 ELSE Managers(sm, p)
  BY <1>1, PutManagers
<1>5. /\ Cachers(p)' = (IF cl'[c].cached = p THEN Fewer(c, p) + 1 ELSE Fewer(c, p))
      /\ Cachers(p)' \in Nat /\ Cachers(p) \in Nat /\ Managers(sm, p) \in Nat
  BY CachersMove, CountsType
<1>6. Cachers(p)' + Managers(m, p) = Cachers(p) + Managers(sm, p)
  <2> HIDE DEF m, s, u
  <2>1. CASE pc[c].media = None
    <3>1. cl'[c].cached # p /\ Cachers(p)' = Fewer(c, p)
      BY <1>5, <2>1, Apart
    <3>2. CASE p = u
      BY <1>2, <1>4, <1>5, <2>1, <3>1, <3>2 DEF Fewer
    <3>3. CASE p # u
      BY <1>2, <1>4, <1>5, <2>1, <3>1, <3>3 DEF Fewer
    <3> QED BY <3>2, <3>3
  <2>2. CASE pc[c].media # None
    <3>1. Managers(m, p) = Managers(sm, p)
      BY <1>1, <1>4, <2>2
    <3>2. Cachers(p)' = Cachers(p)
      BY <1>5, <2>2 DEF Fewer
    <3> QED BY <3>1, <3>2
  <2> QED BY <2>1, <2>2
<1>7. Bal(prepared[p], Cachers(p)' + Managers(m, p), p)
  BY <1>6 DEF Was
<1>8. Settled(m, prepared, {})
  BY DEF Put
<1> HIDE DEF m
<1>9. Bal(prepared'[p], Cachers(p)' + Managers(sm', p), p)
  BY <1>3, <1>5, <1>7, <1>8, SettledBal
<1> QED BY <1>9 DEF Balanced
LEMMA RequestBalanced ==
    ASSUME TypeInv, RequestInv, MediaInv, SetupInv, "freed_media" \notin quirks, NEW p \in Paths, Was(p),
           NEW c \in Clients, RequestStep(c), "announced_again" \notin quirks'
    PROVE  Balanced(p)
<1>1. CASE Returns(c)
  <2>1. cl' = cl /\ \E m : Tame(m) /\ Settle(m, prepared, {})
    BY <1>1 DEF Returns
  <2> QED BY <2>1, TameBalanced
<1>2. CASE Misses(c) \/ Finds(c) \/ HandleSdp(c)
  BY <1>2, MissBalanced, FoundBalanced, AnnouncedBalanced
<1>3. CASE DupMedia(c) \/ SetupFound(c) \/ SetupLock(c) \/ SetupCreate(c) \/ PoolRemove(c)
  <2>1. cl' = cl /\ sm' = sm /\ prepared' = prepared
    BY <1>3 DEF DupMedia, SetupFound, SetupLock, SetupCreate, PoolRemove, mediaVars
  <2> QED BY <2>1, StillBalanced
<1>4. CASE MergeTunnel(c)
  <2>1. sm' = sm /\ prepared' = prepared
    BY <1>4 DEF MergeTunnel, mediaVars
  <2>2. \A d \in Clients : cl'[d].cached = cl[d].cached
    BY <1>4, MergeFields
  <2> QED BY <2>1, <2>2, StillBalanced
<1>5. ASSUME ~MergeTunnel(c)
      PROVE  /\ \A d \in Clients \ {c} : cl'[d].cached = cl[d].cached
             /\ cl'[c].cached = cl[c].cached \/ Recaches(c)
  <2>1. \A d \in Clients \ {c} : cl'[d] = cl[d]
    BY <1>5, RequestAlone DEF Alone
  <2>2. cl'[c].cached = cl[c].cached \/ Recaches(c)
    BY <1>5, RequestFields
  <2> QED BY <2>1, <2>2
<1>6. CASE Watches(c)
  <2>1. sm' = sm /\ prepared' = prepared /\ pc[c].at \in {"found", "setup_watch"}
    BY <1>6 DEF Watches, mediaVars
  <2>2. ~MergeTunnel(c) /\ ~Recaches(c)
    BY <2>1 DEF MergeTunnel, Recaches, Retimes, Misses, Finds, Seeks, SetupTransport, SetupFails
  <2>3. \A d \in Clients : cl'[d].cached = cl[d].cached
    BY <1>5, <2>2
  <2> QED BY <2>1, <2>3, StillBalanced
<1>7. CASE Teardown(c)
  <2> PICK s : s = pc[c].sess
    OBVIOUS
  <2> PICK u : u = pc[c].path
    OBVIOUS
  <2>1. /\ s \in Sessions /\ u \in Paths /\ sm[s][u] \in SM /\ Lookup(c) = sm[s][u]
        /\ \A m : SetMedia(c, m) = [sm EXCEPT ![s][u] = m]
    BY <1>7, Used DEF Teardown
  <2>a. sm[s][u] # None
    BY <2>1, Apart
  <2>b. Tame(sm')
    <3>1. sm' = [sm EXCEPT ![s][u] = [sm[s][u] EXCEPT !.in = FALSE, !.state = "init"]]
      BY <1>7, <2>1 DEF Teardown
    <3> QED BY <2>1, <2>a, <3>1, TameTorn
  <2>3. Managers(sm', p) = Managers(sm, p)
    BY <2>b, TameManagers
  <2>4. prepared' = prepared /\ cl' = cl
    BY <1>7 DEF Teardown
  <2>5. Cachers(p)' = Cachers(p)
    BY <2>4, CachersStay
  <2> QED BY <2>3, <2>4, <2>5 DEF Was, Balanced
<1>8. CASE TeardownEnd(c)
  <2>1. Settle(sm, prepared, Foreign(c, Lookup(c))) /\ pc[c].at = "emitted"
    BY <1>8 DEF TeardownEnd
  <2>2. ~MergeTunnel(c) /\ ~Recaches(c)
    BY <2>1 DEF MergeTunnel, Recaches, Retimes, Misses, Finds, Seeks, SetupTransport, SetupFails
  <2>3. \A d \in Clients : cl'[d].cached = cl[d].cached
    BY <1>5, <2>2
  <2> QED BY <2>1, <2>3, TameBalanced, TameItself
<1>9. ASSUME pc[c].at = "setup"
      PROVE  ~MergeTunnel(c)
  BY <1>9 DEF MergeTunnel
<1>10. ASSUME NEW k \in Chan \cup {None}, SetupTransport(c, k)
       PROVE  Balanced(p)
  <2>1. pc[c].at = "setup" /\ pc[c].sess # None
    BY <1>10 DEF SetupTransport
  <2>0. PICK n \in SM : Made(c, k, n)
    BY <1>10, TransportMakes
  <2>2. /\ Making(c, n) /\ Put(c, n)
        /\ n.owner = c /\ n.lower = lower[c] /\ n.ch = k
        /\ n.in = IF pc[c].media = None THEN TRUE ELSE sm[pc[c].sess][pc[c].path].in
    BY <2>0 DEF Made
  <2>3. cl'[c].cached = IF pc[c].media = None THEN None ELSE cl[c].cached
    <3> PICK r : r = HadSession(cl[c])
      OBVIOUS
    <3>1. r \in ClientRecord /\ r.cached = cl[c].cached
      <4>1. cl[c] \in ClientRecord
        BY DEF TypeInv
      <4> QED BY <4>1 DEF HadSession, ClientRecord
    <3>2. cl'[c] = [r EXCEPT !.cached = IF pc[c].media = None THEN None ELSE @,
                             !.chan = [j \in Chan |-> IF j = k THEN <<pc[c].sess, pc[c].path>> ELSE @[j]]]
      BY <1>10 DEF SetupTransport, TypeInv
    <3> QED BY <3>1, <3>2 DEF ClientRecord
  <2>4. \A d \in Clients \ {c} : cl'[d].cached = cl[d].cached
    BY <1>5, <1>9, <2>1
  <2> QED BY <2>1, <2>2, <2>3, <2>4, MadeBalanced
<1>11. ASSUME NEW b \in BOOLEAN, SetupFails(c, b)
       PROVE  Balanced(p)
  <2>1. pc[c].at = "setup" /\ pc[c].sess # None
    BY <1>11 DEF SetupFails
  <2>2. cl'[c].cached = IF b /\ pc[c].media = None THEN None ELSE cl[c].cached
    <3> PICK r : r = HadSession(cl[c])
      OBVIOUS
    <3>1. r \in ClientRecord /\ r.cached = cl[c].cached
      <4>1. cl[c] \in ClientRecord
        BY DEF TypeInv
      <4> QED BY <4>1 DEF HadSession, ClientRecord
    <3>2. cl'[c] = [r EXCEPT !.cached = IF b /\ pc[c].media = None THEN None ELSE @]
      BY <1>11 DEF SetupFails, TypeInv
    <3> QED BY <3>1, <3>2 DEF ClientRecord
  <2>3. \A d \in Clients \ {c} : cl'[d].cached = cl[d].cached
    BY <1>5, <1>9, <2>1
  <2>4. CASE b /\ pc[c].media = None
    <3>1. FailsNew(c)
      BY <1>11, <2>4 DEF FailsNew
    <3>2. PICK n \in SM :
            /\ Making(c, n) /\ Put(c, n)
            /\ n.lower = "none"
      BY <3>1, FailsMakes
    <3>3. cl'[c].cached = IF pc[c].media = None THEN None ELSE cl[c].cached
      BY <2>2, <2>4
    <3> QED BY <2>1, <2>3, <3>2, <3>3, MadeBalanced
  <2>5. CASE ~(b /\ pc[c].media = None)
    <3>1. Settle(sm, prepared, {})
      BY <1>11, <2>5 DEF SetupFails
    <3>2. \A d \in Clients : cl'[d].cached = cl[d].cached
      BY <2>2, <2>3, <2>5
    <3> QED BY <3>1, <3>2, TameBalanced, TameItself
  <2> QED BY <2>4, <2>5
<1> QED BY <1>1, <1>2, <1>3, <1>4, <1>6, <1>7, <1>8, <1>10, <1>11 DEF RequestStep

LEMMA FinalBalanced ==
    ASSUME TypeInv, NEW p \in Paths, Was(p), NEW c \in Clients, Finalize(c)
    PROVE  Balanced(p)
<1>1. /\ prepared' = CacheCleaned(c) /\ cl' = [cl EXCEPT ![c].finalized = TRUE, ![c].cached = None] /\ sm' = sm
  BY DEF Finalize
<1>2. cl'[c].cached = None /\ \A d \in Clients \ {c} : cl'[d].cached = cl[d].cached
  BY <1>1 DEF TypeInv, ClientRecord
<1>3. Cachers(p)' = Fewer(c, p)
  BY <1>2, CachersMove, Apart
<1>4. Managers(sm, p) \in Nat
  BY CountsType
<1>5. Bal(CacheCleaned(c)[p], Fewer(c, p) + Managers(sm, p), p)
  BY <1>4, CleanedBal DEF Was
<1> QED BY <1>1, <1>3, <1>5 DEF Balanced

LEMMA OtherBalanced ==
    ASSUME TypeInv, RequestInv, NEW p \in Paths, Was(p), NEW c \in Clients, OtherStep(c)
    PROVE  Balanced(p)
<1>1. CASE \E s \in Sessions \cup {None} : HandleRequest(c, Head(todo[c]), s)
  <2>1. cl' = cl /\ sm' = sm /\ prepared' = prepared
    BY <1>1 DEF HandleRequest, mediaVars
  <2> QED BY <2>1, StillBalanced
<1>2. CASE Finalize(c)
  BY <1>2, FinalBalanced
<1>3. CASE ConnectionStep(c) /\ ~Finalize(c)
  <2>1. \A d \in Clients : cl'[d].cached = cl[d].cached
    <3>1. \A d \in Clients \ {c} : cl'[d] = cl[d]
      BY <1>3, ConnectionFields
    <3>2. ConnectionEffect(c, cl'[c], cl[c])
      BY <1>3, ConnectionFields
    <3>3. cl'[c].cached = cl[c].cached
      BY <1>3, <3>2 DEF ConnectionEffect
    <3> QED BY <3>1, <3>3
  <2>2. ASSUME NEW s \in Sessions, cleanup_session(c, s)
        PROVE  Balanced(p)
    <3>1. PICK q : Settle(FilteredMedia(s), prepared, q)
      BY <2>2 DEF cleanup_session
    <3>2. Tame(FilteredMedia(s))
      BY TameFilter
    <3> QED BY <2>1, <3>1, <3>2, TameBalanced
  <2>3. CASE ~\E s \in Sessions : cleanup_session(c, s)
    <3>1. sm' = sm /\ prepared' = prepared
      BY <1>3, <2>3 DEF ConnectionStep, client_watch_notify, NotifyEnd, rtsp_ctrl_timeout_cb,
                        gst_rtsp_client_attach, Close, tunnel_lost, HandleTunnel, mediaVars
    <3> QED BY <2>1, <3>1, StillBalanced
  <2> QED BY <2>2, <2>3
<1> QED BY <1>1, <1>2, <1>3 DEF OtherStep, ConnectionStep

LEMMA PoolBalanced ==
    ASSUME TypeInv, LifeInv, NEW p \in Paths, Was(p), NEW s \in Sessions, PoolStep(s)
    PROVE  Balanced(p)
<1>1. ASSUME NEW c \in Clients, EmitTo(s, c)
      PROVE  Balanced(p)
  <2>1. \A d \in Clients : cl'[d].cached = cl[d].cached
    <3>1. \A d \in Clients \ {c} : cl'[d] = cl[d]
      BY <1>1, EmitFields
    <3>2. cl'[c] = SessionEnds(cl[c], s) \/ cl' = cl
      BY <1>1, EmitFields
    <3>3. SessionEnds(cl[c], s).cached = cl[c].cached
      BY SessionEndsFields DEF TypeInv
    <3> QED BY <3>1, <3>2, <3>3
  <2>2. CASE cl[c].hooked
    <3>1. PICK q : Settle(Unfiltered(c, s), prepared, q)
      BY <1>1, <2>2 DEF EmitTo
    <3>2. Tame(Unfiltered(c, s))
      BY TameUnfiltered
    <3> QED BY <2>1, <3>1, <3>2, TameBalanced
  <2>3. CASE ~cl[c].hooked
    <3>1. sm' = sm /\ prepared' = prepared
      BY <1>1, <2>3 DEF EmitTo
    <3> QED BY <2>1, <3>1, StillBalanced
  <2> QED BY <2>2, <2>3
<1>2. CASE EmitEnd(s)
  <2>1. cl' = cl /\ Settle(sm, prepared, {})
    BY <1>2 DEF EmitEnd
  <2> QED BY <2>1, TameBalanced, TameItself
<1>3. CASE EmitBegin(s) \/ Expire(s)
  <2>1. cl' = cl /\ sm' = sm /\ prepared' = prepared
    BY <1>3 DEF EmitBegin, Expire, callVars, mediaVars
  <2> QED BY <2>1, StillBalanced
<1> QED BY <1>1, <1>2, <1>3 DEF PoolStep

LEMMA BalanceStep ==
    ASSUME TypeInv, RequestInv, MediaInv, SetupInv, LifeInv, PreparedBalance, "freed_media" \notin quirks, Steps
    PROVE  PreparedBalance'
<1>1. quirks \subseteq quirks'
  BY StepFades, MakesMakes DEF Fading, Making, Counts
<1> SUFFICES ASSUME Without2', NEW p \in Paths
             PROVE  Balanced(p)
  BY BalancePrime DEF Balanced
<1>2. Was(p)
  BY <1>1, BalanceTwice DEF Was, Without2
<1> QED BY <1>2, RequestBalanced, OtherBalanced, PoolBalanced DEF Steps, Without2
-----------------------------------------------------------------------------
\* The invariant is inductive.

LEMMA InitTypes ==
    ASSUME Init
    PROVE  TypeInv
<1>1. NewClient \in ClientRecord
  BY DEF NewClient, ClientRecord
<1>2. Idle \in RequestRecord
  BY DEF Idle, RequestRecord, At
<1>3. /\ todo \in [Clients -> Seq(Requests)] /\ lower \in [Clients -> {"tcp", "udp"}]
      /\ closing \in SUBSET Clients /\ removals \in Nat
  <2>1. PICK x \in Scenarios : /\ todo = x.requests /\ lower = x.lower
                               /\ closing = x.closing /\ removals = x.removals
    BY DEF Init
  <2>2. x \in [requests : [Clients -> Seq(Requests)], lower : [Clients -> {"tcp", "udp"}],
               closing : SUBSET Clients, removals : Nat]
    BY ClientAssumption DEF ClientAssumption
  <2> QED BY <2>1, <2>2
<1>4. cl \in [Clients -> ClientRecord] /\ pc \in [Clients -> RequestRecord]
  BY <1>1, <1>2 DEF Init
<1> QED BY <1>3, <1>4 DEF Init, TypeInv

LEMMA InitBalance ==
    ASSUME Init
    PROVE  PreparedBalance
<1> SUFFICES ASSUME NEW p \in Paths
             PROVE  Bal(prepared[p], Cachers(p) + Managers(sm, p), p)
  BY BalanceTwice
<1>1. {c \in Clients : cl[c].cached = p} = {} /\ {s \in Sessions : sm[s][p] # None} = {}
  BY Apart DEF Init, NewClient
<1>2. Cachers(p) = 0 /\ Managers(sm, p) = 0
  BY <1>1, FS_EmptySet DEF Cachers, Managers
<1> QED BY <1>2 DEF Init, Bal

LEMMA InitInv ==
    ASSUME Init
    PROVE  IInv
<1>1. /\ \A c \in Clients : cl[c] = NewClient /\ pc[c] = Idle
      /\ pool = {} /\ fresh = Sessions /\ tunnel = None
      /\ \A s \in Sessions : emit[s] = None /\ \A p \in Paths : sm[s][p] = None
  BY DEF Init
<1>2. /\ NewClient.watch = "none" /\ NewClient.sessions = {} /\ NewClient.visited = {} /\ ~NewClient.finalized
      /\ NewClient.timer = None /\ NewClient.hooked = FALSE /\ NewClient.tstate = "none" /\ ~NewClient.merged
  BY DEF NewClient
<1>3. Idle.at = "idle" /\ Idle.sess = None /\ Idle.media = None /\ ~Idle.made
  BY DEF Idle
<1>4. RequestInv
  BY <1>1, <1>3, Apart DEF RequestInv, Requesting, Shape, Locks, Caches
<1>5. KnownInv
  BY <1>1, <1>2, <1>3, Apart DEF KnownInv
<1>6. LifeInv /\ UntimedInv
  BY <1>1, <1>2 DEF LifeInv, Lives, UntimedInv
<1>7. SetupInv /\ MediaInv /\ TornInv /\ HeldInv
  BY <1>1, <1>3, Apart DEF SetupInv, MediaInv, TornInv, HeldInv
<1>8. WatchersAreTold /\ ChanInv /\ TcpInv
  BY <1>1, <1>2 DEF WatchersAreTold, ChanInv, TcpInv, Interleaved
<1>9. TimeInv
  BY <1>1, <1>2, <1>3 DEF TimeInv
<1>10. TunnelInv
  BY <1>1, <1>2, <1>3 DEF TunnelInv, HalfInv, MergedInv
<1>11. LeakedInv
  BY DEF Init, LeakedInv
<1> QED BY <1>4, <1>5, <1>6, <1>7, <1>8, <1>9, <1>10, <1>11, InitTypes, InitBalance DEF IInv

LEMMA NextInv ==
    ASSUME IInv, Next
    PROVE  IInv'
<1>1. TypeInv /\ RequestInv /\ MediaInv /\ KnownInv /\ LifeInv
  BY DEF IInv
<1>11. LeakedInv'
  BY LeakedStep DEF IInv
<1>2. Steps /\ "freed_media" \notin quirks
  BY <1>1, NextSteps
<1>3. TypeInv' /\ RequestInv'
  BY <1>1, <1>2, TypeStep, RequestInvStep
<1>4. LifeInv' /\ UntimedInv'
  BY <1>1, <1>2, <1>3, LifeStep DEF IInv
<1>5. KnownInv' /\ MediaInv'
  BY <1>1, <1>2, KnownStep, MediaStep
<1>6. SetupInv' /\ TornInv'
  BY <1>1, <1>2, <1>3, SetupStep, TornStep DEF IInv
<1>7. HeldInv' /\ WatchersAreTold'
  BY <1>1, <1>2, <1>3, <1>4, HeldStep, TellsStep DEF IInv
<1>8. ChanInv' /\ TcpInv'
  BY <1>1, <1>2, <1>3, ChanStep, TcpStep DEF IInv
<1>9. TimeInv' /\ TunnelInv'
  BY <1>1, <1>2, TimeStep, TunnelStep DEF IInv
<1>10. PreparedBalance'
  BY <1>1, <1>2, BalanceStep DEF IInv
<1> QED BY <1>3, <1>4, <1>5, <1>6, <1>7, <1>8, <1>9, <1>10, <1>11 DEF IInv

LEMMA StutterInv ==
    ASSUME IInv, UNCHANGED vars
    PROVE  IInv'
<1> USE DEF vars, callVars, poolVars, mediaVars, envVars
<1>1. TypeInv' /\ RequestInv' /\ KnownInv' /\ LifeInv' /\ UntimedInv'
  BY DEF IInv, TypeInv, RequestInv, Requesting, KnownInv, LifeInv, UntimedInv, Without
<1>2. SetupInv' /\ MediaInv' /\ TornInv' /\ HeldInv' /\ WatchersAreTold'
  BY DEF IInv, SetupInv, MediaInv, TornInv, Manages, HeldInv, WatchersAreTold, Without
<1>3. ChanInv' /\ TcpInv' /\ TimeInv' /\ TunnelInv'
  BY DEF IInv, ChanInv, Found, TcpInv, TimeInv, TunnelInv, HalfInv, MergedInv, Sought, Without
<1>4. PreparedBalance' /\ LeakedInv'
  BY DEF IInv, PreparedBalance, Holders, Without, LeakedInv
<1> QED BY <1>1, <1>2, <1>3, <1>4 DEF IInv

\* The inductive invariant holds in every state.
THEOREM ClientInvariant == Spec => []IInv
<1>1. Init => IInv
  BY InitInv
<1>2. IInv /\ [Next]_vars => IInv'
  BY NextInv, StutterInv
<1> QED BY <1>1, <1>2, PTL DEF Spec

-----------------------------------------------------------------------------
\* What follows from it.

LEMMA InvFollows ==
    ASSUME IInv
    PROVE  SessionsFollow
<1>1. TypeOK
  <2>1. \A c \in Clients :
          /\ cl[c].watch \in {"none", "live", "dying", "notify", "gone"}
          /\ cl[c].sessions \subseteq Sessions /\ cl[c].timer \in Nat \cup {None}
          /\ cl[c].cached \in Paths \cup {None}
    BY DEF IInv, TypeInv, ClientRecord
  <2>2. pool \subseteq Known /\ \A c \in Clients : cl[c].sessions \subseteq Known
    BY <2>1 DEF IInv, TypeInv, KnownInv, Known
  <2> QED BY <2>1, <2>2 DEF TypeOK, IInv, TypeInv, LeakedInv
<1>2. FinalizedClean
  BY DEF IInv, LifeInv, Lives, UntimedInv, FinalizedClean
<1> QED BY <1>1, <1>2 DEF IInv, SessionsFollow

LEMMA InvHolds ==
    ASSUME IInv
    PROVE  ConnectionsHold
<1> USE DEF IInv
<1>1. pool \subseteq Sessions /\ Idle.at = "idle"
  BY DEF TypeInv, Idle
<1>2. OwnChannels
  BY <1>1 DEF ChanInv, Interleaved, Found, OwnChannels
<1>3. TcpEndsWithConnection
  BY <1>1 DEF TcpInv, Interleaved, TcpEndsWithConnection
<1>4. TunnelIsFound
  BY <1>1 DEF TunnelInv, HalfInv, MergedInv, Sought, TunnelIsFound
<1>5. IdleIsTimed
  BY DEF TimeInv, LifeInv, Lives, IdleIsTimed
<1> QED BY <1>2, <1>3, <1>4, <1>5 DEF ConnectionsHold

\* In every state a media is prepared as often as clients cache it and sessions
\* manage it, a client watches only sessions of the pool or such that it is yet
\* told about, and a client that is finalized has no session, no handler and no
\* timer: find_media, SETUP and its failures, TEARDOWN, the filter of sessions
\* and finalize of rtsp-client.c, in whatever order threads take their steps.
THEOREM ClientFollowsSessions == Spec => []SessionsFollow
BY ClientInvariant, InvFollows, PTL

\* In every state the channel of an interleaved media leads to it, no such media
\* outlives its connection, half a tunnel that waits can be found, and a
\* connection without a session is timed: the transports, the end of the watch,
\* the tunnels and the timer of rtsp-client.c.
THEOREM ClientConnectionsHold == Spec => []ConnectionsHold
BY ClientInvariant, InvHolds, PTL
===============================================================================
