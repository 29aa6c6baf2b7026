----------------------------- MODULE MediaFactory -----------------------------
(* GstRTSPMediaFactory (rtsp-media-factory.c): construct looks for a shared *)
(* media in the cache, asks it outside of the cache's lock whether it can   *)
(* still be shared, and makes a new one when not.  A media that cannot be   *)
(* reused takes itself out of the cache when it is unprepared, in the       *)
(* thread of its last user.                                                 *)
EXTENDS Integers, FiniteSets, NoValue

CONSTANTS
    Callers,    \* the threads that construct and use media
    Media, Keys,
    SharedKeys, \* keys of factories that are shared
    Reusable    \* keys whose media may be prepared again

MediaRecord ==
    [key : Keys, shared : BOOLEAN, reusable : BOOLEAN, reused : BOOLEAN, hooked : BOOLEAN,
     status : {"unprepared", "prepared", "unpreparing"}, count : Nat]

VARIABLES
    medias,         \* the cache: a media for each key
    medias_lock,
    md,             \* what each media keeps
    mlock,          \* who holds the lock of a media
    fc,             \* what each caller does
    fquirks         \* departures that have happened (history)

factoryVars == <<medias, medias_lock, md, mlock, fc, fquirks>>

NoCall == [at |-> "idle", key |-> None, media |-> None, again |-> FALSE]

FactoryInit ==
    /\ medias = [k \in Keys |-> None] /\ medias_lock = None
    /\ md = [m \in Media |-> None] /\ mlock = [m \in Media |-> None]
    /\ fc = [t \in Callers |-> NoCall] /\ fquirks = {}

At(t, at) == fc' = [fc EXCEPT ![t].at = at]

\* A media is finalized when nobody has a reference.
Settled(d) ==
    [m \in Media |->
      IF d[m] # None /\ (\A k \in Keys : medias'[k] # m) /\ (\A t \in Callers : fc'[t].media # m)
      THEN None ELSE d[m]]

Unlocked(l, t) == [m \in Media |-> IF l[m] = t THEN None ELSE l[m]]

\* The lock is kept until the new media is in the cache.
HeldFor(t) == t

\* A cached media gets a reference before the lock is given up.
construct(t, k) ==
    /\ fc[t].at = "idle" /\ medias_lock = None
    /\ IF medias[k] # None
       THEN /\ fc' = [fc EXCEPT ![t] = [NoCall EXCEPT !.at = "found", !.key = k, !.media = medias[k]]]
            /\ UNCHANGED medias_lock
       ELSE /\ fc' = [fc EXCEPT ![t] = [NoCall EXCEPT !.at = "create", !.key = k]]
            /\ medias_lock' = HeldFor(t)
    /\ UNCHANGED <<medias, md, mlock, fquirks>>

\* Mutant: a media that was unprepared is handed out.
CanBeSharedAny(d) == d.shared
can_be_shared(d) == d.shared /\ (d.reusable \/ ~d.reused)

\* The media lock is kept when the media is returned.
Share(t) ==
    LET m == fc[t].media
    IN  /\ fc[t].at = "found" /\ mlock[m] = None
        /\ IF can_be_shared(md[m])
           THEN /\ mlock' = [mlock EXCEPT ![m] = t] /\ At(t, "constructed")
           ELSE /\ UNCHANGED mlock
                /\ fc' = [fc EXCEPT ![t].at = "relock", ![t].media = None]
        /\ UNCHANGED <<medias, medias_lock, fquirks>>
        /\ md' = Settled(md)

Relock(t) ==
    /\ fc[t].at = "relock" /\ medias_lock = None /\ medias_lock' = t
    /\ fc' = [fc EXCEPT ![t].at = "create", ![t].again = TRUE]
    /\ UNCHANGED <<medias, md, mlock, fquirks>>

\* The factory listens to the end of a media that is not reusable.
Hooked(k) == k \notin Reusable

\* default_construct, default_configure: the properties come from the factory.
NewMedia(k) ==
    [key |-> k, shared |-> k \in SharedKeys, reusable |-> k \in Reusable, reused |-> FALSE,
     status |-> "unprepared", count |-> 0, hooked |-> Hooked(k)]

\* A new media replaces the one the cache has: two callers that found the same
\* unusable one both make another.
Usable(m) == IF m = None THEN FALSE ELSE IF md[m] = None THEN FALSE ELSE can_be_shared(md[m])
Replaces(t) ==
    IF fc[t].again /\ fc[t].key \in SharedKeys /\ Usable(medias[fc[t].key])
    THEN {"created_twice"} ELSE {}

Cached(k, m) == IF k \in SharedKeys THEN [medias EXCEPT ![k] = m] ELSE medias

Create(t) ==
    LET k == fc[t].key
    IN  /\ fc[t].at = "create" /\ medias_lock' = None /\ \E m \in Media : md[m] = None
        /\ LET m == CHOOSE n \in Media : md[n] = None
           IN  /\ medias' = Cached(k, m) /\ mlock' = [mlock EXCEPT ![m] = t]
               /\ fc' = [fc EXCEPT ![t].at = "constructed", ![t].media = m]
               /\ md' = Settled([md EXCEPT ![m] = NewMedia(k)])
        /\ fquirks' = fquirks \cup Replaces(t)

\* No launch line, no element or no pipeline.
CreateFails(t) ==
    /\ fc[t].at = "create" /\ medias_lock' = None
    /\ fc' = [fc EXCEPT ![t] = NoCall]
    /\ UNCHANGED <<medias, md, mlock, fquirks>>

-----------------------------------------------------------------------------
(* What find_media and the end of a client do with the media. *)

Refused(d) == d.count = 0 /\ (d.status # "unprepared" \/ (~d.reusable /\ d.reused))

\* gst_rtsp_media_prepare; a media that ended since the check is refused.
Prepare(t) ==
    LET m == fc[t].media
    IN  /\ fc[t].at = "constructed" /\ UNCHANGED <<medias, medias_lock>>
        /\ IF Refused(md[m])
           THEN /\ fc' = [fc EXCEPT ![t] = NoCall] /\ mlock' = Unlocked(mlock, t)
                /\ fquirks' = fquirks \cup {"ended_in_find"} /\ md' = Settled(md)
           ELSE /\ md' = [md EXCEPT ![m].count = @ + 1, ![m].status = "prepared"]
                /\ UNCHANGED fquirks
                /\ \/ At(t, "using") /\ mlock' = Unlocked(mlock, t)
                   \/ At(t, "failed") /\ UNCHANGED mlock

\* The last user stops the pipeline, without the state lock.  One whose
\* preroll failed still has the media lock.
Unprepare(t, at) ==
    LET m == fc[t].media
    IN  /\ fc[t].at = at
        /\ IF md[m].count > 1
           THEN /\ fc' = [fc EXCEPT ![t] = NoCall] /\ md' = [md EXCEPT ![m].count = @ - 1]
                /\ mlock' = Unlocked(mlock, t)
           ELSE /\ At(t, "finish") /\ UNCHANGED mlock
                /\ md' = [md EXCEPT ![m].count = 0, ![m].status = "unpreparing"]
        /\ UNCHANGED <<medias, medias_lock, fquirks>>

FinishUnprepare(t) ==
    LET m == fc[t].media
    IN  /\ fc[t].at = "finish" /\ UNCHANGED <<medias, medias_lock, fquirks>>
        /\ IF md[m].hooked THEN At(t, "unprepared") /\ UNCHANGED mlock
           ELSE fc' = [fc EXCEPT ![t] = NoCall] /\ mlock' = Unlocked(mlock, t)
        /\ md' = Settled([md EXCEPT ![m].status = "unprepared", ![m].reused = TRUE])

\* Mutant: the entry of the key is removed, whatever media it has.
RemoveKey(m) == [medias EXCEPT ![md[m].key] = None]
\* foreach_remove with compare_media
RemoveMedia(m) == [k \in Keys |-> IF medias[k] = m THEN None ELSE medias[k]]

media_unprepared(t) ==
    /\ fc[t].at = "unprepared" /\ medias_lock = None
    /\ medias' = RemoveMedia(fc[t].media)
    /\ fc' = [fc EXCEPT ![t] = NoCall] /\ mlock' = Unlocked(mlock, t)
    /\ UNCHANGED <<medias_lock, fquirks>>
    /\ md' = Settled(md)

Constructing(t) ==
    \/ Share(t) \/ Relock(t) \/ Create(t) \/ CreateFails(t) \/ Prepare(t)
    \/ Unprepare(t, "failed") \/ FinishUnprepare(t) \/ media_unprepared(t)

-----------------------------------------------------------------------------
(* Clients of a shared path share: no two media of a key are fit for new    *)
(* clients at once, whichever callers construct and unprepare in between;   *)
(* but two callers that found the same media ended make one each.           *)
OneShareable ==
    "created_twice" \notin fquirks =>
      \A m, n \in Media :
        m # n /\ Usable(m) /\ Usable(n) => md[m].key # md[n].key

(* A media that can still be shared is the one that others find, until      *)
(* somebody unprepares it.                                                  *)
CacheHasShared ==
    \A m \in Media :
      Usable(m) /\ "created_twice" \notin fquirks => medias[md[m].key] = m

(* Every construct returns, and what can no longer be shared leaves the     *)
(* cache.                                                                   *)
ConstructReturns == \A t \in Callers : fc[t].at = "found" ~> fc[t].at \in {"idle", "using"}
CacheIsCleared ==
    \A m \in Media :
      md[m] # None /\ ~Usable(m) ~> \A k \in Keys : medias[k] # m
===============================================================================
