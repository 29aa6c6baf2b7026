---------------------------- MODULE MCSessionPool ----------------------------
(***************************************************************************)
(* An instance of SessionPool for TLC.  Every thread of the pool at once   *)
(* is out of reach, so the initial state picks a roster, and the steps of  *)
(* a behaviour stay inside it:                                             *)
(*   - "cleaner": a client and a cleaner, while time passes;               *)
(*   - "watch": these and a watcher, with sessions that keep their         *)
(*     settings;                                                           *)
(*   - "filter": two clients, the second with one session at most, and a   *)
(*     filterer, while max-sessions changes and the clock stands still.    *)
(***************************************************************************)
EXTENDS SessionPool

CONSTANTS s1, s2, c1, c2, k1, f1, w1

VARIABLE roster

mcvars == <<vars, roster>>

Active == CASE roster = "cleaner" -> {c1, k1}
            [] roster = "watch"   -> {c1, k1, w1}
            [] roster = "filter"  -> {c1, c2, f1}

\* The states of a roster: the other threads do nothing, and what its
\* threads are not there to show keeps its first value.
InRoster ==
    /\ \A t \in Thread \ Active : pc[t] = "idle" /\ held[t] = {}
    /\ roster = "watch" => \A s \in born : /\ sess[s].timeout = DEFAULT_TIMEOUT
                                           /\ sess[s].expire_count = 0
    /\ roster # "filter" => max_sessions = 0 /\ \A t \in Thread : retry[t] = 0
    /\ roster = "filter" => /\ now = 0 /\ \A s \in born : sess[s] = NewSession(0)
                           /\ Cardinality(held[c2]) <= 1

MCInit == Init /\ roster \in {"cleaner", "watch", "filter"} /\ InRoster

MCNext == Next /\ UNCHANGED roster /\ InRoster'

(* The fairness of SessionPool, of the threads of the roster.              *)
MCFairness ==
    /\ \A t \in {k1, w1} : SF_mcvars(t \in Active /\ CleanupNext(t) /\ UNCHANGED roster)
    /\ \A t \in Thread : WF_mcvars(EmitNext(t) /\ UNCHANGED roster)
    /\ SF_mcvars(FilterNext(f1) /\ pc[f1] # "idle" /\ UNCHANGED roster)

MCSpec == MCInit /\ [][MCNext]_mcvars /\ MCFairness
=============================================================================
