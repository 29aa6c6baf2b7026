----------------------------- MODULE MediaProofs -----------------------------
(***************************************************************************)
(* Theorems about Media: every prepare is counted and undone once, and      *)
(* whoever has the media prepared or plays it is served, for any number of  *)
(* users, in the configurations where users do not come back to a media     *)
(* that somebody left in a way the code does not undo (Counting) and that   *)
(* no repeated PLAY counted twice (Undisturbed).                            *)
(*                                                                         *)
(* Base says who holds the media lock, who uses the media, who shuts it     *)
(* down, and what that means for its status and its prepare_count.  PlayInv *)
(* is about a pipeline that works: who is in the list of transports, what   *)
(* n_active says of them, and the state the pipeline is in.                 *)
(***************************************************************************)
EXTENDS Media, FiniteSetTheorems, TLAPS

-----------------------------------------------------------------------------
\* The inductive invariant.

\* Where a user waits for its next request or prepares, where it plays, where
\* it sets the state, and where a thread shuts the media down.
Resting == {"idle", "preparing", "described", "cached", "ready", "playing"}
Starting == {"play", "unsuspend", "unsuspending", "seek", "seekfirst", "seekagain", "seeking"}
Setting == {"setstate", "statewait", "stategot"}
Stopping == {"nulling", "nulled"}

\* The call a user executes fits the place where it is.
OpOk(u) ==
    \/ pc[u] \in Resting /\ op[u] = "none"
    \/ pc[u] \in Starting /\ op[u] \in {"play", "replay"}
    \/ pc[u] \in Setting /\ op[u] \in {"play", "replay", "pause", "release", "finalize"}
    \/ pc[u] = "unprepare" /\ op[u] = "unprepare"
    \/ pc[u] \in Stopping /\ op[u] \in {"release", "finalize", "unprepare"}

\* A request that needs a working media; a user that has left the media, but
\* not yet finished leaving.
Asking(u) == pc[u] \in {"preparing", "described"} \cup Starting \/ op[u] \in {"play", "replay", "pause"}
Gone(u) == pc[u] # "idle" /\ u \notin using

\* Requests hold the media lock and use the media.  Departures hold it too, but
\* for those of a media whose users leave as they like.
UserOk(u) ==
    /\ OpOk(u)
    /\ Asking(u) => glock = u /\ u \in using
    /\ pc[u] \in {"cached", "ready", "playing"} => u \in using
    /\ op[u] = "release" /\ pc[u] \in Setting => u \in using
    /\ pc[u] = "idle" => u \notin using
    /\ op[u] \in {"release", "finalize"} => glock = u \/ conf.closes
    /\ Gone(u) => glock = u \/ ~conf.reusable \/ (pc[u] \in Stopping /\ op[u] = "unprepare")
    /\ op[u] = "replay" => conf.replays

UsersInv == \A u \in Users : UserOk(u)

\* Only the last user can have left without having finished.
GoneInv == \A u \in Users : Gone(u) => using = {} /\ \A v \in Users : Gone(v) => v = u

\* One thread shuts the media down, and nobody uses it then.
StopInv ==
    /\ pc[Bus] \in {"idle"} \cup Stopping /\ op[Bus] = "none"
    /\ pc[Bus] \in Stopping => conf.eos_shutdown
    /\ finishing_unprepare <=> \E t \in Thread : pc[t] \in Stopping
    /\ \A s, t \in Thread : pc[s] \in Stopping /\ pc[t] \in Stopping => s = t
    /\ finishing_unprepare => using = {} /\ status \in {"UNPREPARING", "ERROR"}
    /\ status = "UNPREPARING" /\ ~conf.eos_shutdown => finishing_unprepare

StatusInv ==
    /\ using # {} => status \notin {"UNPREPARED", "UNPREPARING"}
    /\ using = {} => status \in {"UNPREPARED", "UNPREPARING"} \/ finishing_unprepare
    /\ status = "UNPREPARED" => ~source
    /\ status = "UNPREPARED" /\ ~reused => n_active = 0 /\ active = {} /\ \A u \in Users : pc[u] = "idle"
    /\ status = "PREPARING" =>
         \E u \in Users : glock = u /\ pc[u] \in {"preparing", "unsuspending", "seekfirst", "seeking"}
    /\ ~conf.faults => status # "ERROR"

\* With eos_shutdown a media that nobody uses may be counted below zero.
CountInv ==
    /\ using # {} => prepare_count = Cardinality(using)
    /\ using = {} /\ (~conf.eos_shutdown \/ (status = "UNPREPARED" /\ ~reused)) => prepare_count = 0

Base == UsersInv /\ GoneInv /\ StopInv /\ StatusInv /\ CountInv

\* The transports n_active has counted: a PLAY adds its transport to the list
\* first and counts it later.
CountedActive == {u \in active : op[u] # "play"}

\* Nothing but TEARDOWN and PAUSE takes a transport from the count.
Exact == ~conf.closes /\ ~conf.replays

\* Where a user is in the list of transports.
PlayOk(u) ==
    /\ pc[u] = "playing" \/ op[u] \in {"play", "replay", "pause"} => u \in active
    /\ pc[u] = "unsuspend" => conf.suspend_mode # "reset"
    /\ op[u] \in {"play", "replay"} /\ pc[u] \notin {"play", "unsuspend"} => status # "SUSPENDED"
    /\ Exact /\ u \in active => pc[u] = "playing" \/ op[u] \in {"play", "pause"} \/ (op[u] = "release" /\ pc[u] \in Setting)

\* The pipeline says nothing before it is started and after it is stopped.
MessageInv ==
    /\ start <= 1
    /\ start > 0 => status = "PREPARING" /\ bus = <<>> /\ coming = "no"
    /\ status = "UNPREPARED" => bus = <<>> /\ coming = "no"
    /\ \A t \in Thread : pc[t] = "nulled" => bus = <<>> /\ coming = "no"

\* While a transport is counted the pipeline is to play.
ActiveInv ==
    /\ n_active >= Cardinality(CountedActive)
    /\ Exact => n_active = Cardinality(CountedActive)
    /\ using # {} /\ n_active # 0 => target_state = "PLAYING" /\ status # "SUSPENDED" /\ start = 0

\* The pipeline is in its target state, but for buffering.
TargetInv ==
    /\ status \in {"UNPREPARED", "UNPREPARING"} => target_state = "NULL"
    /\ \/ status = "PREPARED"
       \/ status = "PREPARING" /\ start = 0
       \/ status = "SUSPENDED" /\ conf.suspend_mode # "reset"
       => target_state # "NULL"
    /\ status # "UNPREPARING" /\ target_state = "PLAYING" => state = (IF buffering THEN "PAUSED" ELSE "PLAYING")
    /\ status # "UNPREPARING" /\ target_state = "PAUSED" /\ ~conf.live => state = "PAUSED"
    /\ conf.live => ~buffering

PlayInv == (\A u \in Users : PlayOk(u)) /\ MessageInv /\ ActiveInv /\ TargetInv

\* A departure unprepares twice.  In between, another user may prepare the media
\* if the lock is not held, and the second call counts if the shutdown takes an
\* EOS: such a media is not used again.  A PLAY while playing counts its
\* transport a second time, and nothing corrects the count.
Counting(c) == (c.closes \/ c.eos_shutdown => ~c.reusable) /\ (c.eos_shutdown => ~c.faults)
Undisturbed(c) == Counting(c) /\ (c.replays => ~c.reusable)

IInv == TypeOK /\ (Counting(conf) => Base) /\ (Undisturbed(conf) /\ ~conf.faults => PlayInv)

-----------------------------------------------------------------------------
\* Types.

\* Where a thread goes when a set_state or unprepare returns.
LEMMA ReturnGoes ==
    ASSUME TypeOK, NEW t \in Thread, Return(t)
    PROVE  /\ pc' = [pc EXCEPT ![t] = pc'[t]]
           /\ op' = [op EXCEPT ![t] = op'[t]]
           /\ op[t] \in {"play", "replay"} => pc'[t] = "playing" /\ op'[t] = "none"
           /\ op[t] = "pause" => pc'[t] = "ready" /\ op'[t] = "none"
           /\ op[t] = "release" => pc'[t] = "setstate" /\ op'[t] = "finalize"
           /\ op[t] = "finalize" => pc'[t] = "unprepare" /\ op'[t] = "unprepare"
           /\ op[t] \in {"unprepare", "none"} => pc'[t] = "idle" /\ op'[t] = "none"
           /\ glock' = IF op[t] \notin {"release", "finalize"} /\ glock = t THEN NoThread ELSE glock
<1>1. /\ pc \in [Thread -> {pc[s] : s \in Thread}] /\ op \in [Thread -> {op[s] : s \in Thread}]
      /\ op[t] \in {"none", "play", "replay", "pause", "release", "finalize", "unprepare"}
  BY DEF TypeOK
<1>2. /\ pc' = [pc EXCEPT ![t] = After[op[t]][1]]
      /\ op' = [op EXCEPT ![t] = After[op[t]][2]]
      /\ glock' = IF After[op[t]][2] = "none" /\ glock = t THEN NoThread ELSE glock
  BY DEF Return, Goto, UnlockMedia
<1>3. pc'[t] = After[op[t]][1] /\ op'[t] = After[op[t]][2]
  BY <1>1, <1>2
<1>4. /\ op[t] \in {"play", "replay"} => After[op[t]] = <<"playing", "none">>
      /\ op[t] = "pause" => After[op[t]] = <<"ready", "none">>
      /\ op[t] = "release" => After[op[t]] = <<"setstate", "finalize">>
      /\ op[t] = "finalize" => After[op[t]] = <<"unprepare", "unprepare">>
      /\ op[t] \in {"unprepare", "none"} => After[op[t]] = <<"idle", "none">>
  BY DEF After
<1> QED BY <1>1, <1>2, <1>3, <1>4

\* The places and calls of a thread.
PCs == Resting \cup Starting \cup Setting \cup Stopping \cup {"unprepare"}
Ops == {"none", "play", "replay", "pause", "release", "finalize", "unprepare"}

\* A thread that returns keeps the types.
LEMMA ReturnTypes ==
    ASSUME TypeOK, NEW t \in Thread, Return(t)
    PROVE  /\ pc' \in [Thread -> PCs] /\ op' \in [Thread -> Ops]
           /\ glock' \in Users \cup {NoThread}
<1>1. pc \in [Thread -> PCs] /\ op \in [Thread -> Ops] /\ glock \in Users \cup {NoThread}
  BY DEF TypeOK, PCs, Ops, Resting, Starting, Setting, Stopping, Waiting
<1>2. pc'[t] \in PCs /\ op'[t] \in Ops
  BY <1>1, ReturnGoes DEF PCs, Ops, Resting, Starting, Setting, Stopping
<1> QED BY <1>1, <1>2, ReturnGoes

TypesOf ==
    TypeOK <=>
    /\ conf \in Confs /\ status \in Status /\ prepare_count \in Int /\ n_active \in Int
    /\ target_state \in States /\ reused \in BOOLEAN /\ finishing_unprepare \in BOOLEAN
    /\ buffering \in BOOLEAN /\ blocked \in BOOLEAN /\ expected_async_done \in BOOLEAN
    /\ source \in BOOLEAN /\ pad \in BOOLEAN /\ state \in States
    /\ coming \in Messages \cup {"no"} /\ bus \in Seq(Messages) /\ start \in Nat
    /\ glock \in Users \cup {NoThread} /\ slock \in Thread \cup {NoThread}
    /\ pc \in [Thread -> PCs] /\ op \in [Thread -> Ops]
    /\ active \subseteq Users /\ using \subseteq Users

\* The types, one by one.
LEMMA TypeParts == TypesOf
  BY DEF TypesOf, TypeOK, PCs, Ops, Resting, Starting, Setting, Stopping, Waiting

\* finish_unprepare keeps the types.
LEMMA FinishTypes ==
    ASSUME TypeOK, NEW t \in Thread, NEW depth \in Nat, finish_unprepare(t, depth)
    PROVE  /\ pc' \in [Thread -> PCs] /\ op' \in [Thread -> Ops]
           /\ glock' \in Users \cup {NoThread} /\ slock' \in Thread \cup {NoThread}
           /\ finishing_unprepare' \in BOOLEAN
<1> USE TypeParts DEF TypesOf
<1>1. CASE finishing_unprepare
  BY <1>1, ReturnTypes DEF finish_unprepare
<1>2. CASE ~finishing_unprepare
  BY <1>2 DEF finish_unprepare, Goto, PCs, Stopping
<1> QED BY <1>1, <1>2

\* The same for unprepare.
LEMMA UnprepareTypes ==
    ASSUME TypeOK, NEW t \in Users, NEW depth \in Nat, unprepare(t, depth)
    PROVE  /\ pc' \in [Thread -> PCs] /\ op' \in [Thread -> Ops]
           /\ glock' \in Users \cup {NoThread} /\ slock' \in Thread \cup {NoThread}
           /\ finishing_unprepare' \in BOOLEAN /\ status' \in Status /\ prepare_count' \in Int
           /\ target_state' \in States /\ state' \in States /\ coming' \in Messages \cup {"no"}
           /\ using' \subseteq Users
<1> USE TypeParts DEF TypesOf
<1>1. t \in Thread
  BY DEF Thread
<1>2. status' \in Status /\ prepare_count' \in Int /\ target_state' \in States /\ state' \in States
      /\ coming' \in Messages \cup {"no"} /\ using' \subseteq Users
  BY DEF unprepare, Status, States, Messages
<1>3. (Return(t) /\ UNCHANGED <<finishing_unprepare, slock>>) \/ finish_unprepare(t, depth)
  BY DEF unprepare
<1> QED BY <1>1, <1>2, <1>3, ReturnTypes, FinishTypes

\* The threads are the users and the bus thread.
LEMMA ThreadsAre == /\ \A u \in Users : u \in Thread
                    /\ Bus \in Thread
                    /\ \A t \in Thread : t \in Users \/ t = Bus
  BY DEF Thread

\* Sequences of messages.
LEMMA QueueTypes ==
    /\ <<>> \in Seq(Messages)
    /\ \A q \in Seq(Messages) : q # <<>> => Tail(q) \in Seq(Messages)
    /\ \A q \in Seq(Messages), m \in Messages : Append(q, m) \in Seq(Messages)
  OBVIOUS

(* Every step keeps the types and the configuration.                         *)
LEMMA TypeStep ==
    ASSUME TypeOK, Next
    PROVE  TypeOK' /\ conf' = conf
<1> USE TypeParts DEF TypesOf
<1> USE ThreadsAre
<1>0. TypesOf'
  BY TypeParts, PTL
<1>1. ASSUME NEW u \in Users, prepare(u) PROVE TypeOK' /\ conf' = conf
  <2>1. pc' \in [Thread -> PCs]
    BY <1>1 DEF prepare, Goto, PCs, Resting
  <2>2. status' \in Status /\ buffering' \in BOOLEAN /\ source' \in BOOLEAN /\ start' \in Nat
    <3>1. \/ UNCHANGED <<status, buffering, source, start>>
          \/ status' = "PREPARING" /\ buffering' = FALSE /\ source' = TRUE /\ start' = start + 1
      BY <1>1 DEF prepare
    <3>2. status' \in Status /\ start' \in Nat
      BY <3>1 DEF Status
    <3>3. buffering' \in BOOLEAN /\ source' \in BOOLEAN
      BY <3>1
    <3> QED BY <3>2, <3>3
  <2> QED BY <1>0, <1>1, <2>1, <2>2 DEF prepare, Counted
<1>2. ASSUME NEW u \in Users, PrepareDone(u) PROVE TypeOK' /\ conf' = conf
  BY <1>0, <1>2 DEF PrepareDone, Goto, PCs, Ops, Resting, mediaVars
<1>3. ASSUME NEW u \in Users, StatusTimeout(u) PROVE TypeOK' /\ conf' = conf
  BY <1>0, <1>3 DEF StatusTimeout, Status, threadVars
<1>4. ASSUME start_prepare PROVE TypeOK' /\ conf' = conf
  <2>1. CASE status = "PREPARING"
    <3>1. start_preroll /\ status' \in {"PREPARING", "ERROR"} /\ start' \in Nat
      BY <1>4, <2>1 DEF start_prepare
    <3>2. blocked' \in BOOLEAN /\ target_state' \in States /\ state' \in States /\ coming' \in Messages
      BY <3>1 DEF start_preroll, Blocks, States, Messages
    <3>3. status' \in Status
      BY <3>1 DEF Status
    <3> QED BY <1>0, <1>4, <3>1, <3>2, <3>3 DEF start_prepare
  <2>2. CASE status # "PREPARING"
    <3>1. UNCHANGED <<status, blocked, target_state, state, coming>> /\ start' \in Nat
      BY <1>4, <2>2 DEF start_prepare
    <3> QED BY <1>0, <1>4, <3>1 DEF start_prepare
  <2> QED BY <2>1, <2>2
<1>5. ASSUME NEW t \in Thread, StateNull(t) PROVE TypeOK' /\ conf' = conf
  BY <1>0, <1>5 DEF StateNull, Goto, PCs, Stopping, States, mediaVars
<1>6. ASSUME NEW t \in Thread, Unprepared(t) PROVE TypeOK' /\ conf' = conf
  BY <1>0, <1>6, ReturnTypes DEF Unprepared, Status, Finishing
<1>7. ASSUME handle_message PROVE TypeOK' /\ conf' = conf
  <2>0. /\ conf' = conf /\ bus' = Tail(bus) /\ bus # <<>>
        /\ status' = "PREPARED" \/ status' = status
        /\ expected_async_done' = FALSE \/ expected_async_done' = expected_async_done
    BY <1>7 DEF handle_message
  <2>1. /\ conf' = conf /\ bus' \in Seq(Messages) /\ status' \in Status
        /\ expected_async_done' \in BOOLEAN
    BY <2>0, QueueTypes DEF Status
  <2>2. finish_unprepare(Bus, 1) \/ UNCHANGED <<finishing_unprepare, slock, pc, op, glock>>
    BY <1>7 DEF handle_message
  <2>3. /\ pc' \in [Thread -> PCs] /\ op' \in [Thread -> Ops]
        /\ glock' \in Users \cup {NoThread} /\ slock' \in Thread \cup {NoThread}
        /\ finishing_unprepare' \in BOOLEAN
    BY <2>2, FinishTypes
  <2> QED BY <1>0, <1>7, <2>1, <2>3 DEF handle_message
<1>8. ASSUME ErrorMessage PROVE TypeOK' /\ conf' = conf
  BY <1>0, <1>8 DEF ErrorMessage, Status, threadVars
<1>9. ASSUME BufferingMessage PROVE TypeOK' /\ conf' = conf
  BY <1>0, <1>9 DEF BufferingMessage, States, threadVars
<1>10. ASSUME Post PROVE TypeOK' /\ conf' = conf
  BY <1>0, <1>10 DEF Post, mediaVars, threadVars
<1>11. ASSUME PadAdded \/ pad_added_cb PROVE TypeOK' /\ conf' = conf
  BY <1>0, <1>11 DEF PadAdded, pad_added_cb, mediaVars
<1>12. ASSUME NEW u \in Users, describe(u) \/ setup(u) PROVE TypeOK' /\ conf' = conf
  <2>1. /\ status' \in Status /\ target_state' \in States /\ state' \in States
        /\ coming' \in Messages \cup {"no"} /\ bus' \in Seq(Messages)
        /\ expected_async_done' \in BOOLEAN
    <3>1. suspend
      BY <1>12 DEF describe, setup
    <3>2. CASE suspends
      <4>1. conf \in Configuration
        BY MediaAssumption
      <4>2. status' = "SUSPENDED" /\ default_suspend
        BY <3>1, <3>2 DEF suspend, default_suspend
      <4>3. conf.suspend_mode \in {"none", "pause", "reset"}
        BY <4>1 DEF Configuration
      <4>4. /\ conf.suspend_mode = "none" =>
                 UNCHANGED <<target_state, state, coming, bus, expected_async_done>>
            /\ conf.suspend_mode = "pause" =>
                 /\ target_state' = "PAUSED" /\ state' = "PAUSED" /\ UNCHANGED <<coming, bus>>
                 /\ expected_async_done' = (expected_async_done /\ coming = "async_done")
            /\ conf.suspend_mode = "reset" =>
                 /\ target_state' = "NULL" /\ state' = "NULL" /\ coming' = "no" /\ bus' = <<>>
                 /\ expected_async_done' = FALSE
        BY <4>2, <4>3 DEF default_suspend
      <4>5. status' \in Status
        BY <4>2 DEF Status
      <4>6. (expected_async_done /\ coming = "async_done") \in BOOLEAN
        OBVIOUS
      <4>7. target_state' \in States /\ state' \in States /\ coming' \in {coming, "no"}
        BY <4>3, <4>4 DEF States
      <4>8. bus' \in Seq(Messages)
        BY <4>3, <4>4, QueueTypes
      <4>9. expected_async_done' \in BOOLEAN
        BY <4>3, <4>4, <4>6
      <4> QED BY <4>5, <4>7, <4>8, <4>9
    <3> QED BY <3>1, <3>2 DEF suspend
  <2> QED BY <1>0, <1>12, <2>1 DEF describe, setup, Goto, UnlockMedia, PCs, Resting
<1>13. ASSUME NEW u \in Users, play(u) PROVE TypeOK' /\ conf' = conf
  BY <1>0, <1>13 DEF play, Goto, PCs, Starting, Ops, mediaVars
<1>14. ASSUME NEW u \in Users, unsuspend(u) PROVE TypeOK' /\ conf' = conf
  <2>1. \E l \in Starting : Goto(u, l)
    BY <1>14 DEF unsuspend, Starting
  <2>2. pc' \in [Thread -> PCs]
    BY <2>1 DEF Goto, PCs
  <2>3. \/ start_preroll /\ status' \in {"PREPARING", "ERROR"}
        \/ status' \in {status, "PREPARED"} /\ UNCHANGED <<blocked, target_state, state, coming>>
    BY <1>14 DEF unsuspend
  <2>4. /\ blocked' \in BOOLEAN /\ target_state' \in States /\ state' \in States
        /\ coming' \in Messages \cup {"no"}
    BY <2>3 DEF start_preroll, Blocks, States, Messages
  <2>5. status' \in Status
    BY <2>3 DEF Status
  <2> QED BY <1>0, <1>14, <2>2, <2>4, <2>5 DEF unsuspend
<1>15. ASSUME NEW u \in Users, Unsuspended(u) \/ UnsuspendDone(u) PROVE TypeOK' /\ conf' = conf
  BY <1>0, <1>15 DEF Unsuspended, UnsuspendDone, Refused, Goto, UnlockMedia, PCs, Resting, Starting, Ops, Status, mediaVars
<1>16. ASSUME NEW u \in Users, PlayMode(u) \/ SeekFirstDone(u) PROVE TypeOK' /\ conf' = conf
  BY <1>0, <1>16 DEF PlayMode, SeekFirstDone, Refused, Goto, UnlockMedia, PCs, Resting, Starting, Setting, Ops, mediaVars
<1>17. ASSUME NEW u \in Users, seek(u) PROVE TypeOK' /\ conf' = conf
  BY <1>0, <1>17 DEF seek, Goto, PCs, Starting, Status, Messages
<1>18. ASSUME NEW u \in Users, SetStateWait(u) PROVE TypeOK' /\ conf' = conf
  BY <1>0, <1>18 DEF SetStateWait, Goto, PCs, Setting, mediaVars
<1>19. ASSUME NEW u \in Users, SetStateRefused(u) PROVE TypeOK' /\ conf' = conf
  BY <1>0, <1>19, ReturnTypes DEF SetStateRefused, mediaVars
<1>20. ASSUME NEW u \in Users, set_state(u) PROVE TypeOK' /\ conf' = conf
  <2> DEFINE s == Requested(u)
             follows == do_state(u, s) /\ target_state # s
  <2>1. /\ conf' = conf /\ n_active' \in Int /\ active' \subseteq Users /\ blocked' \in BOOLEAN
        /\ UNCHANGED <<reused, buffering, source, start, pad>>
    <3>1. /\ conf' = conf /\ n_active' = ActiveAfter(u, s)
          /\ active' \in {active, active \cup {u}, active \ {u}} /\ blocked' \in {FALSE, blocked}
          /\ UNCHANGED <<reused, buffering, source, start, pad>>
      BY <1>20 DEF set_state
    <3>2. ActiveAfter(u, s) \in {n_active + 1, n_active - 1, n_active}
      BY DEF ActiveAfter
    <3>3. n_active' \in Int
      BY <3>1, <3>2
    <3>4. active' \subseteq Users
      BY <3>1
    <3>5. blocked' \in BOOLEAN
      BY <3>1
    <3> QED BY <3>1, <3>3, <3>4, <3>5
  <2>2. CASE follows /\ s = "NULL"
    <3>1. unprepare(u, 2) /\ expected_async_done' = FALSE /\ UNCHANGED bus
      BY <1>20, <2>2 DEF set_state
    <3> QED BY <1>0, <2>1, <3>1, UnprepareTypes
  <2>3. CASE follows /\ s # "NULL"
    <3>1. /\ SetPlaying \/ SetPaused
          /\ Return(u) /\ UNCHANGED <<prepare_count, finishing_unprepare, slock, using>>
      BY <1>20, <2>3 DEF set_state
    <3>2. /\ status' \in Status /\ target_state' \in States /\ state' \in States
          /\ coming' \in Messages \cup {"no"} /\ bus' \in Seq(Messages)
          /\ expected_async_done' \in BOOLEAN
      <4>1. CASE SetPlaying
        BY <4>1 DEF SetPlaying, States, Messages
      <4>2. CASE SetPaused
        <5>1. status' \in {status, "SUSPENDED"} /\ target_state' \in {"NULL", "PAUSED"}
          BY <4>2 DEF SetPaused
        <5>2. state' \in {state, "NULL", "PAUSED"} /\ bus' \in {bus, <<>>}
          BY <4>2 DEF SetPaused
        <5>3. coming' \in {coming, "no", "async_done"}
          BY <4>2 DEF SetPaused
        <5>4. expected_async_done' \in BOOLEAN
          BY <4>2 DEF SetPaused
        <5>5. status' \in Status /\ target_state' \in States /\ state' \in States
          BY <5>1, <5>2 DEF States, Status
        <5>6. coming' \in Messages \cup {"no"}
          BY <5>3 DEF Messages
        <5>7. bus' \in Seq(Messages)
          BY <5>2, QueueTypes
        <5> QED BY <5>4, <5>5, <5>6, <5>7
      <4> QED BY <3>1, <4>1, <4>2
    <3> QED BY <1>0, <2>1, <3>1, <3>2, ReturnTypes
  <2>4. CASE ~follows
    <3>1. /\ Return(u)
          /\ UNCHANGED <<status, prepare_count, target_state, finishing_unprepare,
                         expected_async_done, state, coming, bus, slock, using>>
      BY <1>20, <2>4 DEF set_state
    <3> QED BY <1>0, <2>1, <3>1, ReturnTypes
  <2> QED BY <2>2, <2>3, <2>4
<1>21. ASSUME NEW u \in Users, Unprepare(u) PROVE TypeOK' /\ conf' = conf
  BY <1>0, <1>21, UnprepareTypes DEF Unprepare
<1>22. ASSUME NEW u \in Users, pause(u) \/ teardown(u) \/ close(u) \/ clean_cached_media(u)
       PROVE TypeOK' /\ conf' = conf
  <2>1. /\ glock' \in Users \cup {NoThread}
        /\ \E o \in Ops, l \in PCs : Begin(u, o, l)
    BY <1>22 DEF pause, teardown, close, clean_cached_media, Ops, PCs, Setting
  <2> QED BY <1>0, <2>1 DEF Begin, Goto, mediaVars
<1> QED BY <1>1, <1>2, <1>3, <1>4, <1>5, <1>6, <1>7, <1>8, <1>9, <1>10, <1>11, <1>12, <1>13, <1>14, <1>15,
           <1>16, <1>17, <1>18, <1>19, <1>20, <1>21, <1>22 DEF Next, Continue, Request, BusNext

-----------------------------------------------------------------------------
\* Who uses the media, and how it is counted.

BaseInv == TypeOK /\ Counting(conf) /\ Base

\* The configuration is a record of its fields.
LEMMA Fields ==
    TypeOK => /\ conf \in Configuration
              /\ conf.reusable \in BOOLEAN /\ conf.eos_shutdown \in BOOLEAN /\ conf.closes \in BOOLEAN
              /\ conf.faults \in BOOLEAN /\ conf.replays \in BOOLEAN /\ conf.live \in BOOLEAN
              /\ conf.suspend_mode \in {"none", "pause", "reset"}
<1>1. ASSUME TypeOK PROVE conf \in Configuration
  <2>1. conf \in Confs
    BY <1>1 DEF TypeOK
  <2> QED BY <2>1, MediaAssumption
<1> QED BY <1>1 DEF Configuration

Waits == {"preparing", "unsuspending", "seekfirst", "seeking"}

\* While somebody uses the media it is not being shut down; and only one user,
\* who holds the media lock, waits for it to be prepared.
LEMMA UserFacts ==
    ASSUME BaseInv, NEW u \in Users, u \in using
    PROVE  /\ ~finishing_unprepare /\ status \notin {"UNPREPARED", "UNPREPARING"}
           /\ prepare_count = Cardinality(using) /\ pc[u] # "idle"
           /\ pc[u] \notin Stopping
           /\ \A v \in Users : ~Gone(v)
           /\ \A t \in Thread : pc[t] \notin Stopping
<1>1. using # {}
  OBVIOUS
<1>2. ~finishing_unprepare /\ status \notin {"UNPREPARED", "UNPREPARING"} /\ prepare_count = Cardinality(using)
  BY <1>1 DEF BaseInv, Base, StopInv, StatusInv, CountInv
<1>3. \A t \in Thread : pc[t] \notin Stopping
  BY <1>2 DEF BaseInv, Base, StopInv
<1>4. pc[u] # "idle"
  BY DEF BaseInv, Base, UsersInv, UserOk
<1>5. \A v \in Users : ~Gone(v)
  BY <1>1 DEF BaseInv, Base, GoneInv
<1> QED BY <1>2, <1>3, <1>4, <1>5, ThreadsAre

\* A media that prepares has one user that waits for it, with the media lock.
LEMMA OneWaits ==
    ASSUME BaseInv, status = "PREPARING"
    PROVE  \E w \in Users : glock = w /\ pc[w] \in Waits /\ w \in using
<1>1. PICK w \in Users : glock = w /\ pc[w] \in Waits
  BY DEF BaseInv, Base, StatusInv, Waits
<1>2. Asking(w)
  BY <1>1 DEF Asking, Waits, Starting
<1> QED BY <1>1, <1>2 DEF BaseInv, Base, UsersInv, UserOk

\* Only the media lock and the place of one user change.
Moves(u) ==
    /\ \A v \in Users \ {u} : pc'[v] = pc[v] /\ op'[v] = op[v] /\ (v \in using' <=> v \in using)
    /\ conf' = conf
    /\ glock' # glock => glock \in {u, NoThread} /\ glock' \in {u, NoThread}
    /\ using' \subseteq Users

\* What one user does leaves the others as they are.
LEMMA OthersStay ==
    ASSUME BaseInv, NEW u \in Users, Moves(u), UserOk(u)',
           Gone(u)' => Gone(u) \/ (u \in using /\ using' = {}),
           u \in using' => u \in using \/ \A v \in Users : ~Gone(v)
    PROVE  UsersInv' /\ GoneInv'
<1>1. ASSUME NEW v \in Users, v # u PROVE UserOk(v)'
  <2>1. UserOk(v)
    BY DEF BaseInv, Base, UsersInv
  <2>2. glock = v => glock' = v
    BY <1>1, MediaAssumption DEF Moves
  <2>3. pc'[v] = pc[v] /\ op'[v] = op[v] /\ (v \in using' <=> v \in using) /\ conf' = conf
    BY <1>1 DEF Moves
  <2> QED BY <2>1, <2>2, <2>3 DEF UserOk, OpOk, Asking, Gone
<1>2. \A v \in Users \ {u} : Gone(v)' <=> Gone(v)
  BY DEF Moves, Gone
<1>3. GoneInv
  BY DEF BaseInv, Base
<1>4. ASSUME NEW v \in Users, Gone(v)' PROVE using' = {} /\ \A w \in Users : Gone(w)' => w = v
  <2>1. CASE v = u /\ Gone(u)
    <3>1. using = {} /\ \A w \in Users : Gone(w) => w = u
      BY <1>3, <2>1 DEF GoneInv
    <3>2. u \notin using'
      BY <1>4, <2>1 DEF Gone
    <3>3. using' = {}
      BY <3>1, <3>2 DEF Moves
    <3> QED BY <1>2, <2>1, <3>1, <3>3
  <2>2. CASE v = u /\ ~Gone(u)
    <3>1. u \in using /\ using' = {}
      BY <1>4, <2>2
    <3>2. \A w \in Users : ~Gone(w)
      BY <1>3, <3>1 DEF GoneInv
    <3> QED BY <1>2, <2>2, <3>1, <3>2
  <2>3. CASE v # u
    <3>1. Gone(v)
      BY <1>2, <1>4, <2>3
    <3>2. using = {} /\ \A w \in Users : Gone(w) => w = v
      BY <1>3, <3>1 DEF GoneInv
    <3>3. u \notin using'
      BY <3>1, <3>2
    <3>4. using' = {}
      BY <3>2, <3>3 DEF Moves
    <3>5. ~Gone(u)'
      BY <2>3, <3>2
    <3> QED BY <1>2, <3>2, <3>4, <3>5
  <2> QED BY <2>1, <2>2, <2>3
<1> QED BY <1>1, <1>4 DEF UsersInv, GoneInv, Moves

\* A step of a request that neither comes nor goes.
LEMMA Walk ==
    ASSUME BaseInv, NEW u \in Users,
           pc[u] \notin Stopping \cup {"idle"}, pc'[u] \notin Stopping \cup {"idle"},
           pc' = [pc EXCEPT ![u] = pc'[u]], op' = [op EXCEPT ![u] = op'[u]], conf' = conf,
           glock' # glock => glock \in {u, NoThread} /\ glock' \in {u, NoThread},
           UNCHANGED <<using, finishing_unprepare, source, reused, prepare_count>>, UserOk(u)',
           status' # status => u \in using /\ status' \in {"PREPARING", "PREPARED", "SUSPENDED", "ERROR"},
           status' # status /\ status' = "ERROR" => conf.faults,
           status' = "PREPARING" => \/ status = "PREPARING" /\ pc[u] \notin Waits
                                    \/ glock' = u /\ pc'[u] \in Waits
    PROVE  Base'
<1> USE ThreadsAre
<1>0. TypeOK /\ Base /\ pc \in [Thread -> PCs] /\ op \in [Thread -> Ops] /\ using \subseteq Users /\ u # Bus
  BY TypeParts, MediaAssumption DEF BaseInv, TypesOf
<1>1. \A t \in Thread \ {u} : pc'[t] = pc[t] /\ op'[t] = op[t]
  BY <1>0
<1>2. UsersInv' /\ GoneInv'
  <2>1. Moves(u)
    BY <1>0, <1>1 DEF Moves
  <2>2. Gone(u)' => Gone(u)
    BY DEF Gone
  <2> QED BY <2>1, <2>2, OthersStay
<1>3. \A t \in Thread : pc'[t] \in Stopping <=> pc[t] \in Stopping
  BY <1>1
<1>4. u \in using => ~finishing_unprepare
  BY UserFacts
<1>5. StopInv'
  <2>1. status' # "UNPREPARING" \/ status' = status
    OBVIOUS
  <2>2. finishing_unprepare => status' = status
    BY <1>4
  <2> QED BY <1>0, <1>1, <1>3, <2>1, <2>2 DEF Base, StopInv
<1>6. StatusInv'
  <2>1. using # {} => status' \notin {"UNPREPARED", "UNPREPARING"}
    BY <1>0 DEF Base, StatusInv
  <2>2. using = {} => status' = status
    OBVIOUS
  <2>3. status' = "UNPREPARED" => status = "UNPREPARED"
    OBVIOUS
  <2>4. ASSUME status' = "PREPARING"
        PROVE  \E w \in Users : glock' = w /\ pc'[w] \in Waits
    <3>1. CASE glock' = u /\ pc'[u] \in Waits
      BY <3>1
    <3>2. CASE status = "PREPARING" /\ pc[u] \notin Waits
      <4>1. PICK w \in Users : glock = w /\ pc[w] \in Waits
        BY <3>2, OneWaits
      <4>2. w # u /\ glock' = w
        BY <3>2, <4>1, MediaAssumption
      <4> QED BY <1>1, <4>1, <4>2
    <3> QED BY <2>4, <3>1, <3>2
  <2>5. ~conf.faults => status' # "ERROR"
    BY <1>0 DEF Base, StatusInv
  <2>6. ~(status' = "UNPREPARED" /\ ~reused)
    BY <1>0, <2>3 DEF Base, StatusInv
  <2> QED BY <1>0, <2>1, <2>2, <2>3, <2>4, <2>5, <2>6 DEF Base, StatusInv, Waits
<1>7. CountInv'
  BY <1>0, <1>6 DEF Base, CountInv, StatusInv
<1> QED BY <1>2, <1>5, <1>6, <1>7 DEF Base

\* A step that moves nobody.
LEMMA Still ==
    ASSUME BaseInv, UNCHANGED <<conf, pc, op, glock, using, prepare_count, finishing_unprepare, source, reused,
                                n_active, active>>,
           \/ status' = status
           \/ status = "PREPARING" /\ status' = "PREPARED"
           \/ status' = "ERROR" /\ conf.faults /\ (status = "PREPARING" \/ source)
    PROVE  Base'
<1>1. UsersInv' /\ GoneInv'
  <2>1. UsersInv /\ GoneInv
    BY DEF BaseInv, Base
  <2> QED BY <2>1 DEF UsersInv, UserOk, OpOk, Asking, Gone, GoneInv
<1>2. status = "UNPREPARED" => status' = status
  BY DEF BaseInv, Base, StatusInv
<1>3. status = "PREPARING" => using # {} /\ ~finishing_unprepare
  BY OneWaits, UserFacts
<1>4. conf.eos_shutdown => ~conf.faults
  BY Fields DEF BaseInv, Counting
<1>5. StopInv'
  <2>1. StopInv
    BY DEF BaseInv, Base
  <2>2. finishing_unprepare => status' \in {"UNPREPARING", "ERROR"}
    BY <1>3, <2>1 DEF StopInv
  <2> QED BY <2>1, <2>2 DEF StopInv
<1>6. StatusInv'
  <2>1. StatusInv /\ StopInv
    BY DEF BaseInv, Base
  <2>2. using = {} => status' \in {"UNPREPARED", "UNPREPARING"} \/ finishing_unprepare
    BY <1>2, <1>3, <1>4, <2>1 DEF StatusInv, StopInv
  <2> QED BY <1>2, <2>1, <2>2 DEF StatusInv
<1>7. CountInv'
  <2>1. CountInv
    BY DEF BaseInv, Base
  <2> QED BY <1>2, <2>1 DEF CountInv
<1> QED BY <1>1, <1>5, <1>6, <1>7 DEF Base

\* Goto moves one thread.
LEMMA GotoIs ==
    ASSUME TypeOK, NEW t \in Thread, NEW l, Goto(t, l)
    PROVE  pc'[t] = l /\ pc' = [pc EXCEPT ![t] = pc'[t]]
<1>1. pc \in [Thread -> PCs]
  BY TypeParts DEF TypesOf
<1> QED BY <1>1 DEF Goto

\* A change of op concerns one thread.
LEMMA OpIs ==
    ASSUME TypeOK, NEW t \in Thread
    PROVE  /\ op' = op => op'[t] = op[t] /\ op' = [op EXCEPT ![t] = op'[t]]
           /\ \A o : op' = [op EXCEPT ![t] = o] => op'[t] = o /\ op' = [op EXCEPT ![t] = op'[t]]
<1>1. op \in [Thread -> Ops]
  BY TypeParts DEF TypesOf
<1> QED BY <1>1

\* Where a user goes when its PLAY is refused.
LEMMA RefusedIs ==
    ASSUME TypeOK, NEW u \in Users, Refused(u)
    PROVE  /\ pc'[u] = IF op[u] = "replay" THEN "playing" ELSE "ready"
           /\ pc' = [pc EXCEPT ![u] = pc'[u]]
           /\ op'[u] = "none" /\ op' = [op EXCEPT ![u] = op'[u]]
           /\ glock' = IF glock = u THEN NoThread ELSE glock
  BY GotoIs, OpIs, ThreadsAre DEF Refused, UnlockMedia

\* PLAY, up to the state change.
LEMMA PlayWalks ==
    ASSUME BaseInv, NEW u \in Users,
           \/ PrepareDone(u) \/ play(u) \/ UnsuspendDone(u) \/ PlayMode(u) \/ SeekFirstDone(u)
    PROVE  Base'
<1> USE ThreadsAre
<1>0. TypeOK /\ UserOk(u)
  BY DEF BaseInv, Base, UsersInv
<1>1. CASE PrepareDone(u)
  <2>1. /\ pc[u] = "preparing" /\ status # "PREPARING"
        /\ \/ Goto(u, "unprepare") /\ op' = [op EXCEPT ![u] = "unprepare"]
           \/ Goto(u, "described") /\ op' = op
        /\ UNCHANGED <<mediaVars, glock, using>>
    BY <1>1 DEF PrepareDone, StatusKnown
  <2>2. pc' = [pc EXCEPT ![u] = pc'[u]] /\ op' = [op EXCEPT ![u] = op'[u]]
    BY <1>0, <2>1, GotoIs, OpIs
  <2>3. (pc'[u] = "unprepare" /\ op'[u] = "unprepare") \/ (pc'[u] = "described" /\ op'[u] = op[u])
    BY <1>0, <2>1, GotoIs, OpIs
  <2>4. UserOk(u)'
    BY <1>0, <2>1, <2>3 DEF UserOk, OpOk, Asking, Gone, Resting, Starting, Setting, Stopping, mediaVars
  <2> QED BY <1>0, <2>1, <2>2, <2>3, <2>4, Walk DEF mediaVars, Stopping
<1>2. CASE play(u)
  <2>1. /\ pc[u] \in {"ready", "playing"} /\ glock = NoThread /\ glock' = u
        /\ pc[u] = "playing" => conf.replays
        /\ Goto(u, "play") /\ op' = [op EXCEPT ![u] = IF pc[u] = "ready" THEN "play" ELSE "replay"]
        /\ UNCHANGED <<mediaVars, using>>
    BY <1>2 DEF play
  <2>2. /\ pc' = [pc EXCEPT ![u] = pc'[u]] /\ op' = [op EXCEPT ![u] = op'[u]]
        /\ pc'[u] = "play" /\ op'[u] = IF pc[u] = "ready" THEN "play" ELSE "replay"
    BY <1>0, <2>1, GotoIs, OpIs
  <2>3. status # "PREPARING"
    BY <2>1, OneWaits, MediaAssumption
  <2>4. UserOk(u)'
    BY <1>0, <2>1, <2>2 DEF UserOk, OpOk, Asking, Gone, Resting, Starting, Setting, Stopping, mediaVars
  <2> QED BY <1>0, <2>1, <2>2, <2>3, <2>4, Walk DEF mediaVars, Stopping
<1>3. CASE UnsuspendDone(u) \/ PlayMode(u) \/ SeekFirstDone(u)
  <2>1. /\ pc[u] \in {"unsuspending", "seek", "seeking", "seekfirst"} /\ status # "PREPARING"
        /\ \/ Refused(u)
           \/ (\E l \in {"seek", "setstate", "seekagain"} : Goto(u, l)) /\ op' = op /\ glock' = glock
        /\ UNCHANGED <<mediaVars, using>>
    BY <1>3 DEF UnsuspendDone, PlayMode, SeekFirstDone, StatusKnown
  <2>2. glock = u /\ u \in using /\ op[u] \in {"play", "replay"}
    BY <1>0, <2>1 DEF UserOk, OpOk, Asking, Resting, Starting, Setting, Stopping
  <2>3. CASE Refused(u)
    <3>1. UserOk(u)'
      BY <1>0, <2>1, <2>2, <2>3, RefusedIs DEF UserOk, OpOk, Asking, Gone, Resting, Starting, Setting, Stopping, mediaVars
    <3> QED BY <1>0, <2>1, <2>2, <2>3, <3>1, RefusedIs, Walk DEF mediaVars, Stopping
  <2>4. CASE ~Refused(u)
    <3>1. PICK l \in {"seek", "setstate", "seekagain"} : Goto(u, l)
      BY <2>1, <2>4
    <3>2. /\ pc' = [pc EXCEPT ![u] = pc'[u]] /\ op' = [op EXCEPT ![u] = op'[u]]
          /\ pc'[u] = l /\ op'[u] = op[u]
      BY <1>0, <2>1, <2>4, <3>1, GotoIs, OpIs
    <3>3. UserOk(u)'
      BY <1>0, <2>1, <2>2, <2>4, <3>2 DEF UserOk, OpOk, Asking, Gone, Resting, Starting, Setting, Stopping, mediaVars
    <3> QED BY <1>0, <2>1, <2>4, <3>2, <3>3, Walk DEF mediaVars, Stopping
  <2> QED BY <2>3, <2>4
<1> QED BY <1>1, <1>2, <1>3

\* A request that suspends the media or prepares it again.
LEMMA SuspendWalks ==
    ASSUME BaseInv, NEW u \in Users,
           describe(u) \/ setup(u) \/ unsuspend(u) \/ Unsuspended(u) \/ seek(u)
    PROVE  Base'
<1> USE ThreadsAre
<1>0. TypeOK /\ UserOk(u)
  BY DEF BaseInv, Base, UsersInv
<1>1. CASE describe(u) \/ setup(u)
  <2>1. /\ pc[u] \in {"described", "cached"} /\ glock' \in {glock, NoThread}
        /\ glock \in {u, NoThread} \/ glock' = glock
        /\ \E l \in {"cached", "ready"} : Goto(u, l)
        /\ status' # status => status' = "SUSPENDED"
        /\ UNCHANGED <<conf, prepare_count, reused, finishing_unprepare, source, using, op>>
    <3>1. /\ suspend /\ UNCHANGED <<conf, prepare_count, reused, finishing_unprepare, source, using, op>>
          /\ pc[u] = "described" \/ (pc[u] = "cached" /\ glock = NoThread)
          /\ \/ Goto(u, "cached") /\ glock' \in {glock, NoThread}
             \/ Goto(u, "ready") /\ glock' = NoThread
      BY <1>1 DEF describe, setup, UnlockMedia
    <3>2. status' # status => status' = "SUSPENDED"
      BY <3>1 DEF suspend, default_suspend
    <3>3. pc[u] = "described" => glock = u
      BY <1>0 DEF UserOk, Asking
    <3> QED BY <3>1, <3>2, <3>3
  <2>2. PICK l \in {"cached", "ready"} : Goto(u, l)
    BY <2>1
  <2>3. /\ pc' = [pc EXCEPT ![u] = pc'[u]] /\ op' = [op EXCEPT ![u] = op'[u]]
        /\ pc'[u] = l /\ op'[u] = op[u]
    BY <1>0, <2>1, <2>2, GotoIs, OpIs
  <2>4. u \in using
    BY <1>0, <2>1 DEF UserOk, Asking
  <2>5. UserOk(u)'
    BY <1>0, <2>1, <2>3, <2>4 DEF UserOk, OpOk, Asking, Gone, Resting, Starting, Setting, Stopping
  <2> QED BY <1>0, <2>1, <2>3, <2>4, <2>5, Walk DEF Stopping, Waits
<1>2. CASE unsuspend(u)
  <2>1. /\ pc[u] = "play" /\ glock' = glock
        /\ \/ Goto(u, "seek") /\ status' \in {status, "PREPARED"}
           \/ Goto(u, "unsuspend") /\ status' = status
           \/ Goto(u, "unsuspending") /\ status' = "PREPARING"
           \/ Goto(u, "unsuspending") /\ status' = "ERROR" /\ conf.faults
        /\ UNCHANGED <<conf, prepare_count, reused, finishing_unprepare, source, using, op>>
    BY <1>2 DEF unsuspend
  <2>2. PICK l \in {"seek", "unsuspend", "unsuspending"} :
          /\ Goto(u, l)
          /\ l # "unsuspending" => status' \in {status, "PREPARED"}
          /\ status' \in {"PREPARING", "ERROR"} => l = "unsuspending" \/ status' = status
          /\ l = "unsuspending" => status' = "PREPARING" \/ (status' = "ERROR" /\ conf.faults)
    BY <2>1
  <2>3. /\ pc' = [pc EXCEPT ![u] = pc'[u]] /\ op' = [op EXCEPT ![u] = op'[u]]
        /\ pc'[u] = l /\ op'[u] = op[u]
    BY <1>0, <2>1, <2>2, GotoIs, OpIs
  <2>4. u \in using /\ glock = u
    BY <1>0, <2>1 DEF UserOk, Asking, Starting
  <2>5. UserOk(u)'
    BY <1>0, <2>1, <2>3, <2>4 DEF UserOk, OpOk, Asking, Gone, Resting, Starting, Setting, Stopping
  <2> QED BY <1>0, <2>1, <2>2, <2>3, <2>4, <2>5, Walk DEF Stopping, Waits
<1>3. CASE Unsuspended(u)
  <2>1. /\ pc[u] = "unsuspend"
        /\ \/ status' = "PREPARED" /\ Goto(u, "seek") /\ op' = op /\ glock' = glock
           \/ status' = status /\ Refused(u)
        /\ UNCHANGED <<conf, prepare_count, reused, finishing_unprepare, source, using>>
    BY <1>3 DEF Unsuspended
  <2>2. glock = u /\ u \in using /\ op[u] \in {"play", "replay"}
    BY <1>0, <2>1 DEF UserOk, OpOk, Asking, Resting, Starting, Setting, Stopping
  <2>3. CASE Refused(u)
    <3>1. UserOk(u)'
      BY <1>0, <2>1, <2>2, <2>3, RefusedIs DEF UserOk, OpOk, Asking, Gone, Resting, Starting, Setting, Stopping
    <3> QED BY <1>0, <2>1, <2>2, <2>3, <3>1, RefusedIs, Walk DEF Stopping, Waits
  <2>4. CASE ~Refused(u)
    <3>1. /\ pc' = [pc EXCEPT ![u] = pc'[u]] /\ op' = [op EXCEPT ![u] = op'[u]]
          /\ pc'[u] = "seek" /\ op'[u] = op[u] /\ status' = "PREPARED" /\ glock' = glock
      BY <1>0, <2>1, <2>4, GotoIs, OpIs
    <3>2. UserOk(u)'
      BY <1>0, <2>1, <2>2, <3>1 DEF UserOk, OpOk, Asking, Gone, Resting, Starting, Setting, Stopping
    <3> QED BY <1>0, <2>1, <2>2, <3>1, <3>2, Walk DEF Stopping
  <2> QED BY <2>3, <2>4
<1>4. CASE seek(u)
  <2>1. /\ pc[u] \in {"seek", "seekagain"} /\ status' = "PREPARING" /\ glock' = glock
        /\ \E l \in {"seekfirst", "seeking"} : Goto(u, l)
        /\ UNCHANGED <<conf, prepare_count, reused, finishing_unprepare, source, using, op>>
    BY <1>4 DEF seek
  <2>2. PICK l \in {"seekfirst", "seeking"} : Goto(u, l)
    BY <2>1
  <2>3. /\ pc' = [pc EXCEPT ![u] = pc'[u]] /\ op' = [op EXCEPT ![u] = op'[u]]
        /\ pc'[u] = l /\ op'[u] = op[u]
    BY <1>0, <2>1, <2>2, GotoIs, OpIs
  <2>4. u \in using /\ glock = u
    BY <1>0, <2>1 DEF UserOk, Asking, Starting
  <2>5. UserOk(u)'
    BY <1>0, <2>1, <2>3, <2>4 DEF UserOk, OpOk, Asking, Gone, Resting, Starting, Setting, Stopping
  <2> QED BY <1>0, <2>1, <2>3, <2>4, <2>5, Walk DEF Stopping, Waits
<1> QED BY <1>1, <1>2, <1>3, <1>4

\* The beginning of PAUSE, TEARDOWN and a departure, and a state change that
\* waits or is refused.
LEMMA LeaveWalks ==
    ASSUME BaseInv, NEW u \in Users,
           \/ pause(u) \/ teardown(u) \/ close(u) \/ clean_cached_media(u)
           \/ SetStateWait(u) \/ SetStateRefused(u)
    PROVE  Base'
<1> USE ThreadsAre
<1>0. TypeOK /\ UserOk(u)
  BY DEF BaseInv, Base, UsersInv
<1>1. CASE pause(u) \/ teardown(u) \/ close(u) \/ clean_cached_media(u)
  <2>1. /\ pc[u] \in {"ready", "playing", "cached"}
        /\ (glock = NoThread /\ glock' = u) \/ glock' = glock
        /\ UNCHANGED <<mediaVars, using>>
        /\ \/ Goto(u, "setstate") /\ op' = [op EXCEPT ![u] = "pause"] /\ glock' = u
           \/ Goto(u, "setstate") /\ op' = [op EXCEPT ![u] = "release"] /\ (glock' = u \/ conf.closes)
           \/ Goto(u, "setstate") /\ op' = [op EXCEPT ![u] = "finalize"] /\ conf.closes
           \/ Goto(u, "unprepare") /\ op' = [op EXCEPT ![u] = "unprepare"]
    BY <1>1 DEF pause, teardown, close, clean_cached_media, Begin
  <2>2. /\ pc' = [pc EXCEPT ![u] = pc'[u]] /\ op' = [op EXCEPT ![u] = op'[u]]
        /\ \/ pc'[u] = "setstate" /\ op'[u] = "pause" /\ glock' = u
           \/ pc'[u] = "setstate" /\ op'[u] = "release" /\ (glock' = u \/ conf.closes)
           \/ pc'[u] = "setstate" /\ op'[u] = "finalize" /\ conf.closes
           \/ pc'[u] = "unprepare" /\ op'[u] = "unprepare"
    BY <1>0, <2>1, GotoIs, OpIs
  <2>3. u \in using
    BY <1>0, <2>1 DEF UserOk
  <2>4. UserOk(u)'
    BY <1>0, <2>1, <2>2, <2>3 DEF UserOk, OpOk, Asking, Gone, Resting, Starting, Setting, Stopping, mediaVars
  <2> QED BY <1>0, <2>1, <2>2, <2>3, <2>4, Walk DEF Stopping, mediaVars, Waits
<1>2. CASE SetStateWait(u)
  <2>1. /\ pc[u] \in {"setstate", "statewait"} /\ op' = op /\ glock' = glock
        /\ \E l \in {"statewait", "stategot"} : Goto(u, l)
        /\ UNCHANGED <<mediaVars, using>>
    BY <1>2 DEF SetStateWait
  <2>2. PICK l \in {"statewait", "stategot"} : Goto(u, l)
    BY <2>1
  <2>3. /\ pc' = [pc EXCEPT ![u] = pc'[u]] /\ op' = [op EXCEPT ![u] = op'[u]]
        /\ pc'[u] = l /\ op'[u] = op[u]
    BY <1>0, <2>1, <2>2, GotoIs, OpIs
  <2>4. UserOk(u)'
    BY <1>0, <2>1, <2>3 DEF UserOk, OpOk, Asking, Gone, Resting, Starting, Setting, Stopping, mediaVars
  <2> QED BY <1>0, <2>1, <2>3, <2>4, Walk DEF Stopping, mediaVars, Waits
<1>3. CASE SetStateRefused(u)
  <2>1. /\ pc[u] \in {"setstate", "stategot"} /\ Return(u) /\ UNCHANGED <<mediaVars, using>>
    BY <1>3 DEF SetStateRefused, CanSetState
  <2>2. op[u] \in {"play", "replay", "pause", "release", "finalize"}
    BY <1>0, <2>1 DEF UserOk, OpOk, Resting, Starting, Setting, Stopping
  <2>3. UserOk(u)'
    BY <1>0, <2>1, <2>2, ReturnGoes DEF UserOk, OpOk, Asking, Gone, Resting, Starting, Setting, Stopping, mediaVars
  <2>4. pc'[u] \in {"playing", "ready", "setstate", "unprepare"}
    BY <1>0, <2>1, <2>2, ReturnGoes
  <2> QED BY <1>0, <2>1, <2>2, <2>3, <2>4, ReturnGoes, Walk DEF Stopping, mediaVars, Waits
<1> QED BY <1>1, <1>2, <1>3

\* A thread that is shutting down stays, and nobody uses the media.
LEMMA StopFacts ==
    ASSUME BaseInv, NEW t \in Thread, pc[t] \in Stopping
    PROVE  /\ finishing_unprepare /\ using = {} /\ status \in {"UNPREPARING", "ERROR"}
           /\ \A s \in Thread : pc[s] \in Stopping => s = t
           /\ t = Bus => op[t] = "none"
           /\ t \in Users => op[t] \in {"release", "finalize", "unprepare"} /\ Gone(t)
<1>1. Base
  BY DEF BaseInv
<1>2. finishing_unprepare
  BY <1>1 DEF Base, StopInv
<1>3. using = {} /\ status \in {"UNPREPARING", "ERROR"}
  BY <1>1, <1>2 DEF Base, StopInv
<1>4. \A s \in Thread : pc[s] \in Stopping => s = t
  BY <1>1 DEF Base, StopInv
<1>5. t = Bus => op[t] = "none"
  BY <1>1 DEF Base, StopInv
<1>6. t \in Users => op[t] \in {"release", "finalize", "unprepare"} /\ Gone(t)
  BY <1>1, <1>3 DEF Base, UsersInv, UserOk, OpOk, Gone, Resting, Starting, Setting, Stopping
<1> QED BY <1>2, <1>3, <1>4, <1>5, <1>6

\* The pipeline and the bus.
LEMMA PipelineStays ==
    ASSUME BaseInv,
           \/ \E u \in Users : StatusTimeout(u)
           \/ start_prepare \/ ErrorMessage \/ BufferingMessage \/ Post \/ PadAdded \/ pad_added_cb
    PROVE  Base'
<1>1. CASE (\E u \in Users : StatusTimeout(u)) \/ start_prepare \/ ErrorMessage
  <2>1. UNCHANGED <<conf, pc, op, glock, using, prepare_count, finishing_unprepare, source, reused, n_active, active>>
    BY <1>1 DEF StatusTimeout, start_prepare, ErrorMessage, threadVars
  <2>2. \/ status' = status
        \/ status' = "ERROR" /\ conf.faults /\ (status = "PREPARING" \/ source)
    BY <1>1 DEF StatusTimeout, start_prepare, ErrorMessage
  <2> QED BY <2>1, <2>2, Still
<1>2. CASE BufferingMessage \/ Post \/ PadAdded \/ pad_added_cb
  <2>1. /\ UNCHANGED <<conf, pc, op, glock, using, prepare_count, finishing_unprepare, source, reused, n_active, active>>
        /\ status' = status
    BY <1>2 DEF BufferingMessage, Post, PadAdded, pad_added_cb, threadVars, mediaVars
  <2> QED BY <2>1, Still
<1> QED BY <1>1, <1>2

\* The bus dispatches a message; an EOS may begin the shutdown.
LEMMA MessageStays ==
    ASSUME BaseInv, handle_message
    PROVE  Base'
<1> USE ThreadsAre
<1>0. /\ TypeOK /\ Base /\ pc \in [Thread -> PCs] /\ op \in [Thread -> Ops] /\ pc[Bus] = "idle" /\ op[Bus] = "none"
      /\ glock # Bus /\ \A u \in Users : u # Bus
  BY TypeParts, MediaAssumption DEF BaseInv, TypesOf, handle_message, Base, StopInv
<1>1. /\ UNCHANGED <<conf, using, prepare_count, source, reused, n_active, active>>
      /\ status' = status \/ (status = "PREPARING" /\ status' = "PREPARED")
      /\ \/ UNCHANGED <<finishing_unprepare, pc, op, glock>>
         \/ status = "UNPREPARING" /\ status' = status /\ finish_unprepare(Bus, 1)
  BY DEF handle_message
<1>2. CASE UNCHANGED <<finishing_unprepare, pc, op, glock>>
  BY <1>1, <1>2, Still
<1>3. CASE finish_unprepare(Bus, 1) /\ finishing_unprepare
  <2>1. Return(Bus) /\ finishing_unprepare' = finishing_unprepare
    BY <1>3 DEF finish_unprepare
  <2>2. pc' = pc /\ op' = op /\ glock' = glock
    <3>1. pc'[Bus] = "idle" /\ op'[Bus] = "none" /\ glock' = glock
      BY <1>0, <2>1, ReturnGoes
    <3> QED BY <1>0, <2>1, <3>1, ReturnGoes
  <2> QED BY <1>1, <2>1, <2>2, Still
<1>4. CASE status = "UNPREPARING" /\ status' = status /\ finish_unprepare(Bus, 1) /\ ~finishing_unprepare
  <2>1. finishing_unprepare' = TRUE /\ Goto(Bus, "nulling") /\ op' = op /\ glock' = glock
    BY <1>4 DEF finish_unprepare
  <2>2. pc'[Bus] = "nulling" /\ \A t \in Thread \ {Bus} : pc'[t] = pc[t]
    BY <1>0, <2>1, GotoIs
  <2>3. \A u \in Users : pc'[u] = pc[u]
    BY <1>0, <2>2
  <2>4. using = {} /\ conf.eos_shutdown /\ \A t \in Thread : pc[t] \notin Stopping
    BY <1>0, <1>4 DEF Base, StopInv, StatusInv
  <2>5. UsersInv' /\ GoneInv'
    BY <1>0, <1>1, <2>1, <2>3 DEF Base, UsersInv, UserOk, OpOk, Asking, Gone, GoneInv
  <2>6. StopInv'
    BY <1>0, <1>1, <1>4, <2>1, <2>2, <2>4 DEF Base, StopInv, Stopping
  <2>7. StatusInv' /\ CountInv'
    BY <1>0, <1>1, <1>4, <2>1, <2>4 DEF Base, StatusInv, CountInv
  <2> QED BY <2>5, <2>6, <2>7 DEF Base
<1> QED BY <1>1, <1>2, <1>3, <1>4

\* The pipeline has stopped, and the shutdown ends.
LEMMA ShutdownStays ==
    ASSUME BaseInv, NEW t \in Thread, StateNull(t) \/ Unprepared(t)
    PROVE  Base'
<1> USE ThreadsAre
<1>0. /\ TypeOK /\ Base /\ pc \in [Thread -> PCs] /\ op \in [Thread -> Ops]
      /\ glock # Bus /\ \A u \in Users : u # Bus
  BY TypeParts, MediaAssumption DEF BaseInv, TypesOf
<1>1. pc[t] \in Stopping
  BY DEF StateNull, Unprepared, Stopping
<1>2. /\ finishing_unprepare /\ using = {} /\ status \in {"UNPREPARING", "ERROR"}
      /\ \A s \in Thread : pc[s] \in Stopping => s = t
      /\ t = Bus => op[t] = "none"
      /\ t \in Users => op[t] \in {"release", "finalize", "unprepare"} /\ Gone(t)
  BY <1>1, StopFacts
<1>3. CASE StateNull(t)
  <2>1. Goto(t, "nulled") /\ UNCHANGED <<mediaVars, glock, op, active, using>>
    BY <1>3 DEF StateNull
  <2>2. pc'[t] = "nulled" /\ pc[t] = "nulling" /\ \A s \in Thread \ {t} : pc'[s] = pc[s]
    BY <1>0, <1>3, <2>1, GotoIs DEF StateNull
  <2>3. \A s \in Thread : (pc'[s] \in Stopping <=> pc[s] \in Stopping) /\ (pc'[s] # pc[s] => s = t)
    BY <2>2 DEF Stopping
  <2>4. UsersInv' /\ GoneInv'
    BY <1>0, <2>1, <2>2, <2>3 DEF Base, UsersInv, UserOk, OpOk, Asking, Gone, GoneInv, mediaVars, Stopping, Resting,
                             Starting, Setting
  <2>5. StopInv'
    BY <1>0, <2>1, <2>2, <2>3 DEF Base, StopInv, mediaVars, Stopping
  <2>6. StatusInv' /\ CountInv'
    BY <1>0, <1>2, <2>1 DEF Base, StatusInv, CountInv, mediaVars
  <2> QED BY <2>4, <2>5, <2>6 DEF Base
<1>4. CASE Unprepared(t)
  <2>1. /\ Return(t) /\ status' = "UNPREPARED" /\ source' = FALSE /\ finishing_unprepare' = FALSE /\ reused' = TRUE
        /\ UNCHANGED <<conf, prepare_count, n_active, using>>
    BY <1>4 DEF Unprepared, Finishing
  <2>2. \A s \in Thread \ {t} : pc'[s] = pc[s] /\ op'[s] = op[s]
    BY <1>0, <2>1, ReturnGoes
  <2>3. /\ pc'[t] \notin Stopping /\ (t = Bus => pc'[t] = "idle" /\ op'[t] = "none" /\ glock' = glock)
        /\ glock' # glock => glock = t /\ glock' = NoThread
    BY <1>0, <1>2, <2>1, ReturnGoes DEF Stopping
  <2>4. UsersInv' /\ GoneInv'
    <3>1. CASE t = Bus
      BY <1>0, <2>1, <2>2, <2>3, <3>1 DEF Base, UsersInv, UserOk, OpOk, Asking, Gone, GoneInv
    <3>2. CASE t \in Users
      <4>1. UserOk(t) /\ Gone(t)
        BY <1>0, <1>2, <3>2 DEF Base, UsersInv
      <4>2. UserOk(t)'
        BY <1>0, <1>1, <1>2, <2>1, <3>2, <4>1, ReturnGoes DEF UserOk, OpOk, Asking, Gone, Resting, Starting, Setting, Stopping
      <4>3. Moves(t)
        <5>1. \A v \in Users \ {t} : pc'[v] = pc[v] /\ op'[v] = op[v]
          BY <2>2
        <5>2. using' = using /\ using \subseteq Users
          BY <2>1, <1>0, TypeParts DEF TypesOf
        <5> QED BY <2>1, <2>3, <5>1, <5>2 DEF Moves
      <4> QED BY <1>2, <2>1, <3>2, <4>1, <4>2, <4>3, OthersStay
    <3> QED BY <3>1, <3>2
  <2>5. StopInv'
    <3>1. \A s \in Thread : pc'[s] \notin Stopping
      BY <1>2, <2>2, <2>3
    <3>2. pc'[Bus] = "idle" /\ op'[Bus] = "none"
      BY <1>0, <1>2, <2>2, <2>3 DEF Base, StopInv
    <3> QED BY <2>1, <3>1, <3>2 DEF StopInv, Stopping
  <2>6. StatusInv' /\ CountInv'
    BY <1>0, <1>2, <2>1 DEF Base, StatusInv, CountInv
  <2> QED BY <2>4, <2>5, <2>6 DEF Base
<1> QED BY <1>3, <1>4


\* Nobody that has left the media is beside the thread that shuts it down, but
\* for the bus thread after an EOS.
LEMMA Alone ==
    ASSUME BaseInv, NEW u \in Users, pc[u] \notin Stopping \cup {"idle"}, u \notin using,
           finishing_unprepare
    PROVE  conf.eos_shutdown /\ status = "UNPREPARING"
<1> USE ThreadsAre
<1>0. Base
  BY DEF BaseInv
<1>1. PICK t \in Thread : pc[t] \in Stopping
  BY <1>0 DEF Base, StopInv
<1>2. t = Bus
  <2>1. ASSUME t \in Users PROVE FALSE
    <3>1. Gone(t) /\ Gone(u)
      BY <1>1, <2>1, StopFacts DEF Gone
    <3> QED BY <1>0, <1>1, <2>1, <3>1 DEF Base, GoneInv
  <2> QED BY <2>1
<1>3. conf.eos_shutdown
  BY <1>0, <1>1, <1>2 DEF Base, StopInv
<1>4. ~conf.faults
  BY <1>3, Fields DEF BaseInv, Counting
<1>5. status \in {"UNPREPARING", "ERROR"} /\ status # "ERROR"
  BY <1>0, <1>4 DEF Base, StopInv, StatusInv
<1> QED BY <1>3, <1>5

\* Whoever is at work on a media that is not being shut down uses it.
LEMMA AtWork ==
    ASSUME BaseInv, NEW u \in Users, pc[u] \notin Stopping \cup {"idle"},
           status \notin {"UNPREPARED", "UNPREPARING"}
    PROVE  u \in using /\ ~finishing_unprepare /\ prepare_count = Cardinality(using)
<1>1. u \in using
  <2>1. ASSUME u \notin using PROVE FALSE
    <3>1. ~finishing_unprepare
      BY <2>1, Alone
    <3>2. Gone(u)
      BY <2>1 DEF Gone
    <3>3. using = {}
      BY <3>2 DEF BaseInv, Base, GoneInv
    <3> QED BY <3>1, <3>3 DEF BaseInv, Base, StatusInv
  <2> QED BY <2>1
<1> QED BY <1>1, UserFacts

\* A user prepares the media.
LEMMA PrepareStays ==
    ASSUME BaseInv, NEW u \in Users, prepare(u)
    PROVE  Base'
<1> USE ThreadsAre
<1>0. /\ TypeOK /\ Base /\ pc \in [Thread -> PCs] /\ op \in [Thread -> Ops] /\ UserOk(u)
      /\ using \subseteq Users /\ prepare_count \in Int /\ u # Bus
  BY TypeParts, MediaAssumption DEF BaseInv, TypesOf, Base, UsersInv
<1>1. /\ pc[u] = "idle" /\ glock = NoThread /\ can_be_shared /\ status \in {"UNPREPARED", "PREPARING", "PREPARED", "SUSPENDED"}
      /\ glock' = u /\ prepare_count' = prepare_count + 1 /\ using' = using \cup {u}
      /\ UNCHANGED <<conf, reused, finishing_unprepare, op, n_active, active>>
      /\ Goto(u, IF status \in {"PREPARED", "SUSPENDED"} THEN "described" ELSE "preparing")
      /\ \/ status = "UNPREPARED" /\ status' = "PREPARING" /\ source' = TRUE
         \/ status # "UNPREPARED" /\ status' = status /\ source' = source
  BY DEF prepare, Counted
<1>2. status # "PREPARING"
  BY <1>1, OneWaits, MediaAssumption
<1>3. /\ pc'[u] = IF status \in {"PREPARED", "SUSPENDED"} THEN "described" ELSE "preparing"
      /\ \A t \in Thread \ {u} : pc'[t] = pc[t]
  BY <1>0, <1>1, GotoIs
<1>4. u \notin using /\ op[u] = "none"
  BY <1>0, <1>1 DEF UserOk, OpOk, Resting, Starting, Setting, Stopping
<1>5. ~finishing_unprepare /\ \A t \in Thread : pc[t] \notin Stopping
  BY <1>0, <1>1 DEF Base, StopInv
<1>6. ASSUME NEW v \in Users PROVE ~Gone(v)
  <2>1. ASSUME Gone(v) PROVE FALSE
    <3>1. using = {} /\ pc[v] # "idle"
      BY <1>0, <2>1 DEF Base, GoneInv, Gone
    <3>2. status = "UNPREPARED"
      BY <1>0, <1>1, <1>5, <3>1 DEF Base, StatusInv
    <3>3. ~conf.reusable
      BY <1>0, <1>1, <1>5, <2>1, MediaAssumption DEF Base, UsersInv, UserOk
    <3>4. ~reused
      BY <1>1, <3>3 DEF can_be_shared
    <3> QED BY <1>0, <3>1, <3>2, <3>4 DEF Base, StatusInv
  <2> QED BY <2>1
<1>7. UsersInv' /\ GoneInv'
  <2>1. UserOk(u)'
    BY <1>0, <1>1, <1>3, <1>4 DEF UserOk, OpOk, Asking, Gone, Resting, Starting, Setting, Stopping
  <2>2. Moves(u)
    BY <1>0, <1>1, <1>3 DEF Moves
  <2>3. ~Gone(u)'
    BY <1>1 DEF Gone
  <2> QED BY <1>6, <2>1, <2>2, <2>3, OthersStay
<1>8. StopInv'
  <2>1. \A t \in Thread : pc'[t] \notin Stopping
    BY <1>3, <1>5 DEF Stopping
  <2>2. pc'[Bus] = pc[Bus]
    BY <1>0, <1>3
  <2>3. status' # "UNPREPARING"
    BY <1>1
  <2> QED BY <1>0, <1>1, <1>5, <2>1, <2>2, <2>3 DEF Base, StopInv
<1>9. StatusInv'
  BY <1>0, <1>1, <1>2, <1>3 DEF Base, StatusInv
<1>10. CountInv'
  <2>1. prepare_count = Cardinality(using)
    <3>1. CASE using # {}
      BY <1>0, <3>1 DEF Base, CountInv
    <3>2. CASE using = {}
      <4>1. status = "UNPREPARED"
        BY <1>0, <1>1, <1>5, <3>2 DEF Base, StatusInv
      <4>2. conf.eos_shutdown => ~reused
        BY <1>1, Fields DEF BaseInv, Counting, can_be_shared
      <4>3. prepare_count = 0
        BY <1>0, <3>2, <4>1, <4>2 DEF Base, CountInv
      <4> QED BY <3>2, <4>3, FS_EmptySet
    <3> QED BY <3>1, <3>2
  <2>2. IsFiniteSet(using)
    BY <1>0, FS_Subset, MediaAssumption
  <2>3. Cardinality(using') = Cardinality(using) + 1
    BY <1>1, <1>4, <2>2, FS_AddElement
  <2> QED BY <1>1, <2>1, <2>3 DEF CountInv
<1> QED BY <1>7, <1>8, <1>9, <1>10 DEF Base

\* What a call to unprepare does.
LEMMA UnprepareIs ==
    ASSUME BaseInv, NEW u \in Users, NEW depth \in Nat, unprepare(u, depth),
           pc[u] \notin Stopping \cup {"idle"}, op[u] \in {"release", "finalize", "unprepare"},
           \/ pc[u] = "unprepare"
           \/ pc[u] \in Setting /\ status \notin {"UNPREPARED", "UNPREPARING"} /\ prepare_count <= 1
    PROVE  \/ /\ status = "UNPREPARED" /\ UNCHANGED <<status, prepare_count, using, finishing_unprepare>>
              /\ u \notin using /\ Return(u) /\ pc[u] = "unprepare"
           \/ /\ status = "UNPREPARING" /\ conf.eos_shutdown /\ using = {} /\ using' = {} /\ Return(u)
              /\ UNCHANGED <<status, finishing_unprepare>> /\ pc[u] = "unprepare"
           \/ /\ u \in using /\ using' = using \ {u} /\ using' # {} /\ prepare_count' = Cardinality(using')
              /\ UNCHANGED <<status, finishing_unprepare>> /\ Return(u) /\ pc[u] = "unprepare"
              /\ status \notin {"UNPREPARED", "UNPREPARING"}
           \/ /\ using = {u} /\ using' = {} /\ prepare_count' = 0 /\ status' = "UNPREPARING"
              /\ ~finishing_unprepare
              /\ \/ conf.eos_shutdown /\ Return(u) /\ ~finishing_unprepare'
                 \/ Goto(u, "nulling") /\ finishing_unprepare' = TRUE /\ UNCHANGED <<op, glock>>
<1> USE ThreadsAre
<1>0. TypeOK /\ Base /\ using \subseteq Users /\ IsFiniteSet(using) /\ prepare_count \in Int
  <2>1. TypeOK /\ Base /\ using \subseteq Users /\ prepare_count \in Int
    BY TypeParts DEF BaseInv, TypesOf
  <2> QED BY <2>1, FS_Subset, MediaAssumption
<1>1. CASE status = "UNPREPARED"
  <2>1. using = {}
    BY <1>0, <1>1 DEF Base, StatusInv
  <2>2. Return(u) /\ UNCHANGED <<status, prepare_count, finishing_unprepare>> /\ using' = using \ {u}
    BY <1>1 DEF unprepare
  <2> QED BY <1>1, <2>1, <2>2
<1>2. CASE status = "UNPREPARING"
  <2>1. using = {}
    BY <1>0, <1>2 DEF Base, StatusInv
  <2>2. conf.eos_shutdown
    <3>1. ASSUME ~conf.eos_shutdown PROVE FALSE
      <4>1. finishing_unprepare
        BY <1>0, <1>2, <3>1 DEF Base, StopInv
      <4> QED BY <2>1, <3>1, <4>1, Alone
    <3> QED BY <3>1
  <2>3. Return(u) /\ UNCHANGED <<status, finishing_unprepare>> /\ using' = using \ {u}
    BY <1>2 DEF unprepare
  <2> QED BY <1>2, <2>1, <2>2, <2>3
<1>3. CASE status \notin {"UNPREPARED", "UNPREPARING"}
  <2>1. u \in using /\ ~finishing_unprepare /\ prepare_count = Cardinality(using)
    BY <1>3, AtWork
  <2>2. using' = using \ {u} /\ prepare_count' = prepare_count - 1
    BY <1>3 DEF unprepare
  <2>3. Cardinality(using') = Cardinality(using) - 1 /\ IsFiniteSet(using')
    BY <1>0, <2>1, <2>2, FS_RemoveElement
  <2>4. using' = {} <=> Cardinality(using') = 0
    BY <2>3, FS_EmptySet
  <2>5. Cardinality(using') \in Nat
    BY <2>3, FS_CardinalityType
  <2>6. CASE InUse
    <3>1. Return(u) /\ UNCHANGED <<status, finishing_unprepare>>
      BY <1>3, <2>6 DEF unprepare
    <3>2. prepare_count > 1
      BY <2>6 DEF InUse
    <3>3. using' # {} /\ pc[u] = "unprepare"
      BY <1>0, <1>3, <2>1, <2>3, <2>4, <3>2
    <3> QED BY <1>3, <2>1, <2>2, <2>3, <3>1, <3>3
  <2>7. CASE ~InUse
    <3>1. prepare_count <= 1
      BY <1>0, <2>7 DEF InUse
    <3>2. using' = {} /\ prepare_count' = 0
      BY <1>0, <2>1, <2>2, <2>3, <2>4, <2>5, <3>1
    <3>3. using = {u}
      BY <2>1, <2>2, <3>2
    <3>4. /\ status' = "UNPREPARING"
          /\ \/ conf.eos_shutdown /\ Return(u) /\ UNCHANGED finishing_unprepare
             \/ finish_unprepare(u, depth)
      BY <1>3, <2>7 DEF unprepare
    <3>5. finish_unprepare(u, depth) => Goto(u, "nulling") /\ finishing_unprepare' = TRUE /\ UNCHANGED <<op, glock>>
      BY <2>1 DEF finish_unprepare
    <3> QED BY <2>1, <3>2, <3>3, <3>4, <3>5
  <2> QED BY <2>6, <2>7
<1> QED BY <1>1, <1>2, <1>3

\* A user unprepares the media.
LEMMA UnprepareStays ==
    ASSUME BaseInv, NEW u \in Users, NEW depth \in Nat, unprepare(u, depth),
           pc[u] \notin Stopping \cup {"idle"}, op[u] \in {"release", "finalize", "unprepare"},
           \/ pc[u] = "unprepare"
           \/ pc[u] \in Setting /\ status \notin {"UNPREPARED", "UNPREPARING"} /\ prepare_count <= 1,
           UNCHANGED <<conf, reused, source>>
    PROVE  Base'
<1> USE ThreadsAre
<1>0. /\ TypeOK /\ Base /\ pc \in [Thread -> PCs] /\ op \in [Thread -> Ops] /\ UserOk(u)
      /\ using \subseteq Users /\ u # Bus /\ prepare_count \in Int
  BY TypeParts, MediaAssumption DEF BaseInv, TypesOf, Base, UsersInv
<1>1. pc[u] = "unprepare" => op[u] = "unprepare"
  BY <1>0 DEF UserOk, OpOk, Resting, Starting, Setting, Stopping
<1>2. ~(status = "UNPREPARED" /\ ~reused)
  BY <1>0 DEF Base, StatusInv
<1>3. using' = using \ {u}
  BY DEF unprepare
<1>4. \A t \in Thread \ {u} : pc'[t] = pc[t] /\ op'[t] = op[t]
  <2>1. Return(u) \/ (Goto(u, "nulling") /\ op' = op)
    BY UnprepareIs
  <2> QED BY <1>0, <2>1, ReturnGoes, GotoIs
<1>5. glock' # glock => glock = u /\ glock' = NoThread
  <2>1. Return(u) \/ glock' = glock
    BY UnprepareIs
  <2> QED BY <1>0, <2>1, ReturnGoes
<1>6. Moves(u)
  BY <1>0, <1>3, <1>4, <1>5 DEF Moves
<1>7. CASE /\ status # "UNPREPARING" \/ conf.eos_shutdown
           /\ pc[u] = "unprepare" /\ Return(u) /\ UNCHANGED <<status, finishing_unprepare>> /\ CountInv'
           /\ using' # {} \/ using = {}
  <2>1. pc'[u] = "idle" /\ op'[u] = "none"
    BY <1>0, <1>1, <1>7, ReturnGoes
  <2>2. UsersInv' /\ GoneInv'
    <3>1. UserOk(u)' /\ ~Gone(u)'
      BY <1>3, <2>1 DEF UserOk, OpOk, Asking, Gone, Resting, Starting, Setting, Stopping
    <3>2. u \notin using'
      BY <1>3
    <3> QED BY <1>6, <3>1, <3>2, OthersStay
  <2>3. \A t \in Thread : pc'[t] \in Stopping <=> pc[t] \in Stopping
    BY <1>4, <1>7, <2>1 DEF Stopping
  <2>4. StopInv'
    <3>1. pc'[Bus] = pc[Bus] /\ op'[Bus] = op[Bus]
      BY <1>0, <1>4
    <3>2. \A t \in Thread : pc'[t] \in Stopping => pc'[t] = pc[t]
      BY <1>4, <2>1 DEF Stopping
    <3> QED BY <1>0, <1>3, <1>7, <2>3, <3>1, <3>2 DEF Base, StopInv
  <2>5. StatusInv'
    <3>1. status = "PREPARING" => \E w \in Users : glock' = w /\ pc'[w] \in Waits
      <4>1. ASSUME status = "PREPARING" PROVE \E w \in Users : glock' = w /\ pc'[w] \in Waits
        <5>1. PICK w \in Users : glock = w /\ pc[w] \in Waits
          BY <4>1, OneWaits
        <5>2. w # u
          BY <1>7, <5>1 DEF Waits
        <5> QED BY <1>4, <1>5, <5>1, <5>2
      <4> QED BY <4>1
    <3> QED BY <1>0, <1>2, <1>3, <1>7, <3>1 DEF Base, StatusInv, Waits
  <2> QED BY <1>7, <2>2, <2>4, <2>5 DEF Base
<1>8. CASE /\ using = {u} /\ using' = {} /\ prepare_count' = 0 /\ status' = "UNPREPARING" /\ ~finishing_unprepare
           /\ \/ conf.eos_shutdown /\ Return(u) /\ ~finishing_unprepare'
              \/ Goto(u, "nulling") /\ finishing_unprepare' = TRUE /\ UNCHANGED <<op, glock>>
  <2>1. \A t \in Thread : pc[t] \notin Stopping
    BY <1>0, <1>8 DEF Base, StopInv
  <2>2. conf.closes \/ conf.eos_shutdown => ~conf.reusable
    BY Fields DEF BaseInv, Counting
  <2>3. UserOk(u)'
    <3>1. CASE conf.eos_shutdown /\ Return(u)
      <4>1. (op[u] = "release" /\ pc'[u] = "setstate" /\ op'[u] = "finalize") \/ (op[u] = "finalize" /\ pc'[u] = "unprepare" /\ op'[u] = "unprepare")
            \/ (op[u] = "unprepare" /\ pc'[u] = "idle" /\ op'[u] = "none")
        BY <1>0, <3>1, ReturnGoes
      <4>2. op[u] = "release" => glock' = glock
        BY <1>0, <3>1, ReturnGoes
      <4> QED BY <1>0, <1>8, <2>2, <3>1, <4>1, <4>2 DEF UserOk, OpOk, Asking, Gone, Resting, Starting, Setting, Stopping
    <3>2. CASE Goto(u, "nulling") /\ UNCHANGED <<op, glock>>
      <4>1. pc'[u] = "nulling" /\ op'[u] = op[u]
        BY <1>0, <3>2, GotoIs
      <4> QED BY <1>0, <1>8, <2>2, <3>2, <4>1 DEF UserOk, OpOk, Asking, Gone, Resting, Starting, Setting, Stopping
    <3> QED BY <1>8, <3>1, <3>2
  <2>4. UsersInv' /\ GoneInv'
    BY <1>6, <1>8, <2>3, OthersStay
  <2>5. StopInv'
    <3>0. pc'[Bus] = pc[Bus] /\ op'[Bus] = op[Bus]
      BY <1>0, <1>4
    <3>1. CASE conf.eos_shutdown /\ Return(u) /\ ~finishing_unprepare'
      <4>1. pc'[u] \notin Stopping
        BY <1>0, <3>1, ReturnGoes DEF Stopping
      <4>2. \A t \in Thread : pc'[t] \notin Stopping
        BY <1>4, <2>1, <4>1
      <4>3. finishing_unprepare' = FALSE
        BY <3>1, <1>8 
      <4> QED BY <1>0, <1>8, <3>0, <3>1, <4>2 DEF Base, StopInv
    <3>2. CASE Goto(u, "nulling") /\ finishing_unprepare' = TRUE
      <4>1. pc'[u] \in Stopping
        BY <1>0, <3>2, GotoIs DEF Stopping
      <4>2. \A t \in Thread : pc'[t] \in Stopping <=> t = u
        BY <1>4, <2>1, <4>1
      <4> QED BY <1>0, <1>8, <3>0, <3>2, <4>2 DEF Base, StopInv
    <3> QED BY <1>8, <3>1, <3>2
  <2>6. StatusInv' /\ CountInv'
    BY <1>0, <1>8 DEF StatusInv, CountInv
  <2> QED BY <2>4, <2>5, <2>6 DEF Base
<1>9. status = "UNPREPARED" /\ UNCHANGED <<status, prepare_count, using>> => CountInv'
  BY <1>0 DEF Base, CountInv
<1>10. status = "UNPREPARING" /\ conf.eos_shutdown /\ using' = {} /\ UNCHANGED status => CountInv'
  BY DEF CountInv
<1>11. using' # {} /\ prepare_count' = Cardinality(using') => CountInv'
  BY DEF CountInv
<1>12. status = "UNPREPARED" => using = {}
  BY <1>0 DEF Base, StatusInv
<1> QED BY <1>7, <1>8, <1>9, <1>10, <1>11, <1>12, UnprepareIs


\* The state a user asks for.
LEMMA RequestedIs ==
    ASSUME NEW u \in Users
    PROVE  /\ op[u] \in {"play", "replay"} => Requested(u) = "PLAYING"
           /\ op[u] = "pause" => Requested(u) = "PAUSED"
           /\ op[u] \in {"release", "finalize"} => Requested(u) = "NULL"
  BY DEF Requested

\* The state of the media is set, which is the end of most requests.
LEMMA SetStateStays ==
    ASSUME BaseInv, NEW u \in Users, set_state(u)
    PROVE  Base'
<1> USE ThreadsAre
<1>0. TypeOK /\ UserOk(u)
  BY DEF BaseInv, Base, UsersInv
<1>1. /\ pc[u] \in {"setstate", "stategot"} /\ status \notin {"UNPREPARED", "UNPREPARING", "PREPARING"}
      /\ UNCHANGED <<conf, reused, source>>
  BY DEF set_state, CanSetState, Refuses
<1>2. op[u] \in {"play", "replay", "pause", "release", "finalize"}
  BY <1>0, <1>1 DEF UserOk, OpOk, Resting, Starting, Setting, Stopping
<1>3. u \in using
  BY <1>1, AtWork DEF Stopping
<1>4. \/ /\ Requested(u) = "NULL" /\ unprepare(u, 2) /\ prepare_count <= 1
      \/ /\ Return(u) /\ UNCHANGED <<prepare_count, finishing_unprepare, using>>
         /\ status' \in {status, "SUSPENDED"}
  <2>1. CASE do_state(u, Requested(u)) /\ target_state # Requested(u) /\ Requested(u) = "NULL"
    <3>1. unprepare(u, 2)
      BY <2>1 DEF set_state
    <3> QED BY <2>1, <3>1 DEF do_state
  <2>2. CASE do_state(u, Requested(u)) /\ target_state # Requested(u) /\ Requested(u) # "NULL"
    <3>1. (SetPlaying \/ SetPaused) /\ Return(u) /\ UNCHANGED <<prepare_count, finishing_unprepare, using>>
      BY <2>2 DEF set_state
    <3>2. SetPlaying => status' = status
      BY DEF SetPlaying
    <3>3. SetPaused => status' \in {status, "SUSPENDED"}
      BY DEF SetPaused
    <3> QED BY <3>1, <3>2, <3>3
  <2>3. CASE ~(do_state(u, Requested(u)) /\ target_state # Requested(u))
    BY <2>3 DEF set_state
  <2> QED BY <2>1, <2>2, <2>3
<1>5. CASE Requested(u) = "NULL" /\ unprepare(u, 2) /\ prepare_count <= 1
  <2>1. op[u] \in {"release", "finalize"}
    BY <1>2, <1>5, RequestedIs
  <2> QED BY <1>1, <1>5, <2>1, UnprepareStays DEF Setting, Stopping
<1>6. CASE /\ Return(u) /\ UNCHANGED <<prepare_count, finishing_unprepare, using>>
           /\ status' \in {status, "SUSPENDED"}
  <2>1. UserOk(u)'
    BY <1>0, <1>1, <1>2, <1>3, <1>6, ReturnGoes DEF UserOk, OpOk, Asking, Gone, Resting, Starting, Setting, Stopping
  <2>2. pc'[u] \in {"playing", "ready", "setstate", "unprepare"}
    BY <1>0, <1>2, <1>6, ReturnGoes
  <2> QED BY <1>0, <1>1, <1>3, <1>6, <2>1, <2>2, ReturnGoes, Walk DEF Stopping
<1> QED BY <1>4, <1>5, <1>6

\* unprepare at the end of a departure, or of a failed prepare.
LEMMA UnprepareWhole ==
    ASSUME BaseInv, NEW u \in Users, Unprepare(u)
    PROVE  Base'
<1>1. pc[u] = "unprepare" /\ unprepare(u, 1) /\ UNCHANGED <<conf, reused, source>>
  BY DEF Unprepare
<1>2. op[u] = "unprepare"
  BY <1>1 DEF BaseInv, Base, UsersInv, UserOk, OpOk, Resting, Starting, Setting, Stopping
<1> QED BY <1>1, <1>2, UnprepareStays DEF Stopping

\* The base of the invariant holds at first,
LEMMA BaseInit ==
    Init => TypeOK /\ Base
<1> SUFFICES ASSUME Init PROVE TypeOK /\ Base
  OBVIOUS
<1> USE ThreadsAre
<1>1. \A t \in Thread : pc[t] = "idle" /\ op[t] = "none"
  BY DEF Init
<1>2. TypeOK
  <2>1. pc \in [Thread -> PCs] /\ op \in [Thread -> Ops]
    BY DEF Init, PCs, Ops, Resting
  <2>2. reused \in BOOLEAN /\ finishing_unprepare \in BOOLEAN /\ buffering \in BOOLEAN /\ blocked \in BOOLEAN
        /\ expected_async_done \in BOOLEAN /\ source \in BOOLEAN /\ pad \in BOOLEAN
    BY DEF Init
  <2> QED BY <2>1, <2>2, TypeParts, QueueTypes DEF TypesOf, Init, Status, States, Messages
<1>3. UsersInv
  BY <1>1 DEF Init, UsersInv, UserOk, OpOk, Asking, Gone, Resting, Starting, Setting, Stopping
<1>4. GoneInv /\ StopInv /\ StatusInv /\ CountInv
  BY <1>1 DEF Init, GoneInv, Gone, StopInv, StatusInv, CountInv, Stopping
<1> QED BY <1>2, <1>3, <1>4 DEF Base

\* and every step keeps it.
LEMMA BaseStep ==
    ASSUME BaseInv, Next
    PROVE  BaseInv'
<1>1. TypeOK' /\ conf' = conf
  BY TypeStep DEF BaseInv
<1>2. Counting(conf)'
  BY <1>1 DEF BaseInv, Counting
<1>3. ASSUME NEW u \in Users, Continue(u) PROVE Base'
  BY <1>3, PlayWalks, SuspendWalks, LeaveWalks, SetStateStays, UnprepareWhole DEF Continue
<1>4. ASSUME NEW u \in Users, Request(u) PROVE Base'
  BY <1>4, PrepareStays, PlayWalks, SuspendWalks, LeaveWalks DEF Request
<1>5. ASSUME NEW t \in Thread, StateNull(t) \/ Unprepared(t) PROVE Base'
  BY <1>5, ShutdownStays
<1>6. Base'
  BY <1>3, <1>4, <1>5, PipelineStays, MessageStays DEF Next, BusNext
<1> QED BY <1>1, <1>2, <1>6 DEF BaseInv

-----------------------------------------------------------------------------
\* Who plays keeps playing.

PlayBase == BaseInv /\ Undisturbed(conf) /\ ~conf.faults /\ PlayInv

\* Finite sets of users.
LEMMA Sizes ==
    /\ \A S \in SUBSET Users : IsFiniteSet(S) /\ Cardinality(S) \in Nat
    /\ \A S, T \in SUBSET Users : S \subseteq T => Cardinality(S) <= Cardinality(T)
    /\ \A S \in SUBSET Users, u \in Users : u \notin S => Cardinality(S \cup {u}) = Cardinality(S) + 1
    /\ \A S \in SUBSET Users, u \in Users : u \in S => Cardinality(S \ {u}) = Cardinality(S) - 1 /\ Cardinality(S) >= 1
    /\ Cardinality({}) = 0
<1>1. \A S \in SUBSET Users : IsFiniteSet(S) /\ Cardinality(S) \in Nat
  BY MediaAssumption, FS_Subset, FS_CardinalityType
<1>2. \A S, T \in SUBSET Users : S \subseteq T => Cardinality(S) <= Cardinality(T)
  BY <1>1, FS_Subset
<1>3. \A S \in SUBSET Users, u \in Users : u \notin S => Cardinality(S \cup {u}) = Cardinality(S) + 1
  BY <1>1, FS_AddElement
<1>4. \A S \in SUBSET Users, u \in Users : u \in S => Cardinality(S \ {u}) = Cardinality(S) - 1
  BY <1>1, FS_RemoveElement
<1>5. \A S \in SUBSET Users, u \in Users : u \in S => Cardinality(S) >= 1
  <2>1. ASSUME NEW S \in SUBSET Users, NEW u \in Users, u \in S PROVE Cardinality(S) >= 1
    <3>1. Cardinality(S \ {u}) \in Nat /\ Cardinality(S \ {u}) = Cardinality(S) - 1 /\ Cardinality(S) \in Nat
      BY <1>1, <1>4, <2>1
    <3> QED BY <3>1
  <2> QED BY <2>1
<1> QED BY <1>1, <1>2, <1>3, <1>4, <1>5, FS_EmptySet

\* The types, and what follows of n_active.
LEMMA PlayTypes ==
    PlayBase => /\ TypeOK /\ TypesOf /\ Base /\ CountedActive \in SUBSET Users /\ n_active \in Int
                /\ n_active >= Cardinality(CountedActive) /\ Cardinality(CountedActive) \in Nat /\ n_active >= 0
                /\ status # "ERROR"
<1> SUFFICES ASSUME PlayBase
             PROVE  /\ TypeOK /\ TypesOf /\ Base /\ CountedActive \in SUBSET Users /\ n_active \in Int
                    /\ n_active >= Cardinality(CountedActive) /\ Cardinality(CountedActive) \in Nat /\ n_active >= 0
                    /\ status # "ERROR"
  OBVIOUS
<1>1. TypeOK /\ TypesOf /\ Base /\ CountedActive \in SUBSET Users /\ n_active \in Int
  BY TypeParts DEF PlayBase, BaseInv, TypesOf, CountedActive
<1>2. n_active >= Cardinality(CountedActive)
  BY DEF PlayBase, PlayInv, ActiveInv
<1>3. Cardinality(CountedActive) \in Nat
  BY <1>1, Sizes
<1>4. status # "ERROR"
  BY <1>1 DEF PlayBase, Base, StatusInv
<1> QED BY <1>1, <1>2, <1>3, <1>4

\* The user a request is executed for.
LEMMA Working ==
    ASSUME PlayBase, NEW u \in Users, Asking(u)
    PROVE  /\ glock = u /\ u \in using /\ ~finishing_unprepare
           /\ status \notin {"UNPREPARED", "UNPREPARING", "ERROR"}
           /\ pc[u] \notin Waits => status # "PREPARING" /\ start = 0
<1>1. glock = u /\ u \in using
  BY DEF PlayBase, BaseInv, Base, UsersInv, UserOk
<1>2. ~finishing_unprepare /\ status \notin {"UNPREPARED", "UNPREPARING"} /\ status # "ERROR"
  BY <1>1, UserFacts, PlayTypes DEF PlayBase
<1>3. pc[u] \notin Waits => status # "PREPARING"
  BY <1>1, OneWaits DEF PlayBase
<1>4. status # "PREPARING" => start = 0
  BY PlayTypes DEF PlayBase, PlayInv, MessageInv, TypesOf
<1> QED BY <1>1, <1>2, <1>3, <1>4

\* What a step does for one user does not bother the others.
LEMMA PlayOthers ==
    ASSUME PlayBase, NEW u \in Users, UNCHANGED conf,
           \A v \in Users \ {u} : pc'[v] = pc[v] /\ op'[v] = op[v] /\ (v \in active' <=> v \in active),
           status' = "SUSPENDED" => status = "SUSPENDED" \/ glock \in {u, NoThread},
           PlayOk(u)'
    PROVE  \A v \in Users : PlayOk(v)'
<1>1. ASSUME NEW v \in Users \ {u} PROVE PlayOk(v)'
  <2>1. PlayOk(v)
    BY DEF PlayBase, PlayInv
  <2>2. op[v] \in {"play", "replay"} => glock = v
    BY DEF PlayBase, BaseInv, Base, UsersInv, UserOk, Asking
  <2>3. op[v] \in {"play", "replay"} => glock # u /\ glock # NoThread
    BY <2>2, MediaAssumption
  <2>4. pc'[v] = pc[v] /\ op'[v] = op[v] /\ (v \in active' <=> v \in active) /\ conf' = conf
    OBVIOUS
  <2> QED BY <2>1, <2>3, <2>4 DEF PlayOk, Exact
<1> QED BY <1>1

\* A step that only moves a user, who may begin to play.
LEMMA PlayQuiet ==
    ASSUME PlayBase, NEW u \in Users, pc[u] \notin Stopping, pc'[u] # "nulled",
           pc' = [pc EXCEPT ![u] = pc'[u]], op' = [op EXCEPT ![u] = op'[u]],
           UNCHANGED <<conf, status, target_state, state, buffering, coming, bus, start, n_active>>,
           using' # {} => using # {}, active' = active \/ active' = active \cup {u}, PlayOk(u)',
           CountedActive' \subseteq CountedActive, Exact => CountedActive' = CountedActive
    PROVE  PlayInv'
<1>0. TypeOK /\ TypesOf /\ Base /\ u \in Thread
  BY PlayTypes, ThreadsAre
<1>1. \A t \in Thread \ {u} : pc'[t] = pc[t] /\ op'[t] = op[t]
  BY <1>0 DEF TypesOf
<1>2. \A v \in Users : PlayOk(v)'
  BY <1>1, PlayOthers, ThreadsAre
<1>3. MessageInv'
  <2>1. MessageInv
    BY DEF PlayBase, PlayInv
  <2> QED BY <1>1, <2>1 DEF MessageInv
<1>4. ActiveInv'
  <2>1. ActiveInv
    BY DEF PlayBase, PlayInv
  <2>2. n_active' >= Cardinality(CountedActive')
    <3>1. Cardinality(CountedActive') <= Cardinality(CountedActive) /\ Cardinality(CountedActive') \in Nat
      BY PlayTypes, Sizes
    <3> QED BY <3>1, PlayTypes
  <2> QED BY <2>1, <2>2 DEF ActiveInv, Exact
<1>5. TargetInv'
  BY DEF PlayBase, PlayInv, TargetInv
<1> QED BY <1>2, <1>3, <1>4, <1>5 DEF PlayInv


\* How one user changes the set of counted transports.
LEMMA CountedIs ==
    ASSUME PlayBase, NEW u \in Users, op' = [op EXCEPT ![u] = op'[u]]
    PROVE  /\ active' = active /\ (op'[u] = "play" <=> op[u] = "play") => CountedActive' = CountedActive
           /\ u \notin active /\ active' = active => CountedActive' = CountedActive
           /\ u \in active /\ active' = active \cup {u} /\ (op'[u] = "play" <=> op[u] = "play") => CountedActive' = CountedActive
           /\ active' = active \cup {u} /\ op'[u] = "play" => /\ CountedActive' \subseteq CountedActive
                                                              /\ u \notin active => CountedActive' = CountedActive
           /\ u \notin active /\ active' = active \ {u} => CountedActive' = CountedActive
           /\ u \in active /\ op[u] # "play" /\ active' = active \ {u} => u \in CountedActive /\ CountedActive' = CountedActive \ {u}
           /\ op[u] = "play" /\ op'[u] # "play" /\ active' = active \cup {u} =>
                u \notin CountedActive /\ CountedActive' = CountedActive \cup {u}
<1>1. op \in [Thread -> Ops] /\ u \in Thread /\ active \subseteq Users
  BY PlayTypes, ThreadsAre DEF TypesOf
<1>2. \A v \in Users \ {u} : op'[v] = op[v]
  BY <1>1, ThreadsAre
<1> QED BY <1>1, <1>2 DEF CountedActive

\* What the user itself is allowed while it does not play.
LEMMA NotActive ==
    ASSUME PlayBase, NEW u \in Users, Exact,
           pc[u] # "playing", op[u] \notin {"play", "pause"}, ~(op[u] = "release" /\ pc[u] \in Setting)
    PROVE  u \notin active
  BY DEF PlayBase, PlayInv, PlayOk

\* A request goes on, or a departure begins.
LEMMA PlayGoes ==
    ASSUME PlayBase, NEW u \in Users,
           \/ PrepareDone(u) \/ UnsuspendDone(u) \/ PlayMode(u) \/ SeekFirstDone(u)
           \/ SetStateWait(u) \/ clean_cached_media(u) \/ pause(u) \/ teardown(u) \/ close(u)
    PROVE  PlayInv'
<1> USE ThreadsAre
<1>0. TypeOK /\ Base /\ UserOk(u) /\ PlayOk(u) /\ status # "ERROR" /\ ~conf.faults
  BY PlayTypes DEF PlayBase, Base, UsersInv, PlayInv
<1>1. \A l, o : pc'[u] = l /\ op'[u] = o /\ l \notin {"nulling", "nulled"} => pc'[u] \notin Stopping
  BY DEF Stopping
<1>2. CASE PrepareDone(u) \/ UnsuspendDone(u) \/ PlayMode(u) \/ SeekFirstDone(u)
  <2>1. /\ pc[u] \in {"preparing", "unsuspending", "seek", "seeking", "seekfirst"} /\ op' = op
        /\ \E l \in {"described", "seek", "setstate", "seekagain"} :
             Goto(u, l) /\ (l = "described" <=> pc[u] = "preparing")
        /\ UNCHANGED <<mediaVars, state, coming, bus, start, active, using>>
    BY <1>0, <1>2 DEF PrepareDone, UnsuspendDone, PlayMode, SeekFirstDone
  <2>2. PICK l \in {"described", "seek", "setstate", "seekagain"} : Goto(u, l) /\ (l = "described" <=> pc[u] = "preparing")
    BY <2>1
  <2>3. pc'[u] = l /\ pc' = [pc EXCEPT ![u] = pc'[u]] /\ op'[u] = op[u] /\ op' = [op EXCEPT ![u] = op'[u]]
    BY <1>0, <2>1, <2>2, GotoIs, OpIs
  <2>4. op[u] = "none" \/ (pc[u] # "preparing" /\ op[u] \in {"play", "replay"})
    BY <1>0, <2>1 DEF UserOk, OpOk, Resting, Starting, Setting, Stopping
  <2>5. PlayOk(u)'
    BY <1>0, <2>1, <2>2, <2>3, <2>4 DEF PlayOk, Exact, mediaVars, Setting
  <2> QED BY <2>1, <2>3, <2>5, CountedIs, PlayQuiet DEF mediaVars, Stopping
<1>3. CASE SetStateWait(u) \/ clean_cached_media(u) \/ pause(u) \/ teardown(u) \/ close(u)
  <2>1. /\ UNCHANGED <<mediaVars, state, coming, bus, start, active, using>>
        /\ \/ /\ pc[u] \in {"setstate", "statewait"} /\ op' = op
              /\ Goto(u, "statewait") \/ Goto(u, "stategot")
           \/ pc[u] = "cached" /\ op' = [op EXCEPT ![u] = "unprepare"] /\ Goto(u, "unprepare")
           \/ pc[u] = "playing" /\ op' = [op EXCEPT ![u] = "pause"] /\ Goto(u, "setstate")
           \/ pc[u] \in {"ready", "playing"} /\ op' = [op EXCEPT ![u] = "release"] /\ Goto(u, "setstate")
           \/ pc[u] \in {"ready", "playing"} /\ op' = [op EXCEPT ![u] = "finalize"] /\ Goto(u, "setstate") /\ conf.closes
    BY <1>3 DEF SetStateWait, clean_cached_media, pause, teardown, close, Begin
  <2>2. /\ pc' = [pc EXCEPT ![u] = pc'[u]] /\ op' = [op EXCEPT ![u] = op'[u]]
        /\ \/ pc[u] \in {"setstate", "statewait"} /\ op'[u] = op[u] /\ pc'[u] \in {"statewait", "stategot"}
           \/ pc[u] = "cached" /\ op'[u] = "unprepare" /\ pc'[u] = "unprepare"
           \/ pc[u] = "playing" /\ op'[u] = "pause" /\ pc'[u] = "setstate"
           \/ pc[u] \in {"ready", "playing"} /\ op'[u] = "release" /\ pc'[u] = "setstate"
           \/ pc[u] \in {"ready", "playing"} /\ op'[u] = "finalize" /\ pc'[u] = "setstate" /\ conf.closes
    BY <1>0, <2>1, GotoIs, OpIs
  <2>3. op[u] \in {"none", "play", "replay", "pause", "release", "finalize"} /\ (pc[u] \in {"cached", "ready", "playing"} => op[u] = "none")
    BY <1>0, <2>2 DEF UserOk, OpOk, Resting, Starting, Setting, Stopping
  <2>4. PlayOk(u)'
    BY <1>0, <2>1, <2>2, <2>3 DEF PlayOk, Exact, mediaVars, Setting
  <2>5. op'[u] = "play" <=> op[u] = "play"
    BY <2>2, <2>3
  <2> QED BY <2>1, <2>2, <2>4, <2>5, CountedIs, PlayQuiet DEF mediaVars, Stopping
<1> QED BY <1>2, <1>3

\* A PLAY puts its transport in the list.
LEMMA PlayBegins ==
    ASSUME PlayBase, NEW u \in Users, play(u)
    PROVE  PlayInv'
<1> USE ThreadsAre
<1>0. TypeOK /\ Base /\ UserOk(u) /\ PlayOk(u)
  BY PlayTypes DEF PlayBase, Base, UsersInv, PlayInv
<1>1. /\ pc[u] \in {"ready", "playing"} /\ (pc[u] = "playing" => conf.replays)
      /\ op' = [op EXCEPT ![u] = IF pc[u] = "ready" THEN "play" ELSE "replay"] /\ Goto(u, "play")
      /\ active' = active \cup {u} /\ UNCHANGED <<mediaVars, state, coming, bus, start, using>>
  BY DEF play
<1>2. /\ pc' = [pc EXCEPT ![u] = pc'[u]] /\ op' = [op EXCEPT ![u] = op'[u]]
      /\ pc'[u] = "play" /\ op'[u] = IF pc[u] = "ready" THEN "play" ELSE "replay"
  BY <1>0, <1>1, GotoIs, OpIs
<1>3. op[u] = "none"
  BY <1>0, <1>1 DEF UserOk, OpOk, Resting, Starting, Setting, Stopping
<1>4. PlayOk(u)'
  BY <1>0, <1>1, <1>2 DEF PlayOk, Exact, mediaVars
<1>5. CountedActive' \subseteq CountedActive /\ (Exact => CountedActive' = CountedActive)
  <2>1. CASE pc[u] = "ready"
    <3>1. Exact => u \notin active
      BY <1>3, <2>1, NotActive
    <3> QED BY <1>1, <1>2, <2>1, <3>1, CountedIs
  <2>2. CASE pc[u] = "playing"
    <3>1. u \in active
      BY <1>0, <2>2 DEF PlayOk
    <3>2. op'[u] = "replay"
      BY <1>2, <2>2
    <3>3. CountedActive' = CountedActive
      BY <1>1, <1>2, <1>3, <3>1, <3>2, CountedIs
    <3> QED BY <3>3
  <2> QED BY <1>1, <2>1, <2>2
<1> QED BY <1>1, <1>2, <1>4, <1>5, PlayQuiet DEF mediaVars, Stopping

\* A state change is only refused to a user that leaves behind the others.
LEMMA PlayRefused ==
    ASSUME PlayBase, NEW u \in Users, SetStateRefused(u)
    PROVE  PlayInv'
<1> USE ThreadsAre
<1>0. TypeOK /\ Base /\ UserOk(u) /\ PlayOk(u) /\ status # "ERROR"
  BY PlayTypes DEF PlayBase, Base, UsersInv, PlayInv
<1>1. /\ pc[u] \in {"setstate", "stategot"} /\ Return(u) /\ status \in {"UNPREPARED", "UNPREPARING", "PREPARING"}
      /\ UNCHANGED <<mediaVars, state, coming, bus, start, active, using>>
  BY <1>0 DEF SetStateRefused, CanSetState, Refuses
<1>2. op[u] \in {"release", "finalize"}
  <2>1. op[u] \in {"play", "replay", "pause"} => Asking(u)
    BY DEF Asking
  <2>2. op[u] \notin {"play", "replay", "pause"}
    BY <1>1, <2>1, Working DEF Waits
  <2> QED BY <1>0, <1>1, <2>2 DEF UserOk, OpOk, Resting, Starting, Setting, Stopping
<1>3. /\ pc' = [pc EXCEPT ![u] = pc'[u]] /\ op' = [op EXCEPT ![u] = op'[u]]
      /\ \/ op[u] = "release" /\ pc'[u] = "setstate" /\ op'[u] = "finalize"
         \/ op[u] = "finalize" /\ pc'[u] = "unprepare" /\ op'[u] = "unprepare"
  BY <1>0, <1>1, <1>2, ReturnGoes
<1>4. Exact => op[u] = "finalize"
  <2>1. ASSUME Exact, op[u] = "release" PROVE FALSE
    <3>1. glock = u /\ u \in using
      BY <1>0, <1>1, <2>1 DEF UserOk, Exact, Setting
    <3>2. status = "PREPARING"
      BY <1>1, <3>1, UserFacts DEF PlayBase
    <3> QED BY <1>1, <3>1, <3>2, OneWaits DEF PlayBase, Waits
  <2> QED BY <1>2, <2>1
<1>5. PlayOk(u)'
  <2>1. Exact => u \notin active
    BY <1>4, <1>1, NotActive
  <2> QED BY <1>1, <1>3, <2>1 DEF PlayOk, Exact, mediaVars
<1> QED BY <1>1, <1>2, <1>3, <1>5, CountedIs, PlayQuiet DEF mediaVars, Stopping

\* A step for a user that changes what the pipeline does, and nobody's part.
LEMMA PlayMoves ==
    ASSUME PlayBase, NEW u \in Users, u \in using, start = 0, pc'[u] # "nulled",
           pc' = [pc EXCEPT ![u] = pc'[u]], UNCHANGED <<conf, op, start, using, n_active, active>>,
           status' # "UNPREPARED", status' = "SUSPENDED" => status = "SUSPENDED" \/ glock \in {u, NoThread},
           n_active # 0 => target_state' = target_state /\ (status' = "SUSPENDED" => status = "SUSPENDED"),
           PlayOk(u)', TargetInv'
    PROVE  PlayInv'
<1>0. TypeOK /\ TypesOf /\ Base /\ u \in Thread /\ \A t \in Thread : pc[t] \notin Stopping
  BY PlayTypes, ThreadsAre, UserFacts DEF PlayBase
<1>1. \A t \in Thread \ {u} : pc'[t] = pc[t]
  BY <1>0 DEF TypesOf
<1>2. \A v \in Users : PlayOk(v)'
  BY <1>1, PlayOthers, ThreadsAre
<1>3. MessageInv'
  <2>1. \A t \in Thread : pc'[t] # "nulled"
    BY <1>0, <1>1 DEF Stopping
  <2> QED BY <2>1 DEF MessageInv
<1>4. ActiveInv'
  <2>1. ActiveInv
    BY DEF PlayBase, PlayInv
  <2>2. CountedActive' = CountedActive
    BY DEF CountedActive
  <2> QED BY <2>1, <2>2 DEF ActiveInv, Exact
<1> QED BY <1>2, <1>3, <1>4 DEF PlayInv

\* DESCRIBE and SETUP suspend a media that nobody plays.
LEMMA PlaySuspends ==
    ASSUME PlayBase, NEW u \in Users, describe(u) \/ setup(u)
    PROVE  PlayInv'
<1> USE ThreadsAre
<1>0. TypeOK /\ Base /\ UserOk(u) /\ PlayOk(u) /\ TargetInv /\ n_active >= 0 /\ n_active \in Int
  BY PlayTypes DEF PlayBase, Base, UsersInv, PlayInv
<1>1. /\ pc[u] \in {"described", "cached"} /\ (pc[u] = "described" \/ (glock = NoThread /\ status # "PREPARING"))
      /\ suspend /\ UNCHANGED <<conf, op, start, using, n_active, active, buffering>>
      /\ Goto(u, "cached") \/ Goto(u, "ready")
  BY DEF describe, setup, StatusKnown
<1>2. /\ pc' = [pc EXCEPT ![u] = pc'[u]] /\ pc'[u] \in {"cached", "ready"} /\ op'[u] = op[u]
  BY <1>0, <1>1, GotoIs
<1>3. op[u] = "none" /\ u \in using
  BY <1>0, <1>1 DEF UserOk, OpOk, Asking, Resting, Starting, Setting, Stopping
<1>4. status # "PREPARING" /\ start = 0 /\ glock \in {u, NoThread}
  <2>1. CASE pc[u] = "described"
    BY <2>1, Working DEF Asking, Waits
  <2>2. CASE pc[u] = "cached"
    <3>1. status # "PREPARING" /\ glock = NoThread
      BY <1>1, <2>2
    <3> QED BY <3>1, PlayTypes DEF PlayBase, PlayInv, MessageInv, TypesOf
  <2> QED BY <1>1, <2>1, <2>2
<1>5. PlayOk(u)'
  <2>1. Exact => u \notin active
    BY <1>1, <1>3, NotActive
  <2> QED BY <1>1, <1>2, <1>3, <2>1 DEF PlayOk, Exact
<1>6. \/ UNCHANGED <<status, target_state, state, coming, bus, expected_async_done>>
      \/ n_active = 0 /\ status = "PREPARED" /\ default_suspend
  BY <1>0, <1>1 DEF suspend, suspends
<1>7. status # "UNPREPARED" /\ conf \in Configuration
  BY <1>0, <1>3, UserFacts, Fields DEF PlayBase
<1>8. CASE UNCHANGED <<status, target_state, state, coming, bus, expected_async_done>>
  <2>1. TargetInv'
    BY <1>0, <1>1, <1>8 DEF TargetInv
  <2> QED BY <1>1, <1>2, <1>3, <1>4, <1>5, <1>7, <1>8, <2>1, PlayMoves
<1>9. CASE n_active = 0 /\ status = "PREPARED" /\ default_suspend
  <2>1. /\ status' = "SUSPENDED"
        /\ \/ conf.suspend_mode = "none" /\ UNCHANGED <<target_state, state>>
           \/ conf.suspend_mode = "pause" /\ target_state' = "PAUSED" /\ state' = "PAUSED"
           \/ conf.suspend_mode = "reset" /\ target_state' = "NULL" /\ state' = "NULL"
    <3>1. conf.suspend_mode \in {"none", "pause", "reset"}
      BY <1>0, Fields
    <3> QED BY <1>9, <3>1 DEF default_suspend
  <2>2. TargetInv'
    BY <1>0, <1>1, <1>9, <2>1 DEF TargetInv
  <2> QED BY <1>1, <1>2, <1>3, <1>4, <1>5, <1>7, <1>9, <2>1, <2>2, PlayMoves
<1> QED BY <1>6, <1>8, <1>9

\* A PLAY resumes the media and seeks.
LEMMA PlayResumes ==
    ASSUME PlayBase, NEW u \in Users, unsuspend(u) \/ Unsuspended(u) \/ seek(u)
    PROVE  PlayInv'
<1> USE ThreadsAre
<1>0. /\ TypeOK /\ Base /\ UserOk(u) /\ PlayOk(u) /\ TargetInv /\ ActiveInv /\ status # "ERROR" /\ ~conf.faults
      /\ start \in Nat /\ status \in Status
  BY PlayTypes DEF PlayBase, Base, UsersInv, PlayInv, TypesOf
<1>1. pc[u] \in {"play", "unsuspend", "seek", "seekagain"}
  BY DEF unsuspend, Unsuspended, seek
<1>2. /\ glock = u /\ u \in using /\ status \in {"PREPARED", "SUSPENDED"} /\ start = 0
      /\ op[u] \in {"play", "replay"}
  <2>1. Asking(u) /\ pc[u] \notin Waits
    BY <1>1 DEF Asking, Starting, Waits
  <2>2. glock = u /\ u \in using /\ status \in {"PREPARED", "SUSPENDED"} /\ start = 0
    BY <1>0, <2>1, Working DEF Status
  <2> QED BY <1>0, <1>1, <2>2 DEF UserOk, OpOk, Resting, Starting, Setting, Stopping
<1>3. /\ UNCHANGED <<conf, op, start, using, n_active, active, buffering>>
      /\ \/ status # "SUSPENDED" /\ Goto(u, "seek") /\ UNCHANGED <<status, target_state, state>>
         \/ Goto(u, "unsuspend") /\ UNCHANGED <<status, target_state, state>> /\ conf.suspend_mode = "none"
         \/ /\ Goto(u, "unsuspending") /\ status = "SUSPENDED" /\ status' = "PREPARING" /\ target_state' = "PAUSED"
            /\ state' = IF conf.live THEN "PLAYING" ELSE "PAUSED"
         \/ /\ Goto(u, "seek") /\ status' = "PREPARED" /\ conf.suspend_mode # "reset"
            /\ UNCHANGED <<target_state, state>>
         \/ /\ Goto(u, "seekfirst") \/ Goto(u, "seeking")
            /\ status = "PREPARED" /\ status' = "PREPARING" /\ UNCHANGED <<target_state, state>>
  <2>1. CASE unsuspend(u)
    <3>0. UNCHANGED <<conf, op, start, using, n_active, active, buffering>>
      BY <2>1 DEF unsuspend
    <3>1. CASE status # "SUSPENDED"
      BY <2>1, <3>0, <3>1 DEF unsuspend
    <3>2. CASE status = "SUSPENDED" /\ conf.suspend_mode = "none" /\ blocked
      BY <2>1, <3>0, <3>2 DEF unsuspend
    <3>3. CASE status = "SUSPENDED" /\ conf.suspend_mode = "reset"
      <4>1. Goto(u, "unsuspending") /\ start_preroll /\ status' = "PREPARING"
        BY <1>0, <2>1, <3>3 DEF unsuspend
      <4> QED BY <3>0, <3>3, <4>1 DEF start_preroll
    <3>4. CASE status = "SUSPENDED" /\ ~(conf.suspend_mode = "none" /\ blocked) /\ conf.suspend_mode # "reset"
      BY <2>1, <3>0, <3>4 DEF unsuspend
    <3> QED BY <3>1, <3>2, <3>3, <3>4
  <2>2. CASE Unsuspended(u)
    <3>1. /\ Goto(u, "seek") /\ status' = "PREPARED" /\ pc[u] = "unsuspend"
          /\ UNCHANGED <<conf, op, start, using, n_active, active, buffering, target_state, state>>
      BY <1>0, <2>2 DEF Unsuspended
    <3> QED BY <1>0, <3>1 DEF PlayOk
  <2>3. CASE seek(u)
    <3>1. /\ pc[u] \in {"seek", "seekagain"} /\ status' = "PREPARING" /\ (Goto(u, "seekfirst") \/ Goto(u, "seeking"))
          /\ UNCHANGED <<conf, op, start, using, n_active, active, buffering, target_state, state>>
      BY <2>3 DEF seek
    <3>2. status = "PREPARED"
      BY <1>0, <1>2, <3>1 DEF PlayOk
    <3> QED BY <3>1, <3>2
  <2> QED BY <2>1, <2>2, <2>3
<1>4. PICK l \in {"seek", "unsuspend", "unsuspending", "seekfirst", "seeking"} :
        /\ Goto(u, l)
        /\ l = "unsuspend" => conf.suspend_mode = "none"
        /\ l # "unsuspend" => status' # "SUSPENDED"
  BY <1>3
<1>5. pc' = [pc EXCEPT ![u] = pc'[u]] /\ pc'[u] = l /\ op'[u] = op[u]
  BY <1>0, <1>3, <1>4, GotoIs
<1>6. PlayOk(u)'
  BY <1>0, <1>1, <1>2, <1>3, <1>4, <1>5 DEF PlayOk, Exact, Setting
<1>7. status = "SUSPENDED" => n_active = 0
  BY <1>0, <1>2 DEF ActiveInv
<1>8. TargetInv'
  BY <1>0, <1>2, <1>3 DEF TargetInv
<1>9. /\ status' # "UNPREPARED" /\ (status' = "SUSPENDED" => status = "SUSPENDED")
      /\ n_active # 0 => target_state' = target_state
  BY <1>2, <1>3, <1>7
<1> QED BY <1>2, <1>3, <1>4, <1>5, <1>6, <1>8, <1>9, PlayMoves

\* A state change, or the end of the use of the media.
LEMMA PlaySets ==
    ASSUME PlayBase, NEW u \in Users, start = 0, start' = start, UNCHANGED conf, pc'[u] # "nulled",
           \A t \in Thread : pc[t] # "nulled",
           pc' = [pc EXCEPT ![u] = pc'[u]], op' = [op EXCEPT ![u] = op'[u]],
           \A v \in Users \ {u} : v \in active' <=> v \in active,
           status' # "UNPREPARED", status' = "SUSPENDED" => status = "SUSPENDED" \/ glock \in {u, NoThread},
           n_active' >= Cardinality(CountedActive'), Exact => n_active' = Cardinality(CountedActive'),
           using' # {} /\ n_active' # 0 => target_state' = "PLAYING" /\ status' # "SUSPENDED",
           PlayOk(u)', TargetInv'
    PROVE  PlayInv'
<1>0. TypeOK /\ TypesOf /\ u \in Thread
  BY PlayTypes, ThreadsAre
<1>1. \A t \in Thread \ {u} : pc'[t] = pc[t] /\ op'[t] = op[t]
  BY <1>0 DEF TypesOf
<1>2. \A v \in Users : PlayOk(v)'
  BY <1>1, PlayOthers, ThreadsAre
<1>3. MessageInv'
  <2>1. \A t \in Thread : pc'[t] # "nulled"
    BY <1>0, <1>1
  <2> QED BY <2>1 DEF MessageInv
<1>4. ActiveInv'
  BY DEF ActiveInv, Exact
<1> QED BY <1>2, <1>3, <1>4 DEF PlayInv

\* What set_active does to the count.
LEMMA ActiveAfterIs ==
    ASSUME NEW u \in Users
    PROVE  /\ ActiveAfter(u, "PLAYING") = n_active + 1
           /\ \A s \in {"PAUSED", "NULL"} :
                /\ Deactivates(s) /\ u \in active => ActiveAfter(u, s) = n_active - 1
                /\ ~(Deactivates(s) /\ u \in active) => ActiveAfter(u, s) = n_active
<1>0. ~Deactivates("PLAYING")
  BY DEF Deactivates
<1>1. ActiveAfter(u, "PLAYING") = n_active + 1
  BY <1>0 DEF ActiveAfter
<1>2. ASSUME NEW s \in {"PAUSED", "NULL"}, Deactivates(s), u \in active PROVE ActiveAfter(u, s) = n_active - 1
  BY <1>2 DEF ActiveAfter
<1>3. ASSUME NEW s \in {"PAUSED", "NULL"}, ~(Deactivates(s) /\ u \in active) PROVE ActiveAfter(u, s) = n_active
  BY <1>3 DEF ActiveAfter
<1> QED BY <1>1, <1>2, <1>3

\* What set_state does to the list.
LEMMA SetStateIs ==
    ASSUME NEW u \in Users, set_state(u)
    PROVE  /\ n_active' = ActiveAfter(u, Requested(u))
           /\ Requested(u) = "PLAYING" => active' = active \cup {u}
           /\ Requested(u) # "PLAYING" /\ Deactivates(Requested(u)) => active' = active \ {u}
           /\ Requested(u) # "PLAYING" /\ ~Deactivates(Requested(u)) => active' = active
           /\ UNCHANGED <<conf, reused, buffering, source, start>>
<1>1. /\ n_active' = ActiveAfter(u, Requested(u))
      /\ active' = CASE Requested(u) = "PLAYING" -> active \cup {u}
                     [] Deactivates(Requested(u)) -> active \ {u}
                     [] OTHER -> active
      /\ UNCHANGED <<conf, reused, buffering, source, start>>
  BY Zenon DEF set_state
<1>2. Requested(u) = "PLAYING" => ~Deactivates(Requested(u))
  BY DEF Deactivates
<1> QED BY <1>1, <1>2

\* A PLAY counts its user, and the pipeline plays.
LEMMA PlaySetsPlaying ==
    ASSUME PlayBase, NEW u \in Users, set_state(u), op[u] \in {"play", "replay"}
    PROVE  PlayInv'
<1> USE ThreadsAre
<1>0. /\ TypeOK /\ Base /\ UserOk(u) /\ PlayOk(u) /\ TargetInv /\ ActiveInv
      /\ start \in Nat /\ status \in Status /\ n_active \in Int /\ n_active >= 0 /\ Cardinality(CountedActive) \in Nat
      /\ target_state \in States /\ prepare_count \in Int /\ CountedActive \in SUBSET Users
  BY PlayTypes DEF PlayBase, Base, UsersInv, PlayInv, TypesOf
<1>1. pc[u] \in {"setstate", "stategot"} /\ Requested(u) = "PLAYING"
  BY RequestedIs DEF set_state, CanSetState
<1>2. glock = u /\ u \in using /\ status = "PREPARED" /\ start = 0 /\ \A t \in Thread : pc[t] # "nulled"
  <2>1. Asking(u) /\ pc[u] \notin Waits
    BY <1>1 DEF Asking, Waits
  <2>2. glock = u /\ u \in using /\ status \notin {"UNPREPARED", "UNPREPARING", "ERROR", "PREPARING"} /\ start = 0
    BY <2>1, Working
  <2>3. status # "SUSPENDED"
    BY <1>0, <1>1 DEF PlayOk
  <2>4. \A t \in Thread : pc[t] # "nulled"
    BY <2>2, UserFacts DEF PlayBase, Stopping
  <2> QED BY <1>0, <2>2, <2>3, <2>4 DEF Status
<1>3. /\ n_active' = n_active + 1 /\ active' = active \cup {u} /\ Return(u)
      /\ UNCHANGED <<conf, using, start, buffering>>
      /\ \/ n_active = 0 /\ target_state # "PLAYING" /\ SetPlaying
         \/ /\ n_active # 0 \/ target_state = "PLAYING"
            /\ UNCHANGED <<status, target_state, state>>
  <2>1. n_active' = n_active + 1 /\ active' = active \cup {u} /\ UNCHANGED <<conf, start, buffering>>
    BY <1>1, ActiveAfterIs, SetStateIs
  <2>2. do_state(u, "PLAYING") <=> n_active = 0
    BY <1>0, ActiveAfterIs DEF do_state
  <2>3. CASE n_active = 0 /\ target_state # "PLAYING"
    <3>1. SetPlaying /\ Return(u) /\ UNCHANGED using
      BY <1>1, <2>2, <2>3 DEF set_state
    <3> QED BY <2>1, <2>3, <3>1
  <2>4. CASE ~(n_active = 0 /\ target_state # "PLAYING")
    <3>1. Return(u) /\ UNCHANGED <<status, target_state, state, using>>
      BY <1>1, <2>2, <2>4 DEF set_state
    <3> QED BY <2>1, <2>4, <3>1
  <2> QED BY <2>3, <2>4
<1>4. /\ pc' = [pc EXCEPT ![u] = pc'[u]] /\ pc'[u] = "playing"
      /\ op' = [op EXCEPT ![u] = op'[u]] /\ op'[u] = "none"
  BY <1>0, <1>3, ReturnGoes
<1>5. /\ n_active' >= Cardinality(CountedActive')
      /\ Exact => n_active' = Cardinality(CountedActive')
  <2>1. CASE op[u] = "play"
    <3>1. u \notin CountedActive /\ CountedActive' = CountedActive \cup {u}
      BY <1>3, <1>4, <2>1, CountedIs
    <3>2. Cardinality(CountedActive') = Cardinality(CountedActive) + 1
      BY <1>0, <3>1, Sizes
    <3> QED BY <1>0, <1>3, <3>2 DEF ActiveInv
  <2>2. CASE op[u] = "replay"
    <3>1. conf.replays /\ u \in active
      BY <1>0, <2>2 DEF UserOk, PlayOk
    <3>2. CountedActive' = CountedActive
      BY <1>3, <1>4, <2>2, <3>1, CountedIs
    <3> QED BY <1>0, <1>3, <3>1, <3>2 DEF ActiveInv, Exact
  <2> QED BY <2>1, <2>2
<1>6. target_state' = "PLAYING" /\ status' = "PREPARED"
  <2>1. CASE n_active # 0
    BY <1>0, <1>2, <1>3, <2>1 DEF ActiveInv
  <2>2. CASE n_active = 0
    BY <1>2, <1>3, <2>2 DEF SetPlaying
  <2> QED BY <2>1, <2>2
<1>7. TargetInv'
  <2>1. CASE target_state # "PLAYING" /\ SetPlaying
    <3>1. target_state = "PAUSED"
      BY <1>0, <1>2, <2>1 DEF TargetInv, States
    <3>2. state' = IF buffering THEN "PAUSED" ELSE "PLAYING"
      BY <1>0, <1>2, <2>1, <3>1 DEF TargetInv, SetPlaying
    <3> QED BY <1>0, <1>3, <1>6, <3>2 DEF TargetInv
  <2>2. CASE UNCHANGED <<status, target_state, state>>
    BY <1>0, <1>2, <1>3, <1>6, <2>2 DEF TargetInv
  <2> QED BY <1>3, <2>1, <2>2
<1>8. PlayOk(u)'
  BY <1>3, <1>4 DEF PlayOk, Exact
<1> QED BY <1>2, <1>3, <1>4, <1>5, <1>6, <1>7, <1>8, PlaySets

\* A PAUSE takes its user from the list, and the last one pauses the pipeline.
LEMMA PlaySetsPaused ==
    ASSUME PlayBase, NEW u \in Users, set_state(u), op[u] = "pause"
    PROVE  PlayInv'
<1> USE ThreadsAre
<1>0. /\ TypeOK /\ Base /\ UserOk(u) /\ PlayOk(u) /\ TargetInv /\ ActiveInv
      /\ start \in Nat /\ status \in Status /\ n_active \in Int /\ n_active >= Cardinality(CountedActive)
      /\ target_state \in States /\ prepare_count \in Int /\ CountedActive \in SUBSET Users
      /\ Cardinality(CountedActive) \in Nat
  BY PlayTypes DEF PlayBase, Base, UsersInv, PlayInv, TypesOf
<1>1. pc[u] \in {"setstate", "stategot"} /\ Requested(u) = "PAUSED"
  BY RequestedIs DEF set_state, CanSetState
<1>2. glock = u /\ u \in using /\ start = 0 /\ \A t \in Thread : pc[t] # "nulled"
  <2>1. Asking(u) /\ pc[u] \notin Waits
    BY <1>1 DEF Asking, Waits
  <2>2. glock = u /\ u \in using /\ start = 0
    BY <2>1, Working
  <2>4. \A t \in Thread : pc[t] # "nulled"
    BY <2>2, UserFacts DEF PlayBase, Stopping
  <2> QED BY <2>2, <2>4
<1>3. u \in active /\ u \in CountedActive /\ n_active >= 1
  <2>1. u \in active /\ u \in CountedActive
    BY <1>0 DEF PlayOk, CountedActive
  <2>2. Cardinality(CountedActive) >= 1
    BY <1>0, <2>1, Sizes
  <2> QED BY <1>0, <2>1, <2>2
<1>4. target_state = "PLAYING" /\ status = "PREPARED"
  <2>1. target_state = "PLAYING" /\ status # "SUSPENDED"
    BY <1>0, <1>2, <1>3 DEF ActiveInv
  <2>2. status \notin {"UNPREPARED", "UNPREPARING", "PREPARING", "ERROR"}
    BY <1>1 DEF set_state, Refuses
  <2> QED BY <1>0, <2>1, <2>2 DEF Status
<1>5. /\ n_active' = n_active - 1 /\ active' = active \ {u} /\ Return(u)
      /\ UNCHANGED <<conf, using, start, buffering>>
      /\ \/ n_active' = 0 /\ SetPaused
         \/ UNCHANGED <<status, target_state, state>>
  <2>1. Deactivates("PAUSED")
    BY <1>4 DEF Deactivates
  <2>2. n_active' = n_active - 1 /\ active' = active \ {u} /\ UNCHANGED <<conf, start, buffering>>
    BY <1>1, <1>3, <2>1, ActiveAfterIs, SetStateIs
  <2>3. CASE do_state(u, "PAUSED")
    <3>1. SetPaused /\ Return(u) /\ UNCHANGED using
      BY <1>1, <1>4, <2>3 DEF set_state
    <3>2. ActiveAfter(u, "PAUSED") = 0
      BY <2>3 DEF do_state
    <3>3. n_active' = 0
      BY <1>1, <3>2 DEF set_state
    <3> QED BY <2>2, <3>1, <3>3
  <2>4. CASE ~do_state(u, "PAUSED")
    <3>1. Return(u) /\ UNCHANGED <<status, target_state, state, using>>
      BY <1>1, <2>4 DEF set_state
    <3> QED BY <2>2, <3>1
  <2> QED BY <2>3, <2>4
<1>6. /\ pc' = [pc EXCEPT ![u] = pc'[u]] /\ pc'[u] = "ready"
      /\ op' = [op EXCEPT ![u] = op'[u]] /\ op'[u] = "none"
  BY <1>0, <1>5, ReturnGoes
<1>7. /\ n_active' >= Cardinality(CountedActive')
      /\ Exact => n_active' = Cardinality(CountedActive')
  <2>1. CountedActive' = CountedActive \ {u}
    BY <1>3, <1>5, <1>6, CountedIs
  <2>2. Cardinality(CountedActive') = Cardinality(CountedActive) - 1
    BY <1>0, <1>3, <2>1, Sizes
  <2> QED BY <1>0, <1>5, <2>2 DEF ActiveInv
<1>8. /\ status' \in {"PREPARED", "SUSPENDED"}
      /\ n_active' # 0 => target_state' = "PLAYING" /\ status' # "SUSPENDED"
      /\ TargetInv'
  <2>1. CASE n_active' = 0 /\ SetPaused /\ buffering
    <3>1. target_state' = "PAUSED" /\ UNCHANGED <<status, state>>
      BY <2>1 DEF SetPaused
    <3> QED BY <1>0, <1>4, <1>5, <2>1, <3>1 DEF TargetInv
  <2>2. CASE n_active' = 0 /\ SetPaused /\ ~buffering
    <3>1. /\ status' = "SUSPENDED"
          /\ \/ conf.suspend_mode = "reset" /\ target_state' = "NULL" /\ state' = "NULL"
             \/ conf.suspend_mode # "reset" /\ target_state' = "PAUSED" /\ state' = "PAUSED"
      BY <1>4, <2>2 DEF SetPaused
    <3> QED BY <1>0, <1>5, <2>2, <3>1 DEF TargetInv
  <2>3. CASE UNCHANGED <<status, target_state, state>>
    BY <1>0, <1>4, <1>5, <2>3 DEF TargetInv
  <2> QED BY <1>5, <2>1, <2>2, <2>3
<1>9. PlayOk(u)'
  BY <1>5, <1>6 DEF PlayOk, Exact
<1> QED BY <1>2, <1>5, <1>6, <1>7, <1>8, <1>9, PlaySets

\* What the last unprepare does to the pipeline.
LEMMA LastUnprepare ==
    ASSUME TypeOK, NEW u \in Users, NEW depth \in Nat, unprepare(u, depth)
    PROVE  /\ status' # status => target_state' = "NULL" /\ status' = "UNPREPARING"
           /\ status' = status /\ status # "UNPREPARING" => UNCHANGED <<target_state, state, coming>>
           /\ status = "UNPREPARING" => UNCHANGED <<status, target_state, state, coming>>
  BY DEF unprepare

\* A departure takes its user from the list, and the last one unprepares.
LEMMA PlaySetsNull ==
    ASSUME PlayBase, NEW u \in Users, set_state(u), op[u] \in {"release", "finalize"}
    PROVE  PlayInv'
<1> USE ThreadsAre
<1>0. /\ TypeOK /\ Base /\ UserOk(u) /\ PlayOk(u) /\ TargetInv /\ ActiveInv /\ MessageInv /\ status # "ERROR"
      /\ start \in Nat /\ status \in Status /\ n_active \in Int /\ n_active >= Cardinality(CountedActive)
      /\ target_state \in States /\ prepare_count \in Int /\ CountedActive \in SUBSET Users
      /\ Cardinality(CountedActive) \in Nat /\ active \subseteq Users
  BY PlayTypes DEF PlayBase, Base, UsersInv, PlayInv, TypesOf
<1>1. pc[u] \in {"setstate", "stategot"} /\ Requested(u) = "NULL" /\ status \in {"PREPARED", "SUSPENDED"}
  <2>1. pc[u] \in {"setstate", "stategot"} /\ status \notin {"UNPREPARED", "UNPREPARING", "PREPARING"}
    BY DEF set_state, CanSetState, Refuses
  <2> QED BY <1>0, <2>1, RequestedIs DEF Status
<1>2. u \in using /\ start = 0 /\ \A t \in Thread : pc[t] # "nulled"
  <2>1. u \in using
    BY <1>1, AtWork DEF PlayBase, Stopping
  <2>2. \A t \in Thread : pc[t] # "nulled"
    BY <2>1, UserFacts DEF PlayBase, Stopping
  <2>3. start = 0
    BY <1>0, <1>1 DEF MessageInv
  <2> QED BY <2>1, <2>2, <2>3
<1>3. /\ UNCHANGED <<conf, start, buffering>>
      /\ target_state # "NULL" => active' = active \ {u}
      /\ target_state = "NULL" => active' = active
      /\ target_state # "NULL" /\ u \in active => n_active' = n_active - 1
      /\ ~(target_state # "NULL" /\ u \in active) => n_active' = n_active
  <2>1. Deactivates("NULL") <=> target_state # "NULL"
    BY DEF Deactivates
  <2> QED BY <1>1, <2>1, SetStateIs, ActiveAfterIs
<1>4. \/ target_state # "NULL" /\ prepare_count <= 1 /\ unprepare(u, 2)
      \/ Return(u) /\ UNCHANGED <<status, target_state, state, using>>
  <2>1. CASE do_state(u, "NULL") /\ target_state # "NULL"
    <3>1. unprepare(u, 2)
      BY <1>1, <2>1 DEF set_state
    <3> QED BY <2>1, <3>1 DEF do_state
  <2>2. CASE ~(do_state(u, "NULL") /\ target_state # "NULL")
    BY <1>1, <2>2 DEF set_state
  <2> QED BY <2>1, <2>2
<1>5. /\ pc' = [pc EXCEPT ![u] = pc'[u]] /\ op' = [op EXCEPT ![u] = op'[u]]
      /\ pc'[u] \in {"setstate", "unprepare", "nulling"} /\ op'[u] \in {"release", "finalize", "unprepare"}
      /\ Return(u) => op'[u] \in {"finalize", "unprepare"}
      /\ ~Return(u) => target_state # "NULL" /\ pc'[u] = "nulling"
  <2>1. CASE Return(u)
    BY <1>0, <2>1, ReturnGoes
  <2>2. CASE ~Return(u)
    <3>1. target_state # "NULL" /\ Goto(u, "nulling") /\ op' = op
      <4>1. unprepare(u, 2) /\ target_state # "NULL" /\ prepare_count <= 1
        BY <1>4, <2>2
      <4> QED BY <1>1, <2>2, <4>1, UnprepareIs DEF PlayBase, Setting, Stopping
    <3> QED BY <1>0, <2>2, <3>1, GotoIs, OpIs
  <2> QED BY <2>1, <2>2
<1>6. u \in active => u \in CountedActive /\ n_active >= 1 /\ target_state = "PLAYING" /\ status # "SUSPENDED"
  <2>1. ASSUME u \in active PROVE u \in CountedActive /\ n_active >= 1
    <3>1. u \in CountedActive
      BY <2>1 DEF CountedActive
    <3>2. Cardinality(CountedActive) >= 1
      BY <1>0, <3>1, Sizes
    <3> QED BY <1>0, <3>1, <3>2
  <2> QED BY <1>0, <1>2, <2>1 DEF ActiveInv
<1>7. active' = active \ {u}
  BY <1>3, <1>6
<1>8. /\ n_active' >= Cardinality(CountedActive')
      /\ Exact => n_active' = Cardinality(CountedActive')
      /\ n_active' # 0 => n_active # 0
  <2>1. CASE u \in active
    <3>1. CountedActive' = CountedActive \ {u} /\ n_active' = n_active - 1
      BY <1>3, <1>5, <1>6, <1>7, <2>1, CountedIs
    <3>2. Cardinality(CountedActive') = Cardinality(CountedActive) - 1
      BY <1>0, <1>6, <2>1, <3>1, Sizes
    <3> QED BY <1>0, <1>6, <2>1, <3>1, <3>2 DEF ActiveInv
  <2>2. CASE u \notin active
    <3>1. CountedActive' = CountedActive /\ n_active' = n_active
      BY <1>3, <1>5, <1>7, <2>2, CountedIs
    <3> QED BY <1>0, <3>1 DEF ActiveInv
  <2> QED BY <2>1, <2>2
<1>9. PlayOk(u)'
  BY <1>5, <1>7 DEF PlayOk, Exact
<1>10. CASE target_state # "NULL" /\ prepare_count <= 1 /\ unprepare(u, 2)
  <2>1. using' = {} /\ status' = "UNPREPARING"
    BY <1>1, <1>2, <1>10, UnprepareIs DEF PlayBase, Setting, Stopping
  <2>2. target_state' = "NULL"
    BY <1>0, <1>1, <1>10, <2>1, LastUnprepare
  <2>3. TargetInv'
    BY <1>0, <1>3, <2>1, <2>2 DEF TargetInv
  <2> QED BY <1>2, <1>3, <1>5, <1>7, <1>8, <1>9, <2>1, <2>3, PlaySets
<1>11. CASE Return(u) /\ UNCHANGED <<status, target_state, state, using>>
  <2>1. TargetInv'
    BY <1>0, <1>3, <1>11 DEF TargetInv
  <2>2. n_active' # 0 => target_state' = "PLAYING" /\ status' # "SUSPENDED"
    BY <1>0, <1>2, <1>8, <1>11 DEF ActiveInv
  <2> QED BY <1>1, <1>2, <1>3, <1>5, <1>7, <1>8, <1>9, <1>11, <2>1, <2>2, PlaySets
<1> QED BY <1>4, <1>10, <1>11

\* unprepare at the end of a departure.
LEMMA PlayUnprepares ==
    ASSUME PlayBase, NEW u \in Users, Unprepare(u)
    PROVE  PlayInv'
<1> USE ThreadsAre
<1>0. /\ TypeOK /\ Base /\ UserOk(u) /\ PlayOk(u) /\ TargetInv /\ ActiveInv /\ MessageInv /\ status # "ERROR"
      /\ n_active \in Int /\ n_active >= Cardinality(CountedActive) /\ start \in Nat
  BY PlayTypes DEF PlayBase, Base, UsersInv, PlayInv, TypesOf
<1>1. pc[u] = "unprepare" /\ unprepare(u, 1) /\ UNCHANGED <<conf, n_active, buffering, bus, start, active>>
  BY DEF Unprepare
<1>2. op[u] = "unprepare"
  BY <1>0, <1>1 DEF UserOk, OpOk, Resting, Starting, Setting, Stopping
<1>3. u \notin active \/ ~Exact
  BY <1>1, <1>2, NotActive
<1>4. /\ status' = status /\ Return(u) /\ (using' # {} => using # {}) /\ UNCHANGED <<target_state, state, coming>>
      \/ /\ using = {u} /\ using' = {} /\ status' = "UNPREPARING" /\ target_state' = "NULL"
         /\ ~finishing_unprepare /\ status # "UNPREPARING"
         /\ Return(u) \/ (Goto(u, "nulling") /\ op' = op)
  <2>1. unprepare(u, 1) /\ pc[u] \notin Stopping \cup {"idle"} /\ op[u] \in {"release", "finalize", "unprepare"}
        /\ BaseInv /\ 1 \in Nat
    BY <1>1, <1>2 DEF PlayBase, Stopping
  <2>2. using = {u} => status \notin {"UNPREPARED", "UNPREPARING"}
    BY <1>0 DEF Base, StatusInv
  <2>3. \/ status' = status /\ Return(u) /\ (using' # {} => using # {})
        \/ /\ using = {u} /\ using' = {} /\ status' = "UNPREPARING" /\ ~finishing_unprepare
           /\ Return(u) \/ (Goto(u, "nulling") /\ op' = op)
    BY <1>1, <2>1, UnprepareIs
  <2> QED BY <1>0, <2>1, <2>2, <2>3, LastUnprepare
<1>5. CASE status' = status /\ Return(u) /\ (using' # {} => using # {}) /\ UNCHANGED <<target_state, state, coming>>
  <2>1. /\ pc' = [pc EXCEPT ![u] = pc'[u]] /\ op' = [op EXCEPT ![u] = op'[u]] /\ pc'[u] = "idle" /\ op'[u] = "none"
    BY <1>0, <1>2, <1>5, ReturnGoes
  <2>2. PlayOk(u)'
    BY <1>1, <1>3, <2>1 DEF PlayOk, Exact
  <2> QED BY <1>1, <1>2, <1>5, <2>1, <2>2, CountedIs, PlayQuiet DEF Stopping
<1>6. CASE /\ using = {u} /\ using' = {} /\ status' = "UNPREPARING" /\ target_state' = "NULL"
           /\ ~finishing_unprepare /\ status # "UNPREPARING"
           /\ Return(u) \/ (Goto(u, "nulling") /\ op' = op)
  <2>1. /\ pc' = [pc EXCEPT ![u] = pc'[u]] /\ op' = [op EXCEPT ![u] = op'[u]] /\ pc'[u] \in {"idle", "nulling"}
        /\ op'[u] \in {"none", "unprepare"}
    BY <1>0, <1>2, <1>6, ReturnGoes, GotoIs, OpIs
  <2>2. PlayOk(u)'
    BY <1>1, <1>3, <2>1 DEF PlayOk, Exact
  <2>3. \A t \in Thread : pc[t] # "nulled"
    BY <1>6, UserFacts DEF PlayBase, Stopping
  <2>4. start = 0
    <3>1. status # "PREPARING"
      BY <1>1, <1>6, OneWaits DEF PlayBase, Waits
    <3> QED BY <1>0, <3>1 DEF MessageInv
  <2>5. TargetInv'
    BY <1>0, <1>1, <1>6 DEF TargetInv
  <2>6. CountedActive' = CountedActive
    BY <1>1, <1>2, <2>1, CountedIs
  <2> QED BY <1>0, <1>1, <1>6, <2>1, <2>2, <2>3, <2>4, <2>5, <2>6, PlaySets DEF ActiveInv
<1> QED BY <1>4, <1>5, <1>6

\* Nobody plays a media that nobody uses, if every transport is counted.
LEMMA NobodyPlays ==
    ASSUME PlayBase, using = {}, Exact
    PROVE  n_active = 0
<1>1. \A u \in Users : u \notin CountedActive
  <2>1. ASSUME NEW u \in Users, u \in CountedActive PROVE FALSE
    <3>1. UserOk(u) /\ PlayOk(u)
      BY DEF PlayBase, BaseInv, Base, UsersInv, PlayInv
    <3>2. u \in active /\ op[u] # "play"
      BY <2>1 DEF CountedActive
    <3>3. pc[u] = "playing" \/ op[u] = "pause" \/ (op[u] = "release" /\ pc[u] \in Setting)
      BY <3>1, <3>2 DEF PlayOk
    <3> QED BY <3>1, <3>3 DEF UserOk, Asking
  <2> QED BY <2>1
<1>2. CountedActive = {}
  BY <1>1, PlayTypes
<1>3. n_active = Cardinality(CountedActive)
  BY DEF PlayBase, PlayInv, ActiveInv
<1> QED BY <1>2, <1>3, Sizes

\* A user prepares the media.
LEMMA PlayPrepares ==
    ASSUME PlayBase, NEW u \in Users, prepare(u)
    PROVE  PlayInv'
<1> USE ThreadsAre
<1>0. /\ TypeOK /\ Base /\ UserOk(u) /\ PlayOk(u) /\ TargetInv /\ ActiveInv /\ MessageInv /\ start \in Nat
      /\ n_active \in Int /\ n_active >= Cardinality(CountedActive) /\ pc \in [Thread -> PCs] /\ op \in [Thread -> Ops]
  BY PlayTypes DEF PlayBase, Base, UsersInv, PlayInv, TypesOf
<1>1. /\ pc[u] = "idle" /\ glock = NoThread /\ can_be_shared /\ status \in {"UNPREPARED", "PREPARING", "PREPARED", "SUSPENDED"}
      /\ using' = using \cup {u}
      /\ UNCHANGED <<conf, reused, finishing_unprepare, op, n_active, active, target_state, state, coming, bus>>
      /\ Goto(u, IF status \in {"PREPARED", "SUSPENDED"} THEN "described" ELSE "preparing")
      /\ \/ status = "UNPREPARED" /\ status' = "PREPARING" /\ start' = start + 1 /\ buffering' = FALSE
         \/ status # "UNPREPARED" /\ UNCHANGED <<status, start, buffering>>
  BY DEF prepare
<1>2. status # "PREPARING" /\ start = 0 /\ \A t \in Thread : pc[t] \notin Stopping
  <2>1. status # "PREPARING"
    BY <1>1, OneWaits, MediaAssumption DEF PlayBase
  <2>2. start = 0
    BY <1>0, <2>1 DEF MessageInv
  <2> QED BY <1>0, <1>1, <2>1, <2>2 DEF Base, StopInv
<1>3. /\ pc' = [pc EXCEPT ![u] = pc'[u]] /\ pc'[u] \in {"described", "preparing"} /\ op'[u] = op[u]
      /\ op' = [op EXCEPT ![u] = op'[u]] /\ \A t \in Thread \ {u} : pc'[t] = pc[t]
  BY <1>0, <1>1, GotoIs, OpIs
<1>4. op[u] = "none"
  BY <1>0, <1>1 DEF UserOk, OpOk, Resting, Starting, Setting, Stopping
<1>5. PlayOk(u)'
  <2>1. Exact => u \notin active
    BY <1>1, <1>4, NotActive
  <2> QED BY <1>1, <1>3, <1>4, <2>1 DEF PlayOk, Exact
<1>6. CountedActive' = CountedActive
  BY <1>1, <1>3, CountedIs
<1>7. CASE status # "UNPREPARED"
  <2>1. using # {}
    BY <1>0, <1>1, <1>2, <1>7 DEF Base, StatusInv, StopInv
  <2> QED BY <1>1, <1>2, <1>3, <1>5, <1>6, <1>7, <2>1, PlayQuiet DEF Stopping
<1>8. CASE status = "UNPREPARED"
  <2>1. n_active = 0
    <3>1. using = {}
      BY <1>0, <1>8 DEF Base, StatusInv
    <3>2. CASE reused
      <4>1. conf.reusable
        BY <1>1, <3>2 DEF can_be_shared
      <4>2. Exact
        BY <4>1, Fields DEF PlayBase, BaseInv, Undisturbed, Counting, Exact
      <4> QED BY <3>1, <4>2, NobodyPlays
    <3>3. CASE ~reused
      BY <1>0, <1>8, <3>3 DEF Base, StatusInv
    <3> QED BY <3>2, <3>3
  <2>2. \A v \in Users : PlayOk(v)'
    <3>1. status' # "SUSPENDED"
      BY <1>1, <1>8
    <3> QED BY <1>1, <1>3, <1>5, <3>1, PlayOthers
  <2>3. MessageInv'
    <3>1. bus' = <<>> /\ coming' = "no" /\ start' = 1 /\ status' = "PREPARING"
      BY <1>0, <1>1, <1>2, <1>8 DEF MessageInv
    <3> QED BY <3>1 DEF MessageInv
  <2>4. ActiveInv'
    BY <1>0, <1>1, <1>6, <2>1 DEF ActiveInv, Exact
  <2>5. TargetInv'
    BY <1>0, <1>1, <1>2, <1>8 DEF TargetInv
  <2> QED BY <2>2, <2>3, <2>4, <2>5 DEF PlayInv
<1> QED BY <1>7, <1>8

\* The start source is dispatched.
LEMMA PlayStarts ==
    ASSUME PlayBase, start_prepare
    PROVE  PlayInv'
<1> USE ThreadsAre
<1>0. /\ TypeOK /\ Base /\ TargetInv /\ ActiveInv /\ MessageInv /\ start \in Nat /\ ~conf.faults
      /\ \A v \in Users : PlayOk(v)
  BY PlayTypes DEF PlayBase, PlayInv, TypesOf
<1>1. start = 1 /\ status = "PREPARING" /\ start' = 0
  BY <1>0 DEF start_prepare, MessageInv
<1>2. /\ start_preroll /\ status' = "PREPARING" /\ UNCHANGED <<conf, n_active, buffering, bus, pc, op, active, using>>
  BY <1>0, <1>1 DEF start_prepare
<1>3. using # {} /\ \A t \in Thread : pc[t] # "nulled"
  <2>1. PICK w \in Users : w \in using
    BY <1>1, OneWaits DEF PlayBase
  <2> QED BY <2>1, UserFacts DEF PlayBase, Stopping
<1>4. n_active = 0
  BY <1>0, <1>1, <1>3 DEF ActiveInv
<1>5. target_state' = "PAUSED" /\ state' = IF conf.live THEN "PLAYING" ELSE "PAUSED"
  BY <1>2 DEF start_preroll
<1>6. \A v \in Users : PlayOk(v)'
  BY <1>0, <1>1, <1>2 DEF PlayOk, Exact
<1>7. MessageInv'
  BY <1>1, <1>2, <1>3 DEF MessageInv
<1>8. ActiveInv'
  BY <1>0, <1>2, <1>4 DEF ActiveInv, Exact, CountedActive
<1>9. TargetInv'
  BY <1>0, <1>2, <1>5 DEF TargetInv
<1> QED BY <1>6, <1>7, <1>8, <1>9 DEF PlayInv

\* The bus dispatches a message.
LEMMA PlayHandles ==
    ASSUME PlayBase, handle_message
    PROVE  PlayInv'
<1> USE ThreadsAre
<1>0. /\ TypeOK /\ Base /\ TargetInv /\ ActiveInv /\ MessageInv /\ start \in Nat
      /\ (\A v \in Users : PlayOk(v) /\ v # Bus) /\ pc[Bus] = "idle" /\ op[Bus] = "none"
      /\ pc \in [Thread -> PCs] /\ op \in [Thread -> Ops]
  BY PlayTypes, MediaAssumption DEF PlayBase, PlayInv, TypesOf, handle_message, Base, StopInv
<1>1. /\ bus # <<>> /\ UNCHANGED <<conf, n_active, target_state, buffering, state, coming, start, active, using>>
      /\ status' = status \/ (status = "PREPARING" /\ status' = "PREPARED")
      /\ finish_unprepare(Bus, 1) \/ UNCHANGED <<pc, op>>
  BY DEF handle_message
<1>2. start = 0 /\ status # "UNPREPARED" /\ \A t \in Thread : pc[t] # "nulled"
  BY <1>0, <1>1 DEF MessageInv
<1>3. /\ \A v \in Users : pc'[v] = pc[v] /\ op'[v] = op[v]
      /\ pc'[Bus] \in {"idle", "nulling"}
  <2>1. CASE UNCHANGED <<pc, op>>
    BY <1>0, <2>1
  <2>2. CASE finish_unprepare(Bus, 1)
    <3>1. Return(Bus) \/ (Goto(Bus, "nulling") /\ op' = op)
      BY <2>2 DEF finish_unprepare
    <3>2. CASE Return(Bus)
      BY <1>0, <3>2, ReturnGoes
    <3>3. CASE Goto(Bus, "nulling") /\ op' = op
      BY <1>0, <3>3, GotoIs
    <3> QED BY <3>1, <3>2, <3>3
  <2> QED BY <1>1, <2>1, <2>2
<1>4. \A v \in Users : PlayOk(v)'
  BY <1>0, <1>1, <1>3 DEF PlayOk, Exact
<1>5. MessageInv'
  <2>1. \A t \in Thread : pc'[t] # "nulled"
    BY <1>2, <1>3
  <2> QED BY <1>1, <1>2, <2>1 DEF MessageInv
<1>6. ActiveInv'
  <2>1. CountedActive' = CountedActive
    <3>1. active \subseteq Users
      BY PlayTypes DEF TypesOf
    <3> QED BY <1>1, <1>3, <3>1 DEF CountedActive
  <2> QED BY <1>0, <1>1, <2>1 DEF ActiveInv, Exact
<1>7. TargetInv'
  BY <1>0, <1>1, <1>2 DEF TargetInv
<1> QED BY <1>4, <1>5, <1>6, <1>7 DEF PlayInv

\* The pipeline posts its messages.
LEMMA PlayPipeline ==
    ASSUME PlayBase,
           \/ \E u \in Users : StatusTimeout(u)
           \/ ErrorMessage \/ BufferingMessage \/ Post \/ PadAdded \/ pad_added_cb
    PROVE  PlayInv'
<1>0. /\ TypeOK /\ Base /\ TargetInv /\ ActiveInv /\ MessageInv /\ start \in Nat /\ ~conf.faults
      /\ (\A v \in Users : PlayOk(v)) /\ coming \in Messages \cup {"no"} /\ buffering \in BOOLEAN
  BY PlayTypes DEF PlayBase, PlayInv, TypesOf
<1>1. UNCHANGED <<conf, status, n_active, target_state, start, pc, op, active, using>>
  BY <1>0 DEF StatusTimeout, ErrorMessage, BufferingMessage, Post, PadAdded, pad_added_cb, mediaVars, threadVars
<1>2. \A v \in Users : PlayOk(v)'
  BY <1>0, <1>1 DEF PlayOk, Exact
<1>3. ActiveInv'
  BY <1>0, <1>1 DEF ActiveInv, Exact, CountedActive
<1>4. MessageInv'
  <2>1. UNCHANGED <<bus, coming>> \/ coming # "no"
    BY <1>0 DEF StatusTimeout, ErrorMessage, BufferingMessage, Post, PadAdded, pad_added_cb, mediaVars, threadVars
  <2> QED BY <1>0, <1>1, <2>1 DEF MessageInv
<1>5. TargetInv'
  <2>1. CASE UNCHANGED <<buffering, state>>
    BY <1>0, <1>1, <2>1 DEF TargetInv
  <2>2. CASE BufferingMessage
    <3>1. /\ ~conf.live /\ buffering' = ~buffering
          /\ state' = IF target_state = "PLAYING" THEN IF buffering THEN "PLAYING" ELSE "PAUSED" ELSE state
      BY <2>2 DEF BufferingMessage
    <3>2. target_state = "PLAYING" => state' = IF buffering' THEN "PAUSED" ELSE "PLAYING"
      BY <1>0, <3>1
    <3> QED BY <1>0, <1>1, <3>1, <3>2 DEF TargetInv
  <2> QED BY <1>0, <2>1, <2>2 DEF StatusTimeout, ErrorMessage, Post, PadAdded, pad_added_cb, mediaVars, threadVars
<1> QED BY <1>2, <1>3, <1>4, <1>5 DEF PlayInv

\* The pipeline has stopped, and the shutdown ends.
LEMMA PlayStops ==
    ASSUME PlayBase, NEW t \in Thread, StateNull(t) \/ Unprepared(t)
    PROVE  PlayInv'
<1> USE ThreadsAre
<1>0. /\ TypeOK /\ Base /\ TargetInv /\ ActiveInv /\ MessageInv /\ start \in Nat /\ status # "ERROR"
      /\ (\A v \in Users : PlayOk(v)) /\ pc \in [Thread -> PCs] /\ op \in [Thread -> Ops] /\ active \subseteq Users
  BY PlayTypes DEF PlayBase, PlayInv, TypesOf
<1>1. pc[t] \in Stopping
  BY DEF StateNull, Unprepared, Stopping
<1>2. /\ using = {} /\ status = "UNPREPARING" /\ (\A s \in Thread : pc[s] \in Stopping => s = t)
      /\ op[t] \in {"none", "release", "finalize", "unprepare"}
  <2>1. /\ using = {} /\ status \in {"UNPREPARING", "ERROR"} /\ (\A s \in Thread : pc[s] \in Stopping => s = t)
        /\ t = Bus => op[t] = "none"
        /\ t \in Users => op[t] \in {"release", "finalize", "unprepare"}
    BY <1>1, StopFacts DEF PlayBase
  <2> QED BY <1>0, <2>1
<1>3. start = 0 /\ target_state = "NULL"
  BY <1>0, <1>2 DEF MessageInv, TargetInv
<1>4. /\ UNCHANGED <<conf, n_active, target_state, buffering, start, active, using>>
      /\ \A s \in Thread \ {t} : pc'[s] = pc[s] /\ op'[s] = op[s]
      /\ op'[t] \in {"none", "release", "finalize", "unprepare"}
      /\ pc'[t] \in {"nulled", "idle", "setstate", "unprepare"}
      /\ \/ status' = status /\ bus' = <<>> /\ coming' = "no"
         \/ status' = "UNPREPARED" /\ pc[t] = "nulled" /\ pc'[t] # "nulled" /\ UNCHANGED <<bus, coming>>
  <2>1. CASE StateNull(t)
    <3>1. Goto(t, "nulled") /\ op' = op /\ bus' = <<>> /\ coming' = "no"
          /\ UNCHANGED <<conf, status, n_active, target_state, buffering, start, active, using>>
      BY <2>1 DEF StateNull, mediaVars
    <3> QED BY <1>0, <1>2, <3>1, GotoIs
  <2>2. CASE Unprepared(t)
    <3>1. /\ Return(t) /\ status' = "UNPREPARED" /\ pc[t] = "nulled"
          /\ UNCHANGED <<conf, n_active, target_state, buffering, start, active, using, bus, coming>>
      BY <2>2 DEF Unprepared
    <3> QED BY <1>0, <1>2, <3>1, ReturnGoes
  <2> QED BY <2>1, <2>2
<1>5. ASSUME NEW v \in Users PROVE PlayOk(v)'
  <2>1. CASE v = t
    <3>1. Exact => v \notin active
      BY <1>1, <1>2, <2>1, NotActive DEF Stopping, Setting
    <3> QED BY <1>4, <2>1, <3>1 DEF PlayOk, Exact
  <2>2. CASE v # t
    <3>1. pc'[v] = pc[v] /\ op'[v] = op[v] /\ status' # "SUSPENDED"
      BY <1>2, <1>4, <2>2
    <3> QED BY <1>0, <1>4, <3>1 DEF PlayOk, Exact
  <2> QED BY <2>1, <2>2
<1>6. MessageInv'
  <2>1. bus' = <<>> /\ coming' = "no"
    BY <1>0, <1>4 DEF MessageInv
  <2> QED BY <1>3, <1>4, <2>1 DEF MessageInv
<1>7. ActiveInv'
  <2>1. CountedActive' = CountedActive
    BY <1>0, <1>2, <1>4 DEF CountedActive
  <2> QED BY <1>0, <1>2, <1>4, <2>1 DEF ActiveInv, Exact
<1>8. TargetInv'
  BY <1>0, <1>2, <1>3, <1>4 DEF TargetInv
<1> QED BY <1>5, <1>6, <1>7, <1>8 DEF PlayInv

\* The invariant of a pipeline that works holds at first,
LEMMA PlayInit ==
    Init => PlayInv
<1> SUFFICES ASSUME Init PROVE PlayInv
  OBVIOUS
<1>1. \A t \in Thread : pc[t] = "idle" /\ op[t] = "none"
  BY DEF Init
<1>2. CountedActive = {}
  BY DEF Init, CountedActive
<1>3. \A u \in Users : PlayOk(u)
  BY <1>1, ThreadsAre DEF Init, PlayOk
<1>4. MessageInv /\ TargetInv
  BY <1>1 DEF Init, MessageInv, TargetInv
<1>5. ActiveInv
  BY <1>2, Sizes DEF Init, ActiveInv
<1> QED BY <1>3, <1>4, <1>5 DEF PlayInv

\* and every step keeps it.
LEMMA PlayStep ==
    ASSUME PlayBase, Next
    PROVE  PlayInv'
<1>1. ASSUME NEW u \in Users, Continue(u) PROVE PlayInv'
  <2>1. ASSUME set_state(u) PROVE PlayInv'
    <3>1. op[u] \in {"play", "replay", "pause", "release", "finalize"}
      <4>1. pc[u] \in {"setstate", "stategot"}
        BY <2>1 DEF set_state, CanSetState
      <4> QED BY <4>1 DEF PlayBase, BaseInv, Base, UsersInv, UserOk, OpOk, Resting, Starting, Setting, Stopping
    <3> QED BY <2>1, <3>1, PlaySetsPlaying, PlaySetsPaused, PlaySetsNull
  <2> QED BY <1>1, <2>1, PlayGoes, PlaySuspends, PlayResumes, PlayRefused, PlayUnprepares DEF Continue
<1>2. ASSUME NEW u \in Users, Request(u) PROVE PlayInv'
  BY <1>2, PlayPrepares, PlaySuspends, PlayBegins, PlayResumes, PlayGoes DEF Request
<1> QED BY <1>1, <1>2, PlayPipeline, PlayStops, PlayStarts, PlayHandles DEF Next, BusNext


\* What the invariant says of the clients.
LEMMA ServesClients ==
    ASSUME TypeOK, Undisturbed(conf), Base, ~conf.faults => PlayInv
    PROVE  ClientsServed
<1>1. UsersPrepared
  BY DEF Base, StatusInv, UsersPrepared
<1>2. ASSUME NEW u \in Users, pc[u] = "playing", ~conf.faults
      PROVE  /\ u \in active /\ status # "SUSPENDED" /\ target_state = "PLAYING"
             /\ state = IF buffering THEN "PAUSED" ELSE "PLAYING"
  <2>1. PlayBase /\ UserOk(u) /\ PlayOk(u)
    BY <1>2 DEF PlayBase, BaseInv, Undisturbed, Base, UsersInv, PlayInv
  <2>2. op[u] = "none" /\ u \in using
    BY <1>2, <2>1 DEF UserOk, OpOk, Resting, Starting, Setting, Stopping
  <2>3. u \in active /\ u \in CountedActive
    BY <1>2, <2>1, <2>2 DEF PlayOk, CountedActive
  <2>4. n_active # 0
    <3>1. Cardinality(CountedActive) >= 1 /\ n_active >= Cardinality(CountedActive)
      BY <2>1, <2>3, PlayTypes, Sizes
    <3> QED BY <2>1, <3>1, PlayTypes
  <2>5. target_state = "PLAYING" /\ status # "SUSPENDED"
    BY <2>1, <2>2, <2>4 DEF PlayBase, PlayInv, ActiveInv
  <2>6. status # "UNPREPARING"
    BY <2>1, <2>2, UserFacts DEF PlayBase
  <2> QED BY <2>1, <2>3, <2>5, <2>6 DEF PlayBase, PlayInv, TargetInv
<1> QED BY <1>1, <1>2 DEF ClientsServed, PlayingKept

(* The inductive invariant holds; what it says depends on the configuration. *)
THEOREM Invariance == Spec => []IInv
<1>1. Init => IInv
  BY BaseInit, PlayInit DEF IInv
<1>2. IInv /\ [Next]_vars => IInv'
  <2> SUFFICES ASSUME IInv, [Next]_vars PROVE IInv'
    OBVIOUS
  <2>1. CASE Next
    <3>1. TypeOK' /\ conf' = conf
      BY <2>1, TypeStep DEF IInv
    <3>2. Counting(conf) => Base'
      BY <2>1, BaseStep DEF IInv, BaseInv
    <3>3. Undisturbed(conf) /\ ~conf.faults => PlayInv'
      BY <2>1, PlayStep DEF IInv, PlayBase, BaseInv, Undisturbed
    <3> QED BY <3>1, <3>2, <3>3 DEF IInv, Counting, Undisturbed
  <2>2. CASE UNCHANGED vars
    BY <2>2 DEF vars, mediaVars, threadVars, IInv, TypeOK, Thread, Base, UsersInv, UserOk, OpOk, Asking, Gone, GoneInv,
                StopInv, StatusInv, CountInv, PlayInv, PlayOk, Exact, MessageInv, ActiveInv, CountedActive, TargetInv,
                Counting, Undisturbed
  <2> QED BY <2>1, <2>2
<1> QED BY <1>1, <1>2, PTL DEF Spec

(* Every prepare of the media is counted and undone once, although the end   *)
(* of a session media unprepares twice (rtsp-session-media.c:107), as long   *)
(* as no media that users leave without a TEARDOWN is used again.            *)
THEOREM PreparesCounted ==
    ASSUME \A c \in Confs : c.closes /\ ~c.eos_shutdown => ~c.reusable
    PROVE  Spec => []MediaCounted
<1>1. IInv => MediaCounted
  <2> SUFFICES ASSUME IInv PROVE MediaCounted
    OBVIOUS
  <2>1. TypeOK
    BY DEF IInv
  <2>2. ASSUME ~conf.eos_shutdown PROVE prepare_count = Cardinality(using)
    <3>1. conf \in Confs
      BY <2>1 DEF TypeOK
    <3>2. Counting(conf)
      BY <2>2, <3>1 DEF Counting
    <3>3. CountInv
      BY <3>2 DEF IInv, Base
    <3> QED BY <2>2, <3>3, FS_EmptySet DEF CountInv
  <2> QED BY <2>1, <2>2 DEF MediaCounted, CountBalance
<1> QED BY <1>1, Invariance, PTL

(* Nobody shuts the media down while somebody has it prepared, the last user *)
(* does, and a client whose PLAY was answered stays in the list of a         *)
(* pipeline that plays, or buffers, whatever the other clients do.           *)
THEOREM PlayersServed ==
    ASSUME \A c \in Confs : Undisturbed(c)
    PROVE  Spec => []ClientsServed
<1>1. IInv => ClientsServed
  <2> SUFFICES ASSUME IInv PROVE ClientsServed
    OBVIOUS
  <2>1. Undisturbed(conf) /\ Counting(conf) /\ TypeOK
    BY DEF IInv, TypeOK, Undisturbed
  <2> QED BY <2>1, ServesClients DEF IInv
<1> QED BY <1>1, Invariance, PTL
=============================================================================
