-------------------------------- MODULE Fanout --------------------------------
(***************************************************************************)
(* What a stream promises to the clients it feeds over their RTSP          *)
(* connections: one queue per client.  An item is put at the end of the    *)
(* queue of a client, leaves it from the front, and is given to the        *)
(* connection then or lost with the connection; a client that leaves, or   *)
(* is too slow, loses what is queued.  Nothing is sent twice, out of       *)
(* order, or after it was cleared.                                         *)
(***************************************************************************)
EXTENDS Naturals, Sequences

CONSTANTS Trans, Items, Nothing

VARIABLES
    queue,      \* what waits for each client
    given       \* the last item its connection was given

fanoutVars == <<queue, given>>

Init ==
    /\ queue = [t \in Trans |-> <<>>]
    /\ given = [t \in Trans |-> Nothing]

Put(t) ==
    /\ queue'[t] # <<>>
    /\ LET i == queue'[t][Len(queue'[t])]
       IN  i \in Items /\ queue' = [queue EXCEPT ![t] = Append(@, i)]
    /\ UNCHANGED given

Give(t) ==
    /\ queue[t] # <<>>
    /\ given' = [given EXCEPT ![t] = Head(queue[t])]
    /\ queue' = [queue EXCEPT ![t] = Tail(@)]

Lose(t) ==
    /\ queue[t] # <<>>
    /\ queue' = [queue EXCEPT ![t] = Tail(@)]
    /\ UNCHANGED given

\* All that waits is dropped, but for an item on its way to the connection.
Clear(t) ==
    /\ \E k \in 0..Len(queue[t]) : queue' = [queue EXCEPT ![t] = SubSeq(@, 1, k)]
    /\ UNCHANGED given

Next ==
    \E t \in Trans :
        \/ Put(t)
        \/ Give(t)
        \/ Lose(t)
        \/ Clear(t)

Spec == Init /\ [][Next]_fanoutVars
================================================================================
