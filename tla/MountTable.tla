------------------------------ MODULE MountTable ------------------------------
(* What mount points promise: a table from paths to factories, in which the *)
(* factory of a request is the one with the longest match.                  *)
EXTENDS Integers, Sequences

CONSTANTS Paths, Factories, Slash, None
VARIABLES
    at,     \* the factory of each path
    todo    \* what the application will mount and unmount

\* A path covers itself and everything below it; "/" covers all.
Covers(p, url) ==
    \/ p = url
    \/ p = <<Slash>> /\ url[1] = Slash
    \/ /\ Len(url) > Len(p) /\ url[Len(p) + 1] = Slash
       /\ SubSeq(url, 1, Len(p)) = p

Candidates(url) == {p \in Paths : at[p] # None /\ Covers(p, url)}
Longest(url) ==
    IF Candidates(url) = {} THEN None
    ELSE CHOOSE p \in Candidates(url) : \A q \in Candidates(url) : Len(q) <= Len(p)

Init ==
    /\ at = [p \in Paths |-> None]
    /\ todo \in Seq([path : Paths, factory : Factories \cup {None}])

\* A mount replaces what was there; no factory unmounts it.
Mount ==
    /\ todo # <<>> /\ todo' = Tail(todo)
    /\ at' = [at EXCEPT ![todo[1].path] = todo[1].factory]

Spec == Init /\ [][Mount]_<<at, todo>>
===============================================================================
