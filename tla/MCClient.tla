------------------------------- MODULE MCClient -------------------------------
(* Instances of Client.                                                      *)
EXTENDS Client, TLC

CONSTANTS a, b, play, rec, s1, s2

Q(m, p) == [method |-> m, path |-> p]
Scenario(qa, qb, la, lb, cs, n) ==
    [requests |-> [c \in Clients |-> IF c = a THEN qa ELSE qb],
     lower |-> [c \in Clients |-> IF c = a THEN la ELSE lb],
     closing |-> cs, removals |-> n]
Setup == Q("SETUP", play)

MCScenarios == {
    Scenario(<<Setup, Q("PLAY", play), Q("TEARDOWN", play)>>, <<Q("TEARDOWN", play)>>, "tcp", "tcp", {}, 0),
    Scenario(<<Setup, Q("OPTIONS", None)>>, <<>>, "tcp", "tcp", {a}, 1),
    Scenario(<<Setup>>, <<Q("GET_PARAMETER", None)>>, "tcp", "tcp", {b}, 1),
    Scenario(<<Setup>>, <<Setup, Q("TEARDOWN", play)>>, "tcp", "tcp", {}, 0),
    Scenario(<<Q("DESCRIBE", rec), Q("DESCRIBE", play), Setup, Q("PAUSE", play)>>, <<>>, "udp", "udp", {a}, 1),
    Scenario(<<Q("ANNOUNCE", rec), Q("SETUP", rec), Q("RECORD", rec)>>, <<Q("TEARDOWN", rec)>>, "tcp", "udp", {}, 0),
    Scenario(<<Setup, Q("SETUP", rec), Q("TEARDOWN", rec)>>, <<>>, "tcp", "udp", {a}, 1),
    Scenario(<<Setup, Setup, Q("PLAY", play)>>, <<>>, "udp", "udp", {a}, 2),
    Scenario(<<Q("GET", None)>>, <<Q("GET", None)>>, "udp", "udp", {a, b}, 0),
    Scenario(<<Q("GET", None)>>, <<Q("POST", None)>>, "udp", "udp", {a, b}, 0)}

\* The default of post-session-timeout.
NoTimeout == -1

\* A client that streams over UDP loses its connection, its session expires.
MCLeft == {Scenario(<<Setup, Q("PLAY", play)>>, <<>>, "udp", "udp", {a}, 2)}
===============================================================================
