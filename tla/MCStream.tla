------------------------------- MODULE MCStream -------------------------------
(* Instances of Stream: clients of every kind, on a host without and with   *)
(* IPv6.  u2 is an IPv6 client.                                              *)
EXTENDS Stream, TLC

CONSTANTS m1, m2, m3, u1, u2, p1

MCKind == [t \in Trans |-> IF t \in {m1, m2, m3} THEN "mcast"
                           ELSE IF t \in {u1, u2} THEN "udp" ELSE "tcp"]
MCFam == [t \in Trans |-> IF t = u2 THEN "v6" ELSE "v4"]
MCOwn == [t \in Trans |-> IF t = m3 THEN 6 ELSE None]
MCPool == {<<"mcast", "v4", 4>>, <<"mcast", "v6", 4>>}
MCContended == {<<"mcast", "v6", 4>>}
Scenario(c, h, j, f) ==
    [clients |-> c, host |-> h, joins |-> j, filters |-> f]
MCScenarios ==
    {Scenario({m1, u1, p1}, {"v4"}, 1, 1), Scenario({m1, m2}, {"v4"}, 1, 0),
     Scenario({m1, m3}, {"v4"}, 0, 0), Scenario({u1, p1}, {"v4"}, 0, 1), Scenario({u1, p1}, {"v4"}, 1, 0),
     Scenario({u1, u2}, {"v4", "v6"}, 1, 1), Scenario({m1}, {"v4", "v6"}, 0, 1),
     Scenario({m3}, {"v4", "v6"}, 1, 1)}
===============================================================================
