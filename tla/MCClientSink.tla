----------------------------- MODULE MCClientSink -----------------------------
(* Instances of ClientSink: two pads at most, and one kind of fault, or one *)
(* hard order of state changes, in each scenario.                           *)
EXTENDS ClientSink, TLC

CONSTANTS s1, s2

Up == <<"READY", "PAUSED", "PLAYING">>
Down == <<"PAUSED", "READY", "NULL">>
Sc(script, pads, late, pts, protocols, fs) ==
    [script |-> script, pads |-> pads, late |-> late, pts |-> pts, protocols |-> protocols,
     faults |-> fs, credentials |-> "auth" \in fs, udp_reconnect |-> "eof" \in fs]

Pts(a, b) == (s1 :> a) @@ (s2 :> b)
MCOrder == <<"UDP", "TCP">>
Both == {"UDP", "TCP"}

MCScenarios ==
    { \* two streams, and transports the server may not support
      Sc(Up \o Down, <<s1, s2>>, {}, Pts(0, 96), Both, {"unsupported"}),
      \* too many payload types, and one that is taken twice
      Sc(Up \o Down, <<s1, s2>>, {}, Pts(96, 96), {"TCP"}, {}),
      Sc(Up \o Down, <<s2, s1>>, {}, Pts(96, 98), {"TCP"}, {}),
      Sc(Up \o Down, <<s1>>, {}, Pts(0, 0), Both, {"refused", "auth", "connect"}),
      Sc(Up \o Down, <<s1>>, {}, Pts(96, 96), {"TCP"}, {"method", "eof", "nosetup", "nopause"}),
      Sc(Up \o Down, <<s1>>, {}, Pts(96, 96), {"UDP"}, {"timeout", "alloc", "keymgmt", "join", "release"}),
      Sc(Up \o Down, <<s1>>, {}, Pts(96, 96), {}, {}),
      \* pads that come late or never
      Sc(Up \o Down, <<>>, {s1}, Pts(96, 96), Both, {"connect"}),
      \* again without NULL, pause and record again, and again after NULL
      Sc(<<"READY", "PAUSED", "READY", "PAUSED", "PLAYING">> \o Down, <<s1>>, {}, Pts(96, 96), {"UDP"}, {"connect"}),
      Sc(Up \o <<"PAUSED", "PLAYING">> \o Down, <<s1>>, {}, Pts(96, 96), {"UDP"}, {"eof"}),
      Sc(Up \o Down \o Up \o Down, <<s1>>, {}, Pts(96, 96), {"UDP"}, {}) }
===============================================================================
