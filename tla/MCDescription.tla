------------------------------ MODULE MCDescription ------------------------------
(* An instance of Description for TLC: the initial state picks one of a few   *)
(* mounts, and what is set of it while it is built, described and set up.      *)
EXTENDS Description

Feature(id, klass, rank, accepts) == [id |-> id, klass |-> klass, rank |-> rank, accepts |-> accepts]
MCRegistry ==
    {Feature("demux", {"Codec", "Demux"}, 3, {"container"}),
     Feature("parse", {"Codec", "Parser"}, 3, {"h264"}),
     Feature("decode", {"Codec", "Decoder"}, 3, {"h264", "aac"}),
     Feature("h264pay", {"Codec", "Payloader", "RTP"}, 2, {"h264"}),
     Feature("mp4apay", {"Codec", "Payloader", "RTP"}, 2, {"aac"}),
     Feature("rtpmp4apay", {"Codec", "Payloader", "RTP"}, 1, {"aac"}),
     Feature("rawpay", {"Codec", "Payloader", "RTP"}, 2, {"raw"}),
     Feature("rtpgstpay", {"Codec", "Payloader", "RTP"}, 0, {"any"}),
     Feature("oldpay", {"Codec", "Payloader", "RTP"}, 0, {"theora"})}

Caps(format, parsed) == [format |-> format, parsed |-> parsed, framed |-> FALSE]
Container == Caps("container", None)
Video == <<Container, Caps("h264", FALSE), Caps("h264", TRUE), Caps("raw", None)>>
Sound == <<Container, [Caps("aac", None) EXCEPT !.framed = TRUE], Caps("raw", None)>>
Film == <<Container, Caps("theora", TRUE), Caps("raw", None)>>

Child(name, id) == [name |-> name, id |-> id, klass |-> {"Codec", "Payloader", "RTP"}]
Elem(id, kind, n, pt) == [id |-> id, kind |-> kind, n |-> n, pt |-> pt, children |-> <<>>]
Pad(e, p, pt, child, chain, late, leaves) ==
    [elem |-> e, pad |-> p, pt |-> pt, child |-> child, chain |-> chain, late |-> late, leaves |-> leaves]
Offer(parses, profile, lower) == [parses |-> parses, trans |-> "RTP", profile |-> profile, lower |-> lower]
Set(of, name, val) == [of |-> of, name |-> name, val |-> val]

\* What the mounts have in common.
Base ==
    [elems |-> {}, pads |-> <<>>, uri |-> FALSE, use_gstpay |-> FALSE, onvif |-> FALSE, require |-> {},
     supports |-> {}, reusable |-> FALSE, changes |-> <<>>, given |-> [x \in {} |-> None],
     secret |-> [cipher |-> <<"icm", 256>>, auth |-> "sha1-32"], clock |-> [used |-> "ntp", rtptime |-> 5, time |-> 3],
     announce |-> None, offers |-> {<<Offer(TRUE, "AVP", "TCP")>>}, blocksizes |-> {None}, tags |-> [p \in {} |-> None],
     backcaps |-> <<>>]

Pay0 == Elem("pay0", "pay", 0, 96)
Pay1 == Elem("pay1", "pay", 1, 97)
Feedbacks == {"AVP", "AVPF"}

\* Two streams of the launch line; the factory changes while it constructs, the media afterwards.
Static ==
    [elems |-> {Pay0, Pay1},
     given |-> [profiles |-> Feedbacks, rtx_time |-> 2, latency |-> 200],
     changes |-> <<Set("factory", "protocols", {"UDP", "TCP"}), Set("factory", "latency", 300), Set("factory", "keyunit", TRUE), Set("media", "latency", 400), Set("media", "dscp_qos", 9)>>,
     offers |-> {<<Offer(TRUE, "SAVP", "UDP"), Offer(TRUE, "AVPF", "MCAST"), Offer(TRUE, "AVPF", "TCP")>>, <<Offer(TRUE, "AVP", "UDP"), Offer(FALSE, "AVP", "TCP")>>,
                 <<Offer(FALSE, "AVP", "TCP")>>},
     blocksizes |-> {None, 1000, Illegal},
     reusable |-> TRUE,
     tags |-> [p \in {"pay0"} |-> <<[stream |-> FALSE, max |-> 7, rate |-> 8], [stream |-> TRUE, max |-> 0, rate |-> 9]>>]] @@ Base
\* SRTP, and a change of every setting that has elements.
Secured ==
    [elems |-> {Pay0},
     given |-> [profiles |-> {"SAVP", "SAVPF"}, rtx_time |-> 2, publish_clock |-> "offset", protocols |-> {"MCAST"}, pool |-> "pool"],
     changes |-> <<Set("media", "rtx_time", 3), Set("media", "rate_control", FALSE), Set("media", "pool", None)>>,
     offers |-> {<<Offer(TRUE, "SAVPF", "MCAST")>>}] @@ Base
\* Pads of a dynamic element beside a stream: one leaves, one comes when nobody waits.
Mixed ==
    [elems |-> {Pay0, [Elem("dyn", "dynpay", 1, 0) EXCEPT !.children = <<Child(<<"other">>, "x")>>]},
     pads |-> <<Pad("dyn", "p1", 97, <<Child(<<"pay", "p1">>, "a")>>, <<>>, FALSE, TRUE),
               Pad("dyn", "p2", 97, <<Child(<<"pay", "p2">>, "b")>>, <<>>, TRUE, FALSE)>>,
     given |-> [rtx_time |-> 2, profiles |-> {"AVPF"}], reusable |-> TRUE] @@ Base
\* Only pads, of which the first leaves; the application has set what the first stream does.
Dynamic ==
    [elems |-> {Elem("dyn", "dynpay", 0, 0)},
     pads |-> <<Pad("dyn", "p1", 96, <<Child(<<"pay", "p1">>, "a")>>, <<>>, FALSE, TRUE),
               Pad("dyn", "p2", 97, <<Child(<<"pay", "p2">>, "b")>>, <<>>, FALSE, FALSE),
               Pad("dyn", "p3", 98, <<Child(<<"pay", "p3">>, "c")>>, <<>>, FALSE, FALSE)>>,
     given |-> [rtx_time |-> 2, profiles |-> {"AVPF"}, do_rtx |-> TRUE, dscp_qos |-> 4],
     changes |-> <<Set("media", "buffer_size", 5)>>] @@ Base
Uri ==
    [elems |-> {Elem("dynpay0", "dynpay", 0, 0)}, uri |-> TRUE,
     pads |-> <<Pad("dynpay0", "p1", 0, <<>>, Video, FALSE, FALSE), Pad("dynpay0", "p2", 0, <<>>, Sound, FALSE, FALSE),
               Pad("dynpay0", "p3", 0, <<>>, <<Container, Caps("raw", None)>>, FALSE, FALSE)>>] @@ Base
UriAny == [use_gstpay |-> TRUE, pads |-> <<Pad("dynpay0", "p1", 0, <<>>, Film, FALSE, FALSE)>>] @@ Uri
\* A stream that receives beside one that sends, as the ONVIF factory makes it.
Onvif ==
    [elems |-> {Pay0}, onvif |-> TRUE, require |-> {"backchannel"}, supports |-> {"backchannel"},
     backcaps |-> <<[pt |-> 8, rate |-> 8000, key |-> None], [pt |-> 0, rate |-> 8000, key |-> None]>>,
     given |-> [enable_rtcp |-> FALSE], changes |-> <<Set("stream", "dscp_qos", 4)>>] @@ Base
OnvifPlain == [require |-> {}] @@ Onvif

\* A sink announces what it will send.
Context(pad, format, pt, fec) == [pad |-> pad, caps |-> Caps(format, TRUE), pt |-> pt, fec |-> fec]
SinkSet(given) == [next |-> 96, blocksize |-> 500, set |-> given @@ NewStreamSettings]
Recorded ==
    [elems |-> {Elem("depay0", "depay", 0, 0), Elem("depay1", "depay", 1, 0)},
     given |-> [profiles |-> Feedbacks, do_rtx |-> TRUE],
     announce |-> [app_key |-> None, contexts |-> <<Context("v", "h264", 96, 50), Context("x", "unknown", 96, 0), Context("a", "aac", 96, 0)>>,
                   sink |-> SinkSet([profiles |-> {"AVPF"}, rtx_time |-> 2, protocols |-> {"TCP"}])],
     changes |-> <<Set("media", "latency", 100)>>] @@ Base
\* Two profiles make two lines: as many as there are streams, but not of them.
Shifted ==
    [announce |-> [app_key |-> None, contexts |-> <<Context("v", "h264", 97, 0)>>, sink |-> SinkSet([profiles |-> Feedbacks])]] @@ Recorded
RecordedKeys ==
    [given |-> [profiles |-> {"SAVPF"}],
     announce |-> [app_key |-> None, contexts |-> <<Context("v", "h264", 96, 0), Context("a", "aac", 98, 0)>>,
                   sink |-> SinkSet([profiles |-> {"SAVPF"}, protocols |-> {"UDP"}])]] @@ Recorded

Refused == [given |-> [profiles |-> {"AVP"}]] @@ Recorded
\* More streams than there are payload types for their retransmissions.
Crowded ==
    [elems |-> {Pay0, Pay1, Elem("pay2", "pay", 2, 98), Elem("pay3", "pay", 3, 99)},
     given |-> [rtx_time |-> 2, profiles |-> {"AVPF"}], reusable |-> TRUE, changes |-> <<Set("stream", "profiles", {"AVP"})>>] @@ Base

Plans == {Static, Crowded, Refused, Secured, Mixed, Dynamic, Uri, UriAny, Onvif, OnvifPlain, Recorded, Shifted, RecordedKeys}

MCInit ==
    /\ conf \in Plans
    /\ factory = conf.given @@ NewFactory
    /\ Init
MCSpec == MCInit /\ [][Next]_vars
=================================================================================
