--------------------------- MODULE MCStreamTransport ---------------------------
(* Two clients: one that may pause, fail and be quick, one that is steady. *)
EXTENDS StreamTransport
CONSTANTS t1, t2, Rtp
MCSamples == [c \in Channel |-> IF c = "rtp" THEN Rtp ELSE 1]
================================================================================
