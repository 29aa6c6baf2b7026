------------------------------- MODULE MCMedia -------------------------------
(* Instances of Media for TLC.                                             *)
EXTENDS Media

CONSTANTS u1, u2, u3

Plain(mode) ==
    [reusable |-> TRUE, eos_shutdown |-> FALSE, live |-> FALSE, dynamic |-> FALSE,
     buffers |-> FALSE, faults |-> FALSE, closes |-> FALSE, replays |-> FALSE,
     suspend_mode |-> mode]

Modes == {"none", "pause", "reset"}

\* Media of every suspend mode, that play well, fail, buffer, are live or add
\* pads; one that is used once, by users that come and go as they like; and one
\* that is used once and shuts down with an EOS.
MCConfs ==
    {Plain(m) : m \in Modes}
    \cup {[Plain(m) EXCEPT !.buffers = TRUE] : m \in Modes}
    \cup {[Plain(m) EXCEPT !.live = TRUE] : m \in Modes}
    \cup {[Plain(m) EXCEPT !.faults = TRUE] : m \in Modes}
    \cup {[Plain("none") EXCEPT !.dynamic = TRUE]}
    \cup {[Plain("pause") EXCEPT !.reusable = FALSE, !.closes = TRUE, !.replays = TRUE]}
    \cup {[Plain("pause") EXCEPT !.reusable = FALSE, !.eos_shutdown = TRUE]}

MCClose == {[Plain("none") EXCEPT !.closes = TRUE]}
MCReplay == {[Plain("none") EXCEPT !.replays = TRUE]}
MCDynamic == {[Plain("none") EXCEPT !.dynamic = TRUE]}
MCPlain == {Plain("none")}
=============================================================================
