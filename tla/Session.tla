------------------------------- MODULE Session -------------------------------
(***************************************************************************)
(* The expiry arithmetic of GstRTSPSession (rtsp-session.c).               *)
(*                                                                         *)
(* A session object is the record of the fields that decide when it        *)
(* expires.  Times are counted in ticks of the monotonic clock; the        *)
(* timeouts are in seconds and the result of next_timeout in milliseconds, *)
(* as in the code, so the scale factors and the width of the gint result   *)
(* are parameters.                                                         *)
(***************************************************************************)
EXTENDS Integers

CONSTANTS
    GST_SECOND,        \* ticks in a second
    GST_MSECOND,       \* ticks in a millisecond
    GINT_BITS,         \* width of gint
    DEFAULT_TIMEOUT,   \* seconds
    DEFAULT_EXTRA_TIMEOUT

ASSUME SessionAssumption ==
    /\ GST_SECOND \in Nat \ {0}
    /\ GST_MSECOND \in Nat \ {0}
    /\ GINT_BITS \in Nat \ {0}
    /\ DEFAULT_TIMEOUT \in Nat
    /\ DEFAULT_EXTRA_TIMEOUT \in Nat

NO_TIMEOUT == -1

SessionRecord ==
    [timeout : Nat, extra : Nat, last_access : Nat, expire_count : Nat]

\* gst_rtsp_session_init: default timeouts, and the session is touched.
NewSession(clock) ==
    [timeout |-> DEFAULT_TIMEOUT, extra |-> DEFAULT_EXTRA_TIMEOUT,
     last_access |-> clock, expire_count |-> 0]

\* gst_rtsp_session_touch
Touched(s, clock) == [s EXCEPT !.last_access = clock]

\* The conversion of an unsigned 64 bit value to gint.
Gint(x) ==
    LET half == 2 ^ (GINT_BITS - 1)
    IN  ((x + half) % (2 * half)) - half

AskedNoTouch(s, clock) == s

\* Asking for the time left touches the session when its expire count is
\* not 0.
Asked(s, clock) == IF s.expire_count # 0 THEN Touched(s, clock) ELSE s

\* The tick at which the session expires.
Deadline(s) == s.last_access + (s.timeout + s.extra) * GST_SECOND

\* Milliseconds left at time `at', which the caller read from the clock
\* earlier than `clock'.
TimeLeft(s, at, clock) ==
    LET deadline == Deadline(Asked(s, clock))
    IN  IF deadline > at THEN Gint((deadline - at) \div GST_MSECOND) ELSE 0

\* gst_rtsp_session_next_timeout_usec
next_timeout_usec(s, at, clock) ==
    IF s.timeout = 0 THEN NO_TIMEOUT ELSE TimeLeft(s, at, clock)

is_expired_usec(s, at, clock) == next_timeout_usec(s, at, clock) = 0
=============================================================================
