CONSTANTS
    GST_SECOND = 1
    GST_MSECOND = 1
    GINT_BITS = 8
    DEFAULT_TIMEOUT = 1
    DEFAULT_EXTRA_TIMEOUT = 1
    s1 = s1
    s2 = s2
    c1 = c1
    c2 = c2
    k1 = k1
    f1 = f1
    w1 = w1
    Session = {s1, s2}
    Clients = {c1, c2}
    Cleaners = {k1}
    Watchers = {w1}
    Filterers = {f1}
    MaxSessions = {0, 1}
    Timeouts = {2}
    MaxRetry = 1
    MaxPrevent = 1
    MaxTime = 2
    NoThread = NoThread
SPECIFICATION MCSpec
CHECK_DEADLOCK FALSE
INVARIANTS
    SessionsTracked
    RefsBalance
PROPERTIES
    NoEarlyExpiry
    LimitRespected
    ExpiredGoes
