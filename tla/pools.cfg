CONSTANTS
    u1 = u1
    u2 = u2
    t1 = t1
    t2 = t2
    None = None
    Users = {u1, u2}
    Threads = {t1, t2}
    MaxThreads = {0, 1, 2}
    Type = {"client", "media"}
    MayFail = TRUE
    BYTE = 2
    SIZE4 = 2
    SIZE6 = 3
    MinPort = 1
    MaxPort = 4
    Multicast <- MCMulticast
    Offered <- MCOffered
    Wanted <- MCWanted
    Flags <- MCFlags
    PortCounts = {2}
    MaxAdds = 2
    MaxRanges = 4
SPECIFICATION PoolsSpec
CHECK_DEADLOCK FALSE
INVARIANTS
    ThreadsTracked
    RangesTracked
    MaxThreadsRespected
PROPERTIES
    ThreadsEnd
    AnswersFit
