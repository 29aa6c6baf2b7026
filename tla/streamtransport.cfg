CONSTANTS
    t1 = t1
    t2 = t2
    None = None
    Stale = Stale
    Trans = {t1, t2}
    Unsteady = {t1}
    Times = {0}
    MAX_BACKLOG_DURATION = 0
    MAX_BACKLOG_SIZE = 1
    Rtp = 3
    MaxSamples <- MCSamples
    MaxEvents = 3
SPECIFICATION FairSpec
CHECK_DEADLOCK FALSE
INVARIANTS
    SamplesKept
PROPERTIES
    FanoutSpec
    BacklogDrains
