CONSTANTS
    u1 = u1
    u2 = u2
    u3 = u3
    Users = {u1, u2}
    NoThread = NoThread
    Confs <- MCConfs
    MaxActive = 2
    MaxBus = 2
SPECIFICATION FairSpec
CHECK_DEADLOCK FALSE
INVARIANTS
    MediaCounted
    ClientsServed
PROPERTIES
    MediaAnswers
