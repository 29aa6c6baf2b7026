CONSTANTS
    a = a
    b = b
    play = play
    rec = rec
    s1 = s1
    s2 = s2
    None = None
    Clients = {a, b}
    Sessions = {s1, s2}
    Paths = {play, rec}
    Chan = {0, 2}
    Records = {rec}
    StopOnDisconnect = {}
    DropBacklog = TRUE
    PostTimeout = 1
    CtrlTimeout = 1
    MaxQuirks = 1
    Scenarios <- MCScenarios
SPECIFICATION Spec
CHECK_DEADLOCK FALSE
INVARIANTS
    SessionsFollow
    ConnectionsHold
PROPERTIES
    ClosedIsFinalized
