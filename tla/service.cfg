CONSTANTS
    a = a
    b = b
    c = c
    t1 = t1
    t2 = t2
    f = f
    g = g
    None = None
    Clients = {a, b, c}
    Callers = {a, b, c}
    Sources = {s1, s2}
    Threads = {t1, t2}
    Refuses = {c}
    Paths <- MCPaths
    Factories = {f, g}
    Slash = 2
    Media = {m1, m2, m3}
    Keys <- MCKeys
    SharedKeys <- MCShared
    Reusable <- MCReusable
    Scenarios <- MCScenarios
SPECIFICATION Spec
CHECK_DEADLOCK FALSE
INVARIANTS
    RequestsMatch
    ClientsHeld
PROPERTIES
    MountSpec
    ServiceEnds
