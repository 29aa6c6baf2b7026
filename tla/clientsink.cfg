CONSTANTS
    s1 = s1
    s2 = s2
    Streams = {s1, s2}
    None = None
    Order <- MCOrder
    Profiles = 2
    BasePt = 96
    MaxPt = 100
    MaxTries = 2
    MaxFaults = 1
    Scenarios <- MCScenarios
SPECIFICATION Spec
CHECK_DEADLOCK FALSE
INVARIANTS
    AnnouncedAgrees
    SinkFollows
PROPERTIES
    StateChangeReturns
