CONSTANTS
    m1 = m1
    m2 = m2
    m3 = m3
    u1 = u1
    u2 = u2
    p1 = p1
    None = None
    Trans = {m1, m2, m3, u1, u2, p1}
    Kind <- MCKind
    Fam <- MCFam
    Own <- MCOwn
    Family = {"v4", "v6"}
    Ports = {4, 5, 6, 7}
    Pool <- MCPool
    EnableRtcp = TRUE
    IsSender = TRUE
    MaxJoins = 2
    MaxFilters = 1
    MaxAdded = 2
    MaxQuirks = 1
    Scenarios <- MCScenarios
    Contended <- MCContended
SPECIFICATION Spec
CHECK_DEADLOCK FALSE
INVARIANTS
    AddressesHeld
    SinksServe
PROPERTIES
    TransportsVisited
