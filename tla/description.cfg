SPECIFICATION MCSpec
CONSTANTS
    None = None
    Default = Default
    Zero = Zero
    Illegal = Illegal
    Registry <- MCRegistry
    Marginal = 1
    UnknownPt = 1
    FirstPt = 96
    LastPt = 102
    Ids = {1, 2, 3, 4}
    MaxLives = 2
    ClockMod = 16
    MaxDescribes = 2
CHECK_DEADLOCK FALSE
INVARIANTS
    StreamsHold
    SettingsReach
    NegotiationHolds
