CONSTANTS
    Workers = {w1}
    Duration = 0
    MaxTasks = 4
    MaxFrames = 2
    MaxNews = 1
    MaxClicks = 4
SPECIFICATION Spec
CHECK_DEADLOCK FALSE
INVARIANTS
    PlaybackOrdered
PROPERTIES
    PlayerEnds
