SPECIFICATION FairSpec
CONSTANTS
    None = None
    video = video
    audio = audio
    Streams = {video, audio}
    Clock <- MCClock
    Plans <- MCPlans
    MaxBus = 4
CHECK_DEADLOCK FALSE
INVARIANTS
    PrerollHolds
    ReplyIsTrue
PROPERTIES
    PrerollEnds
