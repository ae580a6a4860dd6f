\* A streamer and a generator over a checked primary, which is replaced or removed, and echo.
SPECIFICATION FairSpec
CONSTANTS
    streamer = streamer
    generator = generator
    Callers = {streamer, generator}
    Streamers = {streamer}
    TierNames = {1, 2}
    Checked = {1}
    DisableAt = 1
    GiveUpAt = 2
    MaxRegistrations = 2
    MinRegistered = 0
    MaxLessons = 0
    NoTier = NoTier
INVARIANTS
    TypeOK
    TiersAreTracked
PROPERTIES
    EveryCallEnds
    PrimaryReturns
CHECK_DEADLOCK FALSE
