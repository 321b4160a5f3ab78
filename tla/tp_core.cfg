SPECIFICATION FairSpec
CONSTANTS
    Clients <- OneClient
    Timers <- OneTimer
    Intervals = {0, 1, 2}
    MaxAge = 3
    MaxQueue = 2
    Crashes = TRUE
    None = None
INVARIANTS
    TypeOK
    PumpFollowsLastRequest
PROPERTIES
    TicksSpaced
    TimerKeepsFiring
