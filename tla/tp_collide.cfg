SPECIFICATION Spec
CONSTANTS
    Clients <- CollidingClients
    Timers <- CollidingTimers
    Intervals = {1}
    MaxAge = 1
    MaxQueue = 1
    Crashes = FALSE
    None = None
INVARIANTS
    OnlyAskedTimersTick
