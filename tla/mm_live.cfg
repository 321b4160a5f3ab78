SPECIFICATION FairSpec
CONSTANTS
    c1 = c1
    c2 = c2
    svc = svc
    m1 = m1
    m2 = m2
    null = null
    Clients <- OneClient
    Service = svc
    Ids <- TwoIds
    Owner <- ServiceIds
    Callbacks = {m1, m2}
    CallbackSends = {m2}
    SharedWait = FALSE
    Timeouts = {1}
    MaxTime = 2
    MaxSends <- TwiceOnce
    MaxRefs = 3
    UintModulus = 8
    None = null
INVARIANTS
    ExactlyOnce
PROPERTIES
    RequestEnds
    WaitReturns
    ResponseHandled
    LockedOnlyByReentry
CHECK_DEADLOCK FALSE
