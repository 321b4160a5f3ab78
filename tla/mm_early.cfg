SPECIFICATION Spec
CONSTANTS
    c1 = c1
    c2 = c2
    svc = svc
    m1 = m1
    m2 = m2
    null = null
    Clients <- OneClient
    Service = svc
    Ids <- OneId
    Owner <- OwnId
    Callbacks = {m1}
    CallbackSends = {}
    SharedWait = FALSE
    Timeouts = {1}
    MaxTime = 2
    MaxSends <- Twice
    MaxRefs = 3
    UintModulus = 8
    None = null
PROPERTIES
    NoEarlyTimeout
