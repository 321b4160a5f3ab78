SPECIFICATION RefSpec
CONSTANTS
    c1 = c1
    c2 = c2
    svc = svc
    m1 = m1
    null = null
    b1 = b1
    b2 = b2
    nobody = nobody
    jnull = jnull
    fresh = fresh
    Clients <- TwoClients
    Service = svc
    Ids <- OneId
    Owner <- OwnId
    Callbacks = {m1}
    CallbackSends = {}
    SharedWait = TRUE
    Timeouts = {1}
    MaxTime = 1
    MaxSends <- Twice
    MaxRefs = 3
    UintModulus = 8
    MaxObjects = 2
    Codes = {"0", "1"}
    RequestBody = b1
    ResponseBody = b2
    NoBody = nobody
    JsonNull = jnull
    Uuid = fresh
    None = null
INVARIANTS
    RefTypeOK
    NoUseAfterFree
    ResponseAnswersRequest
    NoDanglingWaiter
PROPERTIES
    ForgottenOnlyLate
