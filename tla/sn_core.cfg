SPECIFICATION FairSpec
CONSTANTS
    t1 = t1
    t2 = t2
    p1 = p1
    p2 = p2
    pump = pump
    app = app
    sub = sub
    srv = srv
    timer = timer
    ask = ask
    pub = pub
    events = events
    gone = gone
    ident = ident
    Threads <- TwoThreads
    Names <- FiveNames
    TypeOf <- TypesOf
    Strings <- StringsOf
    Receivers <- FiveReceivers
    At <- Sockets
    Strangers <- OneStranger
    Identity = ident
    MaxSends = 3
    None = None
INVARIANTS
    TypeOK
    SentArrives
    StringsOnce
PROPERTIES
    HeardAsSent
