SPECIFICATION FairSpec
CONSTANTS
    a1 = a1
    a2 = a2
    t1 = t1
    t2 = t2
    u1 = u1
    r1 = r1
    n1 = n1
    Apps <- TwoApps
    Threads <- ThreeThreads
    Requests <- OneRequest
    Notices <- OneNotice
    Home <- Homes
    NameOf <- OneName
    Setting <- Settings
    None = None
INVARIANTS
    TypeOK
    ResponsesComeHome
    WrongTokenOnlyAfterRace
PROPERTIES
    MessagesServed
    ImplementsLifecycle
