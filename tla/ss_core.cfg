SPECIFICATION AppFairSpec
CONSTANTS
    s1 = s1
    s2 = s2
    s3 = s3
    timer = timer
    a = a
    null = null
    Names <- TwoNames
    Sockets <- ThreeSockets
    TimerName = timer
    MaxFrames = 3
    Lengths <- OneOrTwo
    None = null
INVARIANTS
    AppTypeOK
    PolledSocketsNamed
    
    PublishNamesOpen
PROPERTIES
    MessagesPassedOn
    StopEndsLoop
    StartOpensConfigured
