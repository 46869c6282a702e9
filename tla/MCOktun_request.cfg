CONSTANTS
    p1 = p1
    p2 = p2
    a1 = a1
    a2 = a2
    Clients <- OneClient
    Pcs <- OnePc
    Data <- MCData
    Mss = 1
    SndWnd = 2
    RcvWnd = 3
    MaxFull = 0
    Chunk = 1
    ClientBuf = 2
    TaskBuf = 2
    Tries = 2
    IdMod = 3
    Leavers <- NoPc
    TargetStays = TRUE
    MaxSaid = 3
    MaxReply = 0
    MaxTargets = 1
    MaxNet = 1
SPECIFICATION FairSpec
PROPERTY
    RequestArrives
