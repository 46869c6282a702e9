CONSTANTS
    p1 = p1
    p2 = p2
    a1 = a1
    a2 = a2
    Clients <- OneClient
    Pcs <- TwoPcs
    Data <- MCData
    Mss = 1
    SndWnd = 2
    RcvWnd = 2
    MaxFull = 0
    Chunk = 1
    ClientBuf = 1
    TaskBuf = 1
    Tries = 1
    IdMod = 2
    Leavers <- OnePc
    TargetStays = FALSE
    MaxSaid = 2
    MaxReply = 0
    MaxTargets = 2
    MaxNet = 1
SPECIFICATION FreshSpec
INVARIANT
    TargetsHeld
PROPERTY
    ImplementsTunnel
CHECK_DEADLOCK FALSE
