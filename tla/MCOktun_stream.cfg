CONSTANTS
    p1 = p1
    p2 = p2
    a1 = a1
    a2 = a2
    Clients <- OneClient
    Pcs <- OnePc
    Data <- MCData
    Mss = 1
    SndWnd = 2
    RcvWnd = 3
    MaxFull = 0
    Chunk = 1
    ClientBuf = 1
    TaskBuf = 1
    Tries = 2
    IdMod = 3
    Leavers <- OnePc
    TargetStays = FALSE
    MaxSaid = 1
    MaxReply = 2
    MaxTargets = 1
    MaxNet = 1
SPECIFICATION Spec
INVARIANTS
    MapsAgree
    TypeOK
PROPERTIES
    SignalComesLast
    ImplementsTunnel
CHECK_DEADLOCK FALSE
