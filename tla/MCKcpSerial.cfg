CONSTANTS
    Data <- MCData
    Mss = 1
    SndWnd = 2
    RcvWnd = 2
    MaxFull = 0
    Conv = 1
    Messages <- Ones
    Length = 7
    MaxSent <- OneWay
    MaxNet <- SegmentsOvertake
    Mod = 6
    Life = 1
    Backlog = 1
SPECIFICATION SerialSpec
INVARIANT
    WrapInvisible
