CONSTANTS
    Data <- MCData
    Mss = 1
    SndWnd = 3
    RcvWnd = 2
    MaxFull = 1
    Conv = 1
    Messages <- SingleOrTooLong
    MaxSent <- OneWay
    MaxNet <- AcksOvertake
SPECIFICATION Spec
INVARIANTS
    NothingForgotten
    ReceiverBounded
    WholeMessages
