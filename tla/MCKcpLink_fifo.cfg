CONSTANTS
    Data <- MCData
    Mss = 1
    SndWnd = 2
    RcvWnd = 3
    MaxFull = 0
    Conv = 1
    Messages <- Pairs
    MaxSent <- FourOneWay
    MaxNet <- NoneOvertakes
SPECIFICATION FairSpec
INVARIANTS
    TypeOK
    InOrderDelivery
    WholeMessages
PROPERTIES
    ImplementsFifo
    EventuallyRead
