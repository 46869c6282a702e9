CONSTANTS
    Mod = 46
    Segs = {1}
    Interval = 2
    Jump = 5
    RtoMin = 2
    RtoDef = 3
    RtoMax = 4
    ProbeInit = 2
    ProbeLimit = 4
    Period = 1
    Gap = 2
    Echo = 1
    MaxXmit = 2
    Starts <- JustBeforeTheWrap
    Settings <- BackAndAhead
SPECIFICATION Spec
INVARIANTS
    TypeOK
    FlushesGoOn
    ResentInTime
    ProbesGoOn
PROPERTY
    NotResentEarly
