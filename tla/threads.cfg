SPECIFICATION FairSpec
CONSTANTS
    c1 = c1
    h1 = h1
    Callers = {c1}
    Handlers = {h1}
    NoOne = NoOne
    FrameParts = 2
    PipeCap = 1
    OutCap = 1
    MaxZed = 2
    MaxSrv = 2
CHECK_DEADLOCK FALSE
INVARIANTS
    TypeOK
    NoCircularWait
    FramesWhole
PROPERTIES
    CallsEnd
    MainDrains
    EofReachesServer
