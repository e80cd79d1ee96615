SPECIFICATION FairSpec
CONSTANTS
    s1 = s1
    s2 = s2
    Sessions = {s1, s2}
    None = None
    Talkers = {s1}
    MaxTraffic = 2
CHECK_DEADLOCK FALSE
INVARIANTS
    TypeOK
    OwnAdapter
    StreamsInOrder
PROPERTIES
    FramesDelivered
    BothClosedReleases
