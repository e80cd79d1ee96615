SPECIFICATION FairSpec
CONSTANTS
    MaxGen = 2
    Absent = Absent
    Empty = Empty
    Overlap = FALSE
CHECK_DEADLOCK FALSE
INVARIANTS
    TypeOK
    PortFileSound
    OneServerPerWorkspace
PROPERTIES
    SessionEnds
