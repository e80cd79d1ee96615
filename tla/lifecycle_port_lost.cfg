SPECIFICATION Spec
CONSTANTS
    MaxGen = 2
    Absent = Absent
    Empty = Empty
    Overlap = TRUE
CHECK_DEADLOCK FALSE
INVARIANT
    PublishedIsFindable
