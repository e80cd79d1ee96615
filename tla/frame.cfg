SPECIFICATION FairFrameSpec
CONSTANTS
    Bodies <- MCBodies
    MaxMessages = 3
CHECK_DEADLOCK FALSE
INVARIANTS
    FrameTypeOK
PROPERTY
    IsAFrameStream
