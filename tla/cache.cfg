SPECIFICATION FairSpec
CONSTANTS
    b1 = b1
    b2 = b2
    Bridges = {b1, b2}
    Uris <- MCUris
    SchemeOf <- MCSchemeOf
    TargetOf <- MCTargetOf
    Targets <- MCTargets
    Unix = FALSE
    MaxMessages = 3
CHECK_DEADLOCK FALSE
INVARIANTS
    TypeOK
    TornIsBeingWritten
PROPERTY
    DeliversSources
