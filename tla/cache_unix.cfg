SPECIFICATION Spec
CONSTANTS
    b1 = b1
    b2 = b2
    Bridges = {b1}
    Uris <- MCUris
    SchemeOf <- MCSchemeOf
    TargetOf <- MCTargetOf
    Targets <- MCTargets
    Unix = TRUE
    MaxMessages = 1
CHECK_DEADLOCK FALSE
INVARIANT
    SourcesOpen
