SPECIFICATION Spec
CONSTANTS
    j1 = j1
    j2 = j2
    Jobs = {j1, j2}
    MaxPin = 3
    MaxMain = 3
CHECK_DEADLOCK FALSE
SYMMETRY JobSymmetry
INVARIANTS
    TypeOK
    TagsAreOnMain
    VersionPinsOneServer
    ReleasePinsItsServer
