SPECIFICATION Spec
CONSTANTS
    w1 = w1
    w2 = w2
    Worktrees = {w1, w2}
    MaxRelease = 2
    None = None
    User = User
CHECK_DEADLOCK FALSE
SYMMETRY WorktreeSymmetry
INVARIANTS
    TypeOK
    NothingWithoutConsent
    RunsCurrentAndWhole
    HashIsOfTheServer
