SPECIFICATION Spec
CONSTANTS
    w1 = w1
    w2 = w2
    Worktrees = {w1, w2}
    None = None
CHECK_DEADLOCK FALSE
INVARIANTS
    TypeOK
    UserWins
    ServerJavaFirst
    OwnWorktree
    NoAdapterStranded
