SPECIFICATION Spec
CONSTANTS
    w1 = w1
    w2 = w2
    Worktrees = {w1, w2}
    MaxRelease = 1
    None = None
    User = User
CHECK_DEADLOCK FALSE
SYMMETRY WorktreeSymmetry
INVARIANT
    ServerPathWins
