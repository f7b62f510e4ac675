SPECIFICATION Spec
CONSTANTS
    Ns = {n1, n2}
    Time = {1, 2}
    Snap = {s1, s2}
    Mover = {m1, m2}
    BatchSize = 1
    MaxRetries = 1
    MaxJournal = 2
    MaxOps = 3
    S3 = TRUE
    None = None
CHECK_DEADLOCK FALSE
SYMMETRY Symmetry
INVARIANTS
    OldMarked
    NoneLost
    MoveInv
