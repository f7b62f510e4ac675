SPECIFICATION Spec
CONSTANTS
    s1 = s1
    s2 = s2
    c1 = c1
    c2 = c2
    Snapshot = {s1, s2}
    Pos = {1, 2, 3}
    Chunk = {c1, c2}
    Content <- MCContent
    ReadThreads = 1
    VerifyThreads = 1
    NoSnapshot = NoSnapshot
INVARIANT OkMeansIntact
