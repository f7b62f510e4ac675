SPECIFICATION AllSpec
CONSTANTS
    Index = {i1}
    Blob = {b1}
    Chunk = {c1}
    BlobData = {d1}
    Writer = {w1, w2}
    Request = {r1, r2}
    MaxChunks = 1
    S3 = TRUE
    Environment = {"overlap", "late", "careless", "break", "benchmark"}
    None = None
    Mixed = Mixed
    PruneTime = {1, 2, 3, 4, 5}
    PruneNow = 4
    MaxKeep = 2
    Periods <- MCPeriods
    NsSet <- MCNs
    MaxNsDepth = 2
    NsTime = {1, 2}
    NsOwner = {"u", "v"}
    NsTask = {t1, t2}
    NsUsed <- MCUsed
    NsMoves <- MCMoves
    MaxNsOps = 4
    NsGroups <- MCGroups
CHECK_DEADLOCK FALSE
SYMMETRY Symmetry
INVARIANTS
    NoWriterAfterFinish HierarchySafe PruneRight
PROPERTY ProtectedKept
