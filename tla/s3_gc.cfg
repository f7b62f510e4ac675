SPECIFICATION Spec
CONSTANTS
    Snapshot = {s1, s2}
    Chunk = {c1}
    Reader = {r1}
    Impl = {i1, i2}
    Cutoff = 0
    SafetyGap = 1
    Environment = {"nocache", "unlocked", "corrupt", "recreate"}
    MaxTime = 1
    MaxEvents = 1
    None = None
    Gc = Gc
    Verifier = Verifier
SYMMETRY Symmetry
CONSTRAINT NotExposed
INVARIANTS
    AcceptedKept
    CacheTrue
PROPERTY ImplementsDatastore
