SPECIFICATION Spec
CONSTANTS
    Group = {g1}
    Slot = {1, 2}
    Chunk = {c1}
    Process = {p1, p2}
    NoGroup = NoGroup
    NoProcess = NoProcess
    Cutoff = 0
    SafetyGap = 1
    MaxRetries = 1
    UseLruCache = TRUE
    MaxTime = 1
SYMMETRY Symmetry
CONSTRAINT NotExposed
PROPERTY OnlyOwnWriters
