SPECIFICATION Spec
CONSTANTS
    Group = {g1}
    Slot = {1, 2}
    Chunk = {c1}
    Process = {p1}
    NoGroup = NoGroup
    NoProcess = NoProcess
    Cutoff = 1
    SafetyGap = 1
    MaxRetries = 1
    UseLruCache = TRUE
    MaxTime = 2
CONSTRAINT OnlySkipped
INVARIANT PrunedBaseRaceAvoided
