SPECIFICATION StoreSpec
CONSTANTS
    Group = {g1}
    Slot = {1, 2}
    Chunk = {c1}
    Process = {p1}
    NoGroup = NoGroup
    NoProcess = NoProcess
    Cutoff = 1
    SafetyGap = 1
    MaxRetries = 1
    UseLruCache = TRUE
    MaxTime = 2
    ChunkSize = 2
    InitialCapacity = 1
    KnownSizes = {0, 3, 4, FixNone}
    Bases <- MCBases
    FixDigests = {"a", "d"}
    Zero = "z"
    MaxFixedSize = 6
    MaxFixedCalls = 7
    FixNone = FixNone
    DigestLen <- MCDigestLen
    MaxDynChunks = 5
    MaxReadChunks = 3
    ReadSizes = {1, 3}
    CacheSlots = 1
    MostUsedMax = 1
    MaxReads = 2
    IdxNone = IdxNone
    RadixGroup = 4
    Magic = "magic"
    CatNames <- MCCatNames
    CatSizes = {0, 17}
    CatTimes <- MCCatTimes
    OtherKinds = {"l"}
    Excluded <- MCExcluded
    MaxEntries = 3
    CatNone = CatNone
    Tree <- MCTree
    ShellPaths <- MCShellPaths
    Patterns <- MCPatterns
    MaxSymlinks = 3
    MaxCommands = 2
    ShNone = ShNone
    TrustProc = {"p", "q"}
    TrustServer = {"s1", "s2"}
    ServerCerts <- MCServerCerts
    Chains <- MCChains
    Slots <- MCSlots
    GivenFp = {TrNone, "b"}
    TrNone = TrNone
    LoginProc = {"p", "q"}
    LoginUser = {"u"}
    Lifetime = 5
    Margin = 1
    Interval = 2
    LoNone = LoNone
    FuseTask = {"a", "b"}
    RootIno = "root"
    NameOf <- MCNameOf
    MaxLookups = 1
    FuNone = FuNone
    Token = {t}
    TokenProc = {p, q}
    Mutator = {p}
    MaxWrites = 2
    EditByHand = {"remove"}
    TokenNone = TokenNone
CONSTRAINT NotExposed
INVARIANTS
    FinishedComplete
    WritersChunksKept
    IndInv
    
    AcceptedIsCurrent
CHECK_DEADLOCK FALSE
