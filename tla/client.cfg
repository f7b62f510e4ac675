SPECIFICATION AllSpec
CONSTANTS
    Index = {i1}
    Blob = {b1}
    Chunk = {c1}
    BlobData = {d1}
    Writer = {w1, w2}
    Request = {r1}
    MaxChunks = 1
    S3 = TRUE
    Environment = {}
    None = None
    Mixed = Mixed
    PrevPayload <- MCPayload
    PrevEnds <- MCEnds
    PrevFiles <- MCFiles
    Walks <- MCWalks
    PxarCacheSize = 2
    PaddingLimit = 6
    InjectBatch = 1
    MergeMax = 2
    ChunkBuffer = 2
    UploadQueue = 2
    MinChunk = 2
    FixedSize = 2
    User = {"root", "u1", "u2"}
    Token = {"k1"}
    UserOf <- MCUserOf
    RootUser = "root"
    RolePrivs <- MCRoles
    Store <- MCStore
    Namespace <- MCNs
    Thread = {"t1", "t2", "t3"}
    ProcessOf <- MCProcessOf
    SyncRealm = {"u1", "u2"}
    Scenes <- MCScenes
    Files <- MCFilesOf
    NoThread = "none"
    NoKey = "no"
    BackupCalls <- MCBackupCalls
    RestoreCalls <- MCRestoreCalls
    MaxSnaps = 2
    MaxChanges = 1
    Versions = 2
    Cases <- MCCases
    RestoreUser = {"root", "www"}
    Uid <- MCUid
    RestoreSnap = {"s1", "s2"}
    Cmd = {"c1", "c2"}
    CmdCalls <- MCCmdCalls
    Pid = {1, 2}
    MaxCidTries = 2
    LastCid = 12
    MaxVMs = 2
    MaxKills = 1
    NoCmd = "no"
    VmCall = {"c1", "c2"}
    Timeout = 2
    MaxDownloads = 1
    MaxClock = 4
    Layouts <- MCLayouts
CHECK_DEADLOCK FALSE
INVARIANTS
    ManifestConsistent SessionInv ArchiveRight UploadRight AccessInv CommandsInv
