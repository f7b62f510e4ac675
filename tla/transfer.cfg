SPECIFICATION Spec
CONSTANTS
    Chunk = {1, 2}
    Times = 2
    Archives <- MCArchives
    Options <- MCOptions
    ChangeKey = FALSE
    ReuseTimes = FALSE
    MaxSourceOps = 3
    MaxTargetOps = 1
    MaxRuns = 2
    NoMeta = NoMeta
    Media = {1, 2}
    Snap = {"a1", "a2"}
    SnapChunks <- MCSnapChunks
    StoreOf <- MCStoreOf
    Slots = 3
    MaxSessions = 2
    MaxOthers = 1
    AlwaysCreate = FALSE
    Overwrite = TRUE
    NoTape = NoTape
    Payload = 2
    TapeBlock = 3
    Early = 6
    Capacity = 9
    DriveChunks = {"k1", "k3"}
    ChunkSize <- MCChunkSize
    SnapSize = 3
    MediaSets = {"e", "p"}
    Encrypted <- MCEncrypted
    Drives <- MCDrives
    NoSet = "no"
    MaxTape = 3
    Cartridge = {"t1", "t2", "cln"}
    Cleaning = {"cln"}
    Slot = {1, 2, 3, 4}
    ImportExport = {4}
    DriveNr = {1, 2}
    Scenes <- MCScenes
    NoCartridge = "none"
    MaxTransfers = 1
    MaxFaults = 1
INVARIANTS
    SyncedComplete CatalogsTrue RestoredWhole DevicesInv
PROPERTIES
    SyncHonest
CHECK_DEADLOCK FALSE
