SPECIFICATION LiveSpec
CONSTANTS
    Group = {g1}
    Slot = {1}
    Chunk = {c1}
    Process = {p1}
    NoGroup = NoGroup
    NoProcess = NoProcess
    Cutoff = 1
    SafetyGap = 1
    MaxRetries = 1
    UseLruCache = TRUE
    MaxTime = 1
    Caller = {a}
    Scheduler = scheduler
    Period = 2
    FallbackOffset = 1
    JobMaxTime = 2
    Inodes = 3
    JobNone = JobNone
    Handle = {"h1", "h2"}
    Proc = {"p1"}
    Proxy = {"p1"}
    CountsFail = FALSE
    HandleProc <- MCHandleProc
    Job = {t1}
    Kind = {"removable"}
    Stores = 3
    MaxChanges = 1
    MaintNone = MaintNone
    Key = {1, 2}
    Access = {x, y}
    Requested = 0
    Nil = Nil
    Client = {p, q}
    Areas = {"deletes"}
    ConfNone = ConfNone
PROPERTIES
    GcTerminates ServicesProgress
CHECK_DEADLOCK FALSE
