SPECIFICATION Spec
CONSTANTS
    Caller = {a}
    Scheduler = scheduler
    Period = 2
    FallbackOffset = 1
    JobMaxTime = 2
    Inodes = 3
    JobNone = JobNone
    User = {u1, u2, u3}
    Holdable = {1, 2, 3}
    LockNone = LockNone
    Handle = {"h1", "h2"}
    Proc = {"p1"}
    Proxy = {"p1"}
    CountsFail = TRUE
    HandleProc <- MCHandleProc
    Job = {t1, t2}
    Kind = {"removable", "s3"}
    Stores = 3
    MaxChanges = 2
    MaintNone = MaintNone
    Key = {1, 2, 3}
    Access = {x, y}
    Requested = 2
    Nil = Nil
    Client = {c1, c2}
    Areas = {"access", "factors", "stores", "sync", "tape", "tape_jobs", "realms", "other"}
    ConfNone = ConfNone
SYMMETRY MCSymmetry
INVARIANTS
    JobSafe LockSafe HandlesSafe CacheSafe NothingLost ConfigConsistent
PROPERTY RemovedUnused
CHECK_DEADLOCK FALSE
