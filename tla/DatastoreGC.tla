---------------------------- MODULE DatastoreGC ----------------------------
(***************************************************************************)
(* Garbage collection of a filesystem datastore against running backups.   *)
(*                                                                         *)
(* A datastore keeps deduplicated chunks and, per backup group, snapshot   *)
(* directories with index files that reference chunks.  A backup session   *)
(* may reference chunks of the previous snapshot without sending them.     *)
(* Garbage collection marks (updates the access time of) every chunk an    *)
(* index references and then sweeps the chunks whose access time is older  *)
(* than a cutoff.  Nothing but access times, advisory locks and the order  *)
(* of these steps keeps a referenced chunk from being swept.               *)
(*                                                                         *)
(* One index file per snapshot is modelled, and a listing of a group's     *)
(* snapshots and their files is one step.  A group stands for its lock as  *)
(* well: the group lock is held by the group's session, or by a garbage    *)
(* collection that ran out of lock-free retries.                           *)
(***************************************************************************)
EXTENDS Integers

CONSTANTS
    Group,        \* backup groups
    Slot,         \* backup times: the names of a group's snapshots
    Chunk,        \* chunk digests
    Process,      \* daemon processes (an old one may outlive a reload)
    NoGroup,      \* what an idle collection and an idle session
    NoProcess,    \* have for a group and a process
    Cutoff,       \* gc-atime-cutoff
    SafetyGap,    \* the 5 minutes subtracted from the oldest writer's start
    MaxRetries,   \* lock-free listings of a group before the group is locked
    UseLruCache,  \* gc-cache-capacity > 0
    MaxTime       \* bound on the clock

NoSlot == 0

ASSUME SlotAssumption == Slot \subseteq Nat \ {NoSlot}
ASSUME TimeAssumption == Cutoff \in Nat /\ SafetyGap \in Nat /\ MaxTime \in Nat
ASSUME GcAssumption == MaxRetries \in Nat /\ UseLruCache \in BOOLEAN

VARIABLES
    now,       \* the system clock
    store,     \* chunks with a file in the chunk store
    atime,     \* their access times
    dirs,      \* snapshot directories of each group
    indexed,   \* snapshots whose index file has its final name
    finished,  \* snapshots with a manifest
    index,     \* chunks an index file references
    sess,      \* the backup session of each group
    gc,        \* the garbage collection of the datastore
    exposed    \* history: how a group left the protection of the locks

snapVars == <<dirs, indexed, finished, index>>
vars == <<now, store, atime, dirs, indexed, finished, index, sess, gc, exposed>>

-----------------------------------------------------------------------------
(* Types and initial state *)

Session ==
    [pc      : {"idle", "group", "dir", "active", "finishing"},
     proc    : Process \cup {NoProcess},
     slot    : Slot \cup {NoSlot},
     base    : Slot \cup {NoSlot},   \* last_backup
     started : Nat,                  \* when the shared chunk store lock was taken
     known   : SUBSET Chunk,         \* known_chunks
     open    : BOOLEAN,              \* an index writer is registered
     writer  : SUBSET Chunk,         \* what has been appended to it
     storeGuard : BOOLEAN,           \* BackupLockGuards.chunk_store
     baseGuard  : BOOLEAN]           \* BackupLockGuards.previous_snapshot

Collection ==
    [pc       : {"idle", "list", "groups", "group", "mark", "sweep"},
     proc     : Process \cup {NoProcess},
     minAtime : Int,
     unprocessed : SUBSET (Group \X Slot),  \* unprocessed_index_list
     todo     : SUBSET Group,               \* groups the iterator has not yielded
     group    : Group \cup {NoGroup},
     rem      : SUBSET Slot,                \* listed snapshots not visited yet
     files    : SUBSET Slot,                \* those listed with an index file
     first    : BOOLEAN,                    \* count == 0
     retries  : 0 .. MaxRetries + 1,
     lock     : BOOLEAN,                    \* the group lock of the last retry
     cached   : SUBSET Chunk,               \* chunk_lru_cache
     bases    : SUBSET (Slot \cup {NoSlot}),\* history: bases given up by a finish since the listing
     sweep    : SUBSET Chunk]

(* What can take a group out of the protection of the locks: a finish that *)
(* failed after dropping its guards; a collection that passed over the     *)
(* vanished base of a backup finished since the listing; a backup time     *)
(* used again while a collection has the removed snapshot of that time     *)
(* still listed.                                                           *)
Exposure == {"unguarded", "skipped", "reused"}

Expose(g, cause) == [exposed EXCEPT ![g] = @ \cup {cause}]

IdleSession ==
    [pc |-> "idle", proc |-> NoProcess, slot |-> NoSlot, base |-> NoSlot, started |-> 0,
     known |-> {}, open |-> FALSE, writer |-> {},
     storeGuard |-> FALSE, baseGuard |-> FALSE]

IdleCollection ==
    [pc |-> "idle", proc |-> NoProcess, minAtime |-> 0, unprocessed |-> {}, todo |-> {},
     group |-> NoGroup, rem |-> {}, files |-> {}, first |-> FALSE, retries |-> 0,
     lock |-> FALSE, cached |-> {}, bases |-> {}, sweep |-> {}]

Init ==
    /\ now = 0
    /\ store = {}
    /\ atime = [c \in Chunk |-> 0]
    /\ dirs = [g \in Group |-> {}]
    /\ indexed = [g \in Group |-> {}]
    /\ finished = [g \in Group |-> {}]
    /\ index = [g \in Group |-> [s \in Slot |-> {}]]
    /\ sess = [g \in Group |-> IdleSession]
    /\ gc = IdleCollection
    /\ exposed = [g \in Group |-> {}]

-----------------------------------------------------------------------------
(* Locks and directory operations *)

GcRunning == gc.pc # "idle"

GroupLocked(g) == sess[g].pc # "idle" \/ (gc.lock /\ gc.group = g)

(* The snapshot's own lock, or a shared one of a session that builds on it. *)
(* Mutated form: a session does not lock the snapshot it builds on. *)
SnapshotLockedOwnOnly(g, s) ==
    sess[g].pc \in {"dir", "active", "finishing"} /\ sess[g].slot = s
SnapshotLocked(g, s) ==
    \/ sess[g].pc \in {"dir", "active", "finishing"} /\ sess[g].slot = s
    \/ sess[g].baseGuard /\ sess[g].base = s

(* ProcessLocker: shared and exclusive locks exclude each other only      *)
(* between processes.                                                      *)
SharedLockFree(p) == GcRunning => gc.proc = p
(* Mutated form: no lock file between processes. *)
ExclusiveLockFreeAnyProcess(p) == ~GcRunning
ExclusiveLockFree(p) ==
    /\ ~GcRunning
    /\ \A g \in Group : sess[g].storeGuard => sess[g].proc = p

LastFinished(g, s) ==
    /\ s \in finished[g]
    /\ \A t \in finished[g] : t <= s

RemoveDir(g, s) ==
    /\ dirs' = [dirs EXCEPT ![g] = @ \ {s}]
    /\ indexed' = [indexed EXCEPT ![g] = @ \ {s}]
    /\ finished' = [finished EXCEPT ![g] = @ \ {s}]
    /\ index' = [index EXCEPT ![g][s] = {}]

(* cond_touch_chunk: a chunk without a file is left alone. *)
Touch(S) == atime' = [c \in Chunk |-> IF c \in S \cap store THEN now ELSE atime[c]]

-----------------------------------------------------------------------------
(* Backup sessions *)

(* upgrade_to_backup_protocol, up to the choice of the base: the newest    *)
(* finished snapshot, or none when its verification failed.                *)
StartBackup(g, p, s, b) ==
    /\ ~GroupLocked(g)
    /\ \/ LastFinished(g, b) /\ s > b
       \/ b = NoSlot
    /\ sess' = [sess EXCEPT ![g] =
                  [IdleSession EXCEPT !.pc = "group", !.proc = p,
                                         !.slot = s, !.base = b]]
    /\ UNCHANGED <<now, store, atime, snapVars, gc, exposed>>

(* lock_shared on the base, then create_locked_backup_dir.  The base may   *)
(* have been removed since it was chosen: its lock file is not in it.      *)
CreateBackupDir(g) ==
    LET s == sess[g].slot IN
    /\ sess[g].pc = "group"
    /\ s \notin dirs[g]
    /\ dirs' = [dirs EXCEPT ![g] = @ \cup {s}]
    /\ sess' = [sess EXCEPT ![g] = [@ EXCEPT !.pc = "dir", !.baseGuard = (sess[g].base # NoSlot)]]
    /\ exposed' = IF gc.pc = "mark" /\ gc.group = g /\ s \in gc.rem
                  THEN Expose(g, "reused") ELSE exposed
    /\ UNCHANGED <<now, store, atime, indexed, finished, index, gc>>

(* try_shared_chunk_store_lock in the worker. *)
LockChunkStore(g) ==
    /\ sess[g].pc = "dir"
    /\ SharedLockFree(sess[g].proc)
    /\ sess' = [sess EXCEPT ![g] = [@ EXCEPT !.pc = "active", !.started = now, !.storeGuard = TRUE]]
    /\ UNCHANGED <<now, store, atime, snapVars, gc, exposed>>

(* An early return before the environment exists: the base's lock cannot   *)
(* be had, the directory exists, or another process collects.  Nothing is  *)
(* cleaned up.                                                             *)
FailSetup(g) ==
    /\ \/ sess[g].pc = "group"
       \/ sess[g].pc = "dir" /\ ~SharedLockFree(sess[g].proc)
    /\ sess' = [sess EXCEPT ![g] = IdleSession]
    /\ UNCHANGED <<now, store, atime, snapVars, gc, exposed>>

(* insert_chunk and register_chunk: a new file, or a touched one. *)
UploadChunk(g, c) ==
    /\ sess[g].pc = "active"
    /\ store' = store \cup {c}
    /\ atime' = [atime EXCEPT ![c] = now]
    /\ sess' = [sess EXCEPT ![g].known = @ \cup {c}]
    /\ UNCHANGED <<now, snapVars, gc, exposed>>

(* download_previous: the chunks of the base become known, untouched. *)
DownloadPrevious(g) ==
    LET b == sess[g].base IN
    /\ sess[g].pc = "active"
    /\ b \in indexed[g]
    /\ sess' = [sess EXCEPT ![g].known = @ \cup index[g][b]]
    /\ UNCHANGED <<now, store, atime, snapVars, gc, exposed>>

(* create_dynamic_index and create_fixed_index; an incremental fixed index *)
(* starts as a copy of the base's.                                         *)
CreateIndex(g, content) ==
    /\ sess[g].pc = "active"
    /\ ~sess[g].open
    /\ sess[g].slot \notin indexed[g]
    /\ \/ content = {}
       \/ sess[g].base \in indexed[g] /\ content = index[g][sess[g].base]
    /\ sess' = [sess EXCEPT ![g] = [@ EXCEPT !.open = TRUE, !.writer = content]]
    /\ UNCHANGED <<now, store, atime, snapVars, gc, exposed>>

AppendChunk(g, c) ==
    /\ sess[g].pc = "active"
    /\ sess[g].open
    /\ c \in sess[g].known
    /\ sess' = [sess EXCEPT ![g].writer = @ \cup {c}]
    /\ UNCHANGED <<now, store, atime, snapVars, gc, exposed>>

(* The index file gets its final name. *)
CloseIndex(g) ==
    LET s == sess[g].slot IN
    /\ sess[g].pc = "active"
    /\ sess[g].open
    /\ indexed' = [indexed EXCEPT ![g] = @ \cup {s}]
    /\ index' = [index EXCEPT ![g][s] = sess[g].writer]
    /\ sess' = [sess EXCEPT ![g] = [@ EXCEPT !.open = FALSE, !.writer = {}]]
    /\ UNCHANGED <<now, store, atime, dirs, finished, gc, exposed>>

(* finish_backup up to the point where the guards are dropped. *)
FinishAllowed(g) ==
    /\ sess[g].pc = "active"
    /\ ~sess[g].open
    /\ sess[g].base = NoSlot \/ sess[g].base \in dirs[g]

GiveUpBase(g) ==
    gc' = IF gc.pc = "mark" /\ gc.group = g
          THEN [gc EXCEPT !.bases = @ \cup {sess[g].base}]
          ELSE gc

FinishBackup(g) ==
    /\ FinishAllowed(g)
    /\ sess' = [sess EXCEPT ![g] = [@ EXCEPT !.pc = "finishing",
                                              !.known = {},
                                              !.storeGuard = FALSE,
                                              !.baseGuard = FALSE]]
    /\ GiveUpBase(g)
    /\ UNCHANGED <<now, store, atime, snapVars, exposed>>

(* The manifest is missing or does not match: finish_backup fails, after   *)
(* it has dropped both guards, and the session stays active.               *)
RejectManifest(g) ==
    /\ FinishAllowed(g)
    /\ sess' = [sess EXCEPT ![g] = [@ EXCEPT !.storeGuard = FALSE, !.baseGuard = FALSE]]
    /\ GiveUpBase(g)
    /\ exposed' = Expose(g, "unguarded")
    /\ UNCHANGED <<now, store, atime, snapVars>>

PersistManifest(g) ==
    /\ sess[g].pc = "finishing"
    /\ finished' = [finished EXCEPT ![g] = @ \cup {sess[g].slot}]
    /\ UNCHANGED <<now, store, atime, dirs, indexed, index, sess, gc, exposed>>

(* BackupState::Finished: the snapshot and group guards are dropped. *)
CompleteFinish(g) ==
    /\ sess[g].pc = "finishing"
    /\ sess[g].slot \in finished[g]
    /\ sess' = [sess EXCEPT ![g] = IdleSession]
    /\ UNCHANGED <<now, store, atime, snapVars, gc, exposed>>

(* The connection ends or the task is aborted before the backup is         *)
(* finished: remove_backup_dir with force, then the guards are dropped.    *)
AbortBackup(g) ==
    /\ sess[g].pc \in {"active", "finishing"}
    /\ RemoveDir(g, sess[g].slot)
    /\ sess' = [sess EXCEPT ![g] = IdleSession]
    /\ UNCHANGED <<now, store, atime, gc, exposed>>

-----------------------------------------------------------------------------
(* Pruning or forgetting a snapshot: BackupDir::destroy without force. *)
Prune(g, s) ==
    /\ s \in dirs[g]
    /\ ~SnapshotLocked(g, s)
    /\ RemoveDir(g, s)
    /\ UNCHANGED <<now, store, atime, sess, gc, exposed>>

-----------------------------------------------------------------------------
(* Garbage collection *)

(* oldest_shared_lock: the earliest start among the process's writers. *)
WriterStarts(p) == {sess[g].started : g \in {h \in Group : sess[h].storeGuard
                                                        /\ sess[h].proc = p}}

(* Without a writer, oldest_writer is the start of phase 1. *)
OldestWriter(p, t) ==
    \/ WriterStarts(p) = {} /\ t = now
    \/ t \in WriterStarts(p) /\ \A u \in WriterStarts(p) : t <= u

(* Mutated form: the oldest writer does not extend the cutoff. *)
MinAtimeIgnoringWriters(oldest) == now - Cutoff
MinAtime(oldest) ==
    IF oldest < now - Cutoff THEN oldest - SafetyGap ELSE now - Cutoff

GcStart(p) ==
    /\ ExclusiveLockFree(p)
    /\ \E t \in 0 .. now :
         /\ OldestWriter(p, t)
         /\ gc' = [IdleCollection EXCEPT !.pc = "list", !.proc = p,
                                            !.minAtime = MinAtime(t)]
    /\ UNCHANGED <<now, store, atime, snapVars, sess, exposed>>

(* list_index_files, and the iterator over the groups: it yields every     *)
(* group that exists, and may or may not yield one created meanwhile.      *)
GcListIndexFiles(T) ==
    /\ gc.pc = "list"
    /\ {g \in Group : dirs[g] # {}} \subseteq T
    /\ gc' = [gc EXCEPT !.pc = "groups", !.todo = T,
                 !.unprocessed = {x \in Group \X Slot : x[2] \in indexed[x[1]]}]
    /\ UNCHANGED <<now, store, atime, snapVars, sess, exposed>>

GcNextGroup(g) ==
    /\ gc.pc = "groups"
    /\ g \in gc.todo
    /\ gc' = [gc EXCEPT !.pc = "group", !.todo = @ \ {g}, !.group = g, !.retries = 0]
    /\ UNCHANGED <<now, store, atime, snapVars, sess, exposed>>

(* The head of the 'retry loop: list the group's snapshots, under the      *)
(* group lock when the lock-free retries are used up.                      *)
GcListGroup ==
    LET g == gc.group IN
    /\ gc.pc = "group"
    /\ \/ gc.retries < MaxRetries
       \/ gc.retries = MaxRetries /\ ~GroupLocked(g)
    /\ gc' = [gc EXCEPT !.pc = "mark", !.rem = dirs[g], !.files = indexed[g],
                 !.first = TRUE, !.bases = {}, !.lock = (gc.retries = MaxRetries)]
    /\ UNCHANGED <<now, store, atime, snapVars, sess, exposed>>

GcGiveUpGroup ==
    /\ gc.pc = "group"
    /\ \/ gc.retries = MaxRetries /\ GroupLocked(gc.group)
       \/ gc.retries > MaxRetries
    /\ gc' = IdleCollection
    /\ UNCHANGED <<now, store, atime, snapVars, sess, exposed>>

(* The listed snapshots are visited from the newest to the oldest. *)
Newest(s) ==
    /\ gc.pc = "mark"
    /\ s \in gc.rem
    /\ \A t \in gc.rem : t <= s

Visited(s) == [gc EXCEPT !.rem = @ \ {s}, !.first = FALSE,
                         !.unprocessed = @ \ {<<gc.group, s>>}]

GcSkipSnapshot(s) ==
    /\ Newest(s)
    /\ s \notin gc.files
    /\ gc' = [gc EXCEPT !.rem = @ \ {s}, !.first = FALSE]
    /\ UNCHANGED <<now, store, atime, snapVars, sess, exposed>>

(* index_mark_used_chunks: a digest found in the LRU cache is not touched. *)
ToTouch(S) == IF UseLruCache THEN S \ gc.cached ELSE S
Cached(S) == IF UseLruCache THEN gc.cached \cup S ELSE {}

GcMarkIndex(s) ==
    LET S == index[gc.group][s] IN
    /\ Newest(s)
    /\ s \in gc.files
    /\ s \in indexed[gc.group]
    /\ Touch(ToTouch(S))
    /\ gc' = [Visited(s) EXCEPT !.cached = Cached(S)]
    /\ UNCHANGED <<now, store, snapVars, sess, exposed>>

(* Mutated form: a vanished newest snapshot is skipped like an older one. *)
GcRetryGroupNever(s) ==
    /\ Newest(s)
    /\ s \in gc.files
    /\ s \notin indexed[gc.group]
    /\ gc.first
    /\ gc' = Visited(s)
    /\ UNCHANGED <<now, store, atime, snapVars, sess, exposed>>

(* Mutated form: the retries are not counted. *)
GcRetryGroupUncounted(s) ==
    /\ Newest(s)
    /\ s \in gc.files
    /\ s \notin indexed[gc.group]
    /\ gc.first
    /\ gc' = [gc EXCEPT !.pc = "group", !.lock = FALSE, !.rem = {}, !.files = {}, !.bases = {},
                 !.unprocessed = @ \ {<<gc.group, s>>}]
    /\ UNCHANGED <<now, store, atime, snapVars, sess, exposed>>

(* The newest listed snapshot is gone: list the group again. *)
GcRetryGroup(s) ==
    /\ Newest(s)
    /\ s \in gc.files
    /\ s \notin indexed[gc.group]
    /\ gc.first
    /\ gc' = [gc EXCEPT !.pc = "group", !.retries = @ + 1, !.lock = FALSE,
                 !.rem = {}, !.files = {}, !.bases = {},
                 !.unprocessed = @ \ {<<gc.group, s>>}]
    /\ UNCHANGED <<now, store, atime, snapVars, sess, exposed>>

(* An older one is gone: go on with the next. *)
GcSkipVanished(s) ==
    /\ Newest(s)
    /\ s \in gc.files
    /\ s \notin indexed[gc.group]
    /\ ~gc.first
    /\ gc' = Visited(s)
    /\ exposed' = IF s \in gc.bases THEN Expose(gc.group, "skipped") ELSE exposed
    /\ UNCHANGED <<now, store, atime, snapVars, sess>>

GcGroupDone ==
    /\ gc.pc = "mark"
    /\ gc.rem = {}
    /\ gc' = [gc EXCEPT !.pc = "groups", !.lock = FALSE, !.files = {}, !.bases = {}]
    /\ UNCHANGED <<now, store, atime, snapVars, sess, exposed>>

(* Index files found by the first walk that no group has yielded. *)
GcMarkStrange(g, s) ==
    LET S == index[g][s] IN
    /\ gc.pc = "groups"
    /\ gc.todo = {}
    /\ <<g, s>> \in gc.unprocessed
    /\ Touch(ToTouch(S))
    /\ gc' = [gc EXCEPT !.unprocessed = @ \ {<<g, s>>}, !.cached = Cached(S)]
    /\ UNCHANGED <<now, store, snapVars, sess, exposed>>

GcStartSweep ==
    /\ gc.pc = "groups"
    /\ gc.todo = {}
    /\ gc.unprocessed = {}
    /\ gc' = [gc EXCEPT !.pc = "sweep", !.sweep = Chunk, !.cached = {}]
    /\ UNCHANGED <<now, store, atime, snapVars, sess, exposed>>

(* One directory entry of sweep_unused_chunks, under the chunk store mutex. *)
GcSweepChunk(c) ==
    /\ gc.pc = "sweep"
    /\ c \in gc.sweep
    /\ gc' = [gc EXCEPT !.sweep = @ \ {c}]
    /\ IF atime[c] < gc.minAtime
         THEN /\ store' = store \ {c}
              /\ atime' = [atime EXCEPT ![c] = 0]
         ELSE UNCHANGED <<store, atime>>
    /\ UNCHANGED <<now, snapVars, sess, exposed>>

GcFinish ==
    /\ gc.pc = "sweep"
    /\ gc.sweep = {}
    /\ gc' = IdleCollection
    /\ UNCHANGED <<now, store, atime, snapVars, sess, exposed>>

(* check_abort, fail_on_shutdown, or any error of the run. *)
GcAbort ==
    /\ GcRunning
    /\ gc' = IdleCollection
    /\ UNCHANGED <<now, store, atime, snapVars, sess, exposed>>

-----------------------------------------------------------------------------
(* Environment *)

Tick ==
    /\ now < MaxTime
    /\ now' = now + 1
    /\ UNCHANGED <<store, atime, snapVars, sess, gc, exposed>>

(* A daemon process dies: its locks are released, its files stay. *)
Crash(p) ==
    /\ sess' = [g \in Group |-> IF sess[g].proc = p THEN IdleSession ELSE sess[g]]
    /\ gc' = IF gc.proc = p THEN IdleCollection ELSE gc
    /\ UNCHANGED <<now, store, atime, snapVars, exposed>>

-----------------------------------------------------------------------------
(* Specification *)

SessionNext(g) ==
    \/ \E p \in Process, s \in Slot, b \in Slot \cup {NoSlot} : StartBackup(g, p, s, b)
    \/ CreateBackupDir(g)
    \/ LockChunkStore(g)
    \/ FailSetup(g)
    \/ \E c \in Chunk : UploadChunk(g, c)
    \/ DownloadPrevious(g)
    \/ \E S \in SUBSET Chunk : CreateIndex(g, S)
    \/ \E c \in Chunk : AppendChunk(g, c)
    \/ CloseIndex(g)
    \/ FinishBackup(g)
    \/ RejectManifest(g)
    \/ PersistManifest(g)
    \/ CompleteFinish(g)
    \/ AbortBackup(g)

GcStep ==
    \/ \E T \in SUBSET Group : GcListIndexFiles(T)
    \/ \E g \in Group : GcNextGroup(g)
    \/ GcListGroup
    \/ GcGiveUpGroup
    \/ \E s \in Slot : \/ GcSkipSnapshot(s)
                       \/ GcMarkIndex(s)
                       \/ GcRetryGroup(s)
                       \/ GcSkipVanished(s)
    \/ GcGroupDone
    \/ \E g \in Group, s \in Slot : GcMarkStrange(g, s)
    \/ GcStartSweep
    \/ \E c \in Chunk : GcSweepChunk(c)
    \/ GcFinish

Next ==
    \/ \E g \in Group : SessionNext(g)
    \/ \E g \in Group, s \in Slot : Prune(g, s)
    \/ \E p \in Process : GcStart(p)
    \/ GcStep
    \/ GcAbort
    \/ Tick
    \/ \E p \in Process : Crash(p)

Spec == Init /\ [][Next]_vars

(* A started collection keeps running; nothing else is assumed to happen. *)
FairSpec == Spec /\ WF_vars(GcStep)

-----------------------------------------------------------------------------
(* Properties *)

(* The type invariant: sessions and the collection have the fields their   *)
(* phase needs, and mark_used_chunks never counts past the last retry.     *)
TypeOK ==
    /\ now \in Nat
    /\ store \subseteq Chunk
    /\ atime \in [Chunk -> Nat]
    /\ dirs \in [Group -> SUBSET Slot]
    /\ indexed \in [Group -> SUBSET Slot]
    /\ finished \in [Group -> SUBSET Slot]
    /\ index \in [Group -> [Slot -> SUBSET Chunk]]
    /\ sess \in [Group -> Session]
    /\ gc \in Collection
    /\ \A g \in Group : sess[g].pc # "idle" => sess[g].slot \in Slot
    /\ gc.pc \in {"group", "mark"} => gc.group \in Group
    /\ gc.pc = "mark" => gc.retries <= MaxRetries
    /\ exposed \in [Group -> SUBSET Exposure]

Complete(g, s) == index[g][s] \subseteq store

(* The promise of the datastore: every chunk a finished snapshot           *)
(* references is in the chunk store, whatever backups, prunes, garbage     *)
(* collections, crashes and daemon reloads come together, in every group   *)
(* that was not exposed in one of the ways listed above.                   *)
FinishedComplete ==
    \A g \in Group : exposed[g] = {} => \A s \in finished[g] : Complete(g, s)

(* A chunk a running backup has uploaded or has been told to be known      *)
(* stays in the store until the backup can reference it.                   *)
WritersChunksKept ==
    \A g \in Group : exposed[g] = {} /\ sess[g].pc = "active" =>
        sess[g].known \cup sess[g].writer \subseteq store

(* A chunk is swept only by a collection that knew every running writer:   *)
(* no session of another process holds the chunk store lock.               *)
OnlyOwnWriters ==
    [][store \ store' # {} =>
         \A g \in Group : sess[g].storeGuard => sess[g].proc = gc.proc]_vars

(* A collection ends, however backups and prunes make it list a group      *)
(* again: the retry loop of mark_used_chunks is bounded.                   *)
GcTerminates == GcRunning ~> ~GcRunning

-----------------------------------------------------------------------------
(* The inductive invariant behind FinishedComplete and WritersChunksKept *)

DirInv ==
    \A g \in Group :
        /\ indexed[g] \subseteq dirs[g]
        /\ finished[g] \subseteq dirs[g]
        /\ \A s \in Slot \ indexed[g] : index[g][s] = {}

(* Which locks and directories a session has in which state. *)
SessionOK(g) ==
    LET x == sess[g] IN
    /\ x.pc = "idle" => ~x.open /\ ~x.baseGuard
    /\ x.pc \in {"idle", "group", "dir", "finishing"} => ~x.storeGuard
    /\ x.pc \in {"group", "dir"} => ~x.open /\ x.known = {} /\ x.writer = {}
    /\ x.pc \in {"dir", "active", "finishing"} => x.slot \in dirs[g]
    /\ x.pc \in {"dir", "active"} => x.slot \notin finished[g]
    /\ x.pc = "dir" => x.slot \notin indexed[g]
    /\ x.pc # "idle" => x.slot # x.base
    /\ x.pc # "idle" /\ x.base \in dirs[g] => x.base \in finished[g]
    /\ x.pc = "dir" => x.base = NoSlot \/ x.baseGuard
    /\ x.pc = "active" /\ exposed[g] = {} =>
          x.storeGuard /\ (x.base = NoSlot \/ x.baseGuard)
    /\ x.open => x.pc = "active" /\ x.slot \notin indexed[g]
    /\ x.started <= now

SessionInv == \A g \in Group : SessionOK(g)

(* The snapshots whose chunks somebody counts on. *)
Live(g, s) ==
    /\ s \in indexed[g]
    /\ \/ s \in finished[g]
       \/ sess[g].pc \in {"active", "finishing"} /\ sess[g].slot = s

(* A chunk a session may still reference was written or touched by it, or  *)
(* is referenced by its base.                                              *)
KnownOK(g) ==
    exposed[g] = {} /\ sess[g].pc = "active" =>
        \A c \in sess[g].known \cup sess[g].writer :
            \/ c \in store /\ atime[c] >= sess[g].started
            \/ sess[g].base \in indexed[g] /\ c \in index[g][sess[g].base]

KnownInv == \A g \in Group : KnownOK(g)

StoreInv ==
    \A g \in Group : exposed[g] = {} =>
        \A s \in Slot : Live(g, s) => index[g][s] \subseteq store

(* The cutoff lies before the start of every writer; the digests in the    *)
(* LRU cache need no second touch.                                         *)
CutoffInv ==
    GcRunning =>
        /\ gc.minAtime <= now
        /\ \A g \in Group : sess[g].storeGuard => gc.minAtime <= sess[g].started
        /\ \A c \in gc.cached \cap store : atime[c] >= gc.minAtime
        /\ gc.lock => gc.pc = "mark"

(* What the marking of group g has not reached yet will still touch c:     *)
(* through snapshot s itself, or through a snapshot that s was based on,   *)
(* or through one that vanished and will be missed.                        *)
ToBeMarked(g, s, c) ==
    \/ gc.pc = "list"
    \/ g \in gc.todo
    \/ gc.pc = "group" /\ gc.group = g
    \/ /\ gc.pc = "mark"
       /\ gc.group = g
       /\ \/ s \in gc.rem \cap gc.files
          \/ \E u \in gc.rem \cap gc.files \cap gc.bases :
                u \in indexed[g] => c \in index[g][u]
          \/ LET b == sess[g].base IN
             /\ sess[g].pc = "active" /\ sess[g].slot = s
             /\ b \in gc.rem \cap gc.files \cap indexed[g]
             /\ c \in index[g][b]

CoverageInv ==
    GcRunning => \A g \in Group : exposed[g] = {} =>
        \A s \in Slot : Live(g, s) =>
            \A c \in index[g][s] : atime[c] >= gc.minAtime \/ ToBeMarked(g, s, c)

(* A listed index that is gone does not come back unnoticed. *)
ListingInv ==
    \A g \in Group :
        gc.pc = "mark" /\ gc.group = g /\ exposed[g] = {}
        /\ sess[g].pc \in {"dir", "active"} /\ sess[g].slot \in gc.rem \cap gc.files
            => sess[g].slot \in indexed[g]

GcPhaseInv ==
    /\ gc.pc \in {"idle", "list", "sweep"} => gc.todo = {}
    /\ gc.pc \in {"group", "mark"} => gc.group \notin gc.todo

(* While a collection runs, every writer belongs to its process. *)
WriterInv ==
    \A g \in Group : GcRunning /\ sess[g].storeGuard => sess[g].proc = gc.proc

(* Every chunk somebody counts on is in the store, and will survive the    *)
(* running collection: the writers lie after its cutoff, and what it has   *)
(* not marked yet it will mark.                                            *)
IndInv ==
    /\ TypeOK
    /\ DirInv
    /\ SessionInv
    /\ KnownInv
    /\ StoreInv
    /\ CutoffInv
    /\ CoverageInv
    /\ ListingInv
    /\ GcPhaseInv

-----------------------------------------------------------------------------
(* What comments in the code say, and the code does not do *)

(* mark_used_chunks: "Avoid race between listing/marking of snapshots by   *)
(* GC and pruning the last snapshot in the group, following a new snapshot *)
(* creation."                                                              *)
PrunedBaseRaceAvoided ==
    \A g \in Group : exposed[g] \subseteq {"skipped"} =>
        \A s \in finished[g] : Complete(g, s)

=============================================================================
