--------------------------- MODULE ObjectStoreGC ---------------------------
(***************************************************************************)
(* Garbage collection of a datastore whose chunks are objects in an S3     *)
(* bucket.  The local chunk store is a cache: a file with contents, or an  *)
(* empty marker that says the object is there and whose access time the    *)
(* collection uses.  An in-memory LRU list limits the files with contents. *)
(* A chunk lock serialises uploads, renames of corrupt chunks and the      *)
(* batched deletes of a collection; readers fill the cache without it.     *)
(*                                                                         *)
(* Here a session uploads all its chunks; what it may reuse of its base    *)
(* without an upload, and the retry loop of the marking phase, are in      *)
(* DatastoreGC.  Of the numbered bad files of a chunk there is one.  Which *)
(* LRU entry is given up, and when, is left open.                          *)
(***************************************************************************)
EXTENDS Integers

CONSTANTS
    Snapshot,     \* snapshots, each with the session that writes it
    Chunk,        \* chunk digests
    Reader,       \* tasks that read chunks
    Impl,         \* instances of DataStoreImpl, each with an LRU list of its own
    Cutoff,       \* gc-atime-cutoff
    SafetyGap,    \* the 5 minutes subtracted from the oldest writer's start
    Environment,  \* which of "nocache", "unlocked", "corrupt", "recreate" happen
    MaxTime,      \* bound on the clock
    MaxEvents,    \* bound on crashes, renames and changes of the configuration
    None,         \* no chunk, no snapshot, no holder of a lock
    Gc, Verifier  \* holders of chunk locks

ASSUME SizeAssumption == {Cutoff, SafetyGap, MaxTime, MaxEvents} \subseteq Nat
ASSUME NameAssumption ==
    /\ None \notin Snapshot \cup Chunk \cup Impl
    /\ {None, Gc, Verifier} \cap Snapshot = {}
    /\ None # Gc /\ None # Verifier /\ Gc # Verifier
    /\ Impl # {}

VARIABLES
    time,       \* the system clock
    events,     \* crashes, renames and changes of the configuration so far
    object,     \* chunks with an object
    badObject,  \* chunks with an object renamed to .bad
    file,       \* the local file of a chunk
    atime,      \* its access time
    bad,        \* access time of a local .bad file, or Absent
    expected,   \* chunks with a .using file
    lru,        \* entries of the LRU lists
    impl,       \* the instance a new lookup returns
    lock,       \* chunk locks
    sess,       \* snapshots and the sessions that write them
    reader,     \* chunk accesses in progress
    verifier,   \* rename of a corrupt chunk in progress
    gc,         \* the collection
    condemned,  \* history: chunks found corrupt and not uploaded again since
    orphan,     \* history: chunks that got a local entry while they were being deleted, or later
    exposed     \* history: how a session was given a chunk that nothing protects

cacheVars == <<file, atime, lru>>
localVars == <<file, atime, bad, expected, lru, impl>>
historyVars == <<condemned, orphan, exposed>>
vars == <<time, events, object, badObject, file, atime, bad, expected, lru, impl, lock, sess,
          reader, verifier, gc, condemned, orphan, exposed>>

-----------------------------------------------------------------------------
(* Types and initial state *)

Absent == -1
Times == 0 .. MaxTime

(* An object key: a chunk, or a chunk renamed to .bad. *)
Key == Chunk \X {"good", "bad"}

Session ==
    [stage   : {"none", "open", "done", "gone"},
     start   : Times,                  \* of the shared chunk store lock
     impl    : Impl \cup {None},
     nocache : BOOLEAN,
     got     : SUBSET Chunk,           \* chunks the client was told are stored
     up      : Chunk \cup {None},      \* upload in progress
     step    : {"idle", "locked", "put", "duplicate", "cached"}]

Access ==
    [step   : {"idle", "local", "fetch", "fetched"},
     chunk  : Chunk \cup {None},
     impl   : Impl \cup {None},
     snap   : Snapshot \cup {None}]    \* snapshot locked for the access

Collection ==
    [phase  : {"idle", "list", "mark", "sweep", "local"},
     min    : Int,                     \* min_atime
     impl   : Impl \cup {None},
     visit  : SUBSET Snapshot,         \* listed index files
     todo   : SUBSET Chunk,            \* of the index being marked
     marked : SUBSET Chunk,            \* chunk_lru_cache
     miss   : Chunk \cup {None},       \* waiting for the lock of a chunk without file
     isBad  : BOOLEAN,
     keys   : SUBSET Key,              \* not listed yet
     listed : SUBSET Key,
     dlist  : SUBSET Key,              \* S3DeleteList
     left   : SUBSET Chunk]            \* of the chunk store iterator

NewSession ==
    [stage |-> "none", start |-> 0, impl |-> None, nocache |-> FALSE, got |-> {},
     up |-> None, step |-> "idle"]
Gone == [NewSession EXCEPT !.stage = "gone"]
IdleAccess == [step |-> "idle", chunk |-> None, impl |-> None, snap |-> None]
IdleCollection ==
    [phase |-> "idle", min |-> 0, impl |-> None, visit |-> {}, todo |-> {}, marked |-> {},
     miss |-> None, isBad |-> FALSE, keys |-> {}, listed |-> {}, dlist |-> {}, left |-> {}]
IdleVerifier == [step |-> "idle", chunk |-> None]

Init ==
    /\ time = 0 /\ events = 0
    /\ object = {} /\ badObject = {}
    /\ file = [c \in Chunk |-> "none"]
    /\ atime = [c \in Chunk |-> 0]
    /\ bad = [c \in Chunk |-> Absent]
    /\ expected = {}
    /\ lru = [i \in Impl |-> {}]
    /\ impl \in Impl
    /\ lock = [c \in Chunk |-> None]
    /\ sess = [s \in Snapshot |-> NewSession]
    /\ reader = [r \in Reader |-> IdleAccess]
    /\ verifier = IdleVerifier
    /\ gc = IdleCollection
    /\ condemned = {} /\ orphan = {}
    /\ exposed = [s \in Snapshot |-> {}]

-----------------------------------------------------------------------------
(* Local cache *)

(* An entry made for a chunk that is being deleted, or has no object or no *)
(* file, is an orphan.                                                     *)
Dangling(c) == c \notin object \/ lock[c] \in {Gc, Verifier}

(* LruCache::insert.  What a full list gives up instead is in Evict. *)
LruInsert(i, c) == lru' = [lru EXCEPT ![i] = @ \cup {c}]

(* LocalDatastoreLruCache::insert *)
CacheInsert(i, c) ==
    /\ LruInsert(i, c)
    /\ file' = [file EXCEPT ![c] = "full"]
    /\ atime' = [atime EXCEPT ![c] = time]
    /\ orphan' = IF Dangling(c) THEN orphan \cup {c} ELSE orphan \ {c}

(* An insert into a full list, of a chunk that need not be one of Chunk:   *)
(* the file of the oldest entry is replaced by a marker, or a marker is    *)
(* created.                                                                *)
Evict(i, c) ==
    /\ c \in lru[i]
    /\ lru' = [lru EXCEPT ![i] = @ \ {c}]
    /\ file' = [file EXCEPT ![c] = "marker"]
    /\ atime' = [atime EXCEPT ![c] = time]
    /\ orphan' = IF Dangling(c) THEN orphan \cup {c} ELSE orphan
    /\ UNCHANGED <<time, events, object, badObject, bad, expected, impl, lock, sess, reader, verifier, gc,
                   condemned, exposed>>

(* LocalDatastoreLruCache::remove: the lists of other instances keep c. *)
CacheRemove(i, c) ==
    /\ lru' = [lru EXCEPT ![i] = @ \ {c}]
    /\ file' = [file EXCEPT ![c] = "none"]
    /\ atime' = [atime EXCEPT ![c] = 0]
    /\ orphan' = IF \E j \in Impl \ {i} : c \in lru[j] THEN orphan \cup {c} ELSE orphan

Event == events < MaxEvents /\ events' = events + 1

Release(holders) == [c \in Chunk |-> IF lock[c] \in holders THEN None ELSE lock[c]]

-----------------------------------------------------------------------------
(* Backup sessions *)

StartBackup(s, nocache) ==
    /\ sess[s].stage = "none"
    /\ nocache => "nocache" \in Environment
    /\ sess' = [sess EXCEPT ![s] = [NewSession EXCEPT !.stage = "open", !.start = time,
                                                      !.impl = impl, !.nocache = nocache]]
    /\ UNCHANGED <<time, events, object, badObject, localVars, lock, reader, verifier, gc, historyVars>>

(* lock_chunk; a client sends a chunk once *)
LockChunk(s, c) ==
    /\ sess[s].stage = "open" /\ sess[s].step = "idle"
    /\ c \notin sess[s].got
    /\ lock[c] = None
    /\ lock' = [lock EXCEPT ![c] = s]
    /\ sess' = [sess EXCEPT ![s] = [@ EXCEPT !.up = c, !.step = "locked"]]
    /\ UNCHANGED <<time, events, object, badObject, localVars, reader, verifier, gc, historyVars>>

Uploading(s, step) == sess[s].stage = "open" /\ sess[s].step = step

(* The client is told that the chunk is stored. *)
Accept(s) ==
    /\ sess' = [sess EXCEPT ![s] = [@ EXCEPT !.got = sess[s].got \cup {sess[s].up},
                                              !.up = None,
                                              !.step = "idle"]]
    /\ lock' = [lock EXCEPT ![sess[s].up] = None]

(* insert_chunk_cached: the LRU list has the chunk; its access time is not *)
(* updated.                                                                *)
CachedExposure(s) ==
    LET c == sess[s].up IN
    IF c \notin object THEN {"orphan"}
    ELSE IF atime[c] < sess[s].start \/ file[c] = "none" THEN {"untouched"} ELSE {}
SkipCached(s) ==
    /\ Uploading(s, "locked") /\ ~sess[s].nocache
    /\ sess[s].up \in lru[sess[s].impl]
    /\ Accept(s)
    /\ exposed' = [exposed EXCEPT ![s] = @ \cup CachedExposure(s)]
    /\ UNCHANGED <<time, events, object, badObject, localVars, reader, verifier, gc, condemned, orphan>>

(* insert_chunk_cached: there is a file or a marker, which is touched. *)
(* Mutated form: the marker is looked at and not touched. *)
SkipTouchedNot(s) ==
    /\ Uploading(s, "locked") /\ ~sess[s].nocache
    /\ sess[s].up \notin lru[sess[s].impl]
    /\ file[sess[s].up] # "none"
    /\ Accept(s)
    /\ UNCHANGED <<time, events, object, badObject, localVars, reader, verifier, gc, historyVars>>
SkipTouched(s) ==
    LET c == sess[s].up IN
    /\ Uploading(s, "locked") /\ ~sess[s].nocache
    /\ c \notin lru[sess[s].impl]
    /\ file[c] # "none"
    /\ atime' = [atime EXCEPT ![c] = time]
    /\ Accept(s)
    /\ exposed' = [exposed EXCEPT ![s] = @ \cup IF c \in object THEN {} ELSE {"orphan"}]
    /\ UNCHANGED <<time, events, object, badObject, file, bad, expected, lru, impl, reader, verifier, gc,
                   condemned, orphan>>

(* upload_no_replace: an object that exists is kept, a corrupt one too. *)
Put(c) == object' = object \cup {c}

PutObject(s) ==
    LET c == sess[s].up IN
    /\ Uploading(s, "locked") /\ ~sess[s].nocache
    /\ c \notin lru[sess[s].impl] /\ file[c] = "none"
    /\ Put(c)
    /\ sess' = [sess EXCEPT ![s].step = IF c \in object THEN "duplicate" ELSE "put"]
    /\ UNCHANGED <<time, events, badObject, localVars, lock, reader, verifier, gc, historyVars>>

(* insert_chunk_no_cache: no marker tells a collection about the object. *)
PutNoCache(s) ==
    /\ Uploading(s, "locked") /\ sess[s].nocache
    /\ Put(sess[s].up)
    /\ Accept(s)
    /\ exposed' = [exposed EXCEPT ![s] = @ \cup {"nocache"}]
    /\ UNCHANGED <<time, events, badObject, localVars, reader, verifier, gc, condemned, orphan>>

InsertUploaded(s) ==
    /\ sess[s].step \in {"put", "duplicate"}
    /\ CacheInsert(sess[s].impl, sess[s].up)
    /\ sess' = [sess EXCEPT ![s].step = "cached"]
    /\ condemned' = IF sess[s].step = "put" THEN condemned \ {sess[s].up} ELSE condemned
    /\ UNCHANGED <<time, events, object, badObject, bad, expected, impl, lock, reader, verifier, gc, exposed>>

ClearExpected(s) ==
    /\ Uploading(s, "cached")
    /\ expected' = expected \ {sess[s].up}
    /\ Accept(s)
    /\ UNCHANGED <<time, events, object, badObject, file, atime, bad, lru, impl, reader, verifier, gc,
                   historyVars>>

(* A request to the object store or a write to the cache fails. *)
UploadFails(s) ==
    /\ sess[s].stage = "open" /\ sess[s].step # "idle"
    /\ lock' = [lock EXCEPT ![sess[s].up] = None]
    /\ sess' = [sess EXCEPT ![s] = [@ EXCEPT !.up = None, !.step = "idle"]]
    /\ UNCHANGED <<time, events, object, badObject, localVars, reader, verifier, gc, historyVars>>

(* The index with all accepted chunks, and the manifest.  An index without *)
(* chunks is left out.                                                     *)
FinishBackup(s) ==
    /\ Uploading(s, "idle") /\ sess[s].got # {}
    /\ sess' = [sess EXCEPT ![s] = [NewSession EXCEPT !.stage = "done", !.got = sess[s].got]]
    /\ UNCHANGED <<time, events, object, badObject, localVars, lock, reader, verifier, gc, historyVars>>

AbortBackup(s) ==
    /\ Uploading(s, "idle")
    /\ sess' = [sess EXCEPT ![s] = Gone]
    /\ UNCHANGED <<time, events, object, badObject, localVars, lock, reader, verifier, gc, historyVars>>

(* destroy takes the exclusive lock of the snapshot. *)
Prune(s) ==
    /\ sess[s].stage = "done"
    /\ \A r \in Reader : reader[r].snap # s
    /\ sess' = [sess EXCEPT ![s] = Gone]
    /\ UNCHANGED <<time, events, object, badObject, localVars, lock, reader, verifier, gc, historyVars>>

-----------------------------------------------------------------------------
(* Readers: LocalDatastoreLruCache::access *)

(* Reader sessions, verifications and sync hold the shared lock of the     *)
(* snapshot; the catalog and file downloads of the API hold none.          *)
OpenChunk(r, s, c, locked) ==
    /\ reader[r].step = "idle"
    /\ sess[s].stage = "done" /\ c \in sess[s].got
    /\ ~locked => "unlocked" \in Environment
    /\ reader' = [reader EXCEPT ![r] =
            [step |-> IF file[c] = "full" THEN "local" ELSE "fetch", chunk |-> c, impl |-> impl,
             snap |-> IF locked THEN s ELSE None]]
    /\ UNCHANGED <<time, events, object, badObject, localVars, lock, sess, verifier, gc, historyVars>>

(* The file had contents: only the list is updated. *)
UseLocal(r) ==
    /\ reader[r].step = "local"
    /\ LruInsert(reader[r].impl, reader[r].chunk)
    /\ orphan' = IF Dangling(reader[r].chunk) \/ file[reader[r].chunk] = "none"
                 THEN orphan \cup {reader[r].chunk} ELSE orphan
    /\ reader' = [reader EXCEPT ![r] = IdleAccess]
    /\ UNCHANGED <<time, events, object, badObject, file, atime, bad, expected, impl, lock, sess, verifier,
                   gc, condemned, exposed>>

FetchObject(r) ==
    /\ reader[r].step = "fetch"
    /\ reader' = [reader EXCEPT ![r] =
            IF reader[r].chunk \in object THEN [@ EXCEPT !.step = "fetched"] ELSE IdleAccess]
    /\ UNCHANGED <<time, events, object, badObject, localVars, lock, sess, verifier, gc, historyVars>>

InsertFetched(r) ==
    /\ reader[r].step = "fetched"
    /\ CacheInsert(reader[r].impl, reader[r].chunk)
    /\ reader' = [reader EXCEPT ![r] = IdleAccess]
    /\ UNCHANGED <<time, events, object, badObject, bad, expected, impl, lock, sess, verifier, gc,
                   condemned, exposed>>

-----------------------------------------------------------------------------
(* rename_corrupt_chunk *)

RenameLocal(c) ==
    /\ Event
    /\ "corrupt" \in Environment
    /\ verifier.step = "idle" /\ c \notin condemned
    /\ \E s \in Snapshot : sess[s].stage = "done" /\ c \in sess[s].got
    /\ lock[c] = None
    /\ lock' = [lock EXCEPT ![c] = Verifier]
    /\ bad' = [bad EXCEPT ![c] = IF file[c] = "none" THEN @ ELSE atime[c]]
    /\ CacheRemove(impl, c)
    /\ verifier' = [step |-> "renamed", chunk |-> c]
    /\ condemned' = condemned \cup {c}
    /\ UNCHANGED <<time, object, badObject, expected, impl, sess, reader, gc, exposed>>

CopyToBad ==
    /\ verifier.step = "renamed" /\ verifier.chunk \in object
    /\ badObject' = badObject \cup {verifier.chunk}
    /\ verifier' = [verifier EXCEPT !.step = "copied"]
    /\ UNCHANGED <<time, events, object, localVars, lock, sess, reader, gc, historyVars>>

DeleteCorrupt ==
    /\ verifier.step = "copied"
    /\ object' = object \ {verifier.chunk}
    /\ lock' = [lock EXCEPT ![verifier.chunk] = None]
    /\ verifier' = IdleVerifier
    /\ UNCHANGED <<time, events, badObject, localVars, sess, reader, gc, historyVars>>

RenameFails ==
    /\ verifier.step # "idle"
    /\ lock' = [lock EXCEPT ![verifier.chunk] = None]
    /\ verifier' = IdleVerifier
    /\ UNCHANGED <<time, events, object, badObject, localVars, sess, reader, gc, historyVars>>

-----------------------------------------------------------------------------
(* Garbage collection, phase 1 *)

Starts == {sess[s].start : s \in {t \in Snapshot : sess[t].stage = "open"}}
OldestWriter ==
    IF Starts = {} THEN time ELSE CHOOSE t \in Starts : \A u \in Starts : t <= u
MinAtime ==
    LET min == time - Cutoff IN
    IF OldestWriter < min THEN OldestWriter - SafetyGap ELSE min

GcStart ==
    /\ gc.phase = "idle"
    /\ gc' = [IdleCollection EXCEPT !.phase = "list", !.min = MinAtime,
                                        !.impl = impl]
    /\ UNCHANGED <<time, events, object, badObject, localVars, lock, sess, reader, verifier, historyVars>>

GcListSnapshots ==
    /\ gc.phase = "list"
    /\ gc' = [gc EXCEPT !.phase = "mark", !.visit = {s \in Snapshot : sess[s].stage = "done"}]
    /\ UNCHANGED <<time, events, object, badObject, localVars, lock, sess, reader, verifier, historyVars>>

(* The index of a listed snapshot is opened, if it is still there. *)
GcVisit(s) ==
    /\ gc.phase = "mark" /\ gc.todo = {} /\ gc.miss = None
    /\ s \in gc.visit
    /\ gc' = [gc EXCEPT !.visit = @ \ {s},
                        !.todo = IF sess[s].stage = "done" THEN sess[s].got \ gc.marked ELSE {}]
    /\ UNCHANGED <<time, events, object, badObject, localVars, lock, sess, reader, verifier, historyVars>>

(* index_mark_used_chunks: cond_touch_chunk *)
GcTouch(c) ==
    /\ gc.phase = "mark" /\ c \in gc.todo /\ gc.miss = None
    /\ file[c] # "none"
    /\ atime' = [atime EXCEPT ![c] = time]
    /\ gc' = [gc EXCEPT !.todo = @ \ {c}, !.marked = @ \cup {c}]
    /\ UNCHANGED <<time, events, object, badObject, file, bad, expected, lru, impl, lock, sess, reader,
                   verifier, historyVars>>

(* ... no file: cond_touch_bad_chunks, then wait for the chunk lock ... *)
GcMiss(c) ==
    /\ gc.phase = "mark" /\ c \in gc.todo /\ gc.miss = None
    /\ file[c] = "none"
    /\ bad' = [bad EXCEPT ![c] = IF @ = Absent THEN @ ELSE time]
    /\ gc' = [gc EXCEPT !.todo = @ \ {c}, !.marked = @ \cup {c},
                        !.miss = c, !.isBad = bad[c] # Absent]
    /\ UNCHANGED <<time, events, object, badObject, file, atime, expected, lru, impl, lock, sess, reader,
                   verifier, historyVars>>

(* ... and look again; a chunk without any file is marked as expected. *)
(* Mutated form: nothing is left for phase 2 to know the chunk by. *)
GcExpectNothing ==
    /\ gc.miss # None /\ lock[gc.miss] = None
    /\ atime' = [atime EXCEPT ![gc.miss] = IF file[gc.miss] = "none" THEN @ ELSE time]
    /\ gc' = [gc EXCEPT !.miss = None, !.isBad = FALSE]
    /\ UNCHANGED <<time, events, object, badObject, file, bad, expected, lru, impl, lock, sess, reader,
                   verifier, historyVars>>
GcExpect ==
    LET c == gc.miss
        found == file[c] # "none" IN
    /\ c # None /\ lock[c] = None
    /\ atime' = [atime EXCEPT ![c] = IF found THEN time ELSE @]
    /\ expected' = IF found \/ gc.isBad THEN expected ELSE expected \cup {c}
    /\ gc' = [gc EXCEPT !.miss = None, !.isBad = FALSE]
    /\ UNCHANGED <<time, events, object, badObject, file, bad, lru, impl, lock, sess, reader,
                   verifier, historyVars>>

-----------------------------------------------------------------------------
(* Phase 2: objects *)

GcStartSweep ==
    /\ gc.phase = "mark" /\ gc.visit = {} /\ gc.todo = {} /\ gc.miss = None
    /\ gc' = [gc EXCEPT !.phase = "sweep", !.keys = Key]
    /\ UNCHANGED <<time, events, object, badObject, localVars, lock, sess, reader, verifier, historyVars>>

(* Keys are listed page by page, each as the bucket is at that time, the   *)
(* .bad key of a chunk after its own.                                      *)
InOrder(k, keys) == k \in keys /\ (k[2] = "bad" => <<k[1], "good">> \notin keys)
GcListKey(k) ==
    /\ gc.phase = "sweep" /\ InOrder(k, gc.keys)
    /\ gc' = [gc EXCEPT !.keys = @ \ {k},
                        !.listed = IF k[1] \in IF k[2] = "bad" THEN badObject ELSE object
                                   THEN @ \cup {k} ELSE @]
    /\ UNCHANGED <<time, events, object, badObject, localVars, lock, sess, reader, verifier, historyVars>>

Present(k) == IF k[2] = "bad" THEN bad[k[1]] # Absent ELSE file[k[1]] # "none"
AccessTime(k) == IF k[2] = "bad" THEN bad[k[1]] ELSE atime[k[1]]

(* A chunk in the hands of an upload or a rename is passed over. *)
GcSkipLocked(k) ==
    /\ InOrder(k, gc.listed) /\ lock[k[1]] # None
    /\ gc' = [gc EXCEPT !.listed = @ \ {k}]
    /\ UNCHANGED <<time, events, object, badObject, localVars, lock, sess, reader, verifier, historyVars>>

(* The local file is old: it goes at once, the object with the next batch. *)
(* Mutated form: the lock is not kept until the object is deleted. *)
GcSweepOldUnlocked(k) ==
    /\ InOrder(k, gc.listed) /\ lock[k[1]] = None
    /\ Present(k) /\ AccessTime(k) < gc.min
    /\ IF k[2] = "bad" THEN bad' = [bad EXCEPT ![k[1]] = Absent] /\ UNCHANGED <<file, atime, lru, orphan>>
                       ELSE CacheRemove(gc.impl, k[1]) /\ UNCHANGED bad
    /\ gc' = [gc EXCEPT !.listed = @ \ {k}, !.dlist = @ \cup {k}]
    /\ UNCHANGED <<time, events, object, badObject, expected, impl, lock, sess, reader, verifier,
                   condemned, exposed>>
GcSweepOld(k) ==
    /\ InOrder(k, gc.listed) /\ lock[k[1]] = None
    /\ Present(k) /\ AccessTime(k) < gc.min
    /\ IF k[2] = "bad" THEN bad' = [bad EXCEPT ![k[1]] = Absent] /\ UNCHANGED <<file, atime, lru, orphan>>
                       ELSE CacheRemove(gc.impl, k[1]) /\ UNCHANGED bad
    /\ lock' = [lock EXCEPT ![k[1]] = Gc]
    /\ gc' = [gc EXCEPT !.listed = @ \ {k}, !.dlist = @ \cup {k}]
    /\ UNCHANGED <<time, events, object, badObject, expected, impl, sess, reader, verifier,
                   condemned, exposed>>

GcKeep(k) ==
    /\ InOrder(k, gc.listed) /\ lock[k[1]] = None
    /\ Present(k) /\ AccessTime(k) >= gc.min
    /\ gc' = [gc EXCEPT !.listed = @ \ {k}]
    /\ UNCHANGED <<time, events, object, badObject, localVars, lock, sess, reader, verifier, historyVars>>

(* No file, but phase 1 expects the chunk: it gets a marker.  The .using   *)
(* file of a chunk also answers for its .bad object.                       *)
GcKeepExpected(k) ==
    LET c == k[1] IN
    /\ InOrder(k, gc.listed) /\ lock[c] = None
    /\ ~Present(k) /\ c \in expected
    /\ expected' = expected \ {c}
    /\ file' = [file EXCEPT ![c] = "marker"]
    /\ atime' = [atime EXCEPT ![c] = time]
    /\ orphan' = orphan \cup ({c} \ object)
    /\ gc' = [gc EXCEPT !.listed = @ \ {k}]
    /\ UNCHANGED <<time, events, object, badObject, bad, lru, impl, lock, sess, reader, verifier,
                   condemned, exposed>>

GcSweepUnknown(k) ==
    /\ InOrder(k, gc.listed) /\ lock[k[1]] = None
    /\ ~Present(k) /\ k[1] \notin expected
    /\ lock' = [lock EXCEPT ![k[1]] = Gc]
    /\ gc' = [gc EXCEPT !.listed = @ \ {k}, !.dlist = @ \cup {k}]
    /\ UNCHANGED <<time, events, object, badObject, localVars, sess, reader, verifier, historyVars>>

Delete(D) ==
    /\ object' = {c \in object : <<c, "good">> \notin D}
    /\ badObject' = {c \in badObject : <<c, "bad">> \notin D}

(* S3DeleteList::delete_and_drop_locks: when the batch is large or old     *)
(* enough, and at the end.                                                 *)
GcDelete ==
    /\ gc.dlist # {}
    /\ Delete(gc.dlist)
    /\ lock' = Release({Gc})
    /\ gc' = [gc EXCEPT !.dlist = {}]
    /\ UNCHANGED <<time, events, localVars, sess, reader, verifier, historyVars>>

GcDeleteFails(D) ==
    /\ gc.dlist # {}
    /\ Delete(D)
    /\ lock' = Release({Gc})
    /\ gc' = IdleCollection
    /\ UNCHANGED <<time, events, localVars, sess, reader, verifier, historyVars>>

-----------------------------------------------------------------------------
(* Phase 3: local files *)

GcStartLocal ==
    /\ gc.phase = "sweep" /\ gc.keys = {} /\ gc.listed = {} /\ gc.dlist = {}
    /\ gc' = [gc EXCEPT !.phase = "local", !.left = Chunk]
    /\ UNCHANGED <<time, events, object, badObject, localVars, lock, sess, reader, verifier, historyVars>>

(* sweep_unused_chunks: .using files go, old files go, but never the file  *)
(* of a chunk whose lock is taken.  The three files of a chunk are one     *)
(* step here.                                                              *)
SweepOther(c) ==
    /\ gc' = [gc EXCEPT !.left = @ \ {c}]
    /\ expected' = expected \ {c}
    /\ bad' = [bad EXCEPT ![c] = IF @ < gc.min THEN Absent ELSE @]
    /\ UNCHANGED <<time, events, object, badObject, impl, lock, sess, reader, verifier, condemned, exposed>>
GcLocal(c) ==
    /\ gc.phase = "local" /\ c \in gc.left
    /\ IF file[c] # "none" /\ atime[c] < gc.min /\ lock[c] = None
       THEN CacheRemove(gc.impl, c) ELSE UNCHANGED <<file, atime, lru, orphan>>
    /\ SweepOther(c)

GcFinish ==
    /\ gc.phase = "local" /\ gc.left = {}
    /\ gc' = IdleCollection
    /\ UNCHANGED <<time, events, object, badObject, localVars, lock, sess, reader, verifier, historyVars>>

(* Abort by the user, shutdown, any error: pending deletes are dropped. *)
GcAbort ==
    /\ gc.phase # "idle"
    /\ lock' = Release({Gc})
    /\ gc' = IdleCollection
    /\ UNCHANGED <<time, events, object, badObject, localVars, sess, reader, verifier, historyVars>>

-----------------------------------------------------------------------------
(* Environment *)

Tick ==
    /\ time < MaxTime
    /\ time' = time + 1
    /\ UNCHANGED <<events, object, badObject, localVars, lock, sess, reader, verifier, gc, historyVars>>

InUse(i) ==
    \/ \E s \in Snapshot : sess[s].stage = "open" /\ sess[s].impl = i
    \/ \E r \in Reader : reader[r].step # "idle" /\ reader[r].impl = i
    \/ gc.phase # "idle" /\ gc.impl = i

(* lookup_datastore after a change of the configuration: a new instance    *)
(* with an empty list, while users of the old one go on.                   *)
Reconfigure(i) ==
    /\ Event
    /\ i # impl /\ ~InUse(i)
    /\ impl' = i
    /\ lru' = [lru EXCEPT ![i] = {}]
    /\ UNCHANGED <<time, object, badObject, file, atime, bad, expected, lock, sess, reader,
                   verifier, gc, historyVars>>

(* The daemon dies and starts again. *)
Crash ==
    /\ Event
    /\ sess' = [s \in Snapshot |-> IF sess[s].stage = "open" THEN Gone ELSE sess[s]]
    /\ lock' = [c \in Chunk |-> None]
    /\ lru' = [i \in Impl |-> {}]
    /\ reader' = [r \in Reader |-> IdleAccess]
    /\ verifier' = IdleVerifier
    /\ gc' = IdleCollection
    /\ UNCHANGED <<time, object, badObject, file, atime, bad, expected, impl, historyVars>>

(* The datastore is created again on an empty local disk over the bucket. *)
RecreateCache ==
    /\ Event
    /\ "recreate" \in Environment
    /\ \A s \in Snapshot : sess[s].stage # "open"
    /\ \A r \in Reader : reader[r].step = "idle"
    /\ verifier.step = "idle" /\ gc.phase = "idle"
    /\ file' = [c \in Chunk |-> "none"]
    /\ atime' = [c \in Chunk |-> 0]
    /\ bad' = [c \in Chunk |-> Absent]
    /\ expected' = {}
    /\ lru' = [i \in Impl |-> {}]
    /\ UNCHANGED <<time, object, badObject, impl, lock, sess, reader, verifier, gc, historyVars>>

SessionNext(s) ==
    \/ \E nocache \in BOOLEAN : StartBackup(s, nocache)
    \/ \E c \in Chunk : LockChunk(s, c)
    \/ SkipCached(s) \/ SkipTouched(s) \/ PutObject(s) \/ PutNoCache(s)
    \/ InsertUploaded(s) \/ ClearExpected(s) \/ UploadFails(s)
    \/ FinishBackup(s) \/ AbortBackup(s) \/ Prune(s)

ReaderNext(r) ==
    \/ \E s \in Snapshot, c \in Chunk, locked \in BOOLEAN : OpenChunk(r, s, c, locked)
    \/ UseLocal(r) \/ FetchObject(r) \/ InsertFetched(r)

VerifierNext ==
    (\E c \in Chunk : RenameLocal(c)) \/ CopyToBad \/ DeleteCorrupt \/ RenameFails

GcNext ==
    \/ GcStart \/ GcListSnapshots \/ (\E s \in Snapshot : GcVisit(s))
    \/ (\E c \in Chunk : GcTouch(c) \/ GcMiss(c)) \/ GcExpect \/ GcStartSweep
    \/ (\E k \in Key : GcListKey(k) \/ GcSkipLocked(k) \/ GcSweepOld(k) \/ GcKeep(k)
                       \/ GcKeepExpected(k) \/ GcSweepUnknown(k))
    \/ GcDelete \/ (\E D \in SUBSET gc.dlist : GcDeleteFails(D)) \/ GcStartLocal
    \/ (\E c \in Chunk : GcLocal(c)) \/ GcFinish \/ GcAbort

Next ==
    \/ \E s \in Snapshot : SessionNext(s)
    \/ \E r \in Reader : ReaderNext(r)
    \/ VerifierNext \/ GcNext
    \/ Tick \/ (\E i \in Impl : Reconfigure(i) \/ \E c \in Chunk : Evict(i, c)) \/ Crash \/ RecreateCache

Spec == Init /\ [][Next]_vars

-----------------------------------------------------------------------------
(* Properties *)

TypeOK ==
    /\ time \in Times /\ events \in 0 .. MaxEvents
    /\ object \subseteq Chunk /\ badObject \subseteq Chunk /\ expected \subseteq Chunk
    /\ file \in [Chunk -> {"none", "marker", "full"}]
    /\ atime \in [Chunk -> Times]
    /\ bad \in [Chunk -> Times \cup {Absent}]
    /\ lru \in [Impl -> SUBSET Chunk] /\ impl \in Impl
    /\ lock \in [Chunk -> Snapshot \cup {None, Gc, Verifier}]
    /\ sess \in [Snapshot -> Session]
    /\ reader \in [Reader -> Access]
    /\ verifier \in [step : {"idle", "renamed", "copied"}, chunk : Chunk \cup {None}]
    /\ gc \in Collection
    /\ condemned \subseteq Chunk /\ orphan \subseteq Chunk
    /\ exposed \in [Snapshot -> SUBSET {"untouched", "orphan", "nocache"}]

(* A chunk a running or finished backup was told is stored stays in the    *)
(* bucket (insert_chunk_cached, phases 1 and 2 of the collection), unless  *)
(* it was found corrupt or the session was exposed: answered from the LRU  *)
(* list without a touch, from an orphaned marker, or run with no-cache.    *)
AcceptedKept ==
    \A s \in Snapshot :
        sess[s].stage \in {"open", "done"} /\ exposed[s] = {}
        => sess[s].got \subseteq object \cup condemned

(* "marker file exists ... so contained in the S3 object store"            *)
(* (insert_chunk_cached): every path that removes an object removes the    *)
(* file first and every path that writes a file has stored the object,     *)
(* but for chunks put back by a reader or by a .bad key.                   *)
MarkersTrue == \A c \in Chunk : file[c] # "none" => c \in object \cup orphan

(* An entry of the current LRU list has a file: the list, the marker files *)
(* and the objects are changed by five paths under three different locks.  *)
ListedHasFile == \A c \in lru[impl] : file[c] # "none" \/ c \in orphan

(* What the local cache says of the bucket is true. *)
CacheTrue == TypeOK /\ MarkersTrue /\ ListedHasFile

(* Promise of a datastore, see Datastore. *)
Protected == {s \in Snapshot : sess[s].stage = "done" /\ exposed[s] = {}}
Abstract ==
    INSTANCE Datastore WITH contents <- [s \in Protected |-> sess[s].got],
                            stored <- object \cup condemned
ImplementsDatastore == Abstract!Spec

=============================================================================
