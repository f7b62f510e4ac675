----------------------------- MODULE GroupMove -----------------------------
(***************************************************************************)
(* Moving a backup group to another namespace while backups, prunes and a  *)
(* garbage collection go on.                                               *)
(*                                                                         *)
(* A collection marks the snapshots it finds, namespace by namespace; a    *)
(* snapshot that is moved from a namespace it has not visited yet into one *)
(* it has visited would be missed, and its chunks swept.  Every move       *)
(* therefore records the new path in a journal before the rename, and the  *)
(* collection marks what the journal lists before it sweeps.               *)
(*                                                                         *)
(* There is one group name, so that a group is known by its namespace, and *)
(* a snapshot has one index file.  What marking does to the chunks is the  *)
(* subject of DatastoreGC.                                                 *)
(***************************************************************************)
EXTENDS Integers, Sequences, FiniteSets, TLC

CONSTANTS
    Ns,             \* namespaces
    Time,           \* backup times
    Snap,           \* what a snapshot contains
    Mover,          \* tasks that move groups
    BatchSize,      \* MAX_SNAPSHOT_LOCKS
    MaxRetries,     \* listings of a group without its lock
    MaxJournal,     \* bound on the length of the journal
    MaxOps,         \* bound on the moves, backups and prunes
    S3,             \* the backend is an object store
    None

ASSUME TimeAssumption == Time \subseteq Nat /\ None \notin Time
ASSUME NoneAssumption == None \notin Snap \cup Ns
ASSUME BoundAssumption ==
    /\ BatchSize \in Nat \ {0}
    /\ MaxRetries \in Nat
    /\ MaxJournal \in Nat /\ MaxOps \in Nat
    /\ S3 \in BOOLEAN

VARIABLES
    dir,         \* the snapshot directories
    object,      \* the objects of each snapshot path
    group,       \* the group directories that exist
    mv,          \* the moves
    backup,      \* the time of the backup that runs in each group
    cleanup,     \* groups from which a prune has removed a snapshot
    journal,     \* the move journal
    gc,          \* the collection
    ops,         \* the moves, backups and prunes so far
    alive,       \* finished snapshots that nobody has removed
    truncated,   \* movers whose entry was dropped before their rename
    exposed      \* snapshots renamed without an entry during the collection

diskVars == <<dir, object, group>>
ghostVars == <<ops, alive, truncated, exposed>>
vars == <<diskVars, mv, backup, cleanup, journal, gc, ghostVars>>

Path == Ns \X Time

NoMove == [pc |-> "idle", src |-> None, dst |-> None, todo |-> {}, batch |-> {}]
NoGc == [pc |-> "idle", todo |-> {}, fresh |-> {}, cur |-> None, list |-> {}, newest |-> {},
         retries |-> 0, left |-> {}, pos |-> 0, old |-> {}, marked |-> {}]

Times(n) == {t \in Time : dir[<<n, t>>] # None}

(* The snapshots whose backup is finished have their index file. *)
Indexed(p) == dir[p] # None /\ backup[p[1]] # p[2]

Init ==
    /\ dir \in [Path -> Snap \cup {None}]
    /\ \A p, q \in Path : dir[p] = dir[q] => p = q \/ dir[p] = None
    /\ object = IF S3 THEN dir ELSE [p \in Path |-> None]
    /\ group = {n \in Ns : Times(n) # {}}
    /\ mv = [m \in Mover |-> NoMove]
    /\ backup = [n \in Ns |-> None]
    /\ cleanup = {}
    /\ journal = <<>>
    /\ gc = NoGc
    /\ ops = 0
    /\ alive = {dir[p] : p \in Path} \ {None}
    /\ truncated = {}
    /\ exposed = {}

-----------------------------------------------------------------------------
(* Locks *)

HoldsSource(m, n) == mv[m].pc # "idle" /\ mv[m].src = n
HoldsTarget(m, n) == mv[m].pc \notin {"idle", "source"} /\ mv[m].dst = n

(* The last listing of a group is made, and used, with the group locked. *)
GcHolds(n) == gc.pc = "group" /\ gc.cur = n /\ gc.retries = MaxRetries

(* Mutated form: a running backup does not count. *)
GroupLockedByMover(n) == \E m \in Mover : HoldsSource(m, n) \/ HoldsTarget(m, n)

GroupLocked(n) ==
    \/ backup[n] # None
    \/ GcHolds(n)
    \/ \E m \in Mover : HoldsSource(m, n) \/ HoldsTarget(m, n)

(* Mutated form: the locks of a batch do not count. *)
SnapshotLockedByBackup(p) == backup[p[1]] = p[2]

SnapshotLocked(p) ==
    \/ backup[p[1]] = p[2]
    \/ \E m \in Mover : mv[m].src = p[1] /\ p[2] \in mv[m].batch

(* The journal is locked while it is drained. *)
JournalLocked == gc.pc = "drain"

Moving(m) == mv[m].pc \in {"move", "logged", "copied", "renamed"}
Pending(m) == mv[m].pc \in {"logged", "copied"}

(* A group that appears while a collection iterates. *)
Created(n) ==
    IF n \in group \/ n \notin gc.todo THEN gc ELSE [gc EXCEPT !.fresh = @ \cup {n}]

(* One more move, backup or prune. *)
Op == ops < MaxOps /\ ops' = ops + 1

-----------------------------------------------------------------------------
(* Moving a group: lock_and_move_group *)

LockSource(m, n, k) ==
    /\ mv[m].pc = "idle"
    /\ n # k
    /\ ~GroupLocked(n)
    /\ Op
    /\ mv' = [mv EXCEPT ![m] = [NoMove EXCEPT !.pc = "source", !.src = n, !.dst = k]]
    /\ UNCHANGED <<diskVars, backup, cleanup, journal, gc, alive, truncated, exposed>>

(* The checks are repeated once the source is locked; all namespaces exist. *)
CheckMoveGroup(n, k) == n # k /\ n \in group

(* All of the target is older than all of the source; the owners agree. *)
MergeInvariants(n, k) == \A t \in Times(n), u \in Times(k) : u < t

(* The target is created or, if it is there already, merged with.  There   *)
(* is nothing to compare in a new group.                                   *)
LockTarget(m) ==
    LET n == mv[m].src
        k == mv[m].dst
    IN
    /\ mv[m].pc = "source"
    /\ CheckMoveGroup(n, k)
    /\ ~GroupLocked(k)
    /\ MergeInvariants(n, k)
    /\ group' = group \cup {k}
    /\ gc' = Created(k)
    /\ mv' = [mv EXCEPT ![m] = [@ EXCEPT !.pc = "move", !.todo = Times(n)]]
    /\ UNCHANGED <<dir, object, backup, cleanup, journal, ghostVars>>

(* The oldest of the snapshots that are left are locked together. *)
LockBatch(m, batch) ==
    /\ mv[m].pc = "move"
    /\ mv[m].batch = {} /\ batch # {}
    /\ batch \subseteq mv[m].todo
    /\ Cardinality(batch) <= BatchSize
    /\ batch = mv[m].todo \/ Cardinality(batch) = BatchSize
    /\ \A t \in batch, u \in mv[m].todo \ batch : t < u
    /\ mv' = [mv EXCEPT ![m].batch = batch]
    /\ UNCHANGED <<diskVars, backup, cleanup, journal, gc, ghostVars>>

(* The next snapshot to be moved. *)
IsNext(m, t) == t \in mv[m].batch /\ \A u \in mv[m].batch : t <= u

OldPath(m, t) == <<mv[m].src, t>>
NewPath(m, t) == <<mv[m].dst, t>>

(* Mutated form: the path before the rename is recorded. *)
LogMoveOldPath(m, t) ==
    /\ mv[m].pc = "move"
    /\ IsNext(m, t)
    /\ dir[OldPath(m, t)] # None
    /\ ~JournalLocked
    /\ Len(journal) < MaxJournal
    /\ journal' = Append(journal, OldPath(m, t))
    /\ mv' = [mv EXCEPT ![m].pc = "logged"]
    /\ UNCHANGED <<diskVars, backup, cleanup, gc, ghostVars>>

(* The new path of the index is recorded before the rename. *)
LogMove(m, t) ==
    /\ mv[m].pc = "move"
    /\ IsNext(m, t)
    /\ dir[OldPath(m, t)] # None
    /\ ~JournalLocked
    /\ Len(journal) < MaxJournal
    /\ journal' = Append(journal, NewPath(m, t))
    /\ mv' = [mv EXCEPT ![m].pc = "logged"]
    /\ UNCHANGED <<diskVars, backup, cleanup, gc, ghostVars>>

CopyObjects(m, t) ==
    /\ S3
    /\ mv[m].pc = "logged"
    /\ IsNext(m, t)
    /\ object' = [object EXCEPT ![NewPath(m, t)] = object[OldPath(m, t)]]
    /\ mv' = [mv EXCEPT ![m].pc = "copied"]
    /\ UNCHANGED <<dir, group, backup, cleanup, journal, gc, ghostVars>>

(* The mover goes on with the next snapshot of its batch. *)
StepDone(m, t) ==
    [mv[m] EXCEPT !.pc = "move", !.todo = mv[m].todo \ {t}, !.batch = mv[m].batch \ {t}]

(* A rename onto a directory that is not empty fails. *)
Rename(m, t) ==
    LET from == OldPath(m, t)
        to == NewPath(m, t)
    IN
    /\ mv[m].pc = IF S3 THEN "copied" ELSE "logged"
    /\ IsNext(m, t)
    /\ dir[to] = None
    /\ dir' = [p \in DOMAIN dir |-> IF p = from THEN None ELSE IF p = to THEN dir[from] ELSE dir[p]]
    /\ mv' = IF S3 THEN [mv EXCEPT ![m].pc = "renamed"]
             ELSE [mv EXCEPT ![m] = StepDone(m, t)]
    /\ truncated' = truncated \ {m}
    /\ exposed' = IF m \in truncated /\ gc.pc \notin {"idle", "sweep"}
                    THEN exposed \cup {dir[from]} ELSE exposed
    /\ UNCHANGED <<object, group, backup, cleanup, journal, gc, ops, alive>>

(* An object that cannot be deleted is left where it is. *)
DeleteObjects(m, t) ==
    /\ mv[m].pc = "renamed"
    /\ IsNext(m, t)
    /\ \/ object' = [object EXCEPT ![OldPath(m, t)] = None]
       \/ UNCHANGED object
    /\ mv' = [mv EXCEPT ![m] = StepDone(m, t)]
    /\ UNCHANGED <<dir, group, backup, cleanup, journal, gc, ghostVars>>

(* BackupGroup::destroy of the source: whatever it still holds is removed. *)
DestroySource(m) ==
    LET Of(p) == p[1] = mv[m].src IN
    /\ mv[m].pc = "move"
    /\ mv[m].todo = {}
    /\ dir' = [p \in Path |-> IF Of(p) THEN None ELSE dir[p]]
    /\ object' = [p \in Path |-> IF Of(p) THEN None ELSE object[p]]
    /\ group' = group \ {mv[m].src}
    /\ mv' = [mv EXCEPT ![m] = NoMove]
    /\ UNCHANGED <<backup, cleanup, journal, gc, ghostVars>>

(* Any step can fail, and the task can be killed; the locks are released. *)
MoveFails(m) ==
    /\ mv[m].pc # "idle"
    /\ mv' = [mv EXCEPT ![m] = NoMove]
    /\ truncated' = truncated \ {m}
    /\ UNCHANGED <<diskVars, backup, cleanup, journal, gc, ops, alive, exposed>>

-----------------------------------------------------------------------------
(* Backups and prunes *)

(* The time has to be above that of the last finished snapshot, unless its *)
(* verification has failed, which is not modelled here: so it may be any   *)
(* that is not taken.                                                      *)
StartBackup(n, t, s) ==
    /\ ~GroupLocked(n)
    /\ dir[<<n, t>>] = None
    /\ \A p \in Path : dir[p] # s
    /\ dir' = [dir EXCEPT ![<<n, t>>] = s]
    /\ group' = group \cup {n}
    /\ gc' = Created(n)
    /\ backup' = [backup EXCEPT ![n] = t]
    /\ Op
    /\ UNCHANGED <<object, mv, cleanup, journal, alive, truncated, exposed>>

FinishBackup(n) ==
    LET p == <<n, backup[n]>> IN
    /\ backup[n] # None
    /\ object' = IF S3 THEN [object EXCEPT ![p] = dir[p]] ELSE object
    /\ alive' = alive \cup {dir[p]}
    /\ backup' = [backup EXCEPT ![n] = None]
    /\ UNCHANGED <<dir, group, mv, cleanup, journal, gc, ops, truncated, exposed>>

AbortBackup(n) ==
    LET p == <<n, backup[n]>> IN
    /\ backup[n] # None
    /\ dir' = [dir EXCEPT ![p] = None]
    /\ object' = [object EXCEPT ![p] = None]
    /\ group' = IF Times(n) = {backup[n]} THEN group \ {n} ELSE group
    /\ backup' = [backup EXCEPT ![n] = None]
    /\ UNCHANGED <<mv, cleanup, journal, gc, ghostVars>>

(* The daemon is killed: the unfinished snapshot stays. *)
CrashBackup(n) ==
    /\ backup[n] # None
    /\ backup' = [backup EXCEPT ![n] = None]
    /\ UNCHANGED <<diskVars, mv, cleanup, journal, gc, ghostVars>>

(* A removed snapshot is nobody's concern any more. *)
Forget(s) ==
    /\ alive' = alive \ {s}
    /\ gc' = [gc EXCEPT !.old = @ \ {s}, !.marked = @ \ {s}]
    /\ exposed' = exposed \ {s}

(* BackupDir::destroy, not forced *)
Prune(p) ==
    /\ dir[p] # None
    /\ ~SnapshotLocked(p)
    /\ dir' = [dir EXCEPT ![p] = None]
    /\ object' = [object EXCEPT ![p] = None]
    /\ Op
    /\ Forget(dir[p])
    /\ cleanup' = cleanup \cup {p[1]}
    /\ UNCHANGED <<group, mv, backup, journal, truncated>>

(* The objects are gone, the directory could not be removed. *)
PruneFails(p) ==
    /\ S3
    /\ dir[p] # None
    /\ ~SnapshotLocked(p)
    /\ object' = [object EXCEPT ![p] = None]
    /\ Op
    /\ Forget(dir[p])
    /\ UNCHANGED <<dir, group, mv, backup, cleanup, journal, truncated>>

(* The empty group is removed if it can be locked. *)
PruneGroup(n) ==
    /\ n \in cleanup
    /\ cleanup' = cleanup \ {n}
    /\ group' = IF ~GroupLocked(n) /\ Times(n) = {} THEN group \ {n} ELSE group
    /\ UNCHANGED <<dir, object, mv, backup, journal, gc, ghostVars>>

-----------------------------------------------------------------------------
(* The collection: mark_used_chunks *)

GcOnly == UNCHANGED <<diskVars, mv, backup, cleanup, journal, ops, alive, truncated>>

(* list_index_files finds every index file that is there. *)
GcStart ==
    LET index == {p \in Path : Indexed(p)} IN
    /\ gc.pc = "idle"
    /\ gc' = [NoGc EXCEPT !.pc = "iterate", !.todo = Ns, !.left = index,
                           !.old = {dir[p] : p \in index}]
    /\ exposed' = {}
    /\ GcOnly

(* A group that was created since the start can be missed by the readdir. *)
GcNextGroup(n) ==
    /\ gc.pc = "iterate"
    /\ n \in gc.todo
    /\ \/ /\ n \in group
          /\ gc' = [gc EXCEPT !.pc = "list", !.cur = n, !.todo = @ \ {n}]
       \/ /\ n \in group => n \in gc.fresh
          /\ gc' = [gc EXCEPT !.todo = @ \ {n}]
    /\ GcOnly /\ UNCHANGED exposed

GcIterate == [gc EXCEPT !.pc = "iterate", !.cur = None, !.newest = {}, !.retries = 0]

(* The last listing needs the lock of the group; without it the collection *)
(* fails.                                                                  *)
GcListGroup ==
    LET n == gc.cur IN
    /\ gc.pc = "list"
    /\ gc.retries = MaxRetries => ~GroupLocked(n)
    /\ gc' = IF n \in group
               THEN [gc EXCEPT !.pc = "group", !.list = {t \in Time : Indexed(<<n, t>>)},
                               !.newest = {t \in Times(n) : \A u \in Times(n) : u <= t}]
               ELSE GcIterate
    /\ GcOnly /\ UNCHANGED exposed

IsNewest(t) == t \in gc.list /\ \A u \in gc.list : u <= t

GcMark(t) ==
    LET p == <<gc.cur, t>> IN
    /\ gc.pc = "group"
    /\ IsNewest(t)
    /\ Indexed(p)
    /\ gc' = [gc EXCEPT !.marked = @ \cup {dir[p]}, !.left = @ \ {p}, !.list = @ \ {t}]
    /\ GcOnly /\ UNCHANGED exposed

(* The newest snapshot of the listing has vanished: the group is listed    *)
(* again.  With the lock held there is no further retry.                   *)
GcVanished(t) ==
    LET p == <<gc.cur, t>> IN
    /\ gc.pc = "group"
    /\ IsNewest(t)
    /\ ~Indexed(p)
    /\ t \in gc.newest => gc.retries < MaxRetries
    /\ gc' = IF t \in gc.newest
               THEN [gc EXCEPT !.pc = "list", !.left = @ \ {p}, !.list = {}, !.newest = {},
                               !.retries = @ + 1]
               ELSE [gc EXCEPT !.left = @ \ {p}, !.list = @ \ {t}]
    /\ GcOnly /\ UNCHANGED exposed

GcGroupDone ==
    /\ gc.pc = "group"
    /\ gc.list = {}
    /\ gc' = GcIterate
    /\ GcOnly /\ UNCHANGED exposed

GcIterated ==
    /\ gc.pc = "iterate"
    /\ gc.todo = {}
    /\ gc' = [gc EXCEPT !.pc = "strange", !.fresh = {}]
    /\ GcOnly /\ UNCHANGED exposed

(* What was listed at first and not found by the iteration. *)
GcMarkStrange(p) ==
    /\ gc.pc = "strange"
    /\ p \in gc.left
    /\ gc' = [gc EXCEPT !.left = @ \ {p}, !.marked = IF Indexed(p) THEN @ \cup {dir[p]} ELSE @]
    /\ GcOnly /\ UNCHANGED exposed

(* drain_move_journal *)
GcLockJournal ==
    /\ gc.pc = "strange"
    /\ gc.left = {}
    /\ gc' = [gc EXCEPT !.pc = "drain"]
    /\ GcOnly /\ UNCHANGED exposed

GcDrain ==
    LET p == journal[gc.pos + 1] IN
    /\ gc.pc = "drain"
    /\ gc.pos < Len(journal)
    /\ gc' = [gc EXCEPT !.pos = @ + 1, !.marked = IF Indexed(p) THEN @ \cup {dir[p]} ELSE @]
    /\ GcOnly /\ UNCHANGED exposed

GcTruncate ==
    /\ gc.pc = "drain"
    /\ gc.pos = Len(journal)
    /\ journal' = <<>>
    /\ gc' = [gc EXCEPT !.pc = "sweep", !.pos = 0]
    /\ truncated' = {m \in Mover : Pending(m)}
    /\ UNCHANGED <<diskVars, mv, backup, cleanup, ops, alive, exposed>>

(* The sweep ends, or the collection fails at any point; the journal stays *)
(* as it is.                                                               *)
GcEnd ==
    /\ gc.pc # "idle"
    /\ gc' = NoGc
    /\ exposed' = {}
    /\ GcOnly

-----------------------------------------------------------------------------
MoveStep(m) ==
    \/ \E n, k \in Ns : LockSource(m, n, k)
    \/ LockTarget(m)
    \/ \E batch \in SUBSET Time : LockBatch(m, batch)
    \/ \E t \in Time :
          LogMove(m, t) \/ CopyObjects(m, t) \/ Rename(m, t) \/ DeleteObjects(m, t)
    \/ DestroySource(m)
    \/ MoveFails(m)

BackupStep ==
    \/ \E n \in Ns, t \in Time, s \in Snap : StartBackup(n, t, s)
    \/ \E n \in Ns : FinishBackup(n) \/ AbortBackup(n) \/ CrashBackup(n) \/ PruneGroup(n)
    \/ \E p \in Path : Prune(p) \/ PruneFails(p)

GcStep ==
    \/ GcStart
    \/ \E n \in Ns : GcNextGroup(n)
    \/ GcListGroup
    \/ \E t \in Time : GcMark(t) \/ GcVanished(t)
    \/ GcGroupDone
    \/ GcIterated
    \/ \E p \in Path : GcMarkStrange(p)
    \/ GcLockJournal
    \/ GcDrain
    \/ GcTruncate
    \/ GcEnd

Next ==
    \/ \E m \in Mover : MoveStep(m)
    \/ BackupStep
    \/ GcStep

Spec == Init /\ [][Next]_vars

-----------------------------------------------------------------------------
(* Properties *)

Move ==
    [pc : {"idle", "source", "move", "logged", "copied", "renamed"},
     src : Ns \cup {None}, dst : Ns \cup {None}, todo : SUBSET Time, batch : SUBSET Time]

Collection ==
    [pc : {"idle", "iterate", "list", "group", "strange", "drain", "sweep"},
     todo : SUBSET Ns, fresh : SUBSET Ns, cur : Ns \cup {None},
     list : SUBSET Time, newest : SUBSET Time, retries : 0 .. MaxRetries,
     left : SUBSET Path, pos : Nat, old : SUBSET Snap, marked : SUBSET Snap]

DiskType ==
    /\ dir \in [Path -> Snap \cup {None}]
    /\ object \in [Path -> Snap \cup {None}]
    /\ group \subseteq Ns

MoveOK(r) ==
    /\ r.batch \subseteq r.todo
    /\ r.pc \in {"idle", "source"} => r.batch = {}
    /\ r.pc # "idle" => r.src \in Ns /\ r.dst \in Ns \ {r.src}

MoveType == mv \in [Mover -> Move] /\ \A m \in Mover : MoveOK(mv[m])

GcType == gc \in Collection /\ (gc.pc \in {"list", "group"} => gc.cur \in Ns)

OtherType ==
    /\ backup \in [Ns -> Time \cup {None}]
    /\ cleanup \subseteq Ns
    /\ journal \in Seq(Path) /\ Len(journal) <= MaxJournal
    /\ ops \in 0 .. MaxOps
    /\ alive \subseteq Snap
    /\ truncated \subseteq Mover
    /\ exposed \subseteq Snap

(* The type invariant; in particular, the locked batch is part of what is  *)
(* left to move and the retries of a group are bounded.                    *)
TypeOK == DiskType /\ MoveType /\ GcType /\ OtherType

(* No snapshot is missed: when a collection sweeps, it has marked every    *)
(* snapshot that was there when it started and still is, whatever moves,   *)
(* backups and prunes went on.  It makes an exception for snapshots that   *)
(* were renamed after an earlier collection had dropped the journal entry  *)
(* (mark_used_chunks, drain_move_journal, BackupDir::move_to).             *)
OldMarked ==
    gc.pc = "sweep" => gc.old \subseteq gc.marked \cup exposed

(* Only a prune removes a finished snapshot: no move, whether it ends,     *)
(* fails or meets a backup, a prune or another move, overwrites a          *)
(* snapshot, duplicates it or takes it along when it destroys the source   *)
(* group (lock_and_move_group, BackupGroup::destroy).                      *)
NoneLost ==
    \A s \in alive : \E p \in Path : dir[p] = s /\ \A q \in Path : dir[q] = s => q = p

(* The object store has the objects of every finished snapshot under the   *)
(* path at which the snapshot is found, also between the steps of a move   *)
(* and after one that failed (BackupDir::move_to).                         *)
Backed == S3 => \A p \in Path : dir[p] \in alive => object[p] = dir[p]

(* A move that stops leaves a split in time: all moved snapshots are older *)
(* than all remaining ones, so that merging can be tried again             *)
(* (lock_and_move_group, check_merge_invariants).                          *)
MovedOlder ==
    \A m \in Mover : Moving(m) => MergeInvariants(mv[m].src, mv[m].dst)

-----------------------------------------------------------------------------
(* The inductive invariant *)

Holds(m, n) == HoldsSource(m, n) \/ HoldsTarget(m, n)

(* A group has one user at a time. *)
LockInv ==
    /\ \A m \in Mover, n \in Ns : Holds(m, n) => backup[n] = None
    /\ \A m, k \in Mover, n \in Ns : Holds(m, n) /\ Holds(k, n) => m = k

(* A snapshot is in one place; the finished ones are somewhere, and none   *)
(* of them is in the making.                                               *)
ContentInv ==
    /\ \A p, q \in Path : dir[p] = dir[q] => p = q \/ dir[p] = None
    /\ \A s \in alive : \E p \in Path : dir[p] = s
    /\ \A n \in Ns : backup[n] # None => dir[<<n, backup[n]>>] \notin alive \cup {None}

(* What a move has still to do is all that is in the source, the next      *)
(* batch is the oldest part of it, and its next snapshot is where the      *)
(* stage of the move says.                                                 *)
MoverOK(m) ==
    /\ Moving(m) => Times(mv[m].src) \subseteq mv[m].todo
    /\ \A t \in mv[m].batch, u \in mv[m].todo \ mv[m].batch : t < u
    /\ \A t \in Time : IsNext(m, t) =>
          /\ Pending(m) => dir[OldPath(m, t)] # None
          /\ mv[m].pc = "copied" => object[NewPath(m, t)] = object[OldPath(m, t)]
          /\ mv[m].pc = "renamed" => dir[OldPath(m, t)] = None

Iterating == gc.pc \in {"iterate", "list", "group", "strange"}

(* The journal has p after its entry number k. *)
Ahead(p, k) == \E j \in 1 .. Len(journal) : j > k /\ journal[j] = p

(* The snapshot is recorded, and about to be renamed. *)
AtRename(m, t) == Pending(m) /\ IsNext(m, t)

(* The entry of a move that has not renamed yet, unless it was dropped. *)
EntryInv ==
    \A m \in Mover \ truncated, t \in Time : AtRename(m, t) => Ahead(NewPath(m, t), 0)

(* The collection will still come to p: it is in the first listing, or in  *)
(* the part of the journal that is not drained, and there before the path  *)
(* to which it is about to be moved.                                       *)
WillBeMarked(p) ==
    \/ p \in gc.left
    \/ \E k \in 1 .. Len(journal) :
          /\ k > gc.pos
          /\ journal[k] = p
          /\ \A m \in Mover \ truncated, t \in Time :
                AtRename(m, t) /\ OldPath(m, t) = p => Ahead(NewPath(m, t), k)

MarkInv ==
    /\ \A s \in gc.old : \E p \in Path : dir[p] = s /\ Indexed(p)
    /\ Iterating => gc.pos = 0
    /\ gc.pc = "drain" => gc.left = {}
    /\ Iterating \/ gc.pc = "drain" =>
          \A p \in Path : dir[p] \in gc.old \ (gc.marked \cup exposed) => WillBeMarked(p)

(* At every step of every move, backup and prune the locks exclude each    *)
(* other as lock_and_move_group, create_locked_backup_group_do and         *)
(* BackupDir::destroy rely on, and each snapshot is in one place, with its *)
(* objects, in the order of the times; and the collection has marked what  *)
(* it must, or will, through its first listing or the journal.             *)
MoveInv ==
    /\ TypeOK
    /\ LockInv
    /\ ContentInv
    /\ \A m \in Mover : MoverOK(m)
    /\ MovedOlder
    /\ Backed
    /\ EntryInv
    /\ MarkInv
    /\ OldMarked

-----------------------------------------------------------------------------
(* For model checking: namespaces, snapshots and movers are interchangeable. *)
Symmetry == Permutations(Ns) \cup Permutations(Snap) \cup Permutations(Mover)
=============================================================================
