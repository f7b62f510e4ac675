------------------------------ MODULE Namespaces ------------------------------
(***************************************************************************)
(* Namespaces, their groups and snapshots under the calls that create,     *)
(* move and delete them: there is no lock on a namespace, groups and       *)
(* snapshots have locks that are tried once and never waited for.          *)
(*                                                                         *)
(* A namespace is the sequence of its names, and each has at most one      *)
(* group.  How a group moves in detail, and what a collection makes of it, *)
(* is the subject of GroupMove; here the move of a group is one step that  *)
(* may fail with the older snapshots moved.                                *)
(***************************************************************************)
EXTENDS Prune

CONSTANTS
    NsSet,       \* namespaces, the root among them
    MaxNsDepth,  \* MAX_NAMESPACE_DEPTH
    NsTime,      \* backup times
    NsOwner,     \* who may own a group
    NsTask,      \* calls that go on at the same time
    MaxNsOps,    \* bound on the calls
    NsGroups,    \* the groups at the beginning: times of their snapshots
    NsUsed,      \* namespaces that calls name
    NsMoves      \* source, target and depth of moves

NsPath == NsSet \X NsTime
NoOwner == "nobody"
Free == "free"

Parent(n) == SubSeq(n, 1, Len(n) - 1)
Below(n, m) == Len(n) <= Len(m) /\ SubSeq(m, 1, Len(n)) = n
MapPrefix(n, src, dst) == dst \o SubSeq(n, Len(src) + 1, Len(n))

(* Namespaces come with those above them, and moves with their targets. *)
ASSUME NsAssumption ==
    /\ << >> \in NsSet /\ NsSet \subseteq Seq(STRING) /\ IsFiniteSet(NsSet) /\ IsFiniteSet(NsTask)
    /\ NsTime \subseteq Nat /\ MaxNsDepth \in Nat /\ MaxNsOps \in Nat
    /\ NsOwner # {} /\ NsOwner \cap {NoOwner, "none"} = {} /\ Free \notin NsTask /\ NsUsed \subseteq NsSet
    /\ \A g \in NsGroups : g \in [NsSet -> SUBSET NsTime]
    /\ \A n \in NsSet : \A i \in 0 .. Len(n) : SubSeq(n, 1, i) \in NsSet
    /\ \A m \in NsMoves :
         /\ m[1] \in NsSet /\ m[2] \in NsSet /\ m[3] \in Nat
         /\ \A n \in NsSet : LET k == MapPrefix(n, m[1], m[2]) IN Below(m[1], n) => k \in NsSet \/ Len(k) > MaxNsDepth

VARIABLES
    nsDir,      \* directories of namespaces
    marker,     \* their markers on the object store
    grp,        \* group directories: owner, and which group this is
    snap,       \* snapshot directories
    groupLock,  \* holder of each group's lock
    snapLock,   \* holder of each snapshot's lock
    task,       \* the calls
    nsOps,      \* calls so far
    born, gone  \* history: snapshots created, snapshots removed

nsDisk == <<nsDir, marker, grp, snap>>
nsVars == <<nsDisk, groupLock, snapLock, task, nsOps, born, gone>>

(* A snapshot is known by its place and the count of calls when it was created. *)
NoGroup == [owner |-> "none", gid |-> 0]
NoSnap == [id |-> << >>, fin |-> FALSE, prot |-> FALSE]
NoTask == [op |-> "idle", pc |-> "idle", ns |-> << >>, to |-> << >>, time |-> 0, who |-> NoOwner, seen |-> NoOwner, made |-> FALSE,
           flag |-> FALSE, all |-> TRUE, left |-> {}, todo |-> {}, tried |-> {}, deferred |-> {},
           failed |-> {}, unlisted |-> FALSE, stays |-> {}]

NsInit ==
    /\ nsDir = NsSet /\ marker = NsSet
    /\ \E g \in NsGroups :
        /\ grp = [n \in NsSet |-> IF g[n] = {} THEN NoGroup ELSE [owner |-> CHOOSE o \in NsOwner : TRUE, gid |-> 1]]
        /\ snap = [p \in NsPath |-> IF p[2] \in g[p[1]] THEN [id |-> <<p, 0>>, fin |-> TRUE, prot |-> FALSE] ELSE NoSnap]
        /\ born = {<<p, 0>> : p \in {q \in NsPath : q[2] \in g[q[1]]}}
    /\ groupLock = [n \in NsSet |-> Free]
    /\ snapLock = [p \in NsPath |-> Free]
    /\ task = [p \in NsTask |-> NoTask]
    /\ nsOps = 1 /\ gone = {}

-----------------------------------------------------------------------------
(* Reading the tree *)

Times(n) == {t \in NsTime : snap[<<n, t>>] # NoSnap}
Finished(n) == {t \in Times(n) : snap[<<n, t>>].fin}
GroupExists(n) == grp[n] # NoGroup
(* Tells a group from those that were there before it. *)
UsedGids == {grp[n].gid : n \in NsSet} \cup UNION {{s[2] : s \in task[p].stays} : p \in NsTask}
NewGid == CHOOSE i \in 0 .. Cardinality(UsedGids) : i \notin UsedGids
HasOwner(n) == grp[n].owner \in NsOwner

(* ListNamespacesRecursive *)
ListNamespaces(n, depth) == {m \in nsDir : Below(n, m) /\ Len(m) <= Len(n) + depth}

(* Parents come before their children, or after them. *)
ParentsFirst(S) == {n \in S : \A m \in S : Below(m, n) => m = n}
ChildrenFirst(S) == {n \in S : \A m \in S : Below(n, m) => m = n}

Children(n) == {m \in nsDir : Below(n, m) /\ Len(m) = Len(n) + 1}

(* list_backups *)
ListBackups(n) == [t \in Times(n) |-> [fin |-> snap[<<n, t>>].fin, prot |-> snap[<<n, t>>].prot]]

-----------------------------------------------------------------------------
(* Steps of calls *)

Begin(p, rec) ==
    /\ task[p] = NoTask /\ nsOps < MaxNsOps
    /\ task' = [task EXCEPT ![p] = rec]
    /\ nsOps' = nsOps + 1

Go(p, rec) == task' = [task EXCEPT ![p] = rec]

Unlocked(lock, p) == [x \in DOMAIN lock |-> IF lock[x] = p THEN Free ELSE lock[x]]

(* The call returns; guards are dropped. *)
Return(p) ==
    /\ Go(p, NoTask)
    /\ groupLock' = Unlocked(groupLock, p)
    /\ snapLock' = Unlocked(snapLock, p)

(* An error that no handler expects; the daemon is stopped. *)
NsFail(p) ==
    /\ task[p].op \notin {"idle", "backup"} /\ task[p].pc # "moved"
    /\ Return(p)
    /\ UNCHANGED <<nsDisk, nsOps, born, gone>>

NsCrash ==
    /\ nsOps < MaxNsOps /\ \E p \in NsTask : task[p] # NoTask
    /\ nsOps' = nsOps + 1
    /\ task' = [p \in NsTask |-> NoTask]
    /\ groupLock' = [n \in NsSet |-> Free] /\ snapLock' = [p \in NsPath |-> Free]
    /\ UNCHANGED <<nsDisk, born, gone>>

-----------------------------------------------------------------------------
(* create_namespace: the parent exists, the depth is checked; the marker    *)
(* comes before the directory.                                              *)

MayCreate(n) == n # << >> /\ Parent(n) \in nsDir /\ Len(n) <= MaxNsDepth

CreateNamespace(n) ==
    /\ MayCreate(n) /\ nsOps < MaxNsOps
    /\ marker' = marker \cup {n} /\ nsDir' = nsDir \cup {n}
    /\ nsOps' = nsOps + 1
    /\ UNCHANGED <<grp, snap, groupLock, snapLock, task, born, gone>>

-----------------------------------------------------------------------------
(* A backup: create_locked_backup_group, create_locked_backup_dir *)

StartBackup(p, n, t, who) ==
    /\ n \in nsDir
    /\ Begin(p, [NoTask EXCEPT !.op = "backup", !.pc = "checked", !.ns = n, !.time = t, !.who = who])
    /\ UNCHANGED <<nsDisk, groupLock, snapLock, born, gone>>

(* create_dir_all brings the namespace back if it is gone. *)
MakeGroup(p) ==
    LET n == task[p].ns IN
    /\ task[p].op = "backup" /\ task[p].pc = "checked"
    /\ nsDir' = nsDir \cup {SubSeq(n, 1, i) : i \in 0 .. Len(n)}
    /\ grp' = IF GroupExists(n) THEN grp ELSE [grp EXCEPT ![n] = [owner |-> NoOwner, gid |-> NewGid]]
    /\ Go(p, [task[p] EXCEPT !.pc = "made", !.made = ~GroupExists(n)])
    /\ UNCHANGED <<marker, snap, groupLock, snapLock, nsOps, born, gone>>

(* remove_dir, for a directory with nothing in it *)
Rmdir(n) == IF grp[n].owner = NoOwner /\ Times(n) = {} THEN [grp EXCEPT ![n] = NoGroup] ELSE grp

GroupLockFails(p) ==
    LET n == task[p].ns IN
    /\ task[p].op = "backup" /\ task[p].pc = "made"
    /\ \/ groupLock[n] # Free
       \/ GroupExists(n) /\ task[p].made /\ HasOwner(n)
       \/ ~GroupExists(n)
       \/ ~task[p].made /\ grp[n].owner # task[p].who
    /\ grp' = IF task[p].made THEN Rmdir(n) ELSE grp
    /\ Return(p)
    /\ UNCHANGED <<nsDir, marker, snap, nsOps, born, gone>>

(* A new group gets its owner, an old one must have this one. *)
LockGroup(p) ==
    LET n == task[p].ns IN
    /\ task[p].op = "backup" /\ task[p].pc = "made"
    /\ groupLock[n] = Free /\ GroupExists(n)
    /\ IF task[p].made THEN grp[n].owner = NoOwner ELSE grp[n].owner = task[p].who
    /\ grp' = [grp EXCEPT ![n].owner = task[p].who]
    /\ groupLock' = [groupLock EXCEPT ![n] = p]
    /\ Go(p, [task[p] EXCEPT !.pc = "group"])
    /\ UNCHANGED <<nsDir, marker, snap, snapLock, nsOps, born, gone>>

(* The snapshot is newer than the last one, which is locked. *)
MakeSnapshot(p) ==
    LET n == task[p].ns
        t == task[p].time
        LastBackup == {u \in Finished(n) : \A v \in Finished(n) : v <= u}
    IN
    /\ task[p].op = "backup" /\ task[p].pc = "group"
    /\ \A u \in LastBackup : u < t /\ snapLock[<<n, u>>] = Free
    /\ snap[<<n, t>>] = NoSnap
    /\ snap' = [snap EXCEPT ![<<n, t>>] = [id |-> <<<<n, t>>, nsOps>>, fin |-> FALSE, prot |-> FALSE]]
    /\ snapLock' = [x \in NsPath |-> IF x[1] = n /\ x[2] \in LastBackup THEN p ELSE snapLock[x]]
    /\ born' = born \cup {<<<<n, t>>, nsOps>>}
    /\ nsOps' = nsOps + 1
    /\ Go(p, [task[p] EXCEPT !.pc = "created"])
    /\ UNCHANGED <<nsDir, marker, grp, groupLock, gone>>

LockSnapshot(p) ==
    LET x == <<task[p].ns, task[p].time>> IN
    /\ task[p].op = "backup" /\ task[p].pc = "created" /\ snapLock[x] = Free
    /\ snapLock' = [snapLock EXCEPT ![x] = p]
    /\ Go(p, [task[p] EXCEPT !.pc = "running"])
    /\ UNCHANGED <<nsDisk, groupLock, nsOps, born, gone>>

(* Any of the steps before the backup runs may fail. *)
BackupRefused(p) ==
    /\ task[p].op = "backup" /\ task[p].pc \in {"group", "created"}
    /\ Return(p)
    /\ UNCHANGED <<nsDisk, nsOps, born, gone>>

FinishBackup(p) ==
    LET x == <<task[p].ns, task[p].time>> IN
    /\ task[p].op = "backup" /\ task[p].pc = "running" /\ snap[x] # NoSnap
    /\ snap' = [snap EXCEPT ![x].fin = TRUE]
    /\ Return(p)
    /\ UNCHANGED <<nsDir, marker, grp, nsOps, born, gone>>

(* remove_backup_dir with force, under the locks of the backup *)
AbortBackup(p) ==
    LET x == <<task[p].ns, task[p].time>>
        ok == snap[x] # NoSnap /\ ~snap[x].prot
    IN
    /\ task[p].op = "backup" /\ task[p].pc = "running"
    /\ snap' = IF ok THEN [snap EXCEPT ![x] = NoSnap] ELSE snap
    /\ gone' = IF ok THEN gone \cup {snap[x].id} ELSE gone
    /\ grp' = IF ok /\ Times(x[1]) = {x[2]} THEN [grp EXCEPT ![x[1]] = NoGroup] ELSE grp
    /\ Return(p)
    /\ UNCHANGED <<nsDir, marker, nsOps, born>>

-----------------------------------------------------------------------------
(* Deleting snapshots: delete_snapshot, prune, prune_datastore *)

DeleteSnapshot(p, n, t) ==
    /\ t \in Times(n)
    /\ Begin(p, [NoTask EXCEPT !.op = "prune", !.pc = "destroy", !.ns = n, !.left = {t}])
    /\ UNCHANGED <<nsDisk, groupLock, snapLock, born, gone>>

(* One group of prune_datastore: the list is made without a lock. *)
PruneGroup(p, n, last) ==
    LET victims == PruneVictims(ListBackups(n), PruneNow, <<last>>, <<1>>) IN
    /\ GroupExists(n) /\ victims # {}
    /\ Begin(p, [NoTask EXCEPT !.op = "prune", !.pc = "destroy", !.ns = n, !.left = victims])
    /\ UNCHANGED <<nsDisk, groupLock, snapLock, born, gone>>

(* BackupDir::destroy: whether it is protected is asked under the lock. *)
(* Mutated form: not asked again. *)
MayDestroyUnasked(x) == snapLock[x] = Free /\ snap[x] # NoSnap
MayDestroy(x) == snapLock[x] = Free /\ snap[x] # NoSnap /\ ~snap[x].prot

(* The oldest first. *)
DestroySnapshot(p, t) ==
    LET x == <<task[p].ns, t>> IN
    /\ task[p].op = "prune" /\ task[p].pc = "destroy" /\ (\A u \in task[p].left : t <= u) /\ MayDestroy(x)
    /\ snap' = [snap EXCEPT ![x] = NoSnap]
    /\ gone' = gone \cup {snap[x].id}
    /\ Go(p, [task[p] EXCEPT !.pc = "cleanup", !.left = @ \ {t}])
    /\ UNCHANGED <<nsDir, marker, grp, groupLock, snapLock, nsOps, born>>

NextVictim(p, left) ==
    IF left = {} THEN Return(p)
    ELSE Go(p, [task[p] EXCEPT !.pc = "destroy", !.left = left]) /\ UNCHANGED <<groupLock, snapLock>>

(* "failed to remove dir": the prune goes on *)
DestroyFails(p, t) ==
    /\ task[p].op = "prune" /\ task[p].pc = "destroy" /\ (\A u \in task[p].left : t <= u) /\ ~MayDestroy(<<task[p].ns, t>>)
    /\ NextVictim(p, task[p].left \ {t})
    /\ UNCHANGED <<nsDisk, nsOps, born, gone>>

(* The group goes with its last snapshot, unless somebody has it locked. *)
CleanupGroup(p) ==
    LET n == task[p].ns IN
    /\ task[p].op = "prune" /\ task[p].pc = "cleanup"
    /\ grp' = IF groupLock[n] = Free /\ Times(n) = {} THEN [grp EXCEPT ![n] = NoGroup] ELSE grp
    /\ NextVictim(p, task[p].left)
    /\ UNCHANGED <<nsDir, marker, snap, nsOps, born, gone>>

-----------------------------------------------------------------------------
(* Deleting groups and namespaces *)

GroupToDelete(n, rec) == [rec EXCEPT !.pc = "snapshots", !.ns = n, !.left = Times(n), !.made = TRUE]

DeleteGroup(p, n) ==
    /\ GroupExists(n) /\ groupLock[n] = Free
    /\ Begin(p, GroupToDelete(n, [NoTask EXCEPT !.op = "delete_group"]))
    /\ groupLock' = [groupLock EXCEPT ![n] = p]
    /\ UNCHANGED <<nsDisk, snapLock, born, gone>>

(* BackupGroup::destroy: a protected snapshot is passed over, one that     *)
(* cannot be locked ends the call.                                         *)
DeleteNext(p, t) ==
    LET x == <<task[p].ns, t>> IN
    /\ task[p].pc = "snapshots"
    /\ IF snap[x].prot
       THEN /\ Go(p, [task[p] EXCEPT !.left = @ \ {t}, !.made = FALSE])
            /\ UNCHANGED <<snap, gone, groupLock, snapLock>>
       ELSE IF MayDestroy(x)
       THEN /\ snap' = [snap EXCEPT ![x] = NoSnap]
            /\ gone' = gone \cup {snap[x].id}
            /\ Go(p, [task[p] EXCEPT !.left = @ \ {t}])
            /\ UNCHANGED <<groupLock, snapLock>>
       ELSE Return(p) /\ UNCHANGED <<snap, gone>>
    /\ UNCHANGED <<nsDir, marker, grp, nsOps, born>>

(* The group's directory goes when all was removed (made). *)
DeleteGroupDir(p) ==
    LET n == task[p].ns IN
    /\ task[p].pc = "snapshots" /\ task[p].left = {}
    /\ grp' = IF task[p].made THEN [grp EXCEPT ![n] = NoGroup] ELSE grp
    /\ IF task[p].op = "delete_group" THEN Return(p)
       ELSE /\ Go(p, [task[p] EXCEPT !.pc = "rmdir"])
            /\ groupLock' = [groupLock EXCEPT ![n] = Free]
            /\ UNCHANGED snapLock
    /\ UNCHANGED <<nsDir, marker, snap, nsOps, born, gone>>

(* delete_namespace, remove_namespace_recursive: the deepest first *)
DeleteNamespace(p, n, groups) ==
    /\ n # << >> /\ n \in nsDir
    /\ Begin(p, [NoTask EXCEPT !.op = "delete_namespace", !.pc = IF groups THEN "groups" ELSE "rmdir",
                               !.todo = ListNamespaces(n, MaxNsDepth), !.flag = groups])
    /\ UNCHANGED <<nsDisk, groupLock, snapLock, born, gone>>

(* remove_namespace_groups *)
DeleteNamespaceGroups(p, n) ==
    /\ task[p].op = "delete_namespace" /\ task[p].pc = "groups" /\ n \in ChildrenFirst(task[p].todo)
    /\ IF n \notin nsDir \/ (groupLock[n] # Free /\ GroupExists(n)) THEN Return(p)
       ELSE IF GroupExists(n)
       THEN /\ Go(p, GroupToDelete(n, task[p]))
            /\ groupLock' = [groupLock EXCEPT ![n] = p] /\ UNCHANGED snapLock
       ELSE Go(p, [task[p] EXCEPT !.pc = "rmdir", !.ns = n]) /\ UNCHANGED <<groupLock, snapLock>>
    /\ UNCHANGED <<nsDisk, nsOps, born, gone>>

(* remove_namespace: the directory goes if it is empty, the marker anyway. *)
EmptyNs(n) == ~GroupExists(n) /\ Children(n) = {}
RemovedNs(n) == IF n \in nsDir /\ EmptyNs(n) THEN nsDir \ {n} ELSE nsDir

RemoveNamespace(p, n) ==
    LET left == task[p].todo \ {n} IN
    /\ task[p].op = "delete_namespace" /\ task[p].pc = "rmdir"
    /\ n \in ChildrenFirst(task[p].todo) /\ (task[p].flag => n = task[p].ns)
    /\ nsDir' = RemovedNs(n) /\ marker' = marker \ {n}
    /\ IF left = {} THEN Return(p)
       ELSE /\ Go(p, [task[p] EXCEPT !.todo = left, !.pc = IF task[p].flag THEN "groups" ELSE "rmdir"])
            /\ UNCHANGED <<groupLock, snapLock>>
    /\ UNCHANGED <<grp, snap, nsOps, born, gone>>

-----------------------------------------------------------------------------
(* Moving a namespace *)

(* check_move_namespace *)
CheckMoveNamespace(s, d) ==
    /\ s # << >> /\ s # d /\ s \in nsDir
    /\ d # << >> => Parent(d) \in nsDir
    /\ ~Below(s, d)

(* check_namespace_depth_limit *)
CheckDepthLimit(s, d, list) == \A n \in list : Len(MapPrefix(n, s, d)) <= MaxNsDepth

(* The call and the worker, each with its check; depth is max_depth and    *)
(* flag is delete_source.                                                  *)
StartMove(p, s, d, depth, deleteSource) ==
    /\ CheckMoveNamespace(s, d)
    /\ Begin(p, [NoTask EXCEPT !.op = "move", !.pc = "worker", !.ns = s, !.to = d, !.time = depth, !.flag = deleteSource])
    /\ UNCHANGED <<nsDisk, groupLock, snapLock, born, gone>>

MoveList(p) ==
    LET s == task[p].ns
        list == ListNamespaces(s, task[p].time)
    IN
    /\ task[p].op = "move" /\ task[p].pc = "worker"
    /\ IF CheckMoveNamespace(s, task[p].to) /\ CheckDepthLimit(s, task[p].to, list)
       THEN /\ Go(p, [task[p] EXCEPT !.pc = "targets", !.todo = list, !.tried = list,
                          !.stays = {<<n, grp[n].gid>> : n \in {m \in list : GroupExists(m)}}])
            /\ UNCHANGED <<groupLock, snapLock>>
       ELSE Return(p)
    /\ UNCHANGED <<nsDisk, nsOps, born, gone>>

(* The targets, parents first: create_namespace *)
MoveCreate(p, n) ==
    LET k == MapPrefix(n, task[p].ns, task[p].to)
        rest == task[p].todo \ {n}
        there == k = << >> \/ k \in nsDir
    IN
    /\ task[p].op = "move" /\ task[p].pc = "targets" /\ n \in ParentsFirst(task[p].todo)
    /\ IF ~there /\ ~MayCreate(k) THEN Return(p) /\ UNCHANGED <<nsDir, marker>>
       ELSE /\ nsDir' = nsDir \cup {k}
            /\ marker' = IF there THEN marker ELSE marker \cup {k}
            /\ Go(p, IF rest = {} THEN [task[p] EXCEPT !.pc = "groups", !.todo = task[p].tried]
                     ELSE [task[p] EXCEPT !.todo = rest])
            /\ UNCHANGED <<groupLock, snapLock>>
    /\ UNCHANGED <<grp, snap, nsOps, born, gone>>

(* lock_and_move_group.  All locks are tried once; check_move_group is     *)
(* repeated under the lock of the source; merge_groups is set.             *)
SourceBusy(n) == groupLock[n] # Free
MoveChecked(n, k) == k \in nsDir /\ HasOwner(n)
TargetBusy(k) == groupLock[k] # Free
MergeOk(n, k) == ~GroupExists(k) \/ (grp[n].owner = grp[k].owner /\ \A t \in Times(n), u \in Times(k) : u < t)
SnapshotsBusy(n) == \E t \in Times(n) : snapLock[<<n, t>>] # Free

SoftError(n, k) ==
    \/ SourceBusy(n)
    \/ MoveChecked(n, k) /\ TargetBusy(k)
    \/ MoveChecked(n, k) /\ MergeOk(n, k) /\ SnapshotsBusy(n)
HardError(n, k) == ~SourceBusy(n) /\ (MoveChecked(n, k) => ~TargetBusy(k) /\ ~MergeOk(n, k))

(* The target's directory: a new one stays even if nothing is moved then. *)
TargetMade(n, k) ==
    IF MoveChecked(n, k) /\ ~SourceBusy(n) /\ ~TargetBusy(k) /\ ~GroupExists(k)
    THEN [grp EXCEPT ![k] = [owner |-> grp[n].owner, gid |-> NewGid]] ELSE grp

Renamed(n, k, T) ==
    [x \in NsPath |->
        IF x[1] = k /\ x[2] \in T THEN snap[<<n, x[2]>>]
        ELSE IF x[1] = n /\ x[2] \in T THEN NoSnap ELSE snap[x]]

MoveGroup(p, n, next) ==
    LET k == MapPrefix(n, task[p].ns, task[p].to) IN
    /\ ~SoftError(n, k) /\ ~HardError(n, k)
    /\ snap' = Renamed(n, k, Times(n))
    /\ grp' = [TargetMade(n, k) EXCEPT ![n] = NoGroup]
    /\ Go(p, next)

(* The oldest snapshots have been moved, then something fails. *)
MoveGroupHalf(p, n, next) ==
    LET k == MapPrefix(n, task[p].ns, task[p].to) IN
    /\ ~SoftError(n, k) /\ ~HardError(n, k)
    /\ \E t \in Times(n) : snap' = Renamed(n, k, {u \in Times(n) : u < t})
    /\ grp' = TargetMade(n, k)
    /\ Go(p, [next EXCEPT !.failed = @ \cup {n}, !.all = FALSE])

MoveGroupFails(p, n, next) ==
    /\ HardError(n, MapPrefix(n, task[p].ns, task[p].to))
    /\ grp' = grp /\ snap' = snap
    /\ Go(p, [next EXCEPT !.failed = @ \cup {n}, !.all = FALSE])

MoveGroupBusy(p, n, next) ==
    LET k == MapPrefix(n, task[p].ns, task[p].to) IN
    /\ SoftError(n, k)
    /\ grp' = TargetMade(n, k) /\ snap' = snap
    /\ Go(p, next)

(* The groups of one namespace after the other; those that are locked are  *)
(* deferred.                                                               *)
MoveGroups(p, n) ==
    LET rest == task[p].todo \ {n}
        next == [task[p] EXCEPT !.todo = rest, !.pc = IF rest = {} THEN "retry" ELSE @]
    IN
    /\ task[p].op = "move" /\ task[p].pc = "groups" /\ n \in ParentsFirst(task[p].todo)
    /\ \/ n \in nsDir /\ GroupExists(n)
          /\ \/ MoveGroup(p, n, next)
             \/ MoveGroupHalf(p, n, next)
             \/ MoveGroupFails(p, n, next)
             \/ MoveGroupBusy(p, n, [next EXCEPT !.deferred = @ \cup {n}])
       \/ n \in nsDir /\ ~GroupExists(n) /\ Go(p, next) /\ UNCHANGED <<grp, snap>>
       \* "failed to list groups": not among the failed groups in the end
       \/ n \notin nsDir /\ Go(p, [next EXCEPT !.failed = @ \cup {n}, !.unlisted = TRUE]) /\ UNCHANGED <<grp, snap>>
    /\ UNCHANGED <<nsDir, marker, groupLock, snapLock, nsOps, born, gone>>

(* Deferred groups are tried once more. *)
(* Mutated form: a group that is busy again is forgotten. *)
MoveRetryForgets(p, n) ==
    LET next == [task[p] EXCEPT !.deferred = @ \ {n}] IN
    /\ task[p].op = "move" /\ task[p].pc = "retry"
    /\ \/ MoveGroup(p, n, next)
       \/ MoveGroupHalf(p, n, next)
       \/ MoveGroupFails(p, n, next)
       \/ MoveGroupBusy(p, n, next)
    /\ UNCHANGED <<nsDir, marker, groupLock, snapLock, nsOps, born, gone>>
MoveRetry(p, n) ==
    LET next == [task[p] EXCEPT !.deferred = @ \ {n}] IN
    /\ task[p].op = "move" /\ task[p].pc = "retry"
    /\ \/ MoveGroup(p, n, next)
       \/ MoveGroupHalf(p, n, next)
       \/ MoveGroupFails(p, n, next)
       \/ MoveGroupBusy(p, n, [next EXCEPT !.failed = @ \cup {n}, !.all = FALSE])
    /\ UNCHANGED <<nsDir, marker, groupLock, snapLock, nsOps, born, gone>>

(* The sources, children first, unless a group failed there or below, or   *)
(* there is a child that was not listed.                                   *)
MoveCleanup(p, n) ==
    LET skip == ~task[p].flag \/ (\E f \in task[p].failed : Below(n, f))
                \/ ~(Children(n) \subseteq task[p].tried \cup task[p].todo)
    IN
    /\ task[p].op = "move" /\ task[p].pc = "retry" /\ task[p].deferred = {} /\ n \in ChildrenFirst(task[p].tried)
    /\ nsDir' = IF skip THEN nsDir ELSE RemovedNs(n)
    /\ marker' = IF skip THEN marker ELSE marker \ {n}
    /\ Go(p, [task[p] EXCEPT !.tried = @ \ {n}, !.todo = @ \cup {n}])
    /\ UNCHANGED <<grp, snap, groupLock, snapLock, nsOps, born, gone>>

MoveReport(p) ==
    /\ task[p].op = "move" /\ task[p].pc = "retry" /\ task[p].deferred = {} /\ task[p].tried = {}
    /\ IF task[p].all THEN Go(p, [task[p] EXCEPT !.pc = "moved"]) /\ UNCHANGED <<groupLock, snapLock>>
       ELSE Return(p)
    /\ UNCHANGED <<nsDisk, nsOps, born, gone>>

MoveDone(p) ==
    /\ task[p].pc = "moved"
    /\ Return(p)
    /\ UNCHANGED <<nsDisk, nsOps, born, gone>>

-----------------------------------------------------------------------------
(* update_protection, under the lock of the snapshot *)

SetProtection(n, t, on) ==
    LET x == <<n, t>> IN
    /\ nsOps < MaxNsOps /\ snap[x] # NoSnap /\ snap[x].prot # on /\ snapLock[x] = Free
    /\ snap' = [snap EXCEPT ![x].prot = on]
    /\ nsOps' = nsOps + 1
    /\ UNCHANGED <<nsDir, marker, grp, groupLock, snapLock, task, born, gone>>

(* set_backup_owner: the owner is read, and once more under the lock. *)
StartSetOwner(p, n, who) ==
    /\ HasOwner(n)
    /\ Begin(p, [NoTask EXCEPT !.op = "owner", !.pc = "read", !.ns = n, !.who = who, !.seen = grp[n].owner])
    /\ UNCHANGED <<nsDisk, groupLock, snapLock, born, gone>>

SetOwner(p) ==
    LET n == task[p].ns IN
    /\ task[p].op = "owner"
    /\ grp' = IF groupLock[n] = Free /\ grp[n].owner = task[p].seen
              THEN [grp EXCEPT ![n].owner = task[p].who] ELSE grp
    /\ Return(p)
    /\ UNCHANGED <<nsDir, marker, snap, nsOps, born, gone>>

-----------------------------------------------------------------------------

NsStart(p) ==
    \/ \E n \in NsUsed :
        \/ \E t \in NsTime, who \in NsOwner : StartBackup(p, n, t, who)
        \/ \E t \in NsTime : DeleteSnapshot(p, n, t)
        \/ PruneGroup(p, n, 1)
        \/ DeleteGroup(p, n)
        \/ \E groups \in BOOLEAN : DeleteNamespace(p, n, groups)
        \/ \E who \in NsOwner : StartSetOwner(p, n, who)
    \/ \E m \in NsMoves, deleteSource \in BOOLEAN : StartMove(p, m[1], m[2], m[3], deleteSource)

NsStep(p) ==
    \/ MakeGroup(p) \/ GroupLockFails(p) \/ LockGroup(p) \/ MakeSnapshot(p) \/ LockSnapshot(p)
    \/ BackupRefused(p) \/ FinishBackup(p) \/ AbortBackup(p)
    \/ \E t \in task[p].left : DestroySnapshot(p, t) \/ DestroyFails(p, t) \/ DeleteNext(p, t)
    \/ CleanupGroup(p) \/ DeleteGroupDir(p)
    \/ \E n \in task[p].todo : DeleteNamespaceGroups(p, n) \/ RemoveNamespace(p, n) \/ MoveCreate(p, n) \/ MoveGroups(p, n)
    \/ \E n \in task[p].deferred : MoveRetry(p, n)
    \/ \E n \in task[p].tried : MoveCleanup(p, n)
    \/ MoveList(p) \/ MoveReport(p) \/ MoveDone(p)
    \/ SetOwner(p) \/ NsFail(p)

NsNext ==
    \/ \E p \in NsTask : NsStart(p) \/ NsStep(p)
    \/ \E n \in NsUsed : CreateNamespace(n)
    \/ \E n \in NsUsed, t \in NsTime, on \in BOOLEAN : SetProtection(n, t, on)
    \/ NsCrash

NsSpec == NsInit /\ [][NsNext]_nsVars

-----------------------------------------------------------------------------
(* Properties *)

NsTypeOK ==
    /\ nsDir \subseteq NsSet /\ marker \subseteq NsSet /\ nsOps \in Nat \ {0}
    /\ \A n \in NsSet : grp[n] = NoGroup \/ grp[n].owner \in NsOwner \cup {NoOwner}
    /\ groupLock \in [NsSet -> NsTask \cup {Free}] /\ snapLock \in [NsPath -> NsTask \cup {Free}]

(* Whatever moves, deletes and fails: a snapshot that nobody has removed   *)
(* is there, once.                                                         *)
SnapshotsThere ==
    LET Present == {x \in NsPath : snap[x] # NoSnap} IN
    /\ {snap[x].id : x \in Present} = born \ gone
    /\ \A x, y \in Present : snap[x].id = snap[y].id => x = y

(* A snapshot lies in a group with an owner, a group in a namespace that   *)
(* exists: what creates a group and what removes an empty one, or a        *)
(* namespace, do not get into each other's way.                            *)
TreeWhole ==
    /\ \A x \in NsPath : snap[x] # NoSnap => HasOwner(x[1])
    /\ \A n \in NsSet : GroupExists(n) => n \in nsDir
    /\ \A n \in nsDir : n = << >> \/ Parent(n) \in nsDir

(* "Groups that fail are skipped and reported at the end": a move that     *)
(* reports success has left no group behind that was there when it began,  *)
(* unless a namespace could not be read any more.                          *)
MoveHonest ==
    \A p \in NsTask : task[p].pc = "moved" =>
        task[p].unlisted \/ \A s \in task[p].stays : grp[s[1]] = NoGroup \/ grp[s[1]].gid # s[2]

HierarchySafe == NsTypeOK /\ SnapshotsThere /\ TreeWhole /\ MoveHonest

(* A protected snapshot does not vanish, and stays protected when it is    *)
(* moved: it has to be unprotected first.                                  *)
ProtectedKept ==
    [][\A x \in NsPath : snap[x].prot =>
        \E y \in NsPath : snap'[y].id = snap[x].id /\ (snap'[y].prot \/ y = x)]_nsVars
=============================================================================
