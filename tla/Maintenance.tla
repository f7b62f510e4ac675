----------------------------- MODULE Maintenance -----------------------------
(***************************************************************************)
(* One datastore's section in datastore.cfg with its maintenance mode, the *)
(* counts of active operations under /run, the instances each process      *)
(* keeps in DATASTORE_MAP, and the calls that mount, unmount, refresh and  *)
(* destroy the datastore.  lookup_datastore keeps the lock of the          *)
(* configuration from the check of the mode until the operation is         *)
(* counted; destroy keeps the lock of the counts while it deletes.  The    *)
(* end of an operation (Drop) takes no lock of the configuration.          *)
(*                                                                         *)
(* An instance is known by its chunk store, since the chunk store has the  *)
(* process locker.  Whoever saves the configuration increases its          *)
(* generation, so a cached section is as good as the file; changes made    *)
(* with an editor are left out.                                            *)
(***************************************************************************)
EXTENDS Integers, FiniteSets

CONSTANTS
    Handle,       \* holders of an Arc<DataStore>
    Proc,         \* processes: proxy, privileged daemon, an old proxy
    HandleProc(_),
    Proxy,        \* the current proxy, which alone is told of a new mode
    CountsFail,   \* whether update_active_operations may fail
    Job,          \* tasks that unmount, refresh or destroy
    Kind,         \* "removable", "s3", "plain"
    Stores,       \* bound on chunk stores that are open at the same time
    MaxChanges,   \* bound on changes of the mode by the administrator
    MaintNone

ASSUME HandleProcAssumption == Proxy \subseteq Proc /\ \A h \in Handle : HandleProc(h) \in Proc
ASSUME MaintAssumption ==
    /\ IsFiniteSet(Handle) /\ MaxChanges \in Nat
    /\ Handle \cap Job = {} /\ MaintNone \notin Handle \cup Job /\ MaintNone \notin 1 .. Stores

VARIABLES
    kind,        \* of the datastore
    present,     \* the section is in datastore.cfg
    mode,        \* its maintenance mode
    mounted,     \* the device is mounted; its data are there
    cfgLock,     \* holder of the lock of datastore.cfg
    opsLock,     \* holder of the lock of the counts
    ops,         \* operations counted for each process
    map,         \* chunk store of the process's entry in DATASTORE_MAP
    handle,      \* what the holders are doing
    job,         \* what the tasks are doing
    command,     \* processes with a pending update-datastore-cache
    changes,     \* changes so far
    raced        \* history: an eviction or a poll was overtaken by a change of the mode

maintVars == <<kind, present, mode, mounted, cfgLock, opsLock, ops, map, handle, job, command,
               changes, raced>>

-----------------------------------------------------------------------------

Operation == {"read", "write", "lookup"}
Mode == {"none", "readonly", "offline", "delete", "unmount", "s3refresh"}
ClearModes == {"offline", "delete", "unmount"}   \* clear_from_cache
MStore == 1 .. Stores

NoHandle == [step |-> "idle", op |-> "lookup", store |-> MaintNone]
HandleState ==
    [step : {"idle", "checked", "active", "decide", "evict"}, op : Operation,
     store : MStore \cup {MaintNone}]
JobStep == {"idle", "lookup", "wait", "quiet", "callback", "marked", "destroy"}

MaintInit ==
    /\ kind \in Kind
    /\ present = TRUE /\ mode = "none" /\ mounted = TRUE
    /\ cfgLock = MaintNone /\ opsLock = MaintNone
    /\ ops = [p \in Proc |-> 0]
    /\ map = [p \in Proc |-> MaintNone]
    /\ handle = [h \in Handle |-> NoHandle]
    /\ job = [t \in Job |-> "idle"]
    /\ command = {}
    /\ changes = 0 /\ raced = FALSE

Counts(h) == handle[h].op # "lookup"
Total == \E p \in Proc : ops[p] > 0

(* MaintenanceMode::check *)
Admits(op) ==
    CASE mode = "none" -> TRUE
      [] mode = "delete" -> FALSE
      [] mode = "readonly" -> op # "write"
      [] OTHER -> op = "lookup"

InUse(p, s) == map[p] = s \/ \E h \in Handle : HandleProc(h) = p /\ handle[h].store = s

-----------------------------------------------------------------------------
(* DataStore::lookup_datastore: the lock of the configuration, then of the *)
(* map; the mode; the mount status; the entry, whose chunk store is used   *)
(* again whatever the generation.                                          *)

LookupChecked(h, op) ==
    LET p == HandleProc(h)
        store == IF map[p] # MaintNone THEN map[p]
                 ELSE CHOOSE s \in MStore : \A q \in Proc : ~InUse(q, s)
    IN  /\ cfgLock = MaintNone /\ handle[h] = NoHandle
        /\ present /\ Admits(op) /\ mounted
        /\ map[p] = MaintNone => \E s \in MStore : \A q \in Proc : ~InUse(q, s)
        /\ cfgLock' = h
        /\ map' = [map EXCEPT ![p] = store]
        /\ handle' = [handle EXCEPT ![h] = [step |-> "checked", op |-> op, store |-> store]]
        /\ UNCHANGED <<kind, present, mode, mounted, opsLock, ops, job, changes, raced>>

(* Not mounted: the entry is removed and the lookup fails. *)
LookupNotMounted(h) ==
    LET p == HandleProc(h) IN
    /\ cfgLock = MaintNone /\ handle[h] = NoHandle
    /\ present /\ Admits("lookup") /\ ~mounted
    /\ map[p] # MaintNone
    /\ map' = [map EXCEPT ![p] = MaintNone]
    /\ UNCHANGED <<kind, present, mode, mounted, cfgLock, opsLock, ops, handle, job, command, changes,
                   raced>>

LookupBegin(h, op) == LookupChecked(h, op) /\ UNCHANGED command

(* update_active_operations(1), and the lookup returns. *)
(* Mutated form: the configuration is unlocked after the check, before the *)
(* operation is counted.                                                   *)
LookupCountLate(h) ==
    /\ handle[h].step = "checked" /\ opsLock = MaintNone
    /\ IF cfgLock = h
       THEN cfgLock' = MaintNone /\ UNCHANGED <<ops, handle>>
       ELSE /\ handle' = [handle EXCEPT ![h].step = "active"]
            /\ ops' = [ops EXCEPT ![HandleProc(h)] = IF Counts(h) THEN @ + 1 ELSE @]
            /\ UNCHANGED cfgLock
    /\ UNCHANGED <<kind, present, mode, mounted, opsLock, map, job, command, changes, raced>>

LookupCount(h) ==
    /\ handle[h].step = "checked" /\ opsLock = MaintNone
    /\ ops' = [ops EXCEPT ![HandleProc(h)] = IF Counts(h) THEN @ + 1 ELSE @]
    /\ handle' = [handle EXCEPT ![h].step = "active"]
    /\ cfgLock' = MaintNone
    /\ UNCHANGED <<kind, present, mode, mounted, opsLock, map, job, command, changes, raced>>

(* It fails, and so does the lookup; the entry it has made stays. *)
LookupFails(h) ==
    /\ CountsFail /\ handle[h].step = "checked"
    /\ handle' = [handle EXCEPT ![h] = NoHandle]
    /\ cfgLock' = MaintNone
    /\ UNCHANGED <<kind, present, mode, mounted, opsLock, ops, map, job, command, changes, raced>>

(* A clone counts as an operation of its own. *)
CloneHandle(h, g) ==
    /\ handle[h].step = "active" /\ handle[g] = NoHandle /\ HandleProc(g) = HandleProc(h)
    /\ opsLock = MaintNone
    /\ ops' = [ops EXCEPT ![HandleProc(h)] = IF Counts(h) THEN @ + 1 ELSE @]
    /\ handle' = [handle EXCEPT ![g] = handle[h]]
    /\ UNCHANGED <<kind, present, mode, mounted, cfgLock, opsLock, map, job, command, changes, raced>>

-----------------------------------------------------------------------------
(* Drop *)

(* update_active_operations(-1); only the last operation of the process goes on. *)
DropCount(h) ==
    LET p == HandleProc(h)
        left == IF Counts(h) THEN ops[p] - 1 ELSE ops[p]
    IN  /\ handle[h].step = "active" /\ opsLock = MaintNone
        /\ ops' = [ops EXCEPT ![p] = left]
        /\ handle' = [handle EXCEPT ![h] = IF left = 0 THEN [@ EXCEPT !.step = "decide", !.op = "lookup"]
                                           ELSE NoHandle]
        /\ UNCHANGED <<kind, present, mode, mounted, cfgLock, opsLock, map, job, command, changes, raced>>

(* The configuration is read without its lock ... *)
DropDecide(h) ==
    /\ handle[h].step = "decide"
    /\ handle' = [handle EXCEPT ![h] = IF ~present \/ mode \in ClearModes
                                       THEN [@ EXCEPT !.step = "evict"] ELSE NoHandle]
    /\ UNCHANGED <<kind, present, mode, mounted, cfgLock, opsLock, ops, map, job, command, changes, raced>>

(* ... and the entry removed once the map's mutex is free, whoever uses it by now. *)
DropEvict(h) ==
    LET p == HandleProc(h) IN
    /\ handle[h].step = "evict"
    /\ \A g \in Handle : ~(HandleProc(g) = p /\ handle[g].step = "checked")
    /\ map' = [map EXCEPT ![p] = MaintNone]
    /\ handle' = [handle EXCEPT ![h] = NoHandle]
    /\ raced' = (raced \/ ops[p] > 0)
    /\ UNCHANGED <<kind, present, mode, mounted, cfgLock, opsLock, ops, job, command, changes>>

-----------------------------------------------------------------------------
(* Commands to the proxy *)

(* update-datastore-cache: a lookup whose Drop does the work. *)
UpdateDatastoreCache(h) ==
    /\ HandleProc(h) \in command
    /\ mode \in ClearModes
    /\ LookupChecked(h, "lookup")
    /\ command' = command \ {HandleProc(h)}

UpdateCacheNothing(p) ==
    /\ p \in command
    /\ ~present \/ mode \notin ClearModes \/ ~Admits("lookup") \/ ~mounted
    /\ command' = command \ {p}
    /\ map' = IF present /\ mode \in ClearModes /\ Admits("lookup") /\ cfgLock = MaintNone
              THEN [map EXCEPT ![p] = MaintNone] ELSE map
    /\ UNCHANGED <<kind, present, mode, mounted, cfgLock, opsLock, ops, handle, job, changes, raced>>

(* datastore-removed: remove_unused_datastores *)
RemoveUnused(p) ==
    /\ ~present /\ map[p] # MaintNone
    /\ \A g \in Handle : ~(HandleProc(g) = p /\ handle[g].step = "checked")
    /\ map' = [map EXCEPT ![p] = MaintNone]
    /\ raced' = (raced \/ ops[p] > 0)
    /\ UNCHANGED <<kind, present, mode, mounted, cfgLock, opsLock, ops, handle, job, command, changes>>

-----------------------------------------------------------------------------
(* The administrator *)

(* set_maintenance_mode: a datastore that is being deleted stays so.  Tasks *)
(* that have seen no operation no longer know whether that is still true.   *)
SetMode(m) ==
    /\ cfgLock = MaintNone /\ present
    /\ mode = "delete" => m = "delete"
    /\ mode' = m
    /\ raced' = (raced \/ (m # mode /\ \E t \in Job : job[t] = "quiet"))

(* update_datastore, and its message to the proxy *)
UpdateMaintenance(m) ==
    /\ changes < MaxChanges
    /\ m \in {"none", "readonly", "offline"} /\ m # mode
    /\ SetMode(m)
    /\ changes' = changes + 1
    /\ command' = Proxy
    /\ UNCHANGED <<kind, present, mounted, cfgLock, opsLock, ops, map, handle, job>>

(* do_unmount and s3_refresh: the mode is set, then a task started. *)
StartMaintenance(t, k, m, step) ==
    /\ kind = k /\ mounted /\ job[t] = "idle"
    /\ changes < MaxChanges
    /\ SetMode(m)
    /\ changes' = changes + 1
    /\ job' = [job EXCEPT ![t] = step]
    /\ UNCHANGED <<kind, present, mounted, cfgLock, opsLock, ops, map, handle>>
Unmount(t) == StartMaintenance(t, "removable", "unmount", "wait") /\ command' = Proxy
S3Refresh(t) == StartMaintenance(t, "s3", "s3refresh", "lookup") /\ UNCHANGED command

(* do_s3_refresh: the task looks the datastore up itself, as one of the    *)
(* holders, for the operation that the mode still admits.  That the model  *)
(* may drop this handle before the task ends only adds behaviours.         *)
S3Lookup(t, h) ==
    /\ job[t] = "lookup" /\ handle[h].step = "active" /\ ~Counts(h)
    /\ job' = [job EXCEPT ![t] = "wait"]
    /\ UNCHANGED <<kind, present, mode, mounted, cfgLock, opsLock, ops, map, handle, command, changes, raced>>

(* The lookup fails and the mode stays. *)
S3LookupFails(t) ==
    /\ job[t] = "lookup"
    /\ job' = [job EXCEPT ![t] = "idle"]
    /\ UNCHANGED <<kind, present, mode, mounted, cfgLock, opsLock, ops, map, handle, command, changes, raced>>

Mandated == IF kind = "removable" THEN "unmount" ELSE "s3refresh"

(* run_maintenance_locked: the counts are polled ... *)
Poll(t) ==
    /\ job[t] = "wait" /\ ~Total
    /\ job' = [job EXCEPT ![t] = "quiet"]
    /\ UNCHANGED <<kind, present, mode, mounted, cfgLock, opsLock, ops, map, handle, command, changes, raced>>

(* ... until the task is aborted or the mode is another, ... *)
MaintenanceAborted(t) ==
    /\ job[t] \in {"wait", "quiet"} /\ cfgLock = MaintNone
    /\ job' = [job EXCEPT ![t] = "idle"]
    /\ mode' = IF present /\ mode = Mandated THEN "none" ELSE mode
    /\ raced' = (raced \/ (mode' # mode /\ \E u \in Job \ {t} : job[u] = "quiet"))
    /\ UNCHANGED <<kind, present, mounted, cfgLock, opsLock, ops, map, handle, command, changes>>

(* ... then the mode is looked at under the lock, which stays through the callback. *)
ExpectMaintenance(t) ==
    /\ job[t] = "quiet" /\ cfgLock = MaintNone
    /\ IF present /\ mode = Mandated
       THEN cfgLock' = t /\ job' = [job EXCEPT ![t] = "callback"]
       ELSE job' = [job EXCEPT ![t] = "idle"] /\ UNCHANGED cfgLock
    /\ UNCHANGED <<kind, present, mode, mounted, opsLock, ops, map, handle, command, changes, raced>>

(* The callback has succeeded: unset_maintenance.  A device is unmounted   *)
(* only when no process has its lock file open.                            *)
Callback(t) ==
    /\ job[t] = "callback"
    /\ kind = "removable" => \A p \in Proc, s \in MStore : ~InUse(p, s)
    /\ mounted' = (kind # "removable")
    /\ mode' = "none"
    /\ cfgLock' = MaintNone
    /\ job' = [job EXCEPT ![t] = "idle"]
    /\ raced' = (raced \/ \E u \in Job : job[u] = "quiet")
    /\ UNCHANGED <<kind, present, opsLock, ops, map, handle, command, changes>>

(* It has failed: the mode stays. *)
CallbackFails(t) ==
    /\ job[t] = "callback"
    /\ cfgLock' = MaintNone
    /\ job' = [job EXCEPT ![t] = "idle"]
    /\ UNCHANGED <<kind, present, mode, mounted, opsLock, ops, map, handle, command, changes, raced>>

(* do_mount_device: the mode is not looked at. *)
Mount ==
    /\ kind = "removable" /\ present /\ ~mounted
    /\ mounted' = TRUE
    /\ UNCHANGED <<kind, present, mode, cfgLock, opsLock, ops, map, handle, job, command, changes, raced>>

-----------------------------------------------------------------------------
(* DataStore::destroy: the mode, saved and unlocked ... *)
DestroyMark(t) ==
    /\ job[t] = "idle"
    /\ SetMode("delete")
    /\ job' = [job EXCEPT ![t] = "marked"]
    /\ command' = Proxy
    /\ UNCHANGED <<kind, present, mounted, cfgLock, opsLock, ops, map, handle, changes>>

(* ... the lock of the counts: "datastore is currently in use", or the data *)
(* are deleted under it ...                                                 *)
DestroyCheck(t) ==
    /\ job[t] = "marked" /\ opsLock = MaintNone
    /\ IF Total THEN job' = [job EXCEPT ![t] = "idle"] /\ UNCHANGED opsLock
                ELSE opsLock' = t /\ job' = [job EXCEPT ![t] = "destroy"]
    /\ UNCHANGED <<kind, present, mode, mounted, cfgLock, ops, map, handle, command, changes, raced>>

DestroyFails(t) ==
    /\ job[t] = "destroy"
    /\ opsLock' = MaintNone /\ job' = [job EXCEPT ![t] = "idle"]
    /\ UNCHANGED <<kind, present, mode, mounted, cfgLock, ops, map, handle, command, changes, raced>>

(* ... and the section is removed under both locks. *)
DestroySection(t) ==
    /\ job[t] = "destroy" /\ cfgLock = MaintNone
    /\ present' = FALSE
    /\ opsLock' = MaintNone /\ job' = [job EXCEPT ![t] = "idle"]
    /\ UNCHANGED <<kind, mode, mounted, cfgLock, ops, map, handle, command, changes, raced>>

-----------------------------------------------------------------------------
(* A process ends: its entry no longer counts, by its pid and start time;  *)
(* its locks are gone.  Tasks run in a process of their own kind.          *)
ProcessEnds(p) ==
    LET mine == {h \in Handle : HandleProc(h) = p} IN
    /\ map[p] # MaintNone \/ \E h \in mine : handle[h] # NoHandle
    /\ handle' = [h \in Handle |-> IF h \in mine THEN NoHandle ELSE handle[h]]
    /\ ops' = [ops EXCEPT ![p] = 0]
    /\ map' = [map EXCEPT ![p] = MaintNone]
    /\ cfgLock' = IF cfgLock \in mine THEN MaintNone ELSE cfgLock
    /\ UNCHANGED <<kind, present, mode, mounted, opsLock, job, command, changes, raced>>

HandleStep(h) == LookupCount(h) \/ LookupFails(h) \/ DropDecide(h) \/ DropEvict(h)

MaintNext ==
    \/ \E h \in Handle :
        \/ \E op \in Operation : LookupBegin(h, op)
        \/ LookupNotMounted(h) \/ HandleStep(h) \/ DropCount(h) \/ UpdateDatastoreCache(h)
        \/ \E g \in Handle : CloneHandle(h, g)
    \/ \E p \in Proc : UpdateCacheNothing(p) \/ RemoveUnused(p) \/ ProcessEnds(p)
    \/ \E m \in Mode : UpdateMaintenance(m)
    \/ \E t \in Job :
        \/ Unmount(t) \/ S3Refresh(t) \/ S3LookupFails(t) \/ Poll(t) \/ MaintenanceAborted(t) \/ ExpectMaintenance(t)
        \/ Callback(t) \/ CallbackFails(t) \/ \E h \in Handle : S3Lookup(t, h)
        \/ DestroyMark(t) \/ DestroyCheck(t) \/ DestroyFails(t) \/ DestroySection(t)
    \/ Mount

MaintSpec == MaintInit /\ [][MaintNext]_maintVars

(* What the daemons do by themselves: the steps of lookups and of drops,   *)
(* the end of operations, the proxy's commands, the end of callbacks.      *)
(* Locks are waited for.                                                   *)
CommandStep(p) == UpdateCacheNothing(p) \/ \E h \in Handle : HandleProc(h) = p /\ UpdateDatastoreCache(h)
CallbackEnds(t) == Callback(t) \/ CallbackFails(t)
MaintFairSpec ==
    /\ MaintSpec
    /\ \A h \in Handle : SF_maintVars(HandleStep(h)) /\ WF_maintVars(DropCount(h))
    /\ \A p \in Proc : SF_maintVars(CommandStep(p))
    /\ \A t \in Job : WF_maintVars(CallbackEnds(t))

-----------------------------------------------------------------------------
(* Properties *)

MaintTypeOK ==
    /\ kind \in Kind /\ present \in BOOLEAN /\ mounted \in BOOLEAN /\ raced \in BOOLEAN
    /\ mode \in Mode
    /\ cfgLock \in Handle \cup Job \cup {MaintNone} /\ opsLock \in Job \cup {MaintNone}
    /\ ops \in [Proc -> 0 .. Cardinality(Handle)]
    /\ map \in [Proc -> MStore \cup {MaintNone}]
    /\ handle \in [Handle -> HandleState]
    /\ job \in [Job -> JobStep]
    /\ command \subseteq Proc /\ changes \in 0 .. MaxChanges

Using(h) == handle[h].step = "active" /\ Counts(h)

(* "Avoid TOCTOU between checking maintenance mode and updating active     *)
(* operation counter, as we use it to decide whether it is okay to delete  *)
(* the datastore" (lookup_datastore): no data are deleted, and no section  *)
(* removed, under an operation.                                            *)
DestroyedUnused ==
    (~present \/ \E t \in Job : job[t] = "destroy") => \A h \in Handle : ~Using(h)

(* lookup_datastore takes the lock of the configuration and then that of   *)
(* the counts, destroy the other way round: they never wait for each other *)
(* because no lookup passes the mode that destroy has set.                 *)
NoLockCycle ==
    ~\E h \in Handle, t \in Job : handle[h].step = "checked" /\ job[t] = "destroy"

(* "Wait for no more active operations on the given datastore and run the  *)
(* provided callback in a datastore locked context" (run_maintenance_locked): *)
(* no refresh rewrites and no unmount takes away a store under an          *)
(* operation, unless the mode was changed behind the back of the poll.     *)
MaintenanceQuiet ==
    ~raced => \A t \in Job : job[t] = "callback" => \A h \in Handle : ~Using(h)

(* "reuse chunk store so that we keep using the same process locker        *)
(* instance!" (lookup_datastore): the operations of a process share one    *)
(* chunk store, unless an eviction came after a lookup it did not know of. *)
OneChunkStore ==
    ~raced => \A h, g \in Handle :
        Using(h) /\ Using(g) /\ HandleProc(h) = HandleProc(g) => handle[h].store = handle[g].store

(* Operations and maintenance tasks keep out of each other's way. *)
HandlesSafe == MaintTypeOK /\ DestroyedUnused /\ NoLockCycle /\ MaintenanceQuiet /\ OneChunkStore

(* "Entry will only be cleared iff there is no other task running, if      *)
(* there is, the end of the last running task will trigger the clearing"   *)
(* (update_datastore_cache): in a mode that asks for it, the proxy does    *)
(* not keep the store open for ever once its operations have ended, in     *)
(* whatever order lookups and drops pass, as long as operations can be     *)
(* counted.  The other processes are not told of the mode.                 *)
Evicted ==
    ~CountsFail => \A p \in Proxy :
        <>[](present /\ mode \in {"offline", "unmount"} /\ ops[p] = 0) => []<>(map[p] = MaintNone)
=============================================================================
