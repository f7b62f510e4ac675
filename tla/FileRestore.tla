---------------------------- MODULE FileRestore ----------------------------
(* The file restore: the virtual machines its commands start, the daemon in  *)
(* such a machine, and the disks the daemon reads.                           *)
EXTENDS Integers, Sequences, FiniteSets, FiniteSetsExt, SequencesExt
(***************************************************************************)
(* The virtual machines of proxmox-file-restore.  Each user has a file with*)
(* the VMs that commands have started, one for a snapshot.  A command      *)
(* locks the file, asks every VM in it for its status, reuses or starts    *)
(* the VM of its snapshot, writes the file and only then sends its request.*)
(* VMs stop by themselves, hang or crash at any time, and their addresses  *)
(* (CIDs) and process ids are given to others afterwards, also to the VMs  *)
(* of other users.                                                         *)
(*                                                                         *)
(* A VM is named by its number in the order of the starts, which also      *)
(* stands for the ticket that is made for it.  What a VM reads of its      *)
(* snapshot and when it stops follow below.                                *)
(***************************************************************************)

CONSTANTS
    RestoreUser,      \* users, with their map files
    Uid,              \* their numbers, added to the first CID that is tried
    RestoreSnap,      \* snapshots
    Cmd,              \* commands
    CmdCalls,         \* what each may be called for: [op, user, snap]
    Pid,              \* process ids
    MaxCidTries,      \* MAX_CID_TRIES
    LastCid,          \* the CIDs are FirstCid .. LastCid, FirstCid follows the last one
    MaxVMs,           \* bound: how many VMs are started
    MaxKills,         \* bound: how many commands are killed
    NoCmd

FirstCid == 10

VARIABLES
    vmMap,    \* the map file of a user: the entry of a snapshot
    mapLock,  \* the command that has locked it
    vm,       \* the VMs started so far
    cmd,      \* the commands
    orphan    \* history: VMs whose command was killed or failed before it wrote them down

vmVars == <<vmMap, mapLock, vm, cmd, orphan>>

NoEntry == [pid |-> 0, cid |-> 0, ticket |-> 0]
EmptyMap == [s \in RestoreSnap |-> NoEntry]
NoCommand == [pc |-> "idle", call |-> [op |-> "none", user |-> NoCmd, snap |-> NoCmd], map |-> EmptyMap, todo |-> {},
         modified |-> FALSE, entry |-> NoEntry, tries |-> 0, got |-> 0]

RestoreVMsInit ==
    /\ vmMap = [u \in RestoreUser |-> EmptyMap]
    /\ mapLock = [u \in RestoreUser |-> NoCmd]
    /\ vm = << >>
    /\ cmd = [c \in Cmd |-> NoCommand]
    /\ orphan = [vms |-> {}, kills |-> 0]

Op(c) == cmd[c].call.op
MapOf(c) == cmd[c].call.user
Own(c) == cmd[c].map[cmd[c].call.snap]
Over(c) == cmd' = [cmd EXCEPT ![c] = NoCommand]

(* The VM that answers on a CID: status needs no ticket, the rest does *)
Live(v) == vm[v].state # "off"
OnCid(cid) == {v \in DOMAIN vm : Live(v) /\ vm[v].cid = cid}
Answering(cid) == {v \in OnCid(cid) : vm[v].state = "up"}
CheckAuth(v, ticket) == ticket = v

(* Only a process that is a restore VM is killed, whosever it is *)
TryKillVm(pid) ==
    vm' = [v \in DOMAIN vm |-> IF Live(v) /\ vm[v].pid = pid THEN [vm[v] EXCEPT !.state = "off"] ELSE vm[v]]

Unlock(c) == mapLock' = [mapLock EXCEPT ![MapOf(c)] = NoCmd]
WriteMap(c, map) == vmMap' = [vmMap EXCEPT ![MapOf(c)] = map] /\ Unlock(c)

-----------------------------------------------------------------------------
(* A command starts; stop looks for the name without the lock first *)
RunCommand(c) ==
    /\ cmd[c].pc = "idle"
    /\ \E k \in CmdCalls[c] :
        /\ k.op = "stop" => vmMap[k.user][k.snap] # NoEntry
        /\ cmd' = [cmd EXCEPT ![c] = [NoCommand EXCEPT !.pc = "load", !.call = k]]
    /\ UNCHANGED <<vmMap, mapLock, vm, orphan>>

LoadMap(c) ==
    /\ cmd[c].pc = "load" /\ mapLock[MapOf(c)] = NoCmd
    /\ mapLock' = [mapLock EXCEPT ![MapOf(c)] = c]
    /\ LET map == vmMap[MapOf(c)]
       IN  cmd' = [cmd EXCEPT ![c].pc = "clean", ![c].map = map, ![c].todo = {s \in RestoreSnap : map[s] # NoEntry}]
    /\ UNCHANGED <<vmMap, vm, orphan>>

(* cleanup_map: a VM that does not answer is killed and forgotten *)
CleanupMap(c) ==
    /\ cmd[c].pc = "clean"
    /\ \E s \in cmd[c].todo :
        LET e == cmd[c].map[s]
            rest == [cmd[c] EXCEPT !.todo = @ \ {s}]
        IN  IF Answering(e.cid) # {}
            THEN cmd' = [cmd EXCEPT ![c] = rest] /\ UNCHANGED vm
            ELSE cmd' = [cmd EXCEPT ![c] = [rest EXCEPT !.map[s] = NoEntry, !.modified = TRUE]] /\ TryKillVm(e.pid)
    /\ UNCHANGED <<vmMap, mapLock, orphan>>

Cleaned(c, ops) == cmd[c].pc = "clean" /\ cmd[c].todo = {} /\ Op(c) \in ops

(* ensure_running, for list and extract *)
ReuseVm(c) ==
    /\ Cleaned(c, {"list", "extract"}) /\ Own(c) # NoEntry /\ Answering(Own(c).cid) # {}
    /\ cmd' = [cmd EXCEPT ![c].pc = "call", ![c].entry = Own(c), ![c].map = EmptyMap]
    /\ Unlock(c)
    /\ UNCHANGED <<vmMap, vm, orphan>>

RestartVm(c) ==
    /\ Cleaned(c, {"list", "extract"}) /\ Own(c) # NoEntry /\ Answering(Own(c).cid) = {}
    /\ TryKillVm(Own(c).pid)
    /\ cmd' = [cmd EXCEPT ![c].pc = "start", ![c].entry.cid = Own(c).cid]
    /\ UNCHANGED <<vmMap, mapLock, orphan>>

NextCid(cid) == IF cid >= LastCid THEN FirstCid ELSE cid + 1
FirstTried(c) == Max({FirstCid, Max({cmd[c].map[s].cid : s \in RestoreSnap}) + 1 + Uid[MapOf(c)]})
NewVm(c) ==
    /\ Cleaned(c, {"list", "extract"}) /\ Own(c) = NoEntry
    /\ cmd' = [cmd EXCEPT ![c].pc = "start", ![c].entry.cid = Min({FirstTried(c), LastCid})]
    /\ UNCHANGED <<vmMap, mapLock, vm, orphan>>

(* start_vm: the next CID is tried when one is in use *)
CidInUse(c) ==
    /\ cmd[c].pc = "start" /\ OnCid(cmd[c].entry.cid) # {} /\ cmd[c].tries + 1 < MaxCidTries
    /\ cmd' = [cmd EXCEPT ![c].entry.cid = NextCid(@), ![c].tries = @ + 1]
    /\ UNCHANGED <<vmMap, mapLock, vm, orphan>>

StartQemu(c) ==
    /\ cmd[c].pc = "start" /\ OnCid(cmd[c].entry.cid) = {} /\ Len(vm) < MaxVMs
    /\ \E pid \in Pid \ {vm[v].pid : v \in {w \in DOMAIN vm : Live(w)}} :
        /\ vm' = Append(vm, [state |-> "boot", cid |-> cmd[c].entry.cid, pid |-> pid, snap |-> cmd[c].call.snap,
                             user |-> MapOf(c)])
        /\ cmd' = [cmd EXCEPT ![c].pc = "poll", ![c].entry.pid = pid, ![c].entry.ticket = Len(vm) + 1]
    /\ UNCHANGED <<vmMap, mapLock, orphan>>

(* Qemu does not start, or every CID that was tried is in use *)
StartFails(c) ==
    /\ cmd[c].pc = "start"
    /\ Over(c) /\ Unlock(c)
    /\ UNCHANGED <<vmMap, vm, orphan>>

Started(c) ==
    /\ cmd[c].pc = "poll" /\ Answering(cmd[c].entry.cid) # {}
    /\ cmd' = [cmd EXCEPT ![c].pc = "write", ![c].map[cmd[c].call.snap] = cmd[c].entry]
    /\ UNCHANGED <<vmMap, mapLock, vm, orphan>>

PidExited(c) ==
    /\ cmd[c].pc = "poll" /\ ~\E v \in DOMAIN vm : Live(v) /\ vm[v].pid = cmd[c].entry.pid
    /\ Over(c) /\ Unlock(c)
    /\ UNCHANGED <<vmMap, vm, orphan>>

StartTimesOut(c) ==
    /\ cmd[c].pc = "poll" /\ Answering(cmd[c].entry.cid) = {}
    /\ TryKillVm(cmd[c].entry.pid)
    /\ Over(c) /\ Unlock(c)
    /\ UNCHANGED <<vmMap, orphan>>

WriteState(c) ==
    /\ cmd[c].pc = "write"
    /\ WriteMap(c, cmd[c].map)
    /\ cmd' = [cmd EXCEPT ![c].pc = "call", ![c].map = EmptyMap, ![c].modified = FALSE, ![c].tries = 0]
    /\ UNCHANGED <<vm, orphan>>

(* data_list and data_extract *)
AskVm(c) ==
    /\ cmd[c].pc = "call"
    /\ \/ \E v \in Answering(cmd[c].entry.cid) :
            CheckAuth(v, cmd[c].entry.ticket) /\ cmd' = [cmd EXCEPT ![c].pc = "answered", ![c].got = v]
       \/ /\ \A v \in Answering(cmd[c].entry.cid) : ~CheckAuth(v, cmd[c].entry.ticket)
          /\ Over(c)
    /\ UNCHANGED <<vmMap, mapLock, vm, orphan>>

(* status; what is shown is asked for without the lock *)
DriverStatus(c) ==
    /\ Cleaned(c, {"status"})
    /\ IF cmd[c].modified THEN WriteMap(c, cmd[c].map) ELSE Unlock(c) /\ UNCHANGED vmMap
    /\ Over(c)
    /\ UNCHANGED <<vm, orphan>>

StopVm(c) ==
    /\ Cleaned(c, {"stop"})
    /\ IF Own(c) = NoEntry
       THEN /\ IF cmd[c].modified THEN WriteMap(c, cmd[c].map) ELSE Unlock(c) /\ UNCHANGED vmMap
            /\ Over(c) /\ UNCHANGED vm
       ELSE /\ vm' = [v \in DOMAIN vm |-> IF v \in Answering(Own(c).cid) /\ CheckAuth(v, Own(c).ticket)
                                          THEN [vm[v] EXCEPT !.state = "off"] ELSE vm[v]]
            /\ WriteMap(c, [cmd[c].map EXCEPT ![cmd[c].call.snap] = NoEntry])
            /\ Over(c)
    /\ UNCHANGED orphan

CommandEnds(c) ==
    /\ cmd[c].pc = "answered"
    /\ cmd' = [cmd EXCEPT ![c] = NoCommand]
    /\ UNCHANGED <<vmMap, mapLock, vm, orphan>>

(* A command is killed.  The lock goes with it, and a map that was being *)
(* written is left empty, which is read as no entries.                    *)
StartedBy(c) == {v \in DOMAIN vm : cmd[c].entry.ticket = v /\ cmd[c].pc \in {"poll", "write"}}
Writing(c) ==
    \/ cmd[c].pc = "write"
    \/ Cleaned(c, {"status", "stop"}) /\ (cmd[c].modified \/ (Op(c) = "stop" /\ Own(c) # NoEntry))
Holds(c) == mapLock[MapOf(c)] = c
KillCommand(c) ==
    /\ cmd[c].pc \notin {"idle", "load", "answered"} /\ orphan.kills < MaxKills
    /\ IF Holds(c) THEN Unlock(c) ELSE UNCHANGED mapLock
    /\ \/ /\ vmMap' = vmMap
          /\ orphan' = [vms |-> orphan.vms \cup StartedBy(c), kills |-> orphan.kills + 1]
       \/ /\ Writing(c)
          /\ vmMap' = [vmMap EXCEPT ![MapOf(c)] = EmptyMap]
          /\ orphan' = [vms |-> orphan.vms \cup {v \in DOMAIN vm : vm[v].user = MapOf(c)}, kills |-> orphan.kills + 1]
    /\ cmd' = [cmd EXCEPT ![c] = NoCommand]
    /\ UNCHANGED vm

-----------------------------------------------------------------------------
(* A VM comes up, hangs, or stops: by its watchdog or because it crashed *)
VmStep(v) ==
    /\ \/ vm[v].state = "boot" /\ \E s \in {"up", "hung", "off"} : vm' = [vm EXCEPT ![v].state = s]
       \/ vm[v].state = "up" /\ \E s \in {"hung", "off"} : vm' = [vm EXCEPT ![v].state = s]
    /\ UNCHANGED <<vmMap, mapLock, cmd, orphan>>

RestoreVMsNext ==
    \/ \E c \in Cmd :
        \/ RunCommand(c) \/ LoadMap(c) \/ CleanupMap(c) \/ ReuseVm(c) \/ RestartVm(c) \/ NewVm(c)
        \/ CidInUse(c) \/ StartQemu(c) \/ StartFails(c) \/ Started(c) \/ PidExited(c) \/ StartTimesOut(c)
        \/ WriteState(c) \/ AskVm(c) \/ DriverStatus(c) \/ StopVm(c) \/ CommandEnds(c) \/ KillCommand(c)
    \/ \E v \in DOMAIN vm : VmStep(v)

-----------------------------------------------------------------------------
(* A command is never answered by the VM of another snapshot or user, *)
(* whatever has become of the CID it knows.                            *)
AnsweredRight ==
    \A c \in Cmd : cmd[c].pc = "answered" =>
        vm[cmd[c].got].snap = cmd[c].call.snap /\ vm[cmd[c].got].user = MapOf(c)

(* A VM that is not an orphan and that could be reached is in the map of *)
(* its user, or its command is at work: no command starts a second one   *)
(* and forgets the first.                                                *)
VmsTracked ==
    \A v \in DOMAIN vm : vm[v].state \in {"boot", "up"} /\ v \notin orphan.vms =>
        \/ \E s \in RestoreSnap : vmMap[vm[v].user][s].ticket = v
        \/ \E c \in Cmd : cmd[c].entry.ticket = v /\ cmd[c].pc \in {"poll", "write"}

RestoreVMsInv == AnsweredRight /\ VmsTracked

-----------------------------------------------------------------------------

(***************************************************************************)
(* The daemon inside a restore VM: its watchdog and its downloads.  The    *)
(* watchdog powers the VM off when nobody has used it for a while; a       *)
(* download inhibits it for as long as it takes.  The counter of the       *)
(* inhibitors and the time of the last use are two atomics that the        *)
(* watchdog reads one after the other, without a lock.                     *)
(*                                                                         *)
(* A call names a path that is found, that is not, or that has a partition *)
(* number which is no number: the lookup panics with the mutex of the disk *)
(* state held, and every later lookup panics on the poisoned mutex.        *)
(***************************************************************************)

CONSTANTS
    VmCall,        \* calls
    Timeout,       \* TIMEOUT
    MaxDownloads,  \* permits of DOWNLOAD_SEM
    MaxClock       \* bound on the time

VARIABLES
    clock,
    triggered,    \* TRIGGERED
    inhibitors,   \* INHIBITORS
    permits,      \* what is left of DOWNLOAD_SEM
    watchdog,     \* the task of the watchdog: what it has read, when it wakes up
    vmCall,       \* the calls
    poisoned,     \* the mutex of DISK_STATE
    powered,      \* the VM runs
    used          \* history: when the VM was last used

daemonVars == <<clock, triggered, inhibitors, permits, watchdog, vmCall, poisoned, powered, used>>

RestoreDaemonInit ==
    /\ clock = 0 /\ triggered = 0 /\ inhibitors = 0 /\ permits = MaxDownloads
    /\ watchdog = [pc |-> "awake", until |-> 0, now |-> 0, used |-> 0, busy |-> {}]
    /\ vmCall = [c \in VmCall |-> "idle"]
    /\ poisoned = FALSE /\ powered = TRUE /\ used = 0

WatchdogPing == triggered' = Max({triggered, clock})
Becomes(c, pc) == vmCall' = [vmCall EXCEPT ![c] = pc]

-----------------------------------------------------------------------------
(* watchdog_remaining: the inhibitors first ... *)
LoadInhibitors ==
    /\ powered /\ watchdog.pc = "awake"
    /\ watchdog' = IF inhibitors > 0
                   THEN [watchdog EXCEPT !.pc = "asleep", !.until = clock + Timeout]
                   ELSE [watchdog EXCEPT !.pc = "clock", !.used = used,
                                         !.busy = {c \in VmCall : vmCall[c] = "stream"}]
    /\ UNCHANGED <<clock, triggered, inhibitors, permits, vmCall, poisoned, powered, used>>

(* ... then the clock ... *)
ReadClock ==
    /\ powered /\ watchdog.pc = "clock"
    /\ watchdog' = [watchdog EXCEPT !.pc = "decide", !.now = clock]
    /\ UNCHANGED <<clock, triggered, inhibitors, permits, vmCall, poisoned, powered, used>>

(* ... and the time of the last ping *)
Remaining == Timeout - (watchdog.now - triggered)
WatchdogDecides ==
    /\ powered /\ watchdog.pc = "decide"
    /\ IF Remaining <= 0
       THEN powered' = FALSE /\ UNCHANGED watchdog
       ELSE /\ watchdog' = [watchdog EXCEPT !.pc = "asleep", !.until = clock + Remaining, !.now = 0, !.used = 0, !.busy = {}]
            /\ UNCHANGED powered
    /\ UNCHANGED <<clock, triggered, inhibitors, permits, vmCall, poisoned, used>>

WatchdogWakes ==
    /\ powered /\ watchdog.pc = "asleep" /\ clock >= watchdog.until
    /\ watchdog' = [watchdog EXCEPT !.pc = "awake", !.until = 0]
    /\ UNCHANGED <<clock, triggered, inhibitors, permits, vmCall, poisoned, powered, used>>

-----------------------------------------------------------------------------
(* The status call, with a ticket and without keep-timeout *)
StatusCall ==
    /\ powered
    /\ WatchdogPing /\ used' = clock
    /\ UNCHANGED <<clock, inhibitors, permits, watchdog, vmCall, poisoned, powered>>

StopCall ==
    /\ powered /\ powered' = FALSE
    /\ watchdog' = [watchdog EXCEPT !.pc = "stopped"]
    /\ UNCHANGED <<clock, triggered, inhibitors, permits, vmCall, poisoned, used>>

(* A path is looked up under the mutex; a panic poisons it *)
Lookup(outcome) == poisoned' = (poisoned \/ outcome = "panic")
Found(outcome) == ~poisoned /\ outcome = "found"
Outcome == {"found", "missing", "panic"}

ListCall ==
    /\ powered
    /\ WatchdogPing /\ used' = clock
    /\ \E o \in Outcome : Lookup(o)
    /\ UNCHANGED <<clock, inhibitors, permits, watchdog, vmCall, powered>>

(* extract: the inhibitor is made before anything else *)
ExtractCall(c) ==
    /\ powered /\ vmCall[c] = "idle"
    /\ inhibitors' = inhibitors + 1
    /\ Becomes(c, "begin")
    /\ UNCHANGED <<clock, triggered, permits, watchdog, poisoned, powered, used>>

TryAcquire(c) ==
    /\ powered /\ vmCall[c] = "begin"
    /\ IF permits = 0
       THEN Becomes(c, "drop") /\ UNCHANGED permits
       ELSE Becomes(c, "resolve") /\ permits' = permits - 1
    /\ UNCHANGED <<clock, triggered, inhibitors, watchdog, poisoned, powered, used>>

(* The stream has a task of its own, which takes inhibitor and permit along *)
ResolvePath(c) ==
    /\ powered /\ vmCall[c] = "resolve"
    /\ \E o \in Outcome :
        /\ Lookup(o)
        /\ IF Found(o) THEN Becomes(c, "stream") /\ UNCHANGED permits ELSE Becomes(c, "drop") /\ permits' = permits + 1
    /\ UNCHANGED <<clock, triggered, inhibitors, watchdog, powered, used>>

(* The stream ends, with or without an error: the permit is dropped first *)
StreamEnds(c) ==
    /\ powered /\ vmCall[c] = "stream"
    /\ permits' = permits + 1 /\ used' = clock
    /\ Becomes(c, "drop")
    /\ UNCHANGED <<clock, triggered, inhibitors, watchdog, poisoned, powered>>

(* WatchdogInhibitor::drop: a ping, then the counter *)
DropPings(c) ==
    /\ powered /\ vmCall[c] = "drop"
    /\ WatchdogPing
    /\ Becomes(c, "pinged")
    /\ UNCHANGED <<clock, inhibitors, permits, watchdog, poisoned, powered, used>>
DropSubtracts(c) ==
    /\ powered /\ vmCall[c] = "pinged"
    /\ inhibitors' = inhibitors - 1
    /\ Becomes(c, "idle")
    /\ UNCHANGED <<clock, triggered, permits, watchdog, poisoned, powered, used>>

TimePasses ==
    /\ powered /\ clock < MaxClock
    /\ clock' = clock + 1
    /\ UNCHANGED <<triggered, inhibitors, permits, watchdog, vmCall, poisoned, powered, used>>

RestoreDaemonNext ==
    \/ LoadInhibitors \/ ReadClock \/ WatchdogDecides \/ WatchdogWakes
    \/ StatusCall \/ StopCall \/ ListCall \/ TimePasses
    \/ \E c \in VmCall :
        ExtractCall(c) \/ TryAcquire(c) \/ ResolvePath(c) \/ StreamEnds(c) \/ DropPings(c) \/ DropSubtracts(c)

-----------------------------------------------------------------------------
(* The watchdog never stops a download that it could have seen, nor a VM   *)
(* that was used, a download that just ended included, less than the       *)
(* timeout before it last looked.                                          *)
WatchdogPatient ==
    ~powered /\ watchdog.pc = "decide" =>
        /\ \A c \in watchdog.busy : vmCall[c] # "stream"
        /\ watchdog.now - watchdog.used >= Timeout

(* Nothing is lost of the inhibitors and the permits, whatever way a call ends. *)
NothingLeaks ==
    /\ inhibitors = Cardinality({c \in VmCall : vmCall[c] # "idle"})
    /\ permits = MaxDownloads - Cardinality({c \in VmCall : vmCall[c] \in {"resolve", "stream"}})

RestoreDaemonInv == WatchdogPatient /\ NothingLeaks

-----------------------------------------------------------------------------

(***************************************************************************)
(* The disks of a restore VM: what a scan finds on them, and how a path    *)
(* /disk/type/component/... is resolved.  A file system is directly on a   *)
(* disk, on a partition, in a ZFS pool or on a logical volume; pools and   *)
(* volume groups may span partitions of several disks, and have a bucket   *)
(* of their own on each.  File systems are mounted when they are first     *)
(* asked for; this fails at times and is tried again.                      *)
(*                                                                         *)
(* Disks have different serials.  A mount point is named as the file       *)
(* system in it.  Legacy ZFS mounts and file names are left out.           *)
(***************************************************************************)

CONSTANTS
    Layouts    \* what may be on the disks: [raw, parts, pools, vgs, lvs, broken]

VARIABLES
    layout,
    diskMap,    \* DiskState::disk_map
    imported,   \* pools that are imported
    mounted,    \* file systems that are mounted
    found       \* the last answer

diskVars == <<layout, diskMap, imported, mounted, found>>

Bucket(type, comp) == [type |-> type, comp |-> comp, mountpoint |-> FALSE]

(* parse_zpool_import and the map of the volume groups: a pool or group *)
(* comes with its devices, of which several may be on one disk.         *)
PushAll(map, buckets, devs) ==
    LET Pushes(d) == FoldLeft(LAMBDA acc, dev : IF dev[1] = d THEN acc \o buckets ELSE acc, << >>, devs)
    IN  [d \in DOMAIN map |-> map[d] \o Pushes(d)]

(* A disk that can be mounted as it is has no partitions *)
ScanDisk(l, d) ==
    IF d \in l.raw
    THEN <<[Bucket("raw", <<d>>) EXCEPT !.mountpoint = TRUE]>>
    ELSE [i \in 1 .. Len(l.parts[d]) |-> Bucket("part", <<l.parts[d][i]>>)]

(* Logical volumes that cannot be activated are left out *)
ScanLvm(l, map) ==
    FoldLeft(LAMBDA m, lv : IF lv \in l.broken THEN m ELSE PushAll(m, <<Bucket("lvm", lv)>>, l.vgs[lv[1]]), map, l.lvs)

Scan(l) ==
    LET disks == [d \in DOMAIN l.parts |-> ScanDisk(l, d)]
        pools == FoldLeft(LAMBDA m, p : PushAll(m, <<Bucket("zpool", <<p.name>>)>>, p.devs), disks, l.pools)
    IN  ScanLvm(l, pools)

RestoreDisksInit ==
    /\ layout \in Layouts
    /\ diskMap = Scan(layout)
    /\ imported = {}
    /\ mounted = {<<"raw", d>> : d \in layout.raw}
    /\ found = [kind |-> "none"]

-----------------------------------------------------------------------------
ComponentDepth(type) == CASE type = "raw" -> 0 [] type \in {"part", "zpool"} -> 1 [] type = "lvm" -> 2

(* The name of a file system in the VM, by the disk for those on one *)
FsOf(d, b) == CASE b.type = "raw" -> <<"raw", d>> [] b.type = "part" -> <<"part", d, b.comp[1]>> [] OTHER -> <<b.type>> \o b.comp

FilterMut(d, type, comp) ==
    {i \in DOMAIN diskMap[d] : diskMap[d][i].type = type /\ (type = "raw" \/ diskMap[d][i].comp = comp)}
First(S) == CHOOSE i \in S : \A j \in S : i <= j

Dedup(s) == FoldLeft(LAMBDA acc, x : IF acc # << >> /\ Last(acc) = x THEN acc ELSE Append(acc, x), << >>, s)

(* resolve, with a path that ends at the disk, ... *)
BucketTypes(d) == Dedup([i \in DOMAIN diskMap[d] |-> diskMap[d][i].type])
ListTypes(d) ==
    /\ found' = [kind |-> "types", of |-> BucketTypes(d)]
    /\ UNCHANGED <<layout, diskMap, imported, mounted>>

(* ... that ends before the component of some level, ... *)
BucketComponents(d, type, level) ==
    {diskMap[d][i].comp[level] : i \in {j \in DOMAIN diskMap[d] : diskMap[d][j].type = type}}
ListComponents(d, type, level) ==
    /\ level <= ComponentDepth(type)
    /\ found' = [kind |-> "components", of |-> BucketComponents(d, type, level)]
    /\ UNCHANGED <<layout, diskMap, imported, mounted>>

(* ... or that has all its components *)
Answers(d, i) == found' = [kind |-> "path", disk |-> d, fs |-> FsOf(d, diskMap[d][i])]
Error == found' = [kind |-> "error"]
Marked(d, i) == diskMap' = [diskMap EXCEPT ![d][i].mountpoint = TRUE]

NoBucket(d, type, comp) ==
    /\ FilterMut(d, type, comp) = {}
    /\ Error
    /\ UNCHANGED <<layout, diskMap, imported, mounted>>

AlreadyMounted(d, i) ==
    /\ diskMap[d][i].mountpoint
    /\ Answers(d, i)
    /\ UNCHANGED <<layout, diskMap, imported, mounted>>

(* A partition of a volume group or a pool has no file system of its own. *)
(* The kernel holds it while a volume that scan_lvm has activated may lie *)
(* on it, and from the import of its pool on.                             *)
InGroup(fs) == {g \in DOMAIN layout.vgs : fs[1] = "part" /\ Tail(fs) \in ToSet(layout.vgs[g])}
InPool(fs) == {p \in ToSet(layout.pools) : fs[1] = "part" /\ Tail(fs) \in ToSet(p.devs)}
InUse(fs) ==
    \/ \E lv \in ToSet(layout.lvs) \ layout.broken : lv[1] \in InGroup(fs)
    \/ \E p \in InPool(fs) : <<"zpool", p.name>> \in imported

(* A file system that is mounted at its place already is taken as it is: *)
(* another bucket may have mounted it.                                    *)
TryMount(d, i) ==
    LET fs == FsOf(d, diskMap[d][i])
    IN  /\ ~diskMap[d][i].mountpoint /\ diskMap[d][i].type # "zpool" /\ (fs \in mounted \/ fs \notin layout.broken)
        /\ InGroup(fs) = {} /\ InPool(fs) = {}
        /\ mounted' = mounted \cup {fs}
        /\ Marked(d, i) /\ Answers(d, i)
        /\ UNCHANGED <<layout, imported>>

(* EBUSY is taken for that, but it is also what a device in use gives: the *)
(* empty directory is recorded and answered as its mount point.            *)
TryMountBusy(d, i) ==
    /\ ~diskMap[d][i].mountpoint /\ InUse(FsOf(d, diskMap[d][i]))
    /\ Marked(d, i) /\ Answers(d, i)
    /\ UNCHANGED <<layout, imported, mounted>>

(* A pool that was imported by an attempt that failed later is no obstacle *)
ImportPool(d, i) ==
    LET fs == FsOf(d, diskMap[d][i])
    IN  /\ ~diskMap[d][i].mountpoint /\ diskMap[d][i].type = "zpool" /\ fs \notin layout.broken
        /\ imported' = imported \cup {fs}
        /\ \/ mounted' = mounted \cup {fs} /\ Marked(d, i) /\ Answers(d, i)
           \/ mounted' \in {mounted, mounted \cup {fs}} /\ Error /\ UNCHANGED diskMap
        /\ UNCHANGED layout

MountFails(d, i) ==
    /\ ~diskMap[d][i].mountpoint
    /\ FsOf(d, diskMap[d][i]) \notin mounted
    /\ Error
    /\ UNCHANGED <<layout, diskMap, imported, mounted>>

BucketNames == {b.comp : b \in UNION {ToSet(diskMap[d]) : d \in DOMAIN diskMap}}
ResolveTypes == {"raw", "part", "zpool", "lvm"}
Resolve(d, type, comp) ==
    \/ NoBucket(d, type, comp)
    \/ /\ FilterMut(d, type, comp) # {}
       /\ LET i == First(FilterMut(d, type, comp))
          IN  AlreadyMounted(d, i) \/ TryMount(d, i) \/ TryMountBusy(d, i) \/ ImportPool(d, i) \/ MountFails(d, i)

RestoreDisksNext ==
    \E d \in DOMAIN diskMap :
        \/ ListTypes(d)
        \/ \E type \in ResolveTypes :
            (\E level \in 1 .. 2 : ListComponents(d, type, level)) \/ (\E comp \in BucketNames : Resolve(d, type, comp))

-----------------------------------------------------------------------------
(* What really is on a disk *)
ReallyOn(d) ==
    LET Touches(devs) == \E i \in DOMAIN devs : devs[i][1] = d
    IN  (IF d \in layout.raw THEN {<<"raw", d>>} ELSE {<<"part", d, n>> : n \in ToSet(layout.parts[d])})
        \cup {<<"zpool", p.name>> : p \in {q \in ToSet(layout.pools) : Touches(q.devs)}}
        \cup {<<"lvm">> \o lv : lv \in {v \in ToSet(layout.lvs) : v \notin layout.broken /\ Touches(layout.vgs[v[1]])}}

(* A path is answered with a file system that is on the disk of the path  *)
(* and that is mounted, though several buckets may stand for it; and no   *)
(* bucket takes another for mounted.  The one exception is a partition    *)
(* that belongs to a volume group or an imported pool (TryMountBusy): an  *)
(* empty directory is then answered, instead of an error.                 *)
ResolvedRight ==
    /\ found.kind = "path" => found.fs \in ReallyOn(found.disk) /\ (found.fs \in mounted \/ InUse(found.fs))
    /\ \A d \in DOMAIN diskMap : \A i \in DOMAIN diskMap[d] :
           LET fs == FsOf(d, diskMap[d][i])
           IN  diskMap[d][i].mountpoint => fs \in mounted \/ InUse(fs)

(* Types are listed once, as the comment in resolve promises. *)
TypesOnce == found.kind = "types" => \A i, j \in DOMAIN found.of : found.of[i] = found.of[j] => i = j

(* Whoever follows the lists finds all that is on a disk, and, unless it   *)
(* holds two volume groups, is offered nothing else: the list of the       *)
(* logical volumes does not look at the group in the path.                 *)
ListsComplete ==
    \A d \in DOMAIN diskMap :
        LET Path(fs) == IF fs[1] = "part" THEN <<fs[3]>> ELSE Tail(fs)
            Offered(type) ==
                CASE ComponentDepth(type) = 0 -> {<<d>>}
                  [] ComponentDepth(type) = 1 -> {<<n>> : n \in BucketComponents(d, type, 1)}
                  [] ComponentDepth(type) = 2 -> BucketComponents(d, type, 1) \X BucketComponents(d, type, 2)
        IN  /\ \A fs \in ReallyOn(d) :
                /\ fs[1] \in ToSet(BucketTypes(d)) /\ Path(fs) \in Offered(fs[1])
                /\ \E i \in FilterMut(d, fs[1], Path(fs)) : FsOf(d, diskMap[d][i]) = fs
            /\ Cardinality(BucketComponents(d, "lvm", 1)) <= 1 =>
                \A type \in ToSet(BucketTypes(d)) : \A c \in Offered(type) : FilterMut(d, type, c) # {}

RestoreDisksInv == ResolvedRight /\ TypesOnce /\ ListsComplete
=============================================================================
