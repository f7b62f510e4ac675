------------------------------ MODULE MCClient ------------------------------
(* The backup client and the session it talks to, part by part: an orderly   *)
(* session on the server, the archives the client writes, and their upload,  *)
(* what API calls and readers are permitted, the backup and restore commands *)
(* with their keys, the extraction of archives, and the machines of the file *)
(* restore.                                                                  *)
EXTENDS BackupSession, ClientUpload, Access, ClientJob, Extract, FileRestore

(* The scenes of the access model: which calls are made on which ACL trees *)

Base == [threads |-> 1, calls |-> {}, trees |-> {{}}, ids |-> {"root", "u1", "k1"}, owners |-> {"u1"},
         encrypted |-> {FALSE}, updates |-> {}, disable |-> {}, max |-> 1, once |-> FALSE, trace |-> FALSE]
MCUserOf == [k \in {"k1"} |-> "u1"]
MCStore == <<"datastore", "s">>
MCNs == {<< >>, <<"n">>, <<"n", "m">>}
MCRoles == [NoAccess |-> {}, Audit |-> {"Audit"}, Backup |-> {"Backup"}, Reader |-> {"Audit", "Read"}, PowerUser |-> {"Backup", "Prune"},
            Admin |-> {"Audit", "Read", "Backup", "Prune", "Modify", "Verify", "SysAudit", "PermissionsModify"}]
MCProcessOf == [t1 |-> "proxy", t2 |-> "proxy", t3 |-> "api"]
MCFilesOf == [ns \in MCNs |-> [index |-> {<<"i">> \o ns, <<"shared">>}, catalog |-> {<<"c">> \o ns}]]
E(path, who, role, p) == [path |-> path, who |-> who, role |-> role, propagate |-> p]
Put(tree, es) == FoldLeft(LAMBDA t, e : InsertUserRole(t, e.path, e.who, e.role, e.propagate), tree, es)
Paths == {<< >>, MCStore, MCStore \o <<"n">>}
Entries == {E(p, w, r, b) : p \in {MCStore, MCStore \o <<"n">>}, w \in {"u1", "k1"}, r \in {"Backup", "NoAccess"}, b \in BOOLEAN}
Entries2 == {E(p, w, r, b) : p \in Paths, w \in {"u1", "k1"}, r \in {"Audit", "NoAccess"}, b \in BOOLEAN}
            \cup {E(<< >>, "root", "NoAccess", TRUE)}
TreesScene == [Base EXCEPT !.trace = TRUE, !.threads = 0, !.trees = {Put({}, <<a, b>>) : a, b \in Entries2} \cup {Put({}, <<a, b, c>>) : a \in Entries2, b \in Entries, c \in {E(MCStore \o <<"n", "m">>, w, "Backup", b) : w \in {"u1", "k1"}, b \in BOOLEAN}}]
Get == [threads |-> {"t1"}, op |-> "get_notes", who |-> "k1", ns |-> << >>]
CacheScene == [Base EXCEPT !.threads = 2, !.max = 2,
    !.calls = {Get, [Get EXCEPT !.threads = {"t3"}, !.op = "update_acl", !.who = "root"]},
    !.trees = {{E(MCStore, w, "Backup", TRUE) : w \in {"u1", "k1"}}},
    !.updates = {[path |-> MCStore, who |-> "u1", role |-> "Backup", propagate |-> TRUE, delete |-> TRUE]}, !.disable = {}]
Ops == {"list_groups", "list_snapshots", "get_group_notes", "get_notes", "get_protection", "list_snapshot_files", "download",
        "download_decoded", "catalog", "pxar_file_download", "reader", "set_group_notes", "set_notes", "set_protection",
        "upload_backup_log", "delete_snapshot", "move_group", "verify", "status", "list_datastores", "read_acl", "list_permissions"}
OpsScene == [Base EXCEPT !.once = TRUE, !.calls = {[threads |-> {"t1"}, op |-> o, who |-> w, ns |-> n] : o \in Ops, w \in {"u1", "k1"}, n \in {<< >>, <<"n">>}},
    !.owners = {"u1", "k1"}, !.encrypted = BOOLEAN,
    !.trees = {{E(MCStore, w, "PowerUser", TRUE) : w \in {"u1", "k1"}}, {E(MCStore, "u1", "Admin", TRUE), E(MCStore \o <<"n">>, "k1", "Reader", FALSE)}, {E(<< >>, "u1", "Admin", TRUE)}}]
TwoScene == [Base EXCEPT !.threads = 3, !.disable = {"t3"}, !.calls = {[Get EXCEPT !.threads = {"t1", "t2"}]}, !.trees = {{E(MCStore, w, "PowerUser", TRUE) : w \in {"u1", "k1"}}}]
ReadScene == [Base EXCEPT !.threads = 2, !.calls = {[Get EXCEPT !.threads = {"t1"}, !.op = "reader"], [Get EXCEPT !.threads = {"t2"}, !.who = "root", !.op = "delete_snapshot"]},
    !.trees = {{E(MCStore, w, "PowerUser", TRUE) : w \in {"u1", "k1"}}}]
SyncScene == [Base EXCEPT !.threads = 2, !.ids = {"root", "u1", "k1", "u2"},
    !.calls = {[Get EXCEPT !.threads = {"t1"}], [Get EXCEPT !.threads = {"t3"}, !.who = "root", !.op = "realm_sync"]},
    !.trees = {{E(MCStore, w, "Backup", TRUE) : w \in {"u1", "k1"}}}]
MCScenes == {Base, CacheScene, TwoScene, OpsScene, ReadScene, SyncScene, TreesScene}

-----------------------------------------------------------------------------

(* The client's commands: backups and restores with their keys, archives     *)
(* that are extracted, and the virtual machines of the file restore.         *)

(* Backups with and without keys, and restores of each kind of archive *)
BackupCall(mode, key, specs, detection) ==
    [mode |-> mode, key |-> key, defaultKey |-> NoKey, master |-> FALSE, defaultMaster |-> FALSE,
     specs |-> specs, detection |-> detection, dry |-> FALSE]
MCBackupCalls(n) ==
    IF n = 1
    THEN {BackupCall("unset", NoKey, <<"conf", "root">>, "legacy"), BackupCall("sign-only", "k1", <<"root">>, "metadata")}
    ELSE {BackupCall("sign-only", "k1", <<"root">>, "metadata"),
          [BackupCall("unset", NoKey, <<"disk", "root">>, "metadata") EXCEPT !.defaultKey = "k2", !.defaultMaster = TRUE],
          [BackupCall("encrypt", "k1", <<"conf">>, "data") EXCEPT !.dry = TRUE]}
RestoreCall(archive, key) ==
    [mode |-> "unset", key |-> key, defaultKey |-> NoKey, master |-> FALSE, defaultMaster |-> FALSE,
     name |-> archive, latest |-> TRUE, ignore |-> FALSE]
MCRestoreCalls ==
    {RestoreCall("pxar", "k1"), RestoreCall("conf", NoKey), RestoreCall("rsa", NoKey),
     [RestoreCall("disk", "k1") EXCEPT !.latest = FALSE],
     [RestoreCall("mpxar", "k2") EXCEPT !.ignore = TRUE]}

(* Archives with patterns on two levels, a hard link and a device, a name *)
(* that is not valid, an archive that ends early, and hard links to        *)
(* themselves and to a directory                                           *)
Member(kind, entry, match) == [kind |-> kind, name |-> entry, match |-> match, target |-> << >>]
Dir(entry, match) == Member("dir", entry, match)
Leaving == Member("end", "", "none")
Regular(entry, match) == Member("file", entry, match)
Plain(kind, entry) == Member(kind, entry, "none")
HardLink(entry, target) == [Plain("hardlink", entry) EXCEPT !.target = target]

MatchKinds == {"none", "include", "exclude"}
MCExtracted ==
    {<<Dir("d", a), Regular("f", "none"), Dir("s", b), Regular("g", c), Leaving, Plain("symlink", "l"), Leaving,
       Regular("h", c), Leaving>> : a \in MatchKinds, b \in MatchKinds, c \in MatchKinds}
    \cup {<<Regular("f", "none"), Dir("d", a), HardLink("k", <<"f">>), Plain("device", "v"), Leaving,
            Regular("h", "none"), Leaving>> : a \in MatchKinds}
    \cup {<<Dir("d", "none"), Regular("f", "none"), Leaving, Plain("bad", "x"), Leaving>>,
          <<Dir("d", "none"), Regular("f", "none")>>}
    \cup {<<Dir("d", "none"), HardLink("k", t), Leaving, Leaving>> : t \in {<<"d", "k">>, <<"d">>}}

(* The commands restore and pxar extract, and the file restore's extractor *)
MCExtractOptions ==
    [driver : {"iter"}, matchDefault : BOOLEAN, allowExisting : BOOLEAN, handler : {"none", "device", "all"},
     overwrite : {{}, {"file", "symlink", "hardlink"}}]
    \cup {[driver |-> "seq", matchDefault |-> TRUE, allowExisting |-> FALSE, handler |-> "all", overwrite |-> {}]}

(* Nothing at the target, or what is in the way of an entry *)
Located(path, kind, n) == path :> [kind |-> kind, ino |-> n]
DirThere == Located(<<"d">>, "dir", 0)
MCTargets ==
    {<< >>, Located(<<"d">>, "file", 1), DirThere @@ Located(<<"d", "s">>, "dir", 0), DirThere @@ Located(<<"d", "s">>, "symlink", 1),
     DirThere @@ Located(<<"d", "l">>, "file", 1),
     DirThere @@ Located(<<"h">>, "file", 1) @@ Located(<<"d", "l">>, "dir", 0) @@ Located(<<"d", "k">>, "file", 2)}

MCCases == [entries : MCExtracted, opt : MCExtractOptions, target : MCTargets]
OneCase == CHOOSE c \in MCCases : c.target = << >>
(* Two users, commands that need a VM, list the VMs and stop one *)
MCUid == [root |-> 0, www |-> 1]
VmCommand(op, user, snap) == [op |-> op, user |-> user, snap |-> snap]
MCCmdCalls ==
    [c1 |-> {VmCommand("extract", "root", "s2")},
     c2 |-> {VmCommand("list", "root", "s1"), VmCommand("extract", "www", "s1"),
             VmCommand("status", "root", "s1"), VmCommand("stop", "root", "s2")}]

(* Pools and volume groups inside a disk, over two disks, over partitions of *)
(* one, and two groups on one disk                                           *)
Pool(n, devs) == [name |-> n, devs |-> devs]
Layout(raw, p1, p2, pools, g, h, lvs, broken) ==
    [raw |-> raw, parts |-> [d1 |-> p1, d2 |-> p2], pools |-> pools, vgs |-> [g |-> g, h |-> h], lvs |-> lvs, broken |-> broken]
P11 == <<"d1", "1">>
P12 == <<"d1", "2">>
P21 == <<"d2", "1">>
MCLayouts ==
    {Layout({"d2"}, <<"1", "2">>, << >>, <<Pool("q", <<P11, P12>>)>>, << >>, << >>, << >>, {}),
     Layout({}, <<"1">>, <<"1">>, << >>, <<P11, P21>>, << >>, <<<<"g", "x">>, <<"g", "z">>>>, {}),
     Layout({}, <<"1", "2">>, << >>, <<Pool("p", <<P12, <<"d2">>>>)>>, <<P11>>, << >>, <<<<"g", "x">>>>, {}),
     Layout({}, <<"1", "2">>, <<"1">>, <<Pool("p", <<P21>>)>>, <<P11>>, <<P12>>,
            <<<<"g", "x">>, <<"h", "y">>, <<"g", "z">>>>, {<<"g", "z">>})}
OneLayout == CHOOSE l \in MCLayouts : l.raw # {}

-----------------------------------------------------------------------------


VARIABLE part

fileRestoreVars == <<vmVars, daemonVars, diskVars>>
commandVars == <<jobVars, extractVars, fileRestoreVars>>
clientVars == <<part, vars, pxarVars, uploadVars, accessVars, commandVars>>

(* A previous archive with equal chunks, and files that share chunks *)
MCPayload == <<"start", "a", "b", "a", "b", "c", "d", "e", "tail">>
MCEnds == <<1, 3, 5, 8, 9>>
MCFiles ==
    [f1 |-> [at |-> 1, size |-> 1], f2 |-> [at |-> 2, size |-> 1], f3 |-> [at |-> 3, size |-> 1],
     f4 |-> [at |-> 4, size |-> 1], f5 |-> [at |-> 5, size |-> 2], f6 |-> [at |-> 7, size |-> 1], f7 |-> [at |-> 2, size |-> 1]]

File(n, same) == [kind |-> "file", name |-> n, same |-> same, inode |-> 0, of |-> n, size |-> 1]
Link(n, of) == [kind |-> "file", name |-> n, same |-> TRUE, inode |-> 1, of |-> of, size |-> 1]
Entry(kind) == [kind |-> kind, name |-> "d", same |-> FALSE, inode |-> 0, of |-> "d", size |-> 0]
Maybe(S) == {<< >>} \cup {<<x>> : x \in S}

(* Every tree of these entries, with or without a directory around its tail *)
MCTrees ==
    {a \o d \o b \o c \o e \o f \o (IF d = << >> THEN d ELSE <<Entry("end")>>) :
        a \in Maybe({File("f1", TRUE), Link("f1", "f1")}), d \in Maybe({Entry("dir")}),
        b \in Maybe({File("f3", TRUE), File("f3", FALSE)}),
        c \in Maybe({File("f4", TRUE), Link("l", "f1"), Entry("other")}),
        e \in Maybe({File("f5", TRUE)}), f \in {<<File("f6", TRUE)>>, <<File("f7", TRUE)>>}}

(* Uploaded: injections before, between and behind new files *)
MCUploaded ==
    {<<File("f1", FALSE), File("f5", TRUE), File("f6", TRUE)>>,
     <<File("f1", TRUE), File("g", FALSE), File("f5", TRUE)>>}
MCWalks == MCTrees \cup MCUploaded

OneWalk == <<File("f1", FALSE), File("f5", TRUE), File("f6", TRUE)>>

(* Only the part that is looked at starts in more than one state *)
ClientInit ==
    /\ part \in {"session", "archive", "upload", "access", "jobs", "extract", "vms", "daemon", "disks"}
    /\ walk \in (CASE part = "archive" -> MCWalks [] part = "upload" -> MCUploaded [] OTHER -> {OneWalk})
    /\ scene \in (IF part = "access" THEN MCScenes \ {Base} ELSE {Base})
    /\ ar \in (IF part = "extract" THEN MCCases ELSE {OneCase})
    /\ Init /\ PxarInit
    /\ part \notin {"archive", "upload"} => ~arch.reuse
    /\ UploadInit
    /\ part # "upload" => up.fixed = 0 /\ up.known = PrevDigests
    /\ layout \in (IF part = "disks" THEN MCLayouts ELSE {OneLayout})
    /\ AccessInit /\ ClientJobInit /\ ExtractInit
    /\ RestoreVMsInit /\ RestoreDaemonInit /\ RestoreDisksInit

Session == part = "session" /\ Next /\ UNCHANGED <<part, pxarVars, uploadVars, accessVars, commandVars>>
Archive == part = "archive" /\ PxarNext /\ UNCHANGED <<part, vars, uploadVars, accessVars, commandVars>>
Upload ==
    /\ part = "upload"
    /\ \/ PxarNext /\ UNCHANGED uploadVars
       \/ UploadNext /\ UNCHANGED pxarVars
    /\ UNCHANGED <<part, vars, accessVars, commandVars>>
Accesses == part = "access" /\ AccessNext /\ UNCHANGED <<part, vars, pxarVars, uploadVars, commandVars>>

Jobs ==
    /\ part = "jobs" /\ ClientJobNext
    /\ UNCHANGED <<part, vars, pxarVars, uploadVars, accessVars, extractVars, fileRestoreVars>>
Extraction ==
    /\ part = "extract" /\ ExtractNext
    /\ UNCHANGED <<part, vars, pxarVars, uploadVars, accessVars, jobVars, fileRestoreVars>>

Elsewhere == UNCHANGED <<part, vars, pxarVars, uploadVars, accessVars, jobVars, extractVars>>
RestoreMachines == part = "vms" /\ RestoreVMsNext /\ Elsewhere /\ UNCHANGED <<daemonVars, diskVars>>
RestoreWatchdog == part = "daemon" /\ RestoreDaemonNext /\ Elsewhere /\ UNCHANGED <<vmVars, diskVars>>
RestorePaths == part = "disks" /\ RestoreDisksNext /\ Elsewhere /\ UNCHANGED <<vmVars, daemonVars>>

AllNext == Session \/ Archive \/ Upload \/ Accesses \/ Jobs \/ Extraction \/ RestoreMachines \/ RestoreWatchdog \/ RestorePaths

AllSpec == ClientInit /\ [][AllNext]_clientVars

-----------------------------------------------------------------------------

(* The client's commands: a backup signs what it read, a restore writes what *)
(* was signed, an extraction puts each entry where the archive has it, and   *)
(* the file restore reads the snapshot and the file system it was asked for, *)
(* from a machine that runs as long as it is used.                           *)
CommandsInv ==
    /\ part = "jobs" => ClientJobInv
    /\ part = "extract" => ExtractInv
    /\ part = "vms" => RestoreVMsInv
    /\ part = "daemon" => RestoreDaemonInv
    /\ part = "disks" => RestoreDisksInv
=============================================================================
