------------------------------- MODULE Access -------------------------------
(***************************************************************************)
(* Who may do what on a datastore while users and permissions change.      *)
(*                                                                         *)
(* Every API call asks CachedUserInfo::new() for the users and the ACL     *)
(* tree, more than once in a call: to authenticate, in the handler, and    *)
(* again when it iterates over groups.  Each process keeps the last        *)
(* answer, valid while the two generation counters in shared memory are    *)
(* the ones read before; behind it each file has a cache of its own, keyed *)
(* by the modification time.  Files are replaced first and the counter is  *)
(* increased afterwards, all without a lock that readers would take.       *)
(*                                                                         *)
(* A namespace holds one group with one snapshot.  A configuration is a    *)
(* record with its version; replacing a file gives it the next one, and    *)
(* the version also stands for the modification time.                      *)
(***************************************************************************)
EXTENDS Integers, Sequences, FiniteSets, FiniteSetsExt, SequencesExt
(***************************************************************************)
(* The tree of access control lists (pbs-config/src/acl.rs) and the        *)
(* privileges that follow from it (cached_user_info.rs, backup/hierarchy). *)
(*                                                                         *)
(* A tree is the set of its entries: a role given to a user or token on a  *)
(* path, with or without propagation.  A node of the code's tree that has  *)
(* no entries decides nothing, so it needs no counterpart.                 *)
(***************************************************************************)

CONSTANTS
    User, Token,        \* the two kinds of authentication ids
    UserOf,             \* the user a token belongs to
    RootUser,           \* root@pam, which has every privilege
    RolePrivs,          \* the privileges of every role
    Store,              \* the acl path of the datastore
    Namespace           \* the namespaces of the datastore, sequences of names

ASSUME AclAssumption ==
    /\ RootUser \in User /\ User \cap Token = {}
    /\ UserOf \in [Token -> User]
    /\ "NoAccess" \in DOMAIN RolePrivs

Authid == User \cup Token
Privilege == UNION {RolePrivs[r] : r \in DOMAIN RolePrivs}
NodesAlong(path) == [i \in 1..Len(path) + 1 |-> SubSeq(path, 1, i - 1)]
AclPath(ns) == Store \o ns

-----------------------------------------------------------------------------
(* The roles of an id on one node: those that propagate, and on the last   *)
(* node of a path all of them; "NoAccess" stands for itself.               *)
ExtractRoles(tree, who, path, leaf) ==
    LET roles == {[role |-> e.role, propagate |-> e.propagate] :
                    e \in {f \in tree : f.path = path /\ f.who = who /\ (f.propagate \/ leaf)}}
    IN  IF \E r \in roles : r.role = "NoAccess" THEN {[role |-> "NoAccess", propagate |-> FALSE]} ELSE roles

(* Along a path a node with roles replaces what its parents gave *)
RolesOn(tree, who, path) ==
    FoldLeft(LAMBDA roles, node :
                LET new == ExtractRoles(tree, who, node, node = path)
                IN  IF new = {} THEN roles ELSE new,
             {}, NodesAlong(path))

RoleEntries(tree, path, who) == {e \in tree : e.path = path /\ e.who = who}

InsertUserRole(tree, path, who, role, propagate) ==
    (tree \ {e \in RoleEntries(tree, path, who) : role = "NoAccess" \/ e.role \in {role, "NoAccess"}})
        \cup {[path |-> path, who |-> who, role |-> role, propagate |-> propagate]}

DeleteUserRole(tree, path, who, role) == tree \ {e \in RoleEntries(tree, path, who) : e.role = role}

DeleteAuthid(tree, who) == {e \in tree : e.who # who}

(* The file: a line for each list of ids on a node, with the roles that     *)
(* all of them have; root's entries are not written.                       *)
HoldersOf(tree, path, role, propagate) ==
    {e.who : e \in {f \in tree : /\ f.path = path /\ f.role = role
                                 /\ f.propagate = propagate /\ f.who # RootUser}}

RoleList(roles) == IF "NoAccess" \in roles THEN {"NoAccess"} ELSE roles

WriteConfig(tree) ==
    {l \in {[path |-> e.path, propagate |-> e.propagate,
             who |-> HoldersOf(tree, e.path, e.role, e.propagate),
             roles |-> RoleList({r \in DOMAIN RolePrivs :
                 HoldersOf(tree, e.path, r, e.propagate) = HoldersOf(tree, e.path, e.role, e.propagate)})] :
            e \in tree} : l.who # {}}

ParseAclLine(tree, line) ==
    FoldSet(LAMBDA w, t : FoldSet(LAMBDA r, u : InsertUserRole(u, line.path, w, r, line.propagate), t, line.roles),
            tree, line.who)

(* Lines without propagation come before the ones with it *)
LoadConfig(lines) ==
    LET Sorted(p) == SetToSeq({l \in lines : l.propagate = p})
    IN  FoldLeft(ParseAclLine, {}, Sorted(FALSE) \o Sorted(TRUE))

-----------------------------------------------------------------------------
IsSuperuser(who) == who = RootUser

PrivsOf(roles) == UNION {RolePrivs[r.role] : r \in roles}

(* Privileges on a path, and those that are inherited below it; a token has *)
(* no more than its user.                                                  *)
LookupPrivsDetails(tree, who, path) ==
    LET Own(w) == IF IsSuperuser(w)
                  THEN [privs |-> Privilege, propagated |-> Privilege]
                  ELSE LET roles == RolesOn(tree, w, path)
                       IN  [privs |-> PrivsOf(roles), propagated |-> PrivsOf({r \in roles : r.propagate})]
    IN  IF who \in Token
        THEN [privs |-> Own(who).privs \cap Own(UserOf[who]).privs,
              propagated |-> Own(who).propagated \cap Own(UserOf[who]).propagated]
        ELSE Own(who)

LookupPrivs(tree, who, path) == LookupPrivsDetails(tree, who, path).privs

Below(path, anchor) == anchor \in Prefixes(path) /\ path # anchor

GetChildPaths(tree, who, anchor) ==
    {e.path : e \in {f \in tree : Below(f.path, anchor) /\ ExtractRoles(tree, who, f.path, TRUE) # {}}}

AnyPrivsBelow(tree, who, anchor, privs) ==
    \/ LookupPrivsDetails(tree, who, anchor).propagated \cap privs # {}
    \/ \E path \in GetChildPaths(tree, who, anchor) : LookupPrivs(tree, who, path) \cap privs # {}

(* Full access, access limited to the owner of a group, or none *)
CheckNsPrivsFull(tree, who, ns, full, partial) ==
    LET privs == LookupPrivs(tree, who, AclPath(ns))
    IN  IF privs \cap full # {} THEN "full"
        ELSE IF privs \cap partial # {} THEN "limited" ELSE "denied"

(* The owner itself, or the user of the token that is the owner *)
CheckBackupOwner(owner, who) == owner = who \/ (owner \in Token /\ UserOf[owner] = who)

NsPrivsOk == {"Modify", "Read", "Backup", "Audit"}

(* The iterator over all groups below a namespace; `filter` is FALSE when   *)
(* there is no id to check against.                                        *)
AccessibleGroups(tree, owner, anchor, filter, who, override, ownerAnd) ==
    {ns \in Namespace :
        /\ anchor \in Prefixes(ns)
        /\ LET privs == LookupPrivs(tree, who, AclPath(ns))
           IN  ~filter \/ /\ privs \cap NsPrivsOk # {}
                          /\ \/ privs \cap override # {}
                             \/ ownerAnd \subseteq privs /\ CheckBackupOwner(owner[ns], who)}

-----------------------------------------------------------------------------
(* What the comment on AclTree::roles promises: among the nodes along the  *)
(* path that give the id a role that applies there, the most specific one. *)
Applicable(tree, who, node, path) ==
    {e \in tree : e.path = node /\ e.who = who /\ (e.propagate \/ node = path)}

DecidingNode(tree, who, path) ==
    CHOOSE n \in Prefixes(path) :
        /\ Applicable(tree, who, n, path) # {}
        /\ \A m \in Prefixes(path) : Applicable(tree, who, m, path) # {} => Len(m) <= Len(n)

RefPrivsOfOne(tree, who, path) ==
    IF who = RootUser THEN Privilege
    ELSE IF \A n \in Prefixes(path) : Applicable(tree, who, n, path) = {} THEN {}
    ELSE UNION {RolePrivs[e.role] : e \in Applicable(tree, who, DecidingNode(tree, who, path), path)}

RefPrivs(tree, who, path) ==
    RefPrivsOfOne(tree, who, path) \cap (IF who \in Token THEN RefPrivsOfOne(tree, UserOf[who], path) ELSE Privilege)

(* For a tree that was set role by role: privileges are those the most      *)
(* specific node gives; what is saved and read again is the same tree       *)
(* without root's entries; privileges found below a path exist at an object *)
(* there; what is granted for a subtree is not lost by asking further down  *)
(* where nothing else is set.                                              *)
TreeRight(tree) ==
    /\ \A who \in Authid, ns \in Namespace :
        /\ LookupPrivs(tree, who, AclPath(ns)) = RefPrivs(tree, who, AclPath(ns))
        /\ AnyPrivsBelow(tree, who, AclPath(ns), NsPrivsOk) =>
            \/ RefPrivs(tree, who, AclPath(ns)) \cap NsPrivsOk # {}
            \/ \E e \in tree : Below(e.path, AclPath(ns)) /\ RefPrivs(tree, who, e.path) \cap NsPrivsOk # {}
        /\ \A sub \in Namespace :
            /\ Below(sub, ns) /\ who \in User
            /\ \A e \in tree : e.who = who => ~Below(e.path, AclPath(ns))
            => LookupPrivsDetails(tree, who, AclPath(ns)).propagated \subseteq LookupPrivs(tree, who, AclPath(sub))
    /\ LoadConfig(WriteConfig(tree)) = {e \in tree : e.who # RootUser}

-----------------------------------------------------------------------------


CONSTANTS
    Thread, ProcessOf,      \* calls run on threads of a process
    SyncRealm,              \* the users that come from a directory
    Scenes,                 \* which calls are made, by which threads, on which tree, and
                            \* the bound `max` on how often a file is replaced
    Files,                  \* the index files of a snapshot and their chunks
    NoThread

VARIABLES
    scene,
    userCfg,    \* user.cfg: [ids, off, ver]
    aclCfg,     \* acl.cfg: [lines, ver]
    gen,        \* the generation counters of ConfigVersionCache
    info,       \* CACHED_CONFIG of cached_user_info.rs, per process
    ucache,     \* CACHED_CONFIG of user.rs, per process
    acache,     \* CACHED_CONFIG of acl.rs, per process
    call,       \* the call a thread is in
    locked,     \* the locks of the two configuration files
    group       \* per namespace: owner, notes, and the snapshot's state

accessVars == <<scene, userCfg, aclCfg, gen, info, ucache, acache, call, locked, group>>

NoCfg == [ver |-> -1]
NoInfo == [user |-> NoCfg, acl |-> NoCfg, ugen |-> -1, agen |-> -1]
NoCall ==
    [pc |-> "idle", op |-> "none", who |-> RootUser, ns |-> << >>, stage |-> "none",
     since |-> [user |-> 0, acl |-> 0], read |-> [user |-> 0, acl |-> 0], user |-> NoCfg, acl |-> NoCfg,
     stat |-> -1, limited |-> FALSE, answer |-> {}, allowed |-> {}, change |-> {}]

Process == {ProcessOf[t] : t \in Thread}
Snapshot == [there |-> TRUE, protected |-> FALSE, log |-> FALSE, notes |-> FALSE, encrypted |-> FALSE]

AccessInit ==
    /\ scene \in Scenes
    /\ userCfg = [ids |-> scene.ids, off |-> {}, ver |-> 0]
    /\ aclCfg \in {[lines |-> WriteConfig(t), ver |-> 0] : t \in scene.trees}
    /\ gen = [user |-> 0, acl |-> 0]
    /\ info = [p \in Process |-> NoInfo]
    /\ ucache = [p \in Process |-> NoCfg] /\ acache = [p \in Process |-> NoCfg]
    /\ call = [t \in Thread |-> NoCall]
    /\ locked = [user |-> NoThread, acl |-> NoThread]
    /\ \E owner \in [Namespace -> scene.owners], e \in scene.encrypted :
        group = [ns \in Namespace |-> [owner |-> owner[ns], notes |-> FALSE, snap |-> [Snapshot EXCEPT !.encrypted = e]]]

cfgVars == <<scene, userCfg, aclCfg, gen, locked>>
cacheVars == <<info, ucache, acache>>

At(t, pc) == call[t].pc = pc
Goto(t, pc) == call' = [call EXCEPT ![t].pc = pc]
P(t) == ProcessOf[t]
Answer(t, a) == call' = [call EXCEPT ![t].pc = "done", ![t].answer = a]
Denied == {<<"denied">>}

(* A call comes in *)
Start(t) ==
    /\ At(t, "idle")
    /\ \E c \in scene.calls : 
        /\ t \in c.threads
        /\ call' = [call EXCEPT ![t] = [NoCall EXCEPT !.pc = "ugen", !.op = c.op, !.who = c.who, !.ns = c.ns,
                                                    !.stage = "auth", !.since = gen]]
    /\ UNCHANGED <<cfgVars, cacheVars, group>>

Return(t) ==
    /\ At(t, "done")
    /\ call' = [call EXCEPT ![t] = [NoCall EXCEPT !.pc = IF scene.once THEN "over" ELSE "idle"]]
    /\ UNCHANGED <<cfgVars, cacheVars, group>>

-----------------------------------------------------------------------------
(* CachedUserInfo::new() *)
ReadUserGeneration(t) ==
    /\ At(t, "ugen")
    /\ call' = [call EXCEPT ![t].pc = "agen", ![t].read.user = gen.user]
    /\ UNCHANGED <<cfgVars, cacheVars, group>>

ReadAclGeneration(t) ==
    /\ At(t, "agen")
    /\ call' = [call EXCEPT ![t].pc = "look", ![t].read.acl = gen.acl]
    /\ UNCHANGED <<cfgVars, cacheVars, group>>

(* The entry is good for five seconds: it may be too old at any time *)
LookInfo(t) ==
    /\ At(t, "look")
    /\ \/ /\ info[P(t)].ugen = call[t].read.user /\ info[P(t)].agen = call[t].read.acl
          /\ call' = [call EXCEPT ![t].pc = "use", ![t].user = info[P(t)].user, ![t].acl = info[P(t)].acl]
       \/ Goto(t, "ustat")
    /\ UNCHANGED <<cfgVars, cacheVars, group>>

StatUsers(t) ==
    /\ At(t, "ustat")
    /\ call' = [call EXCEPT ![t].pc = "ulook", ![t].stat = userCfg.ver]
    /\ UNCHANGED <<cfgVars, cacheVars, group>>

(* The inner caches are keyed by the time that was read before the content *)
LookUsers(t) ==
    /\ At(t, "ulook")
    /\ IF ucache[P(t)].ver >= 0 /\ ucache[P(t)].time = call[t].stat
       THEN call' = [call EXCEPT ![t].pc = "astat", ![t].user = ucache[P(t)].cfg]
       ELSE call' = [call EXCEPT ![t].pc = "ustore", ![t].user = userCfg]
    /\ UNCHANGED <<cfgVars, cacheVars, group>>

StoreUsers(t) ==
    /\ At(t, "ustore")
    /\ ucache' = [ucache EXCEPT ![P(t)] = [ver |-> 0, cfg |-> call[t].user, time |-> call[t].stat]]
    /\ Goto(t, "astat")
    /\ UNCHANGED <<cfgVars, info, acache, group>>

StatAcl(t) ==
    /\ At(t, "astat")
    /\ call' = [call EXCEPT ![t].pc = "alook", ![t].stat = aclCfg.ver]
    /\ UNCHANGED <<cfgVars, cacheVars, group>>

LookAcl(t) ==
    /\ At(t, "alook")
    /\ IF acache[P(t)].ver >= 0 /\ acache[P(t)].time = call[t].stat
       THEN call' = [call EXCEPT ![t].pc = "store", ![t].acl = acache[P(t)].cfg]
       ELSE call' = [call EXCEPT ![t].pc = "astore",
                                 ![t].acl = [tree |-> LoadConfig(aclCfg.lines), ver |-> aclCfg.ver]]
    /\ UNCHANGED <<cfgVars, cacheVars, group>>

StoreAcl(t) ==
    /\ At(t, "astore")
    /\ acache' = [acache EXCEPT ![P(t)] = [ver |-> 0, cfg |-> call[t].acl, time |-> call[t].stat]]
    /\ Goto(t, "store")
    /\ UNCHANGED <<cfgVars, info, ucache, group>>

(* A plausible slip: the generations of the moment instead of those read first *)
StoreInfoNow(t) ==
    /\ At(t, "store")
    /\ info' = [info EXCEPT ![P(t)] = [user |-> call[t].user, acl |-> call[t].acl, ugen |-> gen.user, agen |-> gen.acl]]
    /\ Goto(t, "use")
    /\ UNCHANGED <<cfgVars, ucache, acache, group>>

StoreInfo(t) ==
    /\ At(t, "store")
    /\ info' = [info EXCEPT ![P(t)] = [user |-> call[t].user, acl |-> call[t].acl,
                                       ugen |-> call[t].read.user, agen |-> call[t].read.acl]]
    /\ Goto(t, "use")
    /\ UNCHANGED <<cfgVars, ucache, acache, group>>

CachedUserInfo(t) ==
    \/ ReadUserGeneration(t) \/ ReadAclGeneration(t) \/ LookInfo(t)
    \/ StatUsers(t) \/ LookUsers(t) \/ StoreUsers(t)
    \/ StatAcl(t) \/ LookAcl(t) \/ StoreAcl(t) \/ StoreInfo(t)

-----------------------------------------------------------------------------
(* An id is active when its user is and, for a token, when the token is *)
IsActiveAuthId(cfg, who) ==
    LET Active(id) == id \in cfg.ids /\ id \notin cfg.off
    IN  Active(IF who \in Token THEN UserOf[who] ELSE who) /\ (who \in Token => Active(who))

Ask(t, stage) ==
    call' = [call EXCEPT ![t].pc = "ugen", ![t].stage = stage, ![t].since = gen, ![t].user = NoCfg, ![t].acl = NoCfg,
                                        ![t].stat = -1]

Authenticate(t) ==
    /\ At(t, "use") /\ call[t].stage = "auth"
    /\ IF IsActiveAuthId(call[t].user, call[t].who) THEN Ask(t, "handler") ELSE Answer(t, Denied)
    /\ UNCHANGED <<cfgVars, cacheVars, group>>

(* The privileges a handler asks for: for every group, or for an owned one *)
Requires(op) ==
    CASE op \in {"list_groups", "list_snapshots", "get_group_notes", "get_notes", "get_protection"} -> <<{"Audit"}, {"Backup"}>>
      [] op = "list_snapshot_files" -> <<{"Audit", "Read"}, {"Backup"}>>
      [] op \in {"download", "download_decoded", "catalog", "pxar_file_download", "reader"} -> <<{"Read"}, {"Backup"}>>
      [] op \in {"set_group_notes", "set_notes", "set_protection"} -> <<{"Modify"}, {"Backup"}>>
      [] op = "upload_backup_log" -> <<{}, {"Backup"}>>
      [] op \in {"delete_snapshot", "move_group"} -> <<{"Modify"}, {"Prune"}>>
      [] op = "verify" -> <<{"Verify"}, {"Backup"}>>

OwnGate == {"status", "list_datastores", "read_acl", "list_permissions", "update_acl", "realm_sync"}
Listing == {"list_groups", "list_snapshots", "verify"}

(* check_privs_and_load_store, up to the lookup of the owner.  Moving a     *)
(* group (here to the root namespace) needs privileges on both sides.       *)
CheckPrivs(t) ==
    LET c == call[t]
        r == Requires(c.op)
        g == CheckNsPrivsFull(c.acl.tree, c.who, c.ns, r[1], r[2])
        target == IF c.op = "move_group" THEN CheckNsPrivsFull(c.acl.tree, c.who, << >>, {"Modify"}, {"Backup"}) ELSE "full"
    IN  /\ At(t, "use") /\ c.stage = "handler" /\ c.op \notin OwnGate
        /\ IF "denied" \in {g, target} THEN Answer(t, Denied)
           ELSE call' = [call EXCEPT ![t].limited = "limited" \in {g, target},
                                     ![t].pc = IF "limited" \in {g, target} /\ c.op \notin Listing THEN "owner" ELSE "act"]
        /\ UNCHANGED <<cfgVars, cacheVars, group>>

CheckOwner(t) ==
    /\ At(t, "owner")
    /\ IF CheckBackupOwner(group[call[t].ns].owner, call[t].who) THEN Goto(t, "act") ELSE Answer(t, Denied)
    /\ UNCHANGED <<cfgVars, cacheVars, group>>

Acts(t, op) == At(t, "act") /\ call[t].op = op
Snap(t) == group[call[t].ns].snap
Readers(ns) == {t \in Thread : call[t].pc = "session" /\ call[t].ns = ns}
NothingElse == UNCHANGED <<cfgVars, cacheVars, group>>

(* Handlers that show something: {ns} when they show it, {} when they fail *)
Shown(t, ok) == Answer(t, IF ok THEN {call[t].ns} ELSE {})

Visible(t) == {ns \in {call[t].ns} : ~call[t].limited \/ CheckBackupOwner(group[ns].owner, call[t].who)}

ListGroups(t) == Acts(t, "list_groups") /\ Answer(t, Visible(t)) /\ NothingElse
ListSnapshots(t) == Acts(t, "list_snapshots") /\ Answer(t, {ns \in Visible(t) : group[ns].snap.there}) /\ NothingElse
ListSnapshotFiles(t) == Acts(t, "list_snapshot_files") /\ Shown(t, Snap(t).there) /\ NothingElse
GetGroupNotes(t) == Acts(t, "get_group_notes") /\ Shown(t, TRUE) /\ NothingElse
GetNotes(t) == Acts(t, "get_notes") /\ Shown(t, Snap(t).there) /\ NothingElse
GetProtection(t) == Acts(t, "get_protection") /\ Shown(t, TRUE) /\ NothingElse
DownloadFile(t) == Acts(t, "download") /\ Shown(t, Snap(t).there) /\ NothingElse
Decodable(t) == Snap(t).there /\ ~Snap(t).encrypted
DownloadFileDecoded(t) == Acts(t, "download_decoded") /\ Shown(t, Decodable(t)) /\ NothingElse
Catalog(t) == Acts(t, "catalog") /\ Shown(t, Decodable(t)) /\ NothingElse
PxarFileDownload(t) == Acts(t, "pxar_file_download") /\ Shown(t, Decodable(t)) /\ NothingElse

(* Handlers that change something *)
Changes(t, ok, new) ==
    /\ Shown(t, ok)
    /\ group' = IF ok THEN [group EXCEPT ![call[t].ns] = new] ELSE group
    /\ UNCHANGED <<cfgVars, cacheVars>>

SetGroupNotes(t) == Acts(t, "set_group_notes") /\ Changes(t, TRUE, [group[call[t].ns] EXCEPT !.notes = TRUE])
SetNotes(t) == Acts(t, "set_notes") /\ Changes(t, Snap(t).there, [group[call[t].ns] EXCEPT !.snap.notes = TRUE])

(* The log is looked for before the request's body is read, and stored after *)
UploadBackupLog(t) ==
    Acts(t, "upload_backup_log") /\ (IF Snap(t).log THEN Shown(t, FALSE) ELSE Goto(t, "store_log")) /\ NothingElse
AddLogBlob(t) == At(t, "store_log") /\ Changes(t, Snap(t).there, [group[call[t].ns] EXCEPT !.snap.log = TRUE])

SetProtection(t) ==
    /\ Acts(t, "set_protection")
    /\ \E on \in BOOLEAN :
        Changes(t, Snap(t).there /\ Readers(call[t].ns) = {}, [group[call[t].ns] EXCEPT !.snap.protected = on])
DeleteSnapshot(t) ==
    /\ Acts(t, "delete_snapshot")
    /\ Changes(t, Snap(t).there /\ Readers(call[t].ns) = {} /\ ~Snap(t).protected,
               [group[call[t].ns] EXCEPT !.snap = [Snapshot EXCEPT !.there = FALSE]])

(* What happens to a group that may be moved is the subject of GroupMove *)
MoveGroup(t) == Acts(t, "move_group") /\ Shown(t, TRUE) /\ NothingElse

(* A verification without group checks each namespace itself, with a newer  *)
(* view of the permissions, and only when it is limited to an owner.       *)
Verify(t) == Acts(t, "verify") /\ Ask(t, "list") /\ NothingElse

VerifyAllBackups(t) ==
    /\ At(t, "use") /\ call[t].stage = "list" /\ call[t].op = "verify"
    /\ LET owner == [ns \in Namespace |-> group[ns].owner]
       IN  Answer(t, AccessibleGroups(call[t].acl.tree, owner, call[t].ns, call[t].limited, call[t].who, {"Verify"}, {"Backup"}))
    /\ NothingElse

StatusPrivs(t) == LookupPrivs(call[t].acl.tree, call[t].who, Store)

(* The status of a datastore: full, or with counts only; the counts are     *)
(* those of all groups for an auditor.                                     *)
Status(t) ==
    /\ At(t, "use") /\ call[t].stage = "handler" /\ call[t].op = "status"
    /\ IF \/ StatusPrivs(t) \cap {"Audit", "Backup", "Read"} # {}
          \/ AnyPrivsBelow(call[t].acl.tree, call[t].who, Store, NsPrivsOk)
       THEN call' = [call EXCEPT ![t].pc = "ugen", ![t].stage = "list", ![t].since = gen,
                                 ![t].limited = "Audit" \notin StatusPrivs(t)]
       ELSE Answer(t, Denied)
    /\ NothingElse

GetSnapshotsCount(t) ==
    /\ At(t, "use") /\ call[t].stage = "list" /\ call[t].op = "status"
    /\ LET owner == [ns \in Namespace |-> group[ns].owner]
           groups == AccessibleGroups(call[t].acl.tree, owner, << >>, call[t].limited, call[t].who, {"Audit", "Read"}, {})
       IN  Answer(t, {ns \in groups : group[ns].snap.there})
    /\ NothingElse

(* Whether the datastore is in the list of datastores *)
ListDatastores(t) ==
    /\ At(t, "use") /\ call[t].stage = "handler" /\ call[t].op = "list_datastores"
    /\ Answer(t, IF \/ StatusPrivs(t) \cap {"Audit", "Backup"} # {}
                    \/ AnyPrivsBelow(call[t].acl.tree, call[t].who, Store, NsPrivsOk)
                 THEN {<< >>} ELSE {})
    /\ NothingElse

(* The entries a caller is shown, read from the file and not from the cache *)
ReadAcl(t) ==
    /\ At(t, "use") /\ call[t].stage = "handler" /\ call[t].op = "read_acl"
    /\ LET all == "SysAudit" \in LookupPrivs(call[t].acl.tree, call[t].who, <<"access", "acl">>)
           mine(e) == e.who \in Token /\ UserOf[e.who] = (IF call[t].who \in Token THEN UserOf[call[t].who] ELSE call[t].who)
       IN  call' = [call EXCEPT ![t].pc = "done", ![t].answer = {},
                                ![t].change = {e \in LoadConfig(aclCfg.lines) : all \/ mine(e)}]
    /\ NothingElse

(* The privileges of an id on each path of the tree: on all of them for an  *)
(* auditor, for others only their own and those of their tokens.           *)
ListPermissions(t) ==
    /\ At(t, "use") /\ call[t].stage = "handler" /\ call[t].op = "list_permissions"
    /\ \E of \in Authid :
        IF \/ of = call[t].who
           \/ "SysAudit" \in LookupPrivs(call[t].acl.tree, call[t].who, <<"access">>)
           \/ of \in Token /\ call[t].who \in User /\ UserOf[of] = call[t].who
        THEN Answer(t, {ns \in Namespace : LookupPrivs(call[t].acl.tree, of, AclPath(ns)) # {}})
        ELSE Answer(t, Denied)
    /\ NothingElse

-----------------------------------------------------------------------------
(* Reader sessions: the snapshot's directory is looked for before the lock   *)
OpenReader(t) ==
    /\ Acts(t, "reader")
    /\ IF Snap(t).there THEN Goto(t, "lock") ELSE Answer(t, {})
    /\ NothingElse

LockShared(t) == At(t, "lock") /\ call[t].op = "reader" /\ Goto(t, "session") /\ NothingElse

(* Downloading an index makes its chunks available to the session *)
ReaderDownload(t) ==
    /\ At(t, "session") /\ Snap(t).there
    /\ \E f \in DOMAIN Files[call[t].ns] :
        call' = [call EXCEPT ![t].allowed = @ \cup Files[call[t].ns][f]]
    /\ NothingElse

DownloadChunk(t) ==
    /\ At(t, "session")
    /\ \E c \in call[t].allowed : call' = [call EXCEPT ![t].change = {c}]
    /\ NothingElse

CloseReader(t) == At(t, "session") /\ Answer(t, {}) /\ NothingElse

-----------------------------------------------------------------------------
(* Changes of the configuration: a file is replaced, then its generation    *)
(* counter is increased; both under the lock of the file.                  *)
UserVar == <<scene, aclCfg, info, ucache, acache, group>>
AclVar == <<scene, userCfg, info, ucache, acache, group>>

(* Users without the privilege may only give roles to their own tokens *)
MayUpdateAcl(t, who) ==
    \/ "PermissionsModify" \in LookupPrivs(call[t].acl.tree, call[t].who, <<"access", "acl">>)
    \/ who \in Token /\ call[t].who \in User /\ UserOf[who] = call[t].who

UpdateAclBegin(t) ==
    /\ At(t, "use") /\ call[t].stage = "handler" /\ call[t].op = "update_acl"
    /\ \E u \in scene.updates :
        IF MayUpdateAcl(t, u.who) THEN call' = [call EXCEPT ![t].pc = "lock", ![t].change = {u}] ELSE Answer(t, Denied)
    /\ NothingElse

(* A role is only given to a user or token that exists *)
UpdateAclReplace(t) ==
    /\ At(t, "lock") /\ call[t].op = "update_acl"
    /\ locked.acl = NoThread
    /\ LET u == CHOOSE u \in call[t].change : TRUE
           tree == LoadConfig(aclCfg.lines)
       IN  IF u.delete \/ u.who \in userCfg.ids
           THEN /\ aclCfg.ver < scene.max
                /\ aclCfg' = [lines |-> WriteConfig(IF u.delete THEN DeleteUserRole(tree, u.path, u.who, u.role)
                                                    ELSE InsertUserRole(tree, u.path, u.who, u.role, u.propagate)),
                              ver |-> aclCfg.ver + 1]
                /\ locked' = [locked EXCEPT !.acl = t] /\ Goto(t, "bump")
           ELSE Answer(t, {}) /\ UNCHANGED <<aclCfg, locked>>
    /\ UNCHANGED <<AclVar, gen>>

IncreaseAclGeneration(t) ==
    /\ At(t, "bump")
    /\ gen' = [gen EXCEPT !.acl = @ + 1]
    /\ locked' = [user |-> IF locked.user = t THEN NoThread ELSE locked.user, acl |-> NoThread]
    /\ Answer(t, {})
    /\ UNCHANGED <<AclVar, aclCfg>>

(* The realm sync: users found in the directory are created, vanished ones *)
(* removed with their tokens, and with their ACL entries if so configured;  *)
(* it holds both locks and saves the users first.                          *)
RealmSyncBegin(t) ==
    /\ At(t, "use") /\ call[t].stage = "handler" /\ call[t].op = "realm_sync"
    /\ Goto(t, "sync")
    /\ NothingElse

Vanished(found) == {u \in SyncRealm \cap userCfg.ids : u \notin found}
WithTokens(us) == us \cup {k \in Token : UserOf[k] \in us}

SyncUsers(t) ==
    /\ At(t, "sync") /\ locked = [user |-> NoThread, acl |-> NoThread]
    /\ userCfg.ver < scene.max /\ aclCfg.ver < scene.max
    /\ \E found \in SUBSET SyncRealm, remove \in SUBSET {"entry", "acl"}, enable \in BOOLEAN :
        LET gone == IF "entry" \in remove THEN WithTokens(Vanished(found)) ELSE {}
            new == found \ userCfg.ids
        IN  /\ userCfg' = [ids |-> (userCfg.ids \cup found) \ gone,
                           off |-> (userCfg.off \ gone) \cup (IF enable THEN {} ELSE new), ver |-> userCfg.ver + 1]
            /\ call' = [call EXCEPT ![t].pc = "ubump", ![t].change = IF "acl" \in remove THEN gone ELSE {}]
    /\ locked' = [user |-> t, acl |-> t]
    /\ UNCHANGED <<UserVar, gen>>

SyncUserGeneration(t) ==
    /\ At(t, "ubump")
    /\ gen' = [gen EXCEPT !.user = @ + 1]
    /\ Goto(t, "syncacl")
    /\ UNCHANGED <<UserVar, userCfg, locked>>

(* The second file may fail to be saved: the entries of ids that are gone stay *)
SyncAcl(t) ==
    /\ At(t, "syncacl")
    /\ \/ /\ aclCfg' = [lines |-> WriteConfig(FoldSet(LAMBDA w, tree : DeleteAuthid(tree, w),
                                                      LoadConfig(aclCfg.lines), call[t].change)),
                        ver |-> aclCfg.ver + 1]
          /\ Goto(t, "bump") /\ UNCHANGED locked
       \/ /\ locked' = [user |-> NoThread, acl |-> NoThread]
          /\ Answer(t, {}) /\ UNCHANGED aclCfg
    /\ UNCHANGED <<AclVar, gen>>

(* A user is disabled or enabled, as update_user does it *)
UpdateUser(t) ==
    /\ At(t, "idle") /\ t \in scene.disable /\ locked.user = NoThread
    /\ userCfg.ver < scene.max
    /\ \E u \in userCfg.ids \cap User :
        userCfg' = [userCfg EXCEPT !.off = IF u \in @ THEN @ \ {u} ELSE @ \cup {u}, !.ver = @ + 1]
    /\ locked' = [locked EXCEPT !.user = t]
    /\ call' = [call EXCEPT ![t] = [NoCall EXCEPT !.pc = "saved"]]
    /\ UNCHANGED <<UserVar, gen>>

UserSaved(t) ==
    /\ At(t, "saved")
    /\ gen' = [gen EXCEPT !.user = @ + 1]
    /\ locked' = [locked EXCEPT !.user = NoThread]
    /\ call' = [call EXCEPT ![t] = NoCall]
    /\ UNCHANGED <<UserVar, userCfg>>

Handlers(t) ==
    \/ Authenticate(t) \/ CheckPrivs(t) \/ CheckOwner(t)
    \/ ListGroups(t) \/ ListSnapshots(t) \/ ListSnapshotFiles(t) \/ GetGroupNotes(t) \/ GetNotes(t) \/ GetProtection(t)
    \/ DownloadFile(t) \/ DownloadFileDecoded(t) \/ Catalog(t) \/ PxarFileDownload(t)
    \/ SetGroupNotes(t) \/ SetNotes(t) \/ UploadBackupLog(t) \/ AddLogBlob(t) \/ SetProtection(t) \/ DeleteSnapshot(t) \/ MoveGroup(t)
    \/ Verify(t) \/ VerifyAllBackups(t) \/ Status(t) \/ GetSnapshotsCount(t) \/ ListDatastores(t)
    \/ ReadAcl(t) \/ ListPermissions(t)
    \/ OpenReader(t) \/ LockShared(t) \/ ReaderDownload(t) \/ DownloadChunk(t) \/ CloseReader(t)

ConfigChanges(t) ==
    \/ UpdateAclBegin(t) \/ UpdateAclReplace(t) \/ IncreaseAclGeneration(t)
    \/ RealmSyncBegin(t) \/ SyncUsers(t) \/ SyncUserGeneration(t) \/ SyncAcl(t)
    \/ UpdateUser(t) \/ UserSaved(t)

AccessNext == \E t \in Thread : Start(t) \/ Return(t) \/ CachedUserInfo(t) \/ Handlers(t) \/ ConfigChanges(t)

-----------------------------------------------------------------------------
(* A call never decides from users or permissions older than those that were *)
(* published when it asked for them.                                        *)
DecidesFromCurrent ==
    \A t \in Thread : At(t, "use") =>
        call[t].user.ver >= call[t].since.user /\ call[t].acl.ver >= call[t].since.acl

(* The generation under which a process has cached its view is never ahead of *)
(* the view: nobody who reads the same generations is served something older. *)
CacheNotAhead ==
    \A p \in Process : info[p].ugen <= info[p].user.ver /\ info[p].agen <= info[p].acl.ver

(* What is shown or changed with full access or by an owner, in terms of the *)
(* documented privileges and of the most specific ACL node.                  *)
RefAllows(c, ns, full, partial) ==
    LET privs == RefPrivs(c.acl.tree, c.who, AclPath(ns))
    IN  privs \cap full # {} \/ (privs \cap partial # {} /\ CheckBackupOwner(group[ns].owner, c.who))

AnswersRight ==
    \A t \in Thread :
        LET c == call[t]
        IN  /\ c.pc = "done" /\ c.op \notin OwnGate /\ c.answer # Denied /\ (c.op = "verify" => c.limited) =>
                \A ns \in c.answer : RefAllows(c, ns, Requires(c.op)[1], Requires(c.op)[2])
            /\ c.pc = "done" /\ c.op = "status" /\ c.answer # Denied =>
                \A ns \in Namespace :
                    group[ns].snap.there /\ RefAllows(c, ns, {"Audit", "Read"}, {"Backup"}) /\ scene.threads = 1 =>
                        ns \in c.answer

(* A session reads chunks of its own snapshot only, and the snapshot of a    *)
(* session that has opened an index is not removed under it.                 *)
SessionsRight ==
    \A t \in Thread : At(t, "session") =>
        /\ call[t].allowed \subseteq UNION Range(Files[call[t].ns])
        /\ call[t].allowed # {} => Snap(t).there

(* A realm sync that removes a user removes the user's tokens with it *)
TokensHaveUsers == \A k \in Token \cap userCfg.ids : UserOf[k] \in userCfg.ids

AccessInv ==
    /\ DecidesFromCurrent /\ CacheNotAhead /\ AnswersRight /\ SessionsRight /\ TokensHaveUsers
    /\ scene.trace => TreeRight(LoadConfig(aclCfg.lines))
=============================================================================
