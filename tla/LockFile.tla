------------------------------ MODULE LockFile ------------------------------
(***************************************************************************)
(* The lock file of a group or a snapshot under /run.  lock_helper opens   *)
(* or creates the file, takes the lock of its inode without waiting, and   *)
(* then compares the inode with the one that is at the path now.  The      *)
(* exclusive holder that destroys what the file stands for unlinks it and  *)
(* keeps the lock of the unlinked inode until it has cleaned up.  The      *)
(* directory of a new group or snapshot is created before the lock is      *)
(* taken, so also while somebody else is destroying the previous one.      *)
(***************************************************************************)
EXTENDS Integers

CONSTANTS
    User,     \* tasks that use the object
    Holdable, \* inode numbers, used again when nothing refers to them
    LockNone

ASSUME HoldableAssumption == LockNone \notin Holdable

VARIABLES
    path,     \* inode at the path of the lock file
    holders,  \* holders of the lock of each inode
    user,     \* what the users are doing
    exists    \* the directory of the group or snapshot

lockVars == <<path, holders, user, exists>>

-----------------------------------------------------------------------------

UserState ==
    [step  : {"idle", "opened", "locked", "using", "destroyed", "unlinked"},
     mode  : {"shared", "exclusive", "creating"},    \* creating: exclusive, of a directory of its own making
     inode : Holdable \cup {LockNone}]
NotUsing == [step |-> "idle", mode |-> "shared", inode |-> LockNone]

LockInit ==
    /\ path = LockNone
    /\ holders = [i \in Holdable |-> {}]
    /\ user = [u \in User |-> NotUsing]
    /\ exists = FALSE

LockReferenced(i) == i = path \/ \E u \in User : user[u].inode = i

(* create_locked_backup_group, create_locked_backup_dir: the directory is  *)
(* made first, without a lock; then the lock is taken.                     *)
CreateObject(u) ==
    /\ user[u] = NotUsing /\ ~exists
    /\ exists' = TRUE
    /\ user' = [user EXCEPT ![u].mode = "creating"]
    /\ UNCHANGED <<path, holders>>

(* open_backup_lockfile: the file is opened or created ... *)
OpenLockFile(u, mode) ==
    /\ user[u].step = "idle" /\ (mode = "creating" <=> user[u].mode = "creating")
    /\ \E i \in Holdable :
        /\ IF path = LockNone THEN ~LockReferenced(i) ELSE i = path
        /\ path' = i
        /\ user' = [user EXCEPT ![u] = [step |-> "opened", mode |-> mode, inode |-> i]]
    /\ UNCHANGED <<holders, exists>>

Grantable(u) ==
    \A v \in holders[user[u].inode] : user[u].mode = "shared" /\ user[v].mode = "shared"

(* ... and locked, or given up at once. *)
TakeLock(u) ==
    /\ user[u].step = "opened" /\ Grantable(u)
    /\ holders' = [holders EXCEPT ![user[u].inode] = @ \cup {u}]
    /\ user' = [user EXCEPT ![u].step = "locked"]
    /\ UNCHANGED <<path, exists>>

(* Whoever has made the directory of a group removes it again, if it is    *)
(* empty; that of a snapshot stays.                                        *)
GivesUp(u) ==
    /\ user' = [user EXCEPT ![u] = NotUsing]
    /\ \/ UNCHANGED exists
       \/ user[u].mode = "creating" /\ exists' = FALSE

LockBusy(u) ==
    /\ user[u].step = "opened" /\ ~Grantable(u)
    /\ GivesUp(u)
    /\ UNCHANGED <<path, holders>>

(* lock_helper: "another thread modified the lock file" *)
(* Mutated form: it is not looked at. *)
StatLockFileNot(u) ==
    /\ user[u].step = "locked"
    /\ user' = [user EXCEPT ![u].step = "using"]
    /\ UNCHANGED <<path, holders, exists>>
StatLockFile(u) ==
    /\ user[u].step = "locked" /\ user[u].inode = path
    /\ user' = [user EXCEPT ![u].step = "using"]
    /\ UNCHANGED <<path, holders, exists>>

StatDiffers(u) ==
    /\ user[u].step = "locked" /\ user[u].inode # path
    /\ holders' = [holders EXCEPT ![user[u].inode] = @ \ {u}]
    /\ GivesUp(u)
    /\ UNCHANGED path

Exclusive(u) == user[u].step = "using" /\ user[u].mode # "shared"

(* destroy, move_to, remove_group_dir: the directory, then the lock file,  *)
(* whether the directory is there again by then or not                     *)
DestroyObject(u) ==
    /\ Exclusive(u) /\ exists
    /\ exists' = FALSE
    /\ user' = [user EXCEPT ![u].step = "destroyed"]
    /\ UNCHANGED <<path, holders>>

UnlinkLockFile(u) ==
    /\ user[u].step = "destroyed"
    /\ path' = LockNone
    /\ user' = [user EXCEPT ![u].step = "unlinked"]
    /\ UNCHANGED <<holders, exists>>

ReleaseLock(u) ==
    /\ user[u].step \in {"using", "unlinked"}
    /\ holders' = [holders EXCEPT ![user[u].inode] = @ \ {u}]
    /\ user' = [user EXCEPT ![u] = NotUsing]
    /\ UNCHANGED <<path, exists>>

LockNext ==
    \E u \in User :
        \/ \E mode \in {"shared", "exclusive", "creating"} : OpenLockFile(u, mode)
        \/ TakeLock(u) \/ LockBusy(u) \/ StatLockFile(u) \/ StatDiffers(u)
        \/ CreateObject(u) \/ DestroyObject(u) \/ UnlinkLockFile(u) \/ ReleaseLock(u)

LockSpec == LockInit /\ [][LockNext]_lockVars

-----------------------------------------------------------------------------
(* Properties *)

LockTypeOK ==
    /\ path \in Holdable \cup {LockNone} /\ exists \in BOOLEAN
    /\ holders \in [Holdable -> SUBSET User]
    /\ user \in [User -> UserState]

(* Two users that lock_helper has let in share the lock, although each may *)
(* have opened a different file under the same name: a group or snapshot   *)
(* is not destroyed under another user of it, nor used before the lock     *)
(* file of the one that is being destroyed is gone.                        *)
LockExclusive ==
    \A u, v \in User :
        u # v /\ user[u].step \in {"using", "destroyed"} /\ user[v].step \in {"using", "destroyed"}
        => user[u].mode = "shared" /\ user[v].mode = "shared"

LockSafe == LockTypeOK /\ LockExclusive
=============================================================================
