------------------------------ MODULE PxarFuse ------------------------------
(* A mounted archive: the table of lookups with its reference counts, which  *)
(* every request of the kernel uses in a task of its own.  The archive's     *)
(* contents, attributes and offsets are left out: an inode is a constant.    *)
(* The kernel is external: it counts the lookups it was answered, and asks   *)
(* about inodes it knows.                                                     *)
EXTENDS Integers, FiniteSets, Sequences, SequencesExt

CONSTANTS
    FuseTask,    \* requests at a time
    RootIno,
    NameOf,      \* name -> [parent, inode]; hard links are names of one inode
    MaxLookups,  \* bound on the kernel's count of an inode
    FuNone

FuseIno == {NameOf[n].inode : n \in DOMAIN NameOf}
AnyIno == FuseIno \cup {RootIno}
IsDirInode(i) == i = RootIno \/ \E n \in DOMAIN NameOf : NameOf[n].parent = i
ParentOf(i) == IF i = RootIno THEN RootIno ELSE NameOf[CHOOSE n \in DOMAIN NameOf : NameOf[n].inode = i].parent
InDir(i) == {NameOf[n].inode : n \in {m \in DOMAIN NameOf : NameOf[m].parent = i}}

ASSUME FuseAssumption == RootIno \notin FuseIno

VARIABLES
    lookups,   \* inode -> Lookup::refs, or FuNone where the table has no entry
    nlookup,   \* inode -> the kernel's count
    unseen,    \* inode -> references for "." and "..", which the kernel does not count
    fuseReq,   \* task -> its request, or FuNone
    fuse,      \* "up", or what a task has done to the session
    met        \* history: requests about one inode have been under way together

fuseVars == <<lookups, nlookup, unseen, fuseReq, fuse, met>>

(* SessionImpl::new *)
FuseInit ==
    /\ lookups = [i \in AnyIno |-> IF i = RootIno THEN 1 ELSE FuNone]
    /\ nlookup = [i \in AnyIno |-> 0] /\ unseen = [i \in AnyIno |-> 0]
    /\ fuseReq = [t \in FuseTask |-> FuNone] /\ fuse = "up" /\ met = {}

(* todo: inodes still to be looked up; given: references that are leaked when*)
(* the reply is sent; drops: references that are dropped; removing: the      *)
(* inode whose count this task has brought to zero                            *)
Request(kind, inode, step) ==
    [kind |-> kind, inode |-> inode, step |-> step, count |-> 0, todo |-> << >>, given |-> << >>,
     dots |-> << >>, drops |-> << >>, removing |-> FuNone]

Known(i) == i = RootIno \/ nlookup[i] > 0
InUse(i) == \E t \in FuseTask : fuseReq[t] # FuNone /\ fuseReq[t].inode = i
Free(t) == fuse = "up" /\ fuseReq[t] = FuNone
At(t, step) == fuse = "up" /\ fuseReq[t] # FuNone /\ fuseReq[t].step = step

(* The inodes a request calls make_lookup for, and those it takes a          *)
(* reference of; lookup opens the directory by its number alone.             *)
Makes(r) ==
    CASE r.kind = "lookup" -> Range(r.todo \o r.given \o r.drops) \cup ({r.removing} \ {FuNone})
      [] r.kind = "readdirplus" -> InDir(r.inode)
      [] OTHER -> {}
Takes(r) ==
    Makes(r) \cup (IF r.kind = "lookup" THEN {} ELSE {r.inode})
             \cup (IF r.kind = "readdirplus" THEN {ParentOf(r.inode)} ELSE {})

Pending == {t \in FuseTask : fuseReq[t] # FuNone}
Meets(r) ==
    {how \in {"makers", "user"} : \E q \in {fuseReq[t] : t \in Pending} :
        IF how = "makers" THEN Makes(r) \cap Makes(q) # {}
        ELSE Makes(r) \cap Takes(q) # {} \/ Takes(r) \cap Makes(q) # {}}

(* main_do: each request is a task *)
Start(t, r) ==
    /\ Free(t) /\ fuseReq' = [fuseReq EXCEPT ![t] = r]
    /\ met' = met \cup Meets(r)
    /\ UNCHANGED <<lookups, unseen, fuse>>
AskLookup(t, n) ==
    /\ Known(NameOf[n].parent) /\ nlookup[NameOf[n].inode] < MaxLookups
    /\ Start(t, [Request("lookup", NameOf[n].parent, "make") EXCEPT !.todo = <<NameOf[n].inode>>])
    /\ UNCHANGED nlookup
AskReaddir(t, i) ==
    /\ Known(i) /\ IsDirInode(i) /\ \A c \in InDir(i) : nlookup[c] < MaxLookups
    /\ unseen[i] < MaxLookups /\ unseen[ParentOf(i)] < MaxLookups
    /\ Start(t, [Request("readdirplus", i, "get") EXCEPT !.todo = SetToSeq(InDir(i))])
    /\ UNCHANGED nlookup
(* getattr, read, readlink and the extended attributes *)
AskInode(t, i) ==
    /\ Known(i) /\ Start(t, Request("inode", i, "get")) /\ UNCHANGED nlookup
(* An inode is forgotten once nothing uses it, or a directory what is in it *)
AskForget(t, i, count) ==
    /\ i \in FuseIno /\ count \in 1 .. nlookup[i] /\ ~InUse(i)
    /\ count = nlookup[i] => \A c \in InDir(i) : nlookup[c] = 0
    /\ Start(t, [Request("forget", i, "get") EXCEPT !.count = count])
    /\ nlookup' = [nlookup EXCEPT ![i] = @ - count]

(* get_lookup under the read lock; an inode without an entry is answered with*)
(* an error, "unknown".  A count that is zero belongs to an entry *)
(* that is about to be removed: the task panics, and whoever comes next gets *)
(* a reference to what is freed meanwhile                                     *)
TakeRef(t, i, next) ==
    /\ lookups[i] # FuNone
    /\ lookups' = [lookups EXCEPT ![i] = @ + 1]
    /\ IF lookups[i] = 0 THEN fuse' = "revived" /\ UNCHANGED fuseReq
       ELSE fuseReq' = [fuseReq EXCEPT ![t] = next] /\ UNCHANGED fuse
GivesUp(r) == [r EXCEPT !.step = "drop", !.drops = r.given \o r.dots \o @, !.given = << >>, !.dots = << >>]
GetLookup(t) ==
    LET r == fuseReq[t]
        next == CASE r.kind = "readdirplus" -> [r EXCEPT !.step = "entries", !.drops = <<r.inode>>]
                  [] r.kind = "forget" -> [r EXCEPT !.step = "forget", !.drops = <<r.inode>>]
                  [] r.kind = "inode" -> [r EXCEPT !.step = "drop", !.drops = <<r.inode>>]
    IN  /\ At(t, "get")
        /\ IF lookups[r.inode] = FuNone
           THEN fuseReq' = [fuseReq EXCEPT ![t].step = "unknown"] /\ UNCHANGED <<lookups, fuse>>
           ELSE TakeRef(t, r.inode, next)
        /\ UNCHANGED <<nlookup, unseen, met>>

(* make_lookup: the table is asked under the read lock, and again under the  *)
(* write lock before the new entry is put in.  Where another task was faster *)
(* the reference to the entry that is not needed is dropped, counts to zero  *)
(* and removes the inode - the other task's entry - from the table.          *)
Made(t) ==
    LET r == fuseReq[t]
    IN  [r EXCEPT !.given = Append(@, Head(r.todo)), !.todo = Tail(@),
                  !.step = IF r.kind = "lookup" THEN "reply" ELSE "entries"]
MakeFound(t) ==
    /\ At(t, "make") /\ TakeRef(t, Head(fuseReq[t].todo), Made(t))
    /\ UNCHANGED <<nlookup, unseen, met>>
MakeNew(t) ==
    /\ At(t, "make") /\ lookups[Head(fuseReq[t].todo)] = FuNone
    /\ fuseReq' = [fuseReq EXCEPT ![t].step = "insert"]
    /\ UNCHANGED <<lookups, nlookup, unseen, fuse, met>>
MakeInsert(t) ==
    LET i == Head(fuseReq[t].todo)
    IN  /\ At(t, "insert")
        /\ IF lookups[i] = FuNone
           THEN /\ lookups' = [lookups EXCEPT ![i] = 1] /\ fuseReq' = [fuseReq EXCEPT ![t] = Made(t)]
                /\ UNCHANGED fuse
           ELSE /\ fuse' = IF lookups[i] = 0 THEN "poisoned" ELSE "dangling"
                /\ UNCHANGED <<lookups, fuseReq>>
        /\ UNCHANGED <<nlookup, unseen, met>>

(* readdirplus: one entry after the other until the buffer is full, then the *)
(* directory and its parent                                                   *)
NextEntry(t) ==
    /\ At(t, "entries") /\ fuseReq[t].todo # << >>
    /\ fuseReq' = [fuseReq EXCEPT ![t].step = "make"]
    /\ UNCHANGED <<lookups, nlookup, unseen, fuse, met>>
BufferFull(t) ==
    /\ At(t, "entries") /\ fuseReq' = [fuseReq EXCEPT ![t].step = "reply"]
    /\ UNCHANGED <<lookups, nlookup, unseen, fuse, met>>
NextDot(t) ==
    LET r == fuseReq[t]
        i == IF r.dots = << >> THEN r.inode ELSE ParentOf(r.inode)
    IN  /\ At(t, "entries") /\ r.todo = << >> /\ Len(r.dots) < 2
        /\ IF lookups[i] = FuNone
           THEN fuseReq' = [fuseReq EXCEPT ![t] = GivesUp(@)] /\ UNCHANGED <<lookups, fuse>>
           ELSE TakeRef(t, i, [r EXCEPT !.dots = Append(@, i)])
        /\ UNCHANGED <<nlookup, unseen, met>>

(* The reply is sent and its references are leaked, or it fails and they are *)
(* dropped.  The kernel does not count "." and "..".                          *)
Times(s, i) == Cardinality({k \in DOMAIN s : s[k] = i})
ReplySent(t) ==
    LET r == fuseReq[t]
    IN  /\ At(t, "reply")
        /\ nlookup' = [i \in AnyIno |-> nlookup[i] + Times(r.given, i)]
        /\ unseen' = [i \in AnyIno |-> unseen[i] + Times(r.dots, i)]
        /\ fuseReq' = [fuseReq EXCEPT ![t].step = "drop", ![t].given = << >>, ![t].dots = << >>]
        /\ UNCHANGED <<lookups, fuse, met>>
ReplyFails(t) ==
    /\ At(t, "reply") /\ fuseReq' = [fuseReq EXCEPT ![t] = GivesUp(@)]
    /\ UNCHANGED <<lookups, nlookup, unseen, fuse, met>>

(* Lookup::forget, with a reference of its own in hand *)
Forget(t) ==
    LET r == fuseReq[t]
    IN  /\ At(t, "forget")
        /\ IF r.count >= lookups[r.inode]
           THEN fuseReq' = [fuseReq EXCEPT ![t].step = "unknown"] /\ UNCHANGED lookups
           ELSE /\ lookups' = [lookups EXCEPT ![r.inode] = @ - r.count]
                /\ fuseReq' = [fuseReq EXCEPT ![t].step = "drop", ![t].count = 0]
        /\ UNCHANGED <<nlookup, unseen, fuse, met>>

(* LookupRef::drop: the count, and then, under the write lock, the entry *)
DropRef(t) ==
    LET r == fuseReq[t]
        i == Head(r.drops)
    IN  /\ At(t, "drop") /\ r.drops # << >> /\ r.removing = FuNone
        /\ lookups' = [lookups EXCEPT ![i] = @ - 1]
        /\ fuseReq' = [fuseReq EXCEPT ![t].drops = Tail(@), ![t].removing = IF lookups[i] = 1 THEN i ELSE FuNone]
        /\ UNCHANGED <<nlookup, unseen, fuse, met>>
RemoveEntry(t) ==
    /\ At(t, "drop") /\ fuseReq[t].removing # FuNone
    /\ lookups' = [lookups EXCEPT ![fuseReq[t].removing] = FuNone]
    /\ fuseReq' = [fuseReq EXCEPT ![t].removing = FuNone]
    /\ UNCHANGED <<nlookup, unseen, fuse, met>>
RequestDone(t) ==
    /\ At(t, "drop") /\ fuseReq[t].drops = << >> /\ fuseReq[t].removing = FuNone
    /\ fuseReq' = [fuseReq EXCEPT ![t] = FuNone]
    /\ UNCHANGED <<lookups, nlookup, unseen, fuse, met>>

FuseNext ==
    \E t \in FuseTask :
        \/ \E n \in DOMAIN NameOf : AskLookup(t, n)
        \/ \E i \in AnyIno : AskReaddir(t, i) \/ AskInode(t, i) \/ \E count \in 1 .. MaxLookups : AskForget(t, i, count)
        \/ GetLookup(t) \/ MakeFound(t) \/ MakeNew(t) \/ MakeInsert(t)
        \/ NextEntry(t) \/ BufferFull(t) \/ NextDot(t) \/ ReplySent(t) \/ ReplyFails(t)
        \/ Forget(t) \/ DropRef(t) \/ RemoveEntry(t) \/ RequestDone(t)

-----------------------------------------------------------------------------
BeingRemoved(i) == \E t \in Pending : fuseReq[t].removing = i
Held(t, i) ==
    LET r == fuseReq[t] IN Times(r.given, i) + Times(r.dots, i) + Times(r.drops, i) + (IF r.inode = i THEN r.count ELSE 0)

(* Until a session breaks (BrokenByRace), an entry that no task is removing  *)
(* has a reference for every lookup the kernel was told of, for those a task *)
(* holds or is to take back, and for nothing else but "." and "..".          *)
RefsCounted ==
    fuse = "up" => \A i \in AnyIno : lookups[i] # FuNone /\ ~BeingRemoved(i) =>
        lookups[i] = nlookup[i] + unseen[i] + (IF i = RootIno THEN 1 ELSE 0)
                     + FoldSet(LAMBDA t, sum : sum + Held(t, i), 0, Pending)

(* Until then, what the kernel knows is in the table: no request about it is *)
(* answered with an error and no count falls below zero, whichever requests  *)
(* overlap and whichever replies fail.                                       *)
KnownServed ==
    fuse = "up" =>
        /\ \A i \in AnyIno : Known(i) => lookups[i] # FuNone /\ ~BeingRemoved(i)
        /\ \A t \in Pending : fuseReq[t].step # "unknown"

(* A reference that a task holds is to an entry that is still there *)
HeldExists ==
    fuse = "up" => \A t \in Pending, i \in AnyIno : Held(t, i) > 0 => lookups[i] # FuNone

(* What breaks a session.  A task is left with a reference to an entry that  *)
(* is gone ("dangling", "poisoned": make_lookup takes the read lock, lets it *)
(* go and takes the write lock) only after two requests that make a lookup   *)
(* of one inode were under way together.  A count is raised from zero        *)
(* ("revived": Drop counts down before it takes the lock) only after a       *)
(* request that makes a lookup of an inode met another that holds it.        *)
(* Requests about different inodes, and those that only use an inode the     *)
(* kernel knows, never break a session.                                      *)
BrokenByRace ==
    /\ fuse \in {"dangling", "poisoned"} => "makers" \in met
    /\ fuse = "revived" => "user" \in met

PxarFuseInv == RefsCounted /\ KnownServed /\ HeldExists /\ BrokenByRace
=============================================================================
