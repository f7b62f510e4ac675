---------------------------- MODULE NamespacesProofs ----------------------------
(***************************************************************************)
(* Proofs about namespaces, groups and snapshots: what the calls that       *)
(* create, move and delete them keep whatever they run into.                *)
(***************************************************************************)
EXTENDS Namespaces, FiniteSetTheorems, SequenceTheorems, TLAPS


-----------------------------------------------------------------------------
(* The inductive invariant *)

GroupRec == {NoGroup} \cup [owner : NsOwner \cup {NoOwner}, gid : Nat]
SnapId == NsPath \X Nat
SnapRec == {NoSnap} \cup [id : SnapId, fin : BOOLEAN, prot : BOOLEAN]
CallOp == {"idle", "backup", "prune", "delete_group", "delete_namespace", "move", "owner"}
CallPc == {"idle", "checked", "made", "group", "created", "running", "destroy", "cleanup", "snapshots", "groups", "rmdir",
           "worker", "targets", "retry", "moved", "read"}
TaskRec ==
    [op : CallOp, pc : CallPc,
     ns : NsSet, to : NsSet, time : Nat, who : NsOwner \cup {NoOwner}, seen : NsOwner \cup {NoOwner},
     made : BOOLEAN, flag : BOOLEAN, all : BOOLEAN, left : SUBSET NsTime, todo : SUBSET NsSet, tried : SUBSET NsSet,
     deferred : SUBSET NsSet, failed : SUBSET NsSet, unlisted : BOOLEAN, stays : SUBSET (NsSet \X Nat)]

DiskTyped ==
    /\ nsDir \subseteq NsSet /\ marker \subseteq NsSet
    /\ grp \in [NsSet -> GroupRec] /\ snap \in [NsPath -> SnapRec]
LocksTyped == groupLock \in [NsSet -> NsTask \cup {Free}] /\ snapLock \in [NsPath -> NsTask \cup {Free}]
CallsTyped == task \in [NsTask -> TaskRec] /\ \A p \in NsTask : IsFiniteSet(task[p].stays)
IdsTyped == nsOps \in Nat \ {0} /\ \A b \in born \cup gone : b \in SnapId /\ b[2] < nsOps

(* A backup holds the lock of its group, which has an owner; so does the   *)
(* removal of a group, and what it has not passed over is left to do.      *)
HoldsGroup(c) == (c.op = "backup" /\ c.pc \in {"group", "created", "running"}) \/ c.pc = "snapshots"
LockOK(p) ==
    LET c == task[p] IN
    /\ HoldsGroup(c) => groupLock[c.ns] = p
    /\ c.op = "backup" /\ c.pc = "group" => HasOwner(c.ns)
    /\ c.op \in {"backup", "owner"} => c.who \in NsOwner
    /\ c.op = "backup" => c.time \in NsTime
    /\ c.pc = "snapshots" /\ c.made => Times(c.ns) \subseteq c.left

(* A move maps the namespaces it has listed elsewhere, within the limit. *)
Maps(c, n) == Below(c.ns, n) /\ MapPrefix(n, c.ns, c.to) \in NsSet
RouteOK(p) ==
    LET c == task[p] IN
    /\ c.op = "move" => /\ c.ns # c.to /\ \A n \in c.todo \cup c.tried \cup c.deferred : Maps(c, n)
                        /\ \A n \in NsSet : Below(c.ns, n) => Maps(c, n) \/ Len(MapPrefix(n, c.ns, c.to)) > MaxNsDepth
    /\ c.op # "move" => c.stays = {}

(* A group that was there when the move has listed is left to do, gone,    *)
(* or has failed.                                                          *)
GroupGone(s) == grp[s[1]] = NoGroup \/ grp[s[1]].gid # s[2]
MoveOK(p) ==
    LET c == task[p] IN
    \A s \in c.stays :
        \/ GroupGone(s) \/ c.unlisted
        \/ c.pc # "moved" /\ (~c.all \/ s[1] \in c.deferred)
        \/ c.pc = "targets" /\ s[1] \in c.tried
        \/ c.pc = "groups" /\ s[1] \in c.todo

CallOK(p) == LockOK(p) /\ RouteOK(p) /\ MoveOK(p)

TreeOK == DiskTyped /\ IdsTyped /\ TreeWhole /\ SnapshotsThere
CallsOK == LocksTyped /\ CallsTyped /\ \A p \in NsTask : CallOK(p)
NsInd == TreeOK /\ CallsOK

(* What a step of one call leaves to the others: their records and locks,  *)
(* the owner and the snapshots of a group they have locked.  A group that   *)
(* appears is a new one.                                                   *)
OthersKept(p) == /\ task' \in [NsTask -> TaskRec] /\ IsFiniteSet(task'[p].stays)
                 /\ \A q \in NsTask \ {p} : task'[q] = task[q]
LocksKept(p) == \A n \in NsSet, q \in NsTask \ {p} : groupLock[n] = q => groupLock'[n] = q
GroupsKept(p) == \A n \in NsSet : groupLock[n] \notin {p, Free} => (HasOwner(n) => HasOwner(n)') /\ Times(n)' \subseteq Times(n)
GidsKept == \A n \in NsSet : \/ grp'[n] = NoGroup \/ grp'[n].gid \notin UsedGids
                             \/ grp[n] # NoGroup /\ grp'[n].gid = grp[n].gid

-----------------------------------------------------------------------------
(* Names and numbers *)

(* The names of calls and of where they are. *)
LEMMA CallNames ==
  /\ "idle" \in CallOp /\ "backup" \in CallOp /\ "prune" \in CallOp /\ "delete_group" \in CallOp
  /\ "delete_namespace" \in CallOp /\ "move" \in CallOp /\ "owner" \in CallOp
  /\ "idle" \in CallPc /\ "checked" \in CallPc /\ "made" \in CallPc /\ "group" \in CallPc /\ "created" \in CallPc
  /\ "running" \in CallPc /\ "destroy" \in CallPc /\ "cleanup" \in CallPc /\ "snapshots" \in CallPc
  /\ "groups" \in CallPc /\ "rmdir" \in CallPc /\ "worker" \in CallPc /\ "targets" \in CallPc
  /\ "retry" \in CallPc /\ "moved" \in CallPc /\ "read" \in CallPc
BY DEF CallOp, CallPc

(* A call with one field changed is a call. *)
LEMMA FieldSet ==
  ASSUME NEW r \in TaskRec
  PROVE  /\ \A v \in CallOp : [r EXCEPT !.op = v] \in TaskRec
         /\ \A v \in CallPc : [r EXCEPT !.pc = v] \in TaskRec
         /\ \A v \in NsSet : [r EXCEPT !.ns = v] \in TaskRec /\ [r EXCEPT !.to = v] \in TaskRec
         /\ \A v \in Nat : [r EXCEPT !.time = v] \in TaskRec
         /\ \A v \in NsOwner : [r EXCEPT !.who = v] \in TaskRec /\ [r EXCEPT !.seen = v] \in TaskRec
         /\ \A v \in BOOLEAN : [r EXCEPT !.made = v] \in TaskRec /\ [r EXCEPT !.flag = v] \in TaskRec
         /\ \A v \in SUBSET NsTime : [r EXCEPT !.left = v] \in TaskRec
         /\ \A v \in SUBSET NsSet : [r EXCEPT !.todo = v] \in TaskRec
BY DEF TaskRec

(* A new group is told from those that are there and those that moves know. *)
LEMMA FreshGid ==
  ASSUME CallsTyped
  PROVE  NewGid \in Nat /\ NewGid \notin UsedGids
<1>1. IsFiniteSet(UsedGids)
  <2>1. IsFiniteSet({grp[n].gid : n \in NsSet})
    <3> DEFINE T == {grp[n].gid : n \in NsSet}
               f == [n \in NsSet |-> grp[n].gid]
    <3>1. f \in Surjection(NsSet, T)
      BY DEF Surjection
    <3> HIDE DEF T, f
    <3>2. IsFiniteSet(T)
      BY <3>1, NsAssumption, FS_Surjection
    <3> QED
      BY <3>2 DEF T
  <2>2. IsFiniteSet({{s[2] : s \in task[p].stays} : p \in NsTask})
    <3> DEFINE T == {{s[2] : s \in task[p].stays} : p \in NsTask}
               f == [p \in NsTask |-> {s[2] : s \in task[p].stays}]
    <3>1. f \in Surjection(NsTask, T)
      BY DEF Surjection
    <3> HIDE DEF T, f
    <3>2. IsFiniteSet(T)
      BY <3>1, NsAssumption, FS_Surjection
    <3> QED
      BY <3>2 DEF T
  <2>3. \A p \in NsTask : IsFiniteSet({s[2] : s \in task[p].stays})
    <3> SUFFICES ASSUME NEW p \in NsTask PROVE IsFiniteSet({s[2] : s \in task[p].stays})
      OBVIOUS
    <3> DEFINE S == task[p].stays
               T == {s[2] : s \in S}
               f == [s \in S |-> s[2]]
    <3>1. f \in Surjection(S, T)
      BY DEF Surjection
    <3>2. IsFiniteSet(S)
      BY DEF CallsTyped
    <3> HIDE DEF S, T, f
    <3>3. IsFiniteSet(T)
      BY <3>1, <3>2, FS_Surjection
    <3> QED
      BY <3>3 DEF S, T
  <2>4. IsFiniteSet(UNION {{s[2] : s \in task[p].stays} : p \in NsTask})
    BY <2>2, <2>3, FS_UNION
  <2> QED
    BY <2>1, <2>4, FS_Union DEF UsedGids
<1>2. Cardinality(UsedGids) \in Nat
  BY <1>1, FS_CardinalityType
<1>3. \E i \in 0 .. Cardinality(UsedGids) : i \notin UsedGids
  <2> SUFFICES ASSUME 0 .. Cardinality(UsedGids) \subseteq UsedGids PROVE FALSE
    OBVIOUS
  <2>1. Cardinality(0 .. Cardinality(UsedGids)) <= Cardinality(UsedGids)
    BY <1>1, FS_Subset
  <2>2. Cardinality(0 .. Cardinality(UsedGids)) = Cardinality(UsedGids) + 1
    BY <1>2, FS_Interval
  <2> QED
    BY <1>2, <2>1, <2>2
<1>4. NewGid \in 0 .. Cardinality(UsedGids) /\ NewGid \notin UsedGids
  BY <1>3 DEF NewGid
<1> QED
  BY <1>2, <1>4

(* What the prefix of a name is. *)
LEMMA PrefixIs ==
  ASSUME NEW n \in Seq(STRING), NEW i \in 0 .. Len(n)
  PROVE  /\ SubSeq(n, 1, i) \in Seq(STRING) /\ Len(SubSeq(n, 1, i)) = i
         /\ \A j \in 1 .. i : SubSeq(n, 1, i)[j] = n[j]
<1>1. \A j \in 1 .. i : n[j] \in STRING
  OBVIOUS
<1>2. /\ SubSeq(n, 1, i) \in Seq(STRING) /\ Len(SubSeq(n, 1, i)) = IF 1 <= i THEN i - 1 + 1 ELSE 0
      /\ \A j \in 1 .. i - 1 + 1 : SubSeq(n, 1, i)[j] = n[1 + j - 1]
  BY <1>1, SubSeqProperties
<1>3. \A j \in 1 .. i : 1 + j - 1 = j /\ j \in 1 .. i - 1 + 1
  OBVIOUS
<1> QED
  BY <1>2, <1>3

(* A prefix of a prefix. *)
LEMMA PrefixTwice ==
  ASSUME NEW n \in Seq(STRING), NEW i \in 0 .. Len(n), NEW j \in 0 .. i
  PROVE  SubSeq(SubSeq(n, 1, i), 1, j) = SubSeq(n, 1, j)
<1> DEFINE m == SubSeq(n, 1, i)
           a == SubSeq(m, 1, j)
           b == SubSeq(n, 1, j)
<1>1. m \in Seq(STRING) /\ Len(m) = i /\ \A k \in 1 .. i : m[k] = n[k]
  BY PrefixIs
<1>2. b \in Seq(STRING) /\ Len(b) = j /\ \A k \in 1 .. j : b[k] = n[k]
  BY PrefixIs
<1> HIDE DEF m
<1>3. a \in Seq(STRING) /\ Len(a) = j /\ \A k \in 1 .. j : a[k] = m[k]
  BY <1>1, PrefixIs
<1> HIDE DEF a, b
<1>4. a = b
  BY <1>1, <1>2, <1>3, SeqEqual
<1> QED
  BY <1>4 DEF a, b, m

(* A namespace is below its parent. *)
LEMMA ParentIs ==
  ASSUME NEW n \in NsSet, n # << >>
  PROVE  /\ Parent(n) \in NsSet /\ Len(n) \in Nat \ {0} /\ Len(Parent(n)) = Len(n) - 1
         /\ Below(Parent(n), n)
<1>1. n \in Seq(STRING) /\ Len(n) \in Nat \ {0} /\ Len(n) - 1 \in 0 .. Len(n)
  BY NsAssumption
<1>2. Parent(n) \in NsSet
  BY <1>1, NsAssumption DEF Parent
<1>3. Len(Parent(n)) = Len(n) - 1
  BY <1>1, PrefixIs DEF Parent
<1>4. Below(Parent(n), n)
  BY <1>1, <1>3 DEF Parent, Below
<1> QED
  BY <1>1, <1>2, <1>3, <1>4

(* A move never maps a namespace to itself. *)
LEMMA MapsElsewhere ==
  ASSUME NEW n \in NsSet, NEW s \in NsSet, NEW d \in NsSet, s # d, Below(s, n)
  PROVE  MapPrefix(n, s, d) # n
<1> SUFFICES ASSUME MapPrefix(n, s, d) = n PROVE FALSE
  OBVIOUS
<1>1. n \in Seq(STRING) /\ s \in Seq(STRING) /\ d \in Seq(STRING) /\ Len(s) <= Len(n) /\ Len(s) \in Nat /\ Len(n) \in Nat
  BY NsAssumption DEF Below
<1> DEFINE rest == SubSeq(n, Len(s) + 1, Len(n))
<1>2. rest \in Seq(STRING) /\ Len(rest) = Len(n) - Len(s)
  <2>1. \A i \in Len(s) + 1 .. Len(n) : n[i] \in STRING
    BY <1>1
  <2>2. rest \in Seq(STRING) /\ Len(rest) = IF Len(s) + 1 <= Len(n) THEN Len(n) - (Len(s) + 1) + 1 ELSE 0
    BY <1>1, <2>1, SubSeqProperties
  <2> QED
    BY <1>1, <2>2
<1>3. n = d \o rest
  BY DEF MapPrefix
<1> HIDE DEF rest
<1>4. /\ Len(n) = Len(d) + Len(rest)
      /\ \A i \in 1 .. Len(d) + Len(rest) : n[i] = IF i <= Len(d) THEN d[i] ELSE rest[i - Len(d)]
  <2>1. /\ Len(d \o rest) = Len(d) + Len(rest)
        /\ \A i \in 1 .. Len(d) + Len(rest) : (d \o rest)[i] = IF i <= Len(d) THEN d[i] ELSE rest[i - Len(d)]
    BY <1>1, <1>2, ConcatProperties
  <2> QED
    BY <1>3, <2>1
<1>5. Len(d) = Len(s)
  BY <1>1, <1>2, <1>4
<1>6. \A i \in 1 .. Len(s) : n[i] = s[i]
  <2>1. SubSeq(n, 1, Len(s)) = s /\ Len(s) \in 0 .. Len(n)
    BY <1>1 DEF Below
  <2> QED
    BY <1>1, <2>1, PrefixIs
<1>7. \A i \in 1 .. Len(s) : d[i] = s[i]
  <2> SUFFICES ASSUME NEW i \in 1 .. Len(s) PROVE d[i] = s[i]
    OBVIOUS
  <2>1. i \in 1 .. Len(d) + Len(rest) /\ i <= Len(d)
    BY <1>1, <1>2, <1>5
  <2>2. n[i] = d[i]
    BY <1>4, <2>1
  <2> QED
    BY <1>6, <2>2
<1>8. d = s
  BY <1>1, <1>5, <1>7, SeqEqual
<1> QED
  BY <1>8

(* All prefixes of a namespace, each with its parent. *)
LEMMA PrefixesAre ==
  ASSUME NEW n \in NsSet
  PROVE  LET S == {SubSeq(n, 1, i) : i \in 0 .. Len(n)} IN
         S \subseteq NsSet /\ n \in S /\ \A m \in S : m = << >> \/ Parent(m) \in S
<1> DEFINE S == {SubSeq(n, 1, i) : i \in 0 .. Len(n)}
<1>1. n \in Seq(STRING) /\ Len(n) \in 0 .. Len(n) /\ Len(n) \in Nat
  BY NsAssumption
<1>2. S \subseteq NsSet
  BY NsAssumption
<1>3. n \in S
  <2>1. SubSeq(n, 1, Len(n)) = n
    BY <1>1, SubSeqFull
  <2> QED
    BY <1>1, <2>1
<1>4. \A i \in 0 .. Len(n) : SubSeq(n, 1, i) = << >> \/ Parent(SubSeq(n, 1, i)) \in S
  <2> SUFFICES ASSUME NEW i \in 0 .. Len(n), SubSeq(n, 1, i) # << >> PROVE Parent(SubSeq(n, 1, i)) \in S
    OBVIOUS
  <2>1. SubSeq(n, 1, i) \in Seq(STRING) /\ Len(SubSeq(n, 1, i)) = i
    BY <1>1, PrefixIs
  <2>2. i # 0 /\ i - 1 \in 0 .. i /\ i - 1 \in 0 .. Len(n)
    BY <1>1, <2>1
  <2>3. SubSeq(SubSeq(n, 1, i), 1, i - 1) = SubSeq(n, 1, i - 1)
    BY <1>1, <2>2, PrefixTwice
  <2>4. Parent(SubSeq(n, 1, i)) = SubSeq(n, 1, i - 1)
    BY <2>1, <2>3 DEF Parent
  <2> QED
    BY <2>2, <2>4
<1> QED
  BY <1>2, <1>3, <1>4

-----------------------------------------------------------------------------
(* The frame of a step *)

(* A group that is gone for a move stays gone. *)
LEMMA GoneStays ==
  ASSUME CallsTyped, GidsKept, NEW q \in NsTask, NEW s \in task[q].stays, GroupGone(s)
  PROVE  GroupGone(s)'
<1>1. s[1] \in NsSet /\ s[2] \in UsedGids
  BY DEF CallsTyped, TaskRec, UsedGids
<1>2. GroupGone(s)' <=> (grp'[s[1]] = NoGroup \/ grp'[s[1]].gid # s[2])
  BY DEF GroupGone
<1> QED
  BY <1>1, <1>2 DEF GidsKept, GroupGone

(* The other calls keep what they rely on. *)
LEMMA OthersOK ==
  ASSUME CallsOK, NEW p \in NsTask, NEW q \in NsTask \ {p}, OthersKept(p), LocksKept(p), GroupsKept(p), GidsKept
  PROVE  CallOK(q)'
<1>1. task'[q] = task[q] /\ q \in NsTask /\ q # p /\ q # Free /\ CallOK(q) /\ task[q] \in TaskRec
  BY NsAssumption DEF OthersKept, CallsOK, CallsTyped
<1>2. LockOK(q)'
  <2> DEFINE c == task[q]
  <2>1. c.ns \in NsSet
    BY <1>1 DEF TaskRec
  <2>2. LockOK(q)
    BY <1>1 DEF CallOK
  <2>3. HoldsGroup(c) => groupLock[c.ns] = q /\ groupLock'[c.ns] = q
    BY <1>1, <2>1, <2>2 DEF LockOK, LocksKept
  <2>4. HoldsGroup(c) => (HasOwner(c.ns) => HasOwner(c.ns)') /\ Times(c.ns)' \subseteq Times(c.ns)
    BY <1>1, <2>1, <2>3 DEF GroupsKept
  <2>5. c.op = "backup" /\ c.pc = "group" => HoldsGroup(c)
    BY DEF HoldsGroup
  <2>6. c.pc = "snapshots" => HoldsGroup(c)
    BY DEF HoldsGroup
  <2>7. HoldsGroup(c)' <=> HoldsGroup(c)
    BY <1>1 DEF HoldsGroup
  <2> HIDE DEF c
  <2>8. LockOK(q)' <=> /\ HoldsGroup(c)' => groupLock'[c.ns] = q
                       /\ c.op = "backup" /\ c.pc = "group" => HasOwner(c.ns)'
                       /\ c.op \in {"backup", "owner"} => c.who \in NsOwner
                       /\ c.op = "backup" => c.time \in NsTime
                       /\ c.pc = "snapshots" /\ c.made => Times(c.ns)' \subseteq c.left
    BY <1>1 DEF LockOK, c, HasOwner, Times
  <2>9. LockOK(q) <=> /\ c.op = "backup" => c.time \in NsTime
                      /\ HoldsGroup(c) => groupLock[c.ns] = q
                      /\ c.op = "backup" /\ c.pc = "group" => HasOwner(c.ns)
                      /\ c.op \in {"backup", "owner"} => c.who \in NsOwner
                      /\ c.pc = "snapshots" /\ c.made => Times(c.ns) \subseteq c.left
    BY DEF LockOK, c
  <2> QED
    BY <2>2, <2>3, <2>4, <2>5, <2>6, <2>7, <2>8, <2>9
<1>3. RouteOK(q)'
  BY <1>1 DEF CallOK, RouteOK
<1>4. MoveOK(q)'
  <2>1. MoveOK(q)
    BY <1>1 DEF CallOK
  <2>2. \A s \in task[q].stays : GroupGone(s) => GroupGone(s)'
    BY <1>1, GoneStays DEF CallsOK
  <2> QED
    BY <1>1, <2>1, <2>2 DEF MoveOK
<1> QED
  BY <1>2, <1>3, <1>4 DEF CallOK

(* A step that takes the call somewhere. *)
LEMMA CallStep ==
  ASSUME CallsOK, NEW p \in NsTask, OthersKept(p), LocksTyped', LocksKept(p), GroupsKept(p), GidsKept,
         LockOK(p)', RouteOK(p)', MoveOK(p)'
  PROVE  CallsOK'
<1>1. CallsTyped'
  BY DEF OthersKept, CallsTyped, CallsOK
<1>2. \A q \in NsTask : CallOK(q)'
  <2> SUFFICES ASSUME NEW q \in NsTask PROVE CallOK(q)'
    OBVIOUS
  <2>1. CASE q = p
    BY <2>1 DEF CallOK
  <2>2. CASE q # p
    BY <2>2, OthersOK
  <2> QED
    BY <2>1, <2>2
<1> QED
  BY <1>1, <1>2 DEF CallsOK

(* A step with which the call returns. *)
LEMMA ReturnStep ==
  ASSUME CallsOK, NEW p \in NsTask, Return(p), GroupsKept(p), GidsKept
  PROVE  CallsOK'
<1>1. task' = [task EXCEPT ![p] = NoTask] /\ task \in [NsTask -> TaskRec]
  BY DEF Return, Go, CallsOK, CallsTyped
<1>2. NoTask \in TaskRec
  BY NsAssumption, CallNames DEF NoTask, TaskRec
<1>3. task'[p] = NoTask /\ task' \in [NsTask -> TaskRec] /\ \A q \in NsTask \ {p} : task'[q] = task[q]
  BY <1>1, <1>2
<1>4. OthersKept(p)
  <2>1. task'[p].stays = {}
    BY <1>3 DEF NoTask
  <2>2. IsFiniteSet(task'[p].stays)
    BY <2>1, FS_EmptySet
  <2> QED
    BY <1>3, <2>2 DEF OthersKept
<1>5. /\ groupLock' = [x \in DOMAIN groupLock |-> IF groupLock[x] = p THEN Free ELSE groupLock[x]]
      /\ snapLock' = [x \in DOMAIN snapLock |-> IF snapLock[x] = p THEN Free ELSE snapLock[x]]
      /\ LocksTyped
  BY DEF Return, Unlocked, CallsOK
<1>6. LocksTyped'
  BY <1>5 DEF LocksTyped
<1>7. LocksKept(p)
  BY <1>5 DEF LocksTyped, LocksKept
<1>8. LockOK(p)'
  BY <1>3 DEF LockOK, HoldsGroup, NoTask
<1>9. RouteOK(p)'
  BY <1>3 DEF RouteOK, NoTask
<1>10. MoveOK(p)'
  BY <1>3 DEF MoveOK, NoTask
<1> QED
  BY <1>4, <1>6, <1>7, <1>8, <1>9, <1>10, CallStep

(* What was not touched is as it was. *)
LEMMA TreeSame ==
  ASSUME TreeOK, UNCHANGED <<nsDisk, born, gone>>, nsOps' \in {nsOps, nsOps + 1}
  PROVE  TreeOK'
<1>1. DiskTyped'
  BY DEF TreeOK, DiskTyped, nsDisk
<1>2. IdsTyped'
  <2>1. \A b \in SnapId : b[2] \in Nat
    BY DEF SnapId
  <2> QED
    BY <2>1 DEF TreeOK, IdsTyped
<1>3. TreeWhole'
  BY DEF TreeOK, TreeWhole, HasOwner, GroupExists, nsDisk
<1>4. SnapshotsThere'
  BY DEF TreeOK, SnapshotsThere, nsDisk
<1> QED
  BY <1>1, <1>2, <1>3, <1>4 DEF TreeOK

LEMMA GroupsSame ==
  ASSUME NEW p, UNCHANGED <<grp, snap>>
  PROVE  GroupsKept(p) /\ GidsKept
<1>1. GroupsKept(p)
  BY DEF GroupsKept, HasOwner, Times
<1>2. GidsKept
  BY DEF GidsKept
<1> QED
  BY <1>1, <1>2

-----------------------------------------------------------------------------
(* Calls that begin *)

LEMMA TimesAre == \A t \in NsTime : t \in Nat
BY NsAssumption

LEMMA NoTaskTyped == NoTask \in TaskRec /\ NoTask.stays = {}
BY NsAssumption, CallNames DEF NoTask, TaskRec

(* A call that begins with nothing locked. *)
LEMMA BeginStep ==
  ASSUME NsInd, NEW p \in NsTask, OthersKept(p), UNCHANGED <<nsDisk, groupLock, snapLock, born, gone>>, nsOps' = nsOps + 1,
         LockOK(p)', RouteOK(p)', task'[p].stays = {}
  PROVE  NsInd'
<1>1. TreeOK'
  BY TreeSame DEF NsInd
<1>2. LocksTyped' /\ LocksKept(p)
  BY DEF NsInd, CallsOK, LocksTyped, LocksKept
<1>3. GroupsKept(p) /\ GidsKept
  BY GroupsSame DEF nsDisk
<1>4. MoveOK(p)'
  BY DEF MoveOK
<1>5. CallsOK'
  BY <1>2, <1>3, <1>4, CallStep DEF NsInd
<1> QED
  BY <1>1, <1>5 DEF NsInd

(* What a call that begins makes of the records. *)
LEMMA BeginRecord ==
  ASSUME NsInd, NEW p \in NsTask, task' = [task EXCEPT ![p] = task'[p]], task'[p] \in TaskRec, task'[p].stays = {}
  PROVE  OthersKept(p)
BY FS_EmptySet DEF NsInd, CallsOK, CallsTyped, OthersKept

LEMMA StartBackupOK ==
  ASSUME NsInd, NEW p \in NsTask, NEW n \in NsSet, NEW t \in NsTime, NEW who \in NsOwner, StartBackup(p, n, t, who)
  PROVE  NsInd'
<1>1. /\ task' = [task EXCEPT ![p] = [NoTask EXCEPT !.op = "backup", !.pc = "checked", !.ns = n, !.time = t, !.who = who]]
      /\ nsOps' = nsOps + 1 /\ task \in [NsTask -> TaskRec]
      /\ UNCHANGED <<nsDisk, groupLock, snapLock, born, gone>>
  BY DEF StartBackup, Begin, NsInd, CallsOK, CallsTyped
<1>2. task'[p] = [NoTask EXCEPT !.op = "backup", !.pc = "checked", !.ns = n, !.time = t, !.who = who]
  BY <1>1
<1>3. task'[p] \in TaskRec /\ task'[p].stays = {}
  <2>0. t \in Nat
    BY TimesAre
  <2>1. task'[p] \in TaskRec
    <3>1. [NoTask EXCEPT !.op = "backup", !.pc = "checked", !.ns = n, !.time = t, !.who = who] \in TaskRec
      BY <2>0, NoTaskTyped, CallNames, FieldSet
    <3> QED
      BY <1>2, <3>1
  <2>2. task'[p].stays = {}
    BY <1>2 DEF NoTask
  <2> QED
    BY <2>1, <2>2
<1>4. LockOK(p)' /\ RouteOK(p)'
  BY <1>2 DEF LockOK, HoldsGroup, RouteOK, NoTask
<1>5. OthersKept(p)
  BY <1>1, <1>2, <1>3, BeginRecord
<1> QED
  BY <1>1, <1>3, <1>4, <1>5, BeginStep

LEMMA DeleteSnapshotOK ==
  ASSUME NsInd, NEW p \in NsTask, NEW n \in NsSet, NEW t \in NsTime, DeleteSnapshot(p, n, t)
  PROVE  NsInd'
<1>1. /\ task' = [task EXCEPT ![p] = [NoTask EXCEPT !.op = "prune", !.pc = "destroy", !.ns = n, !.left = {t}]]
      /\ nsOps' = nsOps + 1 /\ task \in [NsTask -> TaskRec]
      /\ UNCHANGED <<nsDisk, groupLock, snapLock, born, gone>>
  BY DEF DeleteSnapshot, Begin, NsInd, CallsOK, CallsTyped
<1>2. task'[p] = [NoTask EXCEPT !.op = "prune", !.pc = "destroy", !.ns = n, !.left = {t}]
  BY <1>1
<1>3. task'[p] \in TaskRec /\ task'[p].stays = {}
  <2>0. {t} \in SUBSET NsTime
    OBVIOUS
  <2>1. task'[p] \in TaskRec
    <3>1. [NoTask EXCEPT !.op = "prune", !.pc = "destroy", !.ns = n, !.left = {t}] \in TaskRec
      BY <2>0, NoTaskTyped, CallNames, FieldSet
    <3> QED
      BY <1>2, <3>1
  <2>2. task'[p].stays = {}
    BY <1>2 DEF NoTask
  <2> QED
    BY <2>1, <2>2
<1>4. LockOK(p)' /\ RouteOK(p)'
  BY <1>2 DEF LockOK, HoldsGroup, RouteOK, NoTask
<1>5. OthersKept(p)
  BY <1>1, <1>2, <1>3, BeginRecord
<1> QED
  BY <1>1, <1>3, <1>4, <1>5, BeginStep

LEMMA PruneGroupOK ==
  ASSUME NsInd, NEW p \in NsTask, NEW n \in NsSet, NEW last, PruneGroup(p, n, last)
  PROVE  NsInd'
<1> DEFINE victims == PruneVictims(ListBackups(n), PruneNow, <<last>>, <<1>>)
<1>1. victims \subseteq NsTime
  BY DEF PruneVictims, ListBackups, Times
<1> HIDE DEF victims
<1>2. /\ task' = [task EXCEPT ![p] = [NoTask EXCEPT !.op = "prune", !.pc = "destroy", !.ns = n, !.left = victims]]
      /\ nsOps' = nsOps + 1 /\ task \in [NsTask -> TaskRec]
      /\ UNCHANGED <<nsDisk, groupLock, snapLock, born, gone>>
  BY DEF PruneGroup, Begin, NsInd, CallsOK, CallsTyped, victims
<1>3. task'[p] = [NoTask EXCEPT !.op = "prune", !.pc = "destroy", !.ns = n, !.left = victims]
  BY <1>2
<1>4. task'[p] \in TaskRec /\ task'[p].stays = {}
  <2>0. victims \in SUBSET NsTime
    BY <1>1
  <2>1. task'[p] \in TaskRec
    <3>1. [NoTask EXCEPT !.op = "prune", !.pc = "destroy", !.ns = n, !.left = victims] \in TaskRec
      BY <2>0, NoTaskTyped, CallNames, FieldSet
    <3> QED
      BY <1>3, <3>1
  <2>2. task'[p].stays = {}
    BY <1>3 DEF NoTask
  <2> QED
    BY <2>1, <2>2
<1>5. LockOK(p)' /\ RouteOK(p)'
  BY <1>3 DEF LockOK, HoldsGroup, RouteOK, NoTask
<1>6. OthersKept(p)
  BY <1>2, <1>3, <1>4, BeginRecord
<1> QED
  BY <1>2, <1>4, <1>5, <1>6, BeginStep

LEMMA DeleteNamespaceOK ==
  ASSUME NsInd, NEW p \in NsTask, NEW n \in NsSet, NEW groups \in BOOLEAN, DeleteNamespace(p, n, groups)
  PROVE  NsInd'
<1> DEFINE list == ListNamespaces(n, MaxNsDepth)
           at == IF groups THEN "groups" ELSE "rmdir"
           rec == [NoTask EXCEPT !.op = "delete_namespace", !.pc = at, !.todo = list, !.flag = groups]
<1>1. list \in SUBSET NsSet /\ at \in {"groups", "rmdir"}
  BY DEF ListNamespaces, NsInd, TreeOK, DiskTyped
<1> HIDE DEF list, at
<1>2. /\ task' = [task EXCEPT ![p] = rec]
      /\ nsOps' = nsOps + 1 /\ task \in [NsTask -> TaskRec]
      /\ UNCHANGED <<nsDisk, groupLock, snapLock, born, gone>>
  BY DEF DeleteNamespace, Begin, NsInd, CallsOK, CallsTyped, list, at
<1>3. task'[p] = rec
  BY <1>2
<1>4. task'[p] \in TaskRec /\ task'[p].stays = {}
  <2>1. task'[p] \in TaskRec
    <3>1. rec \in TaskRec
      BY <1>1, NoTaskTyped, CallNames, FieldSet
    <3> QED
      BY <1>3, <3>1
  <2>2. task'[p].stays = {}
    BY <1>3 DEF NoTask
  <2> QED
    BY <2>1, <2>2
<1>5. LockOK(p)' /\ RouteOK(p)'
  BY <1>1, <1>3 DEF LockOK, HoldsGroup, RouteOK, NoTask
<1>6. OthersKept(p)
  BY <1>2, <1>3, <1>4, BeginRecord
<1> QED
  BY <1>2, <1>4, <1>5, <1>6, BeginStep

LEMMA StartSetOwnerOK ==
  ASSUME NsInd, NEW p \in NsTask, NEW n \in NsSet, NEW who \in NsOwner, StartSetOwner(p, n, who)
  PROVE  NsInd'
<1> DEFINE o == grp[n].owner
           rec == [NoTask EXCEPT !.op = "owner", !.pc = "read", !.ns = n, !.who = who, !.seen = o]
<1>1. o \in NsOwner
  BY DEF StartSetOwner, HasOwner
<1> HIDE DEF o
<1>2. /\ task' = [task EXCEPT ![p] = rec]
      /\ nsOps' = nsOps + 1 /\ task \in [NsTask -> TaskRec]
      /\ UNCHANGED <<nsDisk, groupLock, snapLock, born, gone>>
  BY DEF StartSetOwner, Begin, NsInd, CallsOK, CallsTyped, o
<1>3. task'[p] = rec
  BY <1>2
<1>4. task'[p] \in TaskRec /\ task'[p].stays = {}
  <2>1. task'[p] \in TaskRec
    <3>1. rec \in TaskRec
      BY <1>1, NoTaskTyped, TimesAre, CallNames, FieldSet
    <3> QED
      BY <1>3, <3>1
  <2>2. task'[p].stays = {}
    BY <1>3 DEF NoTask
  <2> QED
    BY <2>1, <2>2
<1>5. LockOK(p)' /\ RouteOK(p)'
  BY <1>3 DEF LockOK, HoldsGroup, RouteOK, NoTask
<1>6. OthersKept(p)
  BY <1>2, <1>3, <1>4, BeginRecord
<1> QED
  BY <1>2, <1>4, <1>5, <1>6, BeginStep

(* A move knows where everything below its source would go. *)
LEMMA StartMoveOK ==
  ASSUME NsInd, NEW p \in NsTask, NEW m \in NsMoves, NEW deleteSource \in BOOLEAN, StartMove(p, m[1], m[2], m[3], deleteSource)
  PROVE  NsInd'
<1> DEFINE rec == [NoTask EXCEPT !.op = "move", !.pc = "worker", !.ns = m[1], !.to = m[2], !.time = m[3], !.flag = deleteSource]
<1>1. m[1] \in NsSet /\ m[2] \in NsSet /\ m[3] \in Nat
  BY NsAssumption
<1>2. m[1] # m[2]
  BY DEF StartMove, CheckMoveNamespace
<1>3. /\ task' = [task EXCEPT ![p] = rec]
      /\ nsOps' = nsOps + 1 /\ task \in [NsTask -> TaskRec]
      /\ UNCHANGED <<nsDisk, groupLock, snapLock, born, gone>>
  BY DEF StartMove, Begin, NsInd, CallsOK, CallsTyped
<1>4. task'[p] = rec
  BY <1>3
<1>5. task'[p] \in TaskRec /\ task'[p].stays = {}
  <2>1. task'[p] \in TaskRec
    <3>1. rec \in TaskRec
      BY <1>1, NoTaskTyped, TimesAre, CallNames, FieldSet
    <3> QED
      BY <1>4, <3>1
  <2>2. task'[p].stays = {}
    BY <1>4 DEF NoTask
  <2> QED
    BY <2>1, <2>2
<1>6. LockOK(p)'
  BY <1>4 DEF LockOK, HoldsGroup, NoTask
<1>7. RouteOK(p)'
  <2>1. /\ task'[p].op = "move" /\ task'[p].ns = m[1] /\ task'[p].to = m[2]
        /\ task'[p].todo = {} /\ task'[p].tried = {} /\ task'[p].deferred = {}
    BY <1>4 DEF NoTask
  <2>2. \A n \in NsSet : Below(m[1], n) => MapPrefix(n, m[1], m[2]) \in NsSet \/ Len(MapPrefix(n, m[1], m[2])) > MaxNsDepth
    BY NsAssumption
  <2>3. RouteOK(p)' <=> LET c == task'[p] IN
          /\ c.op = "move" => /\ c.ns # c.to /\ \A n \in c.todo \cup c.tried \cup c.deferred : Maps(c, n)
                              /\ \A n \in NsSet : Below(c.ns, n) => Maps(c, n) \/ Len(MapPrefix(n, c.ns, c.to)) > MaxNsDepth
          /\ c.op # "move" => c.stays = {}
    BY DEF RouteOK, Maps, Below, MapPrefix
  <2> QED
    BY <1>2, <2>1, <2>2, <2>3 DEF Maps
<1>8. OthersKept(p)
  BY <1>3, <1>4, <1>5, BeginRecord
<1> QED
  BY <1>3, <1>5, <1>6, <1>7, <1>8, BeginStep

(* The removal of a group begins with the lock of the group. *)
LEMMA DeleteGroupOK ==
  ASSUME NsInd, NEW p \in NsTask, NEW n \in NsSet, DeleteGroup(p, n)
  PROVE  NsInd'
<1> DEFINE ts == Times(n)
           rec == [NoTask EXCEPT !.op = "delete_group", !.pc = "snapshots", !.ns = n, !.left = ts, !.made = TRUE]
<1>1. ts \subseteq NsTime
  BY DEF Times
<1>2. Times(n)' = ts
  BY DEF DeleteGroup, nsDisk, Times
<1> HIDE DEF ts
<1>3. /\ task' = [task EXCEPT ![p] = GroupToDelete(n, [NoTask EXCEPT !.op = "delete_group"])]
      /\ nsOps' = nsOps + 1 /\ task \in [NsTask -> TaskRec]
      /\ groupLock[n] = Free /\ groupLock' = [groupLock EXCEPT ![n] = p]
      /\ UNCHANGED <<nsDisk, snapLock, born, gone>> /\ LocksTyped
  BY DEF DeleteGroup, Begin, NsInd, CallsOK, CallsTyped
<1>4. task'[p] = rec
  <2>1. task'[p] = GroupToDelete(n, [NoTask EXCEPT !.op = "delete_group"])
    BY <1>3
  <2> QED
    BY <2>1 DEF GroupToDelete, NoTask, ts
<1>5. task'[p] \in TaskRec /\ task'[p].stays = {}
  <2>0. ts \in SUBSET NsTime
    BY <1>1
  <2>1. task'[p] \in TaskRec
    <3>1. rec \in TaskRec
      BY <2>0, NoTaskTyped, CallNames, FieldSet
    <3> QED
      BY <1>4, <3>1
  <2>2. task'[p].stays = {}
    BY <1>4 DEF NoTask
  <2> QED
    BY <2>1, <2>2
<1>6. OthersKept(p)
  BY <1>3, <1>4, <1>5, BeginRecord
<1>7. LocksTyped' /\ LocksKept(p) /\ groupLock'[n] = p
  BY <1>3, NsAssumption DEF LocksTyped, LocksKept
<1>8. LockOK(p)'
  <2>1. task'[p].op = "delete_group" /\ task'[p].pc = "snapshots" /\ task'[p].ns = n /\ task'[p].left = ts
    BY <1>4 DEF NoTask
  <2> QED
    BY <1>2, <1>7, <2>1 DEF LockOK
<1>9. RouteOK(p)' /\ MoveOK(p)'
  BY <1>4 DEF RouteOK, MoveOK, NoTask
<1>10. GroupsKept(p) /\ GidsKept
  BY <1>3, GroupsSame DEF nsDisk
<1>11. CallsOK'
  BY <1>6, <1>7, <1>8, <1>9, <1>10, CallStep DEF NsInd
<1>12. TreeOK'
  BY <1>3, TreeSame DEF NsInd
<1> QED
  BY <1>11, <1>12 DEF NsInd

-----------------------------------------------------------------------------
(* Steps that leave the tree alone *)

LEMMA QuietStep ==
  ASSUME NsInd, NEW p \in NsTask, OthersKept(p), LocksTyped', LocksKept(p), UNCHANGED <<nsDisk, nsOps, born, gone>>,
         LockOK(p)', RouteOK(p)', MoveOK(p)'
  PROVE  NsInd'
<1>1. TreeOK'
  BY TreeSame DEF NsInd
<1>2. GroupsKept(p) /\ GidsKept
  BY GroupsSame DEF nsDisk
<1>3. CallsOK'
  BY <1>2, CallStep DEF NsInd
<1> QED
  BY <1>1, <1>3 DEF NsInd

LEMMA QuietReturn ==
  ASSUME NsInd, NEW p \in NsTask, Return(p), UNCHANGED <<nsDisk, nsOps, born, gone>>
  PROVE  NsInd'
<1>1. TreeOK'
  BY TreeSame DEF NsInd
<1>2. GroupsKept(p) /\ GidsKept
  BY GroupsSame DEF nsDisk
<1>3. CallsOK'
  BY <1>2, ReturnStep DEF NsInd
<1> QED
  BY <1>1, <1>3 DEF NsInd

LEMMA LocksSame ==
  ASSUME CallsOK, NEW p, UNCHANGED <<groupLock, snapLock>>
  PROVE  LocksTyped' /\ LocksKept(p)
BY DEF CallsOK, LocksTyped, LocksKept

(* What a step of a call makes of the records. *)
LEMMA GoRecord ==
  ASSUME CallsOK, NEW p \in NsTask, task' = [task EXCEPT ![p] = task'[p]], task'[p] \in TaskRec, task'[p].stays = task[p].stays
  PROVE  OthersKept(p)
BY DEF CallsOK, CallsTyped, OthersKept

(* The list of a call that is no move. *)
LEMMA RouteIdle ==
  ASSUME CallsOK, NEW p \in NsTask, task'[p].op # "move", task[p].op # "move", task'[p].stays = task[p].stays
  PROVE  RouteOK(p)' /\ MoveOK(p)'
<1>1. task'[p].stays = {}
  BY DEF CallsOK, CallOK, RouteOK
<1> QED
  BY <1>1 DEF RouteOK, MoveOK

(* A move keeps to its route. *)
LEMMA RouteKept ==
  ASSUME CallsOK, NEW p \in NsTask, task[p].op = "move", task'[p].op = "move", task'[p].ns = task[p].ns, task'[p].to = task[p].to,
         task'[p].todo \cup task'[p].tried \cup task'[p].deferred \subseteq task[p].todo \cup task[p].tried \cup task[p].deferred
  PROVE  RouteOK(p)'
<1>1. RouteOK(p)
  BY DEF CallsOK, CallOK
<1>2. \A n : Maps(task'[p], n) <=> Maps(task[p], n)
  BY DEF Maps
<1>3. RouteOK(p)' <=> LET c == task'[p] IN
        /\ c.op = "move" => /\ c.ns # c.to /\ \A n \in c.todo \cup c.tried \cup c.deferred : Maps(c, n)
                            /\ \A n \in NsSet : Below(c.ns, n) => Maps(c, n) \/ Len(MapPrefix(n, c.ns, c.to)) > MaxNsDepth
        /\ c.op # "move" => c.stays = {}
  BY DEF RouteOK, Maps, Below, MapPrefix
<1> QED
  BY <1>1, <1>2, <1>3 DEF RouteOK

LEMMA TaskTyped ==
  ASSUME CallsOK, NEW p \in NsTask
  PROVE  task \in [NsTask -> TaskRec] /\ task[p] \in TaskRec /\ LocksTyped /\ LockOK(p) /\ RouteOK(p) /\ MoveOK(p)
BY DEF CallsOK, CallsTyped, CallOK

LEMMA LockSnapshotOK ==
  ASSUME NsInd, NEW p \in NsTask, LockSnapshot(p)
  PROVE  NsInd'
<1> DEFINE c == task[p]
           x == <<c.ns, c.time>>
<1>0. c \in TaskRec
  BY TaskTyped DEF NsInd
<1>1. CallsOK /\ task \in [NsTask -> TaskRec] /\ LockOK(p) /\ LocksTyped
  BY TaskTyped DEF NsInd
<1>2. /\ task' = [task EXCEPT ![p] = [c EXCEPT !.pc = "running"]] /\ c.op = "backup" /\ c.pc = "created"
      /\ snapLock' = [snapLock EXCEPT ![x] = p] /\ UNCHANGED <<nsDisk, groupLock, nsOps, born, gone>>
  BY DEF LockSnapshot, Go
<1> HIDE DEF c
<1>3. task'[p] = [c EXCEPT !.pc = "running"]
  BY <1>1, <1>2
<1>4. task'[p] \in TaskRec /\ task'[p].op = c.op /\ task'[p].pc = "running" /\ task'[p].ns = c.ns
      /\ task'[p].who = c.who /\ task'[p].time = c.time /\ task'[p].stays = c.stays
  <2>1. task'[p] \in TaskRec
    <3>1. [c EXCEPT !.pc = "running"] \in TaskRec
      BY <1>0, CallNames, FieldSet
    <3> QED
      BY <1>3, <3>1
  <2>2. task'[p].op = c.op /\ task'[p].pc = "running" /\ task'[p].ns = c.ns
        /\ task'[p].who = c.who /\ task'[p].time = c.time /\ task'[p].stays = c.stays
    BY <1>0, <1>3 DEF TaskRec
  <2> QED
    BY <2>1, <2>2
<1>5. OthersKept(p)
  BY <1>1, <1>2, <1>3, <1>4, GoRecord DEF c
<1>6. LocksTyped' /\ LocksKept(p)
  BY <1>1, <1>2 DEF LocksTyped, LocksKept
<1>7. LockOK(p)'
  BY <1>1, <1>2, <1>4 DEF LockOK, HoldsGroup, c
<1>8. RouteOK(p)' /\ MoveOK(p)'
  BY <1>1, <1>2, <1>4, RouteIdle DEF c
<1> QED
  BY <1>2, <1>5, <1>6, <1>7, <1>8, QuietStep

LEMMA NextVictimOK ==
  ASSUME NsInd, NEW p \in NsTask, NEW T \in SUBSET NsTime, NextVictim(p, T), task[p].op = "prune",
         GroupsKept(p), GidsKept
  PROVE  CallsOK'
<1> DEFINE c == task[p]
<1>0. c \in TaskRec
  BY TaskTyped DEF NsInd
<1>1. CallsOK /\ task \in [NsTask -> TaskRec] /\ c.op = "prune"
  BY TaskTyped DEF NsInd
<1>2. CASE T = {}
  BY <1>1, <1>2, ReturnStep DEF NextVictim
<1>3. CASE T # {}
  <2>1. task' = [task EXCEPT ![p] = [c EXCEPT !.pc = "destroy", !.left = T]] /\ UNCHANGED <<groupLock, snapLock>>
    BY <1>3 DEF NextVictim, Go
  <2> HIDE DEF c
  <2>2. task'[p] = [c EXCEPT !.pc = "destroy", !.left = T]
    BY <1>1, <2>1
  <2>3. task'[p] \in TaskRec /\ task'[p].op = c.op /\ task'[p].pc = "destroy" /\ task'[p].stays = c.stays
    <3>1. task'[p] \in TaskRec
      <4>1. [c EXCEPT !.pc = "destroy", !.left = T] \in TaskRec
        BY <1>0, CallNames, FieldSet
      <4> QED
        BY <2>2, <4>1
    <3>2. task'[p].op = c.op /\ task'[p].pc = "destroy" /\ task'[p].stays = c.stays
      BY <1>0, <2>2 DEF TaskRec
    <3> QED
      BY <3>1, <3>2
  <2>4. OthersKept(p)
    BY <1>1, <2>1, <2>2, <2>3, GoRecord DEF c
  <2>5. LocksTyped' /\ LocksKept(p)
    BY <1>1, <2>1, LocksSame
  <2>6. LockOK(p)'
    BY <1>1, <2>3 DEF LockOK, HoldsGroup
  <2>7. RouteOK(p)' /\ MoveOK(p)'
    BY <1>1, <2>3, RouteIdle DEF c
  <2> QED
    BY <1>1, <2>4, <2>5, <2>6, <2>7, CallStep
<1> QED
  BY <1>2, <1>3

LEMMA DestroyFailsOK ==
  ASSUME NsInd, NEW p \in NsTask, NEW t, DestroyFails(p, t)
  PROVE  NsInd'
<1>1. task[p].left \ {t} \in SUBSET NsTime
  <2>1. task[p] \in TaskRec
    BY TaskTyped DEF NsInd
  <2> QED
    BY <2>1 DEF TaskRec
<1>2. NextVictim(p, task[p].left \ {t}) /\ task[p].op = "prune" /\ UNCHANGED <<nsDisk, nsOps, born, gone>>
  BY DEF DestroyFails
<1>3. GroupsKept(p) /\ GidsKept
  BY <1>2, GroupsSame DEF nsDisk
<1>4. CallsOK'
  BY <1>1, <1>2, <1>3, NextVictimOK
<1>5. TreeOK'
  BY <1>2, TreeSame DEF NsInd
<1> QED
  BY <1>4, <1>5 DEF NsInd

LEMMA DeleteNamespaceGroupsOK ==
  ASSUME NsInd, NEW p \in NsTask, NEW n \in NsSet, DeleteNamespaceGroups(p, n)
  PROVE  NsInd'
<1> DEFINE c == task[p]
           ts == Times(n)
<1>0. c \in TaskRec
  BY TaskTyped DEF NsInd
<1>1. CallsOK /\ task \in [NsTask -> TaskRec] /\ LocksTyped
  BY TaskTyped DEF NsInd
<1>2. c.op = "delete_namespace" /\ UNCHANGED <<nsDisk, nsOps, born, gone>>
  BY DEF DeleteNamespaceGroups
<1>3. CASE Return(p)
  BY <1>2, <1>3, QuietReturn
<1>4. CASE Go(p, GroupToDelete(n, task[p])) /\ groupLock[n] = Free /\ groupLock' = [groupLock EXCEPT ![n] = p] /\ UNCHANGED snapLock
  <2>1. ts \in SUBSET NsTime /\ Times(n)' = ts
    BY <1>2 DEF Times, nsDisk
  <2>2. task' = [task EXCEPT ![p] = [c EXCEPT !.pc = "snapshots", !.ns = n, !.left = ts, !.made = TRUE]]
    BY <1>4 DEF Go, GroupToDelete
  <2> HIDE DEF c, ts
  <2>3. task'[p] = [c EXCEPT !.pc = "snapshots", !.ns = n, !.left = ts, !.made = TRUE]
    BY <1>1, <2>2
  <2>4. task'[p] \in TaskRec
    <3>1. [c EXCEPT !.pc = "snapshots", !.ns = n, !.left = ts, !.made = TRUE] \in TaskRec
      BY <1>0, <2>1, CallNames, FieldSet
    <3> QED
      BY <2>3, <3>1
  <2>5. /\ task'[p].op = c.op /\ task'[p].pc = "snapshots" /\ task'[p].ns = n /\ task'[p].left = ts
        /\ task'[p].stays = c.stays
    BY <1>0, <2>3 DEF TaskRec
  <2>6. OthersKept(p)
    BY <1>1, <2>2, <2>3, <2>4, <2>5, GoRecord DEF c
  <2>7. LocksTyped' /\ LocksKept(p) /\ groupLock'[n] = p
    BY <1>1, <1>4, NsAssumption DEF LocksTyped, LocksKept
  <2>8. LockOK(p)'
    BY <1>2, <2>1, <2>5, <2>7 DEF LockOK, HoldsGroup
  <2>9. RouteOK(p)' /\ MoveOK(p)'
    BY <1>1, <1>2, <2>5, RouteIdle DEF c
  <2> QED
    BY <1>2, <2>6, <2>7, <2>8, <2>9, QuietStep
<1>5. CASE Go(p, [task[p] EXCEPT !.pc = "rmdir", !.ns = n]) /\ UNCHANGED <<groupLock, snapLock>>
  <2>1. task' = [task EXCEPT ![p] = [c EXCEPT !.pc = "rmdir", !.ns = n]]
    BY <1>5 DEF Go
  <2> HIDE DEF c
  <2>2. task'[p] = [c EXCEPT !.pc = "rmdir", !.ns = n]
    BY <1>1, <2>1
  <2>3. task'[p] \in TaskRec /\ task'[p].op = c.op /\ task'[p].pc = "rmdir" /\ task'[p].stays = c.stays
    <3>1. task'[p] \in TaskRec
      <4>1. [c EXCEPT !.pc = "rmdir", !.ns = n] \in TaskRec
        BY <1>0, CallNames, FieldSet
      <4> QED
        BY <2>2, <4>1
    <3>2. task'[p].op = c.op /\ task'[p].pc = "rmdir" /\ task'[p].stays = c.stays
      BY <1>0, <2>2 DEF TaskRec
    <3> QED
      BY <3>1, <3>2
  <2>4. OthersKept(p)
    BY <1>1, <2>1, <2>2, <2>3, GoRecord DEF c
  <2>5. LocksTyped' /\ LocksKept(p)
    BY <1>1, <1>5, LocksSame
  <2>6. LockOK(p)'
    BY <1>2, <2>3 DEF LockOK, HoldsGroup
  <2>7. RouteOK(p)' /\ MoveOK(p)'
    BY <1>1, <1>2, <2>3, RouteIdle DEF c
  <2> QED
    BY <1>2, <2>4, <2>5, <2>6, <2>7, QuietStep
<1> QED
  BY <1>3, <1>4, <1>5 DEF DeleteNamespaceGroups

(* Calls that return without having done anything more. *)
LEMMA QuietReturns ==
  ASSUME NsInd, NEW p \in NsTask, BackupRefused(p) \/ NsFail(p) \/ MoveDone(p)
  PROVE  NsInd'
<1>1. Return(p) /\ UNCHANGED <<nsDisk, nsOps, born, gone>>
  BY DEF BackupRefused, NsFail, MoveDone
<1> QED
  BY <1>1, QuietReturn

(* Names that a move makes are names. *)
LEMMA MapPrefixIs ==
  ASSUME NEW n \in NsSet, NEW s \in NsSet, NEW d \in NsSet
  PROVE  Len(MapPrefix(n, s, d)) \in Nat
<1>1. n \in Seq(STRING) /\ s \in Seq(STRING) /\ d \in Seq(STRING) /\ Len(s) \in Nat /\ Len(n) \in Nat
  BY NsAssumption
<1>2. \A i \in Len(s) + 1 .. Len(n) : n[i] \in STRING
  BY <1>1
<1>3. SubSeq(n, Len(s) + 1, Len(n)) \in Seq(STRING)
  BY <1>1, <1>2, SubSeqProperties
<1>4. MapPrefix(n, s, d) \in Seq(STRING)
  BY <1>1, <1>3, ConcatProperties DEF MapPrefix
<1> QED
  BY <1>4

(* A part of the namespaces, each with the number of its group. *)
LEMMA GroupsOfFinite ==
  ASSUME NEW S \in SUBSET NsSet, NEW f
  PROVE  IsFiniteSet({<<n, f[n]>> : n \in S})
<1> DEFINE T == {<<n, f[n]>> : n \in S}
           g == [n \in S |-> <<n, f[n]>>]
<1>1. g \in Surjection(S, T)
  BY DEF Surjection
<1>2. IsFiniteSet(S)
  BY NsAssumption, FS_Subset
<1> HIDE DEF T, g
<1>3. IsFiniteSet(T)
  BY <1>1, <1>2, FS_Surjection
<1> QED
  BY <1>3 DEF T

(* The list of a move: all of it has a target, and all groups are to do. *)
LEMMA MoveListOK ==
  ASSUME NsInd, NEW p \in NsTask, MoveList(p)
  PROVE  NsInd'
<1> DEFINE c == task[p]
           list == ListNamespaces(c.ns, c.time)
           found == {<<n, grp[n].gid>> : n \in {m \in list : GroupExists(m)}}
           next == [c EXCEPT !.pc = "targets", !.todo = list, !.tried = list, !.stays = found]
<1>0. c \in TaskRec
  BY TaskTyped DEF NsInd
<1>1. CallsOK /\ task \in [NsTask -> TaskRec] /\ LocksTyped
  BY TaskTyped DEF NsInd
<1>2. c.op = "move" /\ c.pc = "worker" /\ UNCHANGED <<nsDisk, nsOps, born, gone>>
  BY DEF MoveList
<1>3. CASE Return(p)
  BY <1>2, <1>3, QuietReturn
<1>4. CASE CheckDepthLimit(c.ns, c.to, list) /\ Go(p, next) /\ UNCHANGED <<groupLock, snapLock>>
  <2>1. list \in SUBSET NsSet /\ \A n \in list : Below(c.ns, n)
    BY DEF ListNamespaces, NsInd, TreeOK, DiskTyped
  <2>2. found \in SUBSET (NsSet \X Nat)
    <3> SUFFICES ASSUME NEW n \in list, GroupExists(n) PROVE <<n, grp[n].gid>> \in NsSet \X Nat
      OBVIOUS
    <3>1. n \in NsSet /\ grp[n] \in GroupRec /\ grp[n] # NoGroup
      BY <2>1 DEF NsInd, TreeOK, DiskTyped, GroupExists
    <3>2. grp[n].gid \in Nat
      BY <3>1 DEF GroupRec
    <3> QED
      BY <3>1, <3>2
  <2>3. IsFiniteSet(found)
    <3> DEFINE S == {m \in list : GroupExists(m)}
               f == [n \in NsSet |-> grp[n].gid]
    <3>1. S \in SUBSET NsSet
      BY <2>1
    <3>2. found = {<<n, f[n]>> : n \in S}
      BY <2>1
    <3> HIDE DEF S, f, found
    <3> QED
      BY <3>1, <3>2, GroupsOfFinite
  <2>4. \A n \in list : Maps(c, n)
    <3> SUFFICES ASSUME NEW n \in list PROVE Maps(c, n)
      OBVIOUS
    <3>1. n \in NsSet /\ Below(c.ns, n) /\ c.ns \in NsSet /\ c.to \in NsSet
      BY <1>0, <2>1 DEF TaskRec
    <3>2. Len(MapPrefix(n, c.ns, c.to)) <= MaxNsDepth
      BY <1>4 DEF CheckDepthLimit
    <3>3. Len(MapPrefix(n, c.ns, c.to)) \in Nat /\ MaxNsDepth \in Nat
      BY <3>1, MapPrefixIs, NsAssumption
    <3>4. Maps(c, n) \/ Len(MapPrefix(n, c.ns, c.to)) > MaxNsDepth
      BY <1>1, <1>2, <3>1, TaskTyped DEF RouteOK
    <3> QED
      BY <3>2, <3>3, <3>4
  <2>5. \A s \in found : s[1] \in list
    OBVIOUS
  <2>6. task' = [task EXCEPT ![p] = next]
    BY <1>4 DEF Go
  <2> HIDE DEF c, list, found
  <2>7. task'[p] = next
    BY <1>1, <2>6
  <2>8. next \in TaskRec
    BY <1>0, <2>1, <2>2, CallNames DEF TaskRec
  <2>9. /\ next.op = c.op /\ next.pc = "targets" /\ next.ns = c.ns /\ next.to = c.to /\ next.who = c.who
        /\ next.todo = list /\ next.tried = list /\ next.deferred = c.deferred /\ next.stays = found
    BY <1>0 DEF TaskRec
  <2> HIDE DEF next
  <2>10. OthersKept(p)
    BY <1>1, <2>3, <2>6, <2>7, <2>8, <2>9 DEF OthersKept
  <2>11. LocksTyped' /\ LocksKept(p)
    BY <1>1, <1>4, LocksSame
  <2>12. LockOK(p)'
    BY <1>2, <2>7, <2>9 DEF LockOK, HoldsGroup
  <2>13. RouteOK(p)'
    <3>1. RouteOK(p)
      BY <1>1, TaskTyped
    <3>2. \A n : Maps(next, n) <=> Maps(c, n)
      BY <2>9 DEF Maps
    <3>3. RouteOK(p)' <=>
        /\ next.op = "move" => /\ next.ns # next.to /\ \A n \in next.todo \cup next.tried \cup next.deferred : Maps(next, n)
                               /\ \A n \in NsSet : Below(next.ns, n) => Maps(next, n) \/ Len(MapPrefix(n, next.ns, next.to)) > MaxNsDepth
        /\ next.op # "move" => next.stays = {}
      BY <2>7 DEF RouteOK, Maps, Below, MapPrefix
    <3> QED
      BY <1>2, <2>4, <2>9, <3>1, <3>2, <3>3 DEF RouteOK, c
  <2>14. MoveOK(p)'
    BY <2>5, <2>7, <2>9 DEF MoveOK
  <2> QED
    BY <1>2, <2>10, <2>11, <2>12, <2>13, <2>14, QuietStep
<1> QED
  BY <1>3, <1>4 DEF MoveList

(* A move reports success when every group it has listed is gone. *)
LEMMA MoveReportOK ==
  ASSUME NsInd, NEW p \in NsTask, MoveReport(p)
  PROVE  NsInd'
<1> DEFINE c == task[p]
           next == [c EXCEPT !.pc = "moved"]
<1>0. c \in TaskRec
  BY TaskTyped DEF NsInd
<1>1. CallsOK /\ task \in [NsTask -> TaskRec] /\ LocksTyped /\ MoveOK(p)
  BY TaskTyped DEF NsInd
<1>2. /\ c.op = "move" /\ c.pc = "retry" /\ c.deferred = {}
      /\ UNCHANGED <<nsDisk, nsOps, born, gone>>
  BY DEF MoveReport
<1>3. CASE Return(p)
  BY <1>2, <1>3, QuietReturn
<1>4. CASE c.all /\ Go(p, next) /\ UNCHANGED <<groupLock, snapLock>>
  <2>1. task' = [task EXCEPT ![p] = next]
    BY <1>4 DEF Go
  <2>2. \A s \in c.stays : GroupGone(s) \/ c.unlisted
    BY <1>1, <1>2, <1>4 DEF MoveOK
  <2> HIDE DEF c
  <2>3. task'[p] = next
    BY <1>1, <2>1
  <2>4. next \in TaskRec
    BY <1>0, CallNames DEF TaskRec
  <2>5. /\ next.op = c.op /\ next.pc = "moved" /\ next.ns = c.ns /\ next.to = c.to /\ next.who = c.who
        /\ next.todo = c.todo /\ next.tried = c.tried /\ next.deferred = c.deferred /\ next.stays = c.stays
        /\ next.unlisted = c.unlisted
    BY <1>0 DEF TaskRec
  <2> HIDE DEF next
  <2>6. OthersKept(p)
    BY <1>1, <2>1, <2>3, <2>4, <2>5, GoRecord DEF c
  <2>7. LocksTyped' /\ LocksKept(p)
    BY <1>1, <1>4, LocksSame
  <2>8. LockOK(p)'
    BY <1>2, <2>3, <2>5 DEF LockOK, HoldsGroup
  <2>9. RouteOK(p)'
    BY <1>1, <1>2, <2>3, <2>5, RouteKept DEF c
  <2>10. MoveOK(p)'
    BY <1>2, <2>2, <2>3, <2>5 DEF MoveOK, GroupGone, nsDisk
  <2> QED
    BY <1>2, <2>6, <2>7, <2>8, <2>9, <2>10, QuietStep
<1> QED
  BY <1>3, <1>4 DEF MoveReport

(* After a crash there are no calls and no locks. *)
LEMMA NsCrashOK ==
  ASSUME NsInd, NsCrash
  PROVE  NsInd'
<1>1. /\ task' = [p \in NsTask |-> NoTask] /\ groupLock' = [n \in NsSet |-> Free] /\ snapLock' = [p \in NsPath |-> Free]
      /\ nsOps' = nsOps + 1 /\ UNCHANGED <<nsDisk, born, gone>>
  BY DEF NsCrash
<1>2. TreeOK'
  BY <1>1, TreeSame DEF NsInd
<1>3. LocksTyped'
  BY <1>1 DEF LocksTyped
<1>4. CallsTyped'
  BY <1>1, NoTaskTyped, FS_EmptySet DEF CallsTyped
<1>5. ASSUME NEW p \in NsTask PROVE CallOK(p)'
  <2>1. task'[p] = NoTask
    BY <1>1
  <2>2. LockOK(p)'
    BY <2>1 DEF LockOK, HoldsGroup, NoTask
  <2>3. RouteOK(p)'
    BY <2>1 DEF RouteOK, NoTask
  <2>4. MoveOK(p)'
    BY <2>1 DEF MoveOK, NoTask
  <2> QED
    BY <2>2, <2>3, <2>4 DEF CallOK
<1> QED
  BY <1>2, <1>3, <1>4, <1>5 DEF NsInd, CallsOK

-----------------------------------------------------------------------------
(* Directories of namespaces *)

(* Directories come and go; those of groups and of parents are there. *)
LEMMA DirStep ==
  ASSUME TreeOK, UNCHANGED <<grp, snap, born, gone>>, nsOps' \in {nsOps, nsOps + 1}, nsDir' \in SUBSET NsSet, marker' \in SUBSET NsSet,
         \A n \in NsSet : GroupExists(n) => n \in nsDir',
         \A n \in nsDir' : n = << >> \/ Parent(n) \in nsDir'
  PROVE  TreeOK'
<1>1. DiskTyped'
  BY DEF TreeOK, DiskTyped
<1>2. IdsTyped'
  <2>1. \A b \in SnapId : b[2] \in Nat
    BY DEF SnapId
  <2> QED
    BY <2>1 DEF TreeOK, IdsTyped
<1>3. TreeWhole'
  BY DEF TreeOK, TreeWhole, HasOwner, GroupExists
<1>4. SnapshotsThere'
  BY DEF TreeOK, SnapshotsThere
<1> QED
  BY <1>1, <1>2, <1>3, <1>4 DEF TreeOK

(* A directory that is made in its parent's. *)
LEMMA DirMade ==
  ASSUME TreeOK, UNCHANGED <<grp, snap, born, gone>>, nsOps' \in {nsOps, nsOps + 1},
         NEW n \in NsSet, n = << >> \/ n \in nsDir \/ Parent(n) \in nsDir,
         nsDir' = nsDir \cup {n}, marker' \in SUBSET NsSet
  PROVE  TreeOK'
<1>1. nsDir \in SUBSET NsSet /\ TreeWhole
  BY DEF TreeOK, DiskTyped
<1>2. \A m \in NsSet : GroupExists(m) => m \in nsDir'
  BY <1>1 DEF TreeWhole
<1>3. \A m \in nsDir' : m = << >> \/ Parent(m) \in nsDir'
  BY <1>1 DEF TreeWhole
<1> QED
  BY <1>1, <1>2, <1>3, DirStep

(* A directory that is removed when nothing is in it. *)
LEMMA DirRemoved ==
  ASSUME TreeOK, UNCHANGED <<grp, snap, born, gone, nsOps>>, NEW n \in NsSet,
         nsDir' = RemovedNs(n) \/ nsDir' = nsDir, marker' \in SUBSET NsSet
  PROVE  TreeOK'
<1>1. nsDir \in SUBSET NsSet /\ TreeWhole
  BY DEF TreeOK, DiskTyped
<1>2. CASE nsDir' = nsDir
  BY <1>1, <1>2, DirStep DEF TreeWhole
<1>3. CASE nsDir' = nsDir \ {n} /\ EmptyNs(n)
  <2>1. \A m \in NsSet : GroupExists(m) => m \in nsDir'
    BY <1>1, <1>3 DEF TreeWhole, EmptyNs
  <2>2. \A m \in nsDir' : m = << >> \/ Parent(m) \in nsDir'
    <3> SUFFICES ASSUME NEW m \in nsDir, m # << >>, Parent(m) = n PROVE FALSE
      BY <1>1, <1>3 DEF TreeWhole
    <3>1. m \in NsSet
      BY <1>1
    <3>2. Below(n, m) /\ Len(m) = Len(n) + 1
      BY <3>1, ParentIs
    <3>3. m \in Children(n)
      BY <3>2 DEF Children
    <3> QED
      BY <1>3, <3>3 DEF EmptyNs
  <2>3. nsDir' \in SUBSET NsSet
    BY <1>1, <1>3
  <2> QED
    BY <2>1, <2>2, <2>3, DirStep
<1> QED
  BY <1>2, <1>3 DEF RemovedNs

LEMMA CreateNamespaceOK ==
  ASSUME NsInd, NEW n \in NsSet, CreateNamespace(n)
  PROVE  NsInd'
<1>1. /\ n # << >> /\ Parent(n) \in nsDir /\ nsDir' = nsDir \cup {n} /\ marker' = marker \cup {n} /\ nsOps' = nsOps + 1
      /\ UNCHANGED <<grp, snap, groupLock, snapLock, task, born, gone>>
  BY DEF CreateNamespace, MayCreate
<1>2. marker' \in SUBSET NsSet /\ TreeOK
  BY <1>1 DEF NsInd, TreeOK, DiskTyped
<1>3. TreeOK'
  BY <1>1, <1>2, DirMade
<1>4. CallsOK'
  <2>1. LocksTyped' /\ CallsTyped'
    BY <1>1 DEF NsInd, CallsOK, LocksTyped, CallsTyped
  <2>2. ASSUME NEW p \in NsTask PROVE CallOK(p)'
    <3>1. LockOK(p) /\ RouteOK(p) /\ MoveOK(p)
      BY TaskTyped DEF NsInd
    <3>2. LockOK(p)'
      BY <1>1, <3>1 DEF LockOK, HoldsGroup, HasOwner, Times
    <3>3. RouteOK(p)'
      BY <1>1, <3>1 DEF RouteOK
    <3>4. MoveOK(p)'
      BY <1>1, <3>1 DEF MoveOK, GroupGone
    <3> QED
      BY <3>2, <3>3, <3>4 DEF CallOK
  <2> QED
    BY <2>1, <2>2 DEF CallsOK
<1> QED
  BY <1>3, <1>4 DEF NsInd

LEMMA RemoveNamespaceOK ==
  ASSUME NsInd, NEW p \in NsTask, NEW n \in NsSet, RemoveNamespace(p, n)
  PROVE  NsInd'
<1> DEFINE c == task[p]
           left == c.todo \ {n}
           at == IF c.flag THEN "groups" ELSE "rmdir"
           next == [c EXCEPT !.todo = left, !.pc = at]
<1>0. c \in TaskRec
  BY TaskTyped DEF NsInd
<1>1. CallsOK /\ TreeOK /\ task \in [NsTask -> TaskRec] /\ LocksTyped
  BY TaskTyped DEF NsInd
<1>2. /\ c.op = "delete_namespace" /\ nsDir' = RemovedNs(n) /\ marker' = marker \ {n}
      /\ UNCHANGED <<grp, snap, nsOps, born, gone>>
  BY DEF RemoveNamespace
<1>3. TreeOK'
  <2>1. marker' \in SUBSET NsSet
    BY <1>1, <1>2 DEF TreeOK, DiskTyped
  <2> QED
    BY <1>1, <1>2, <2>1, DirRemoved
<1>4. GroupsKept(p) /\ GidsKept
  BY <1>2, GroupsSame
<1>5. CASE Return(p)
  BY <1>1, <1>3, <1>4, <1>5, ReturnStep DEF NsInd
<1>6. CASE Go(p, next) /\ UNCHANGED <<groupLock, snapLock>>
  <2>1. task' = [task EXCEPT ![p] = next] /\ left \in SUBSET NsSet /\ at \in {"groups", "rmdir"}
    BY <1>0, <1>6 DEF Go, TaskRec
  <2> HIDE DEF c, left, at
  <2>2. task'[p] = next
    BY <1>1, <2>1
  <2>3. next \in TaskRec
    BY <1>0, <2>1, CallNames DEF TaskRec
  <2>4. next.op = c.op /\ next.pc = at /\ next.stays = c.stays
    BY <1>0 DEF TaskRec
  <2> HIDE DEF next
  <2>5. OthersKept(p)
    BY <1>1, <2>1, <2>2, <2>3, <2>4, GoRecord DEF c
  <2>6. LocksTyped' /\ LocksKept(p)
    BY <1>1, <1>6, LocksSame
  <2>7. LockOK(p)'
    BY <1>2, <2>1, <2>2, <2>4 DEF LockOK, HoldsGroup
  <2>8. RouteOK(p)' /\ MoveOK(p)'
    BY <1>1, <1>2, <2>2, <2>4, RouteIdle DEF c
  <2> QED
    BY <1>1, <1>3, <1>4, <2>5, <2>6, <2>7, <2>8, CallStep DEF NsInd
<1> QED
  BY <1>5, <1>6 DEF RemoveNamespace

(* The targets of a move. *)
LEMMA MoveCreateOK ==
  ASSUME NsInd, NEW p \in NsTask, NEW n \in task[p].todo, MoveCreate(p, n)
  PROVE  NsInd'
<1> DEFINE c == task[p]
           k == MapPrefix(n, c.ns, c.to)
           rest == c.todo \ {n}
<1>0. c \in TaskRec
  BY TaskTyped DEF NsInd
<1>1. CallsOK /\ TreeOK /\ task \in [NsTask -> TaskRec] /\ LocksTyped /\ RouteOK(p) /\ MoveOK(p)
  BY TaskTyped DEF NsInd
<1>2. c.op = "move" /\ c.pc = "targets" /\ UNCHANGED <<grp, snap, nsOps, born, gone>>
  BY DEF MoveCreate
<1>3. GroupsKept(p) /\ GidsKept
  BY <1>2, GroupsSame
<1>4. CASE Return(p) /\ UNCHANGED <<nsDir, marker>>
  <2>1. TreeOK'
    BY <1>1, <1>2, <1>4, TreeSame DEF nsDisk
  <2> QED
    BY <1>1, <1>3, <1>4, <2>1, ReturnStep DEF NsInd
<1>5. CASE /\ k = << >> \/ k \in nsDir \/ MayCreate(k)
           /\ nsDir' = nsDir \cup {k} /\ marker' \in {marker, marker \cup {k}}
           /\ Go(p, IF rest = {} THEN [c EXCEPT !.pc = "groups", !.todo = c.tried] ELSE [c EXCEPT !.todo = rest])
           /\ UNCHANGED <<groupLock, snapLock>>
  <2>1. k \in NsSet
    BY <1>1, <1>2 DEF RouteOK, Maps
  <2>2. TreeOK'
    <3>1. marker' \in SUBSET NsSet
      BY <1>1, <1>5, <2>1 DEF TreeOK, DiskTyped
    <3>2. k = << >> \/ k \in nsDir \/ Parent(k) \in nsDir
      BY <1>5 DEF MayCreate
    <3> HIDE DEF k
    <3> QED
      BY <1>1, <1>2, <1>5, <2>1, <3>1, <3>2, DirMade
  <2>3. LocksTyped' /\ LocksKept(p)
    BY <1>1, <1>5, LocksSame
  <2>4. CASE rest = {}
    <3> DEFINE next == [c EXCEPT !.pc = "groups", !.todo = c.tried]
    <3>1. task' = [task EXCEPT ![p] = next]
      BY <1>5, <2>4 DEF Go
    <3> HIDE DEF c
    <3>2. task'[p] = next
      BY <1>1, <3>1
    <3>3. next \in TaskRec
      BY <1>0, CallNames DEF TaskRec
    <3>4. /\ next.op = c.op /\ next.pc = "groups" /\ next.ns = c.ns /\ next.to = c.to /\ next.stays = c.stays
          /\ next.todo = c.tried /\ next.tried = c.tried /\ next.deferred = c.deferred
          /\ next.all = c.all /\ next.unlisted = c.unlisted
      BY <1>0 DEF TaskRec
    <3> HIDE DEF next
    <3>5. OthersKept(p)
      BY <1>1, <3>1, <3>2, <3>3, <3>4, GoRecord DEF c
    <3>6. LockOK(p)'
      BY <1>2, <3>2, <3>4 DEF LockOK, HoldsGroup
    <3>7. RouteOK(p)'
      BY <1>1, <1>2, <3>2, <3>4, RouteKept DEF c
    <3>8. MoveOK(p)'
      BY <1>1, <1>2, <3>2, <3>4 DEF MoveOK, GroupGone, c
    <3> QED
      BY <1>1, <1>3, <2>2, <2>3, <3>5, <3>6, <3>7, <3>8, CallStep DEF NsInd
  <2>5. CASE rest # {}
    <3> DEFINE next == [c EXCEPT !.todo = rest]
    <3>1. task' = [task EXCEPT ![p] = next] /\ rest \in SUBSET NsSet /\ rest \subseteq c.todo
      BY <1>0, <1>5, <2>5 DEF Go, TaskRec
    <3> HIDE DEF c, rest
    <3>2. task'[p] = next
      BY <1>1, <3>1
    <3>3. next \in TaskRec
      BY <1>0, <3>1, CallNames DEF TaskRec
    <3>4. /\ next.op = c.op /\ next.pc = c.pc /\ next.ns = c.ns /\ next.to = c.to /\ next.stays = c.stays
          /\ next.todo = rest /\ next.tried = c.tried /\ next.deferred = c.deferred
          /\ next.all = c.all /\ next.unlisted = c.unlisted
      BY <1>0 DEF TaskRec
    <3> HIDE DEF next
    <3>5. OthersKept(p)
      BY <1>1, <3>1, <3>2, <3>3, <3>4, GoRecord DEF c
    <3>6. LockOK(p)'
      BY <1>2, <3>2, <3>4 DEF LockOK, HoldsGroup
    <3>7. RouteOK(p)'
      BY <1>1, <1>2, <3>1, <3>2, <3>4, RouteKept DEF c
    <3>8. MoveOK(p)'
      BY <1>1, <1>2, <3>2, <3>4 DEF MoveOK, GroupGone, c
    <3> QED
      BY <1>1, <1>3, <2>2, <2>3, <3>5, <3>6, <3>7, <3>8, CallStep DEF NsInd
  <2> QED
    BY <2>4, <2>5
<1> QED
  BY <1>4, <1>5 DEF MoveCreate

LEMMA MoveCleanupOK ==
  ASSUME NsInd, NEW p \in NsTask, NEW n \in task[p].tried, MoveCleanup(p, n)
  PROVE  NsInd'
<1> DEFINE c == task[p]
           less == c.tried \ {n}
           more == c.todo \cup {n}
           next == [c EXCEPT !.tried = less, !.todo = more]
<1>0. c \in TaskRec
  BY TaskTyped DEF NsInd
<1>1. CallsOK /\ TreeOK /\ task \in [NsTask -> TaskRec] /\ LocksTyped /\ MoveOK(p)
  BY TaskTyped DEF NsInd
<1>2. /\ c.op = "move" /\ c.pc = "retry" /\ nsDir' \in {nsDir, RemovedNs(n)} /\ marker' \in {marker, marker \ {n}}
      /\ Go(p, next) /\ UNCHANGED <<grp, snap, groupLock, snapLock, nsOps, born, gone>>
  BY DEF MoveCleanup
<1>3. n \in NsSet /\ less \in SUBSET NsSet /\ more \in SUBSET NsSet /\ less \cup more \subseteq c.tried \cup c.todo
  BY <1>0 DEF TaskRec
<1>4. TreeOK'
  <2>1. marker' \in SUBSET NsSet
    BY <1>1, <1>2 DEF TreeOK, DiskTyped
  <2> QED
    BY <1>1, <1>2, <1>3, <2>1, DirRemoved
<1>5. GroupsKept(p) /\ GidsKept
  BY <1>2, GroupsSame
<1>6. task' = [task EXCEPT ![p] = next]
  BY <1>2 DEF Go
<1> HIDE DEF c, less, more
<1>7. task'[p] = next
  BY <1>1, <1>6
<1>8. next \in TaskRec
  BY <1>0, <1>3, CallNames DEF TaskRec
<1>9. /\ next.op = c.op /\ next.pc = c.pc /\ next.ns = c.ns /\ next.to = c.to /\ next.stays = c.stays
      /\ next.todo = more /\ next.tried = less /\ next.deferred = c.deferred
      /\ next.all = c.all /\ next.unlisted = c.unlisted
  BY <1>0 DEF TaskRec
<1> HIDE DEF next
<1>10. OthersKept(p)
  BY <1>1, <1>6, <1>7, <1>8, <1>9, GoRecord DEF c
<1>11. LocksTyped' /\ LocksKept(p)
  BY <1>1, <1>2, LocksSame
<1>12. LockOK(p)'
  BY <1>2, <1>7, <1>9 DEF LockOK, HoldsGroup
<1>13. RouteOK(p)'
  <2>1. task'[p].todo \cup task'[p].tried \cup task'[p].deferred \subseteq c.todo \cup c.tried \cup c.deferred
    BY <1>3, <1>7, <1>9
  <2> QED
    BY <1>1, <1>2, <1>7, <1>9, <2>1, RouteKept DEF c
<1>14. MoveOK(p)'
  BY <1>1, <1>2, <1>7, <1>9 DEF MoveOK, GroupGone, c
<1> QED
  BY <1>1, <1>4, <1>5, <1>10, <1>11, <1>12, <1>13, <1>14, CallStep DEF NsInd

-----------------------------------------------------------------------------
(* Groups *)

(* One group changes: with snapshots it keeps an owner, and it is in a     *)
(* directory that is there.                                                *)
LEMMA GroupChange ==
  ASSUME TreeOK, UNCHANGED <<nsDir, marker, snap, nsOps, born, gone>>, NEW n \in NsSet, grp' = [grp EXCEPT ![n] = grp'[n]],
         grp'[n] \in GroupRec, grp'[n] = NoGroup \/ n \in nsDir, Times(n) = {} \/ grp'[n].owner \in NsOwner
  PROVE  TreeOK'
<1>1. /\ grp \in [NsSet -> GroupRec] /\ snap \in [NsPath -> SnapRec] /\ nsDir \subseteq NsSet /\ marker \subseteq NsSet
      /\ TreeWhole /\ SnapshotsThere /\ IdsTyped
  BY DEF TreeOK, DiskTyped
<1>2. grp' \in [NsSet -> GroupRec] /\ \A m \in NsSet \ {n} : grp'[m] = grp[m]
  BY <1>1
<1>3. DiskTyped'
  BY <1>1, <1>2 DEF DiskTyped
<1>4. TreeWhole'
  <2>1. \A x \in NsPath : snap[x] # NoSnap => grp'[x[1]].owner \in NsOwner
    <3> SUFFICES ASSUME NEW x \in NsPath, snap[x] # NoSnap PROVE grp'[x[1]].owner \in NsOwner
      OBVIOUS
    <3>1. x[1] \in NsSet /\ x[2] \in NsTime /\ x = <<x[1], x[2]>>
      BY DEF NsPath
    <3>2. CASE x[1] = n
      <4>1. x[2] \in Times(n)
        BY <3>1, <3>2 DEF Times
      <4> QED
        BY <3>2, <4>1
    <3>3. CASE x[1] # n
      BY <1>1, <1>2, <3>1, <3>3 DEF TreeWhole, HasOwner
    <3> QED
      BY <3>2, <3>3
  <2>2. \A m \in NsSet : grp'[m] # NoGroup => m \in nsDir
    BY <1>1, <1>2 DEF TreeWhole, GroupExists
  <2> QED
    BY <1>1, <2>1, <2>2 DEF TreeWhole, HasOwner, GroupExists
<1>5. SnapshotsThere' /\ IdsTyped'
  BY <1>1 DEF SnapshotsThere, IdsTyped
<1> QED
  BY <1>3, <1>4, <1>5 DEF TreeOK

(* ... and the other calls do not mind. *)
LEMMA GroupChangeKept ==
  ASSUME TreeOK, UNCHANGED snap, NEW p, NEW n \in NsSet, grp' = [grp EXCEPT ![n] = grp'[n]],
         groupLock[n] \in {p, Free} \/ ~HasOwner(n) \/ grp'[n].owner \in NsOwner,
         \/ grp'[n] = NoGroup \/ grp'[n].gid \notin UsedGids
         \/ grp[n] # NoGroup /\ grp'[n].gid = grp[n].gid
  PROVE  GroupsKept(p) /\ GidsKept
<1>1. \A m \in NsSet \ {n} : grp'[m] = grp[m]
  BY DEF TreeOK, DiskTyped
<1>2. GidsKept
  BY <1>1 DEF GidsKept
<1>3. GroupsKept(p)
  <2> SUFFICES ASSUME NEW m \in NsSet, groupLock[m] \notin {p, Free}
               PROVE  (HasOwner(m) => HasOwner(m)') /\ Times(m)' \subseteq Times(m)
    BY DEF GroupsKept
  <2>1. Times(m)' = Times(m)
    BY DEF Times
  <2>2. HasOwner(m)' <=> grp'[m].owner \in NsOwner
    BY DEF HasOwner
  <2>3. CASE m = n
    BY <2>1, <2>2, <2>3
  <2>4. CASE m # n
    BY <1>1, <2>1, <2>2, <2>4 DEF HasOwner
  <2> QED
    BY <2>3, <2>4
<1> QED
  BY <1>2, <1>3

LEMMA GroupTyped ==
  ASSUME TreeOK, NEW n \in NsSet
  PROVE  /\ grp \in [NsSet -> GroupRec] /\ grp[n] \in GroupRec
         /\ GroupExists(n) => n \in nsDir /\ grp[n].gid \in Nat /\ grp[n] = [owner |-> grp[n].owner, gid |-> grp[n].gid]
         /\ GroupExists(n) <=> grp[n].owner \in NsOwner \cup {NoOwner}
<1>1. grp \in [NsSet -> GroupRec] /\ grp[n] \in GroupRec
  BY DEF TreeOK, DiskTyped
<1>2. GroupExists(n) => n \in nsDir
  BY DEF TreeOK, TreeWhole
<1>3. NoGroup.owner \notin NsOwner \cup {NoOwner}
  BY NsAssumption DEF NoGroup, NoOwner
<1>4. GroupExists(n) => grp[n] \in [owner : NsOwner \cup {NoOwner}, gid : Nat]
  BY <1>1 DEF GroupRec, GroupExists
<1>5. GroupExists(n) => grp[n].gid \in Nat /\ grp[n] = [owner |-> grp[n].owner, gid |-> grp[n].gid] /\ grp[n].owner \in NsOwner \cup {NoOwner}
  BY <1>4
<1> QED
  BY <1>1, <1>2, <1>3, <1>5 DEF GroupExists

LEMMA OwnerSet ==
  ASSUME TreeOK, NEW n \in NsSet, GroupExists(n), NEW w, grp' = [grp EXCEPT ![n].owner = w]
  PROVE  grp'[n] = [owner |-> w, gid |-> grp[n].gid] /\ grp' = [grp EXCEPT ![n] = grp'[n]] /\ grp[n].gid \in Nat /\ n \in nsDir
<1>1. grp \in [NsSet -> GroupRec] /\ grp[n].gid \in Nat /\ n \in nsDir /\ grp[n] = [owner |-> grp[n].owner, gid |-> grp[n].gid]
  BY GroupTyped
<1>2. grp'[n] = [grp[n] EXCEPT !.owner = w] /\ grp' = [grp EXCEPT ![n] = [grp[n] EXCEPT !.owner = w]]
  BY <1>1
<1>3. \A o, i : [[owner |-> o, gid |-> i] EXCEPT !.owner = w] = [owner |-> w, gid |-> i]
  OBVIOUS
<1>4. grp'[n] = [owner |-> w, gid |-> grp[n].gid]
  BY <1>1, <1>2, <1>3
<1> QED
  BY <1>1, <1>2, <1>4

LEMMA GroupLockFailsOK ==
  ASSUME NsInd, NEW p \in NsTask, GroupLockFails(p)
  PROVE  NsInd'
<1> DEFINE n == task[p].ns
<1>1. n \in NsSet
  BY TaskTyped DEF NsInd, TaskRec
<1> HIDE DEF n
<1>2. /\ CallsOK /\ TreeOK /\ Return(p) /\ UNCHANGED <<nsDir, marker, snap, nsOps, born, gone>>
      /\ grp' \in {grp, Rmdir(n)}
  BY DEF GroupLockFails, NsInd, n
<1>3. CASE grp' = grp
  <2>1. GroupsKept(p) /\ GidsKept
    BY <1>2, <1>3, GroupsSame
  <2>2. TreeOK'
    BY <1>2, <1>3, TreeSame DEF nsDisk
  <2> QED
    BY <1>2, <2>1, <2>2, ReturnStep DEF NsInd
<1>4. CASE grp[n].owner = NoOwner /\ Times(n) = {} /\ grp' = [grp EXCEPT ![n] = NoGroup]
  <2>1. grp'[n] = NoGroup /\ NoGroup \in GroupRec
    BY <1>1, <1>2, <1>4, GroupTyped DEF GroupRec
  <2>2. TreeOK'
    BY <1>1, <1>2, <1>4, <2>1, GroupChange
  <2>3. ~HasOwner(n)
    BY <1>4, NsAssumption DEF HasOwner
  <2>4. GroupsKept(p) /\ GidsKept
    BY <1>1, <1>2, <1>4, <2>1, <2>3, GroupChangeKept
  <2> QED
    BY <1>2, <2>2, <2>4, ReturnStep DEF NsInd
<1> QED
  BY <1>2, <1>3, <1>4 DEF Rmdir

LEMMA LockGroupOK ==
  ASSUME NsInd, NEW p \in NsTask, LockGroup(p)
  PROVE  NsInd'
<1> DEFINE c == task[p]
           n == c.ns
           next == [c EXCEPT !.pc = "group"]
<1>0. c \in TaskRec
  BY TaskTyped DEF NsInd
<1>1. CallsOK /\ TreeOK /\ task \in [NsTask -> TaskRec] /\ LocksTyped /\ LockOK(p)
  BY TaskTyped DEF NsInd
<1>2. /\ c.op = "backup" /\ groupLock[n] = Free /\ GroupExists(n)
      /\ grp' = [grp EXCEPT ![n].owner = c.who] /\ groupLock' = [groupLock EXCEPT ![n] = p] /\ task' = [task EXCEPT ![p] = next]
      /\ UNCHANGED <<nsDir, marker, snap, snapLock, nsOps, born, gone>>
  BY DEF LockGroup, Go
<1>3. n \in NsSet /\ c.who \in NsOwner
  BY <1>0, <1>1, <1>2 DEF LockOK, TaskRec
<1> HIDE DEF c
<1>4. grp'[n] = [owner |-> c.who, gid |-> grp[n].gid] /\ grp' = [grp EXCEPT ![n] = grp'[n]] /\ grp[n].gid \in Nat /\ n \in nsDir
  BY <1>1, <1>2, <1>3, OwnerSet
<1>5. grp'[n] \in GroupRec /\ grp'[n].owner \in NsOwner /\ grp'[n].gid = grp[n].gid
  BY <1>3, <1>4 DEF GroupRec
<1>6. TreeOK'
  BY <1>1, <1>2, <1>3, <1>4, <1>5, GroupChange
<1>7. GroupsKept(p) /\ GidsKept
  BY <1>1, <1>2, <1>3, <1>4, <1>5, GroupChangeKept DEF GroupExists
<1>8. task'[p] = next
  BY <1>1, <1>2
<1>9. next \in TaskRec
  BY <1>0, CallNames DEF TaskRec
<1>10. next.op = c.op /\ next.pc = "group" /\ next.ns = c.ns /\ next.who = c.who /\ next.time = c.time /\ next.stays = c.stays
  BY <1>0 DEF TaskRec
<1> HIDE DEF next
<1>11. OthersKept(p)
  BY <1>1, <1>2, <1>8, <1>9, <1>10, GoRecord DEF c
<1>12. LocksTyped' /\ LocksKept(p) /\ groupLock'[n] = p
  BY <1>1, <1>2, <1>3, NsAssumption DEF LocksTyped, LocksKept
<1>13. LockOK(p)'
  <2>1. task'[p].ns = n /\ task'[p].pc = "group" /\ task'[p].who = c.who /\ task'[p].time \in NsTime
    BY <1>1, <1>2, <1>8, <1>10 DEF LockOK, c
  <2> HIDE DEF n
  <2> QED
    BY <1>3, <1>5, <1>12, <2>1 DEF LockOK, HasOwner
<1>14. RouteOK(p)' /\ MoveOK(p)'
  BY <1>1, <1>2, <1>8, <1>10, RouteIdle DEF c
<1> QED
  BY <1>1, <1>6, <1>7, <1>11, <1>12, <1>13, <1>14, CallStep DEF NsInd

LEMMA CleanupGroupOK ==
  ASSUME NsInd, NEW p \in NsTask, CleanupGroup(p)
  PROVE  NsInd'
<1> DEFINE n == task[p].ns
<1>1. n \in NsSet /\ task[p].left \in SUBSET NsTime
  BY TaskTyped DEF NsInd, TaskRec
<1> HIDE DEF n
<1>2. /\ CallsOK /\ TreeOK /\ task[p].op = "prune" /\ NextVictim(p, task[p].left) /\ UNCHANGED <<nsDir, marker, snap, nsOps, born, gone>>
      /\ \/ grp' = grp
         \/ groupLock[n] = Free /\ Times(n) = {} /\ grp' = [grp EXCEPT ![n] = NoGroup]
  BY DEF CleanupGroup, NsInd, n
<1>3. CASE grp' = grp
  <2>1. GroupsKept(p) /\ GidsKept
    BY <1>2, <1>3, GroupsSame
  <2>2. TreeOK'
    BY <1>2, <1>3, TreeSame DEF nsDisk
  <2> QED
    BY <1>1, <1>2, <2>1, <2>2, NextVictimOK DEF NsInd
<1>4. CASE groupLock[n] = Free /\ Times(n) = {} /\ grp' = [grp EXCEPT ![n] = NoGroup]
  <2>1. grp'[n] = NoGroup /\ NoGroup \in GroupRec
    BY <1>1, <1>2, <1>4, GroupTyped DEF GroupRec
  <2>2. TreeOK'
    BY <1>1, <1>2, <1>4, <2>1, GroupChange
  <2>3. GroupsKept(p) /\ GidsKept
    BY <1>1, <1>2, <1>4, <2>1, GroupChangeKept
  <2> QED
    BY <1>1, <1>2, <2>2, <2>3, NextVictimOK DEF NsInd
<1> QED
  BY <1>2, <1>3, <1>4

(* The directory of a group goes when all its snapshots have gone. *)
LEMMA DeleteGroupDirOK ==
  ASSUME NsInd, NEW p \in NsTask, DeleteGroupDir(p)
  PROVE  NsInd'
<1> DEFINE c == task[p]
           n == c.ns
           next == [c EXCEPT !.pc = "rmdir"]
<1>0. c \in TaskRec
  BY TaskTyped DEF NsInd
<1>1. CallsOK /\ TreeOK /\ task \in [NsTask -> TaskRec] /\ LocksTyped /\ LockOK(p) /\ RouteOK(p) /\ MoveOK(p)
  BY TaskTyped DEF NsInd
<1>2. /\ c.pc = "snapshots" /\ c.left = {} /\ UNCHANGED <<nsDir, marker, snap, nsOps, born, gone>>
      /\ grp' = grp \/ (c.made /\ grp' = [grp EXCEPT ![n] = NoGroup])
  BY DEF DeleteGroupDir
<1>3. n \in NsSet /\ groupLock[n] = p /\ (c.made => Times(n) = {})
  BY <1>0, <1>1, <1>2 DEF LockOK, HoldsGroup, TaskRec
<1>4. TreeOK' /\ GroupsKept(p) /\ GidsKept
  <2>1. CASE grp' = grp
    <3>1. GroupsKept(p) /\ GidsKept
      BY <1>2, <2>1, GroupsSame
    <3>2. TreeOK'
      BY <1>1, <1>2, <2>1, TreeSame DEF nsDisk
    <3> QED
      BY <3>1, <3>2
  <2>2. CASE c.made /\ grp' = [grp EXCEPT ![n] = NoGroup]
    <3> HIDE DEF n
    <3>1. grp'[n] = NoGroup /\ NoGroup \in GroupRec
      BY <1>1, <1>3, <2>2, GroupTyped DEF GroupRec
    <3>2. TreeOK'
      BY <1>1, <1>2, <1>3, <2>2, <3>1, GroupChange
    <3>3. GroupsKept(p) /\ GidsKept
      BY <1>1, <1>2, <1>3, <2>2, <3>1, GroupChangeKept
    <3> QED
      BY <3>2, <3>3
  <2> QED
    BY <1>2, <2>1, <2>2
<1>5. CASE Return(p)
  BY <1>1, <1>4, <1>5, ReturnStep DEF NsInd
<1>6. CASE Go(p, next) /\ groupLock' = [groupLock EXCEPT ![n] = Free] /\ UNCHANGED snapLock
  <2>1. task' = [task EXCEPT ![p] = next]
    BY <1>6 DEF Go
  <2> HIDE DEF c
  <2>2. task'[p] = next
    BY <1>1, <2>1
  <2>3. next \in TaskRec
    BY <1>0, CallNames DEF TaskRec
  <2>4. /\ next.op = c.op /\ next.pc = "rmdir" /\ next.ns = c.ns /\ next.to = c.to /\ next.who = c.who /\ next.time = c.time /\ next.stays = c.stays
        /\ next.todo = c.todo /\ next.tried = c.tried /\ next.deferred = c.deferred
        /\ next.all = c.all /\ next.unlisted = c.unlisted
    BY <1>0 DEF TaskRec
  <2> HIDE DEF next
  <2>5. OthersKept(p)
    BY <1>1, <2>1, <2>2, <2>3, <2>4, GoRecord DEF c
  <2>6. LocksTyped' /\ LocksKept(p)
    BY <1>1, <1>3, <1>6 DEF LocksTyped, LocksKept
  <2>7. LockOK(p)'
    BY <1>1, <1>2, <2>2, <2>4 DEF LockOK, HoldsGroup, c
  <2>8. RouteOK(p)'
    <3>1. CASE c.op = "move"
      BY <1>1, <2>2, <2>4, <3>1, RouteKept DEF c
    <3>2. CASE c.op # "move"
      BY <1>1, <2>2, <2>4, <3>2, RouteIdle DEF c
    <3> QED
      BY <3>1, <3>2
  <2>9. MoveOK(p)'
    <3> SUFFICES ASSUME NEW s \in c.stays
                 PROVE  GroupGone(s)' \/ c.unlisted \/ ~c.all \/ s[1] \in c.deferred
      BY <2>2, <2>4 DEF MoveOK, GroupGone
    <3>1. GroupGone(s) \/ c.unlisted \/ ~c.all \/ s[1] \in c.deferred
      BY <1>1, <1>2 DEF MoveOK, c
    <3>2. GroupGone(s) => GroupGone(s)'
      BY <1>1, <1>4, GoneStays DEF CallsOK, c
    <3> QED
      BY <3>1, <3>2
  <2> QED
    BY <1>1, <1>4, <2>5, <2>6, <2>7, <2>8, <2>9, CallStep DEF NsInd
<1> QED
  BY <1>5, <1>6 DEF DeleteGroupDir

LEMMA SetOwnerOK ==
  ASSUME NsInd, NEW p \in NsTask, SetOwner(p)
  PROVE  NsInd'
<1> DEFINE c == task[p]
           n == c.ns
<1>0. c \in TaskRec
  BY TaskTyped DEF NsInd
<1>1. CallsOK /\ TreeOK /\ LockOK(p)
  BY TaskTyped DEF NsInd
<1>2. /\ c.op = "owner" /\ Return(p) /\ UNCHANGED <<nsDir, marker, snap, nsOps, born, gone>>
      /\ grp' = grp \/ (groupLock[n] = Free /\ grp[n].owner = c.seen /\ grp' = [grp EXCEPT ![n].owner = c.who])
  BY DEF SetOwner
<1>3. n \in NsSet /\ c.who \in NsOwner /\ c.seen \in NsOwner \cup {NoOwner}
  BY <1>0, <1>1, <1>2 DEF LockOK, TaskRec
<1> HIDE DEF c
<1>4. CASE grp' = grp
  <2>1. GroupsKept(p) /\ GidsKept
    BY <1>2, <1>4, GroupsSame
  <2>2. TreeOK'
    BY <1>1, <1>2, <1>4, TreeSame DEF nsDisk
  <2> QED
    BY <1>1, <1>2, <2>1, <2>2, ReturnStep DEF NsInd
<1>5. CASE groupLock[n] = Free /\ grp[n].owner = c.seen /\ grp' = [grp EXCEPT ![n].owner = c.who]
  <2>0. GroupExists(n)
    BY <1>1, <1>3, <1>5, GroupTyped
  <2>1. grp'[n] = [owner |-> c.who, gid |-> grp[n].gid] /\ grp' = [grp EXCEPT ![n] = grp'[n]] /\ grp[n].gid \in Nat /\ n \in nsDir
    BY <1>1, <1>3, <1>5, <2>0, OwnerSet
  <2>2. grp'[n] \in GroupRec /\ grp'[n].owner \in NsOwner /\ grp'[n].gid = grp[n].gid
    BY <1>3, <2>1 DEF GroupRec
  <2>3. TreeOK'
    BY <1>1, <1>2, <1>3, <2>1, <2>2, GroupChange
  <2>4. GroupsKept(p) /\ GidsKept
    BY <1>1, <1>2, <1>3, <2>0, <2>1, <2>2, GroupChangeKept DEF GroupExists
  <2> QED
    BY <1>1, <1>2, <2>3, <2>4, ReturnStep DEF NsInd
<1> QED
  BY <1>2, <1>4, <1>5

-----------------------------------------------------------------------------
(* Snapshots *)

(* The parts of the tree put together. *)
LEMMA TreeBy ==
  ASSUME TreeOK, nsDir' \in SUBSET NsSet, marker' \in SUBSET NsSet, \A n \in nsDir' : n = << >> \/ Parent(n) \in nsDir',
         grp' \in [NsSet -> GroupRec], snap' \in [NsPath -> SnapRec], IdsTyped', SnapshotsThere',
         \A x \in NsPath : snap'[x] # NoSnap => grp'[x[1]].owner \in NsOwner,
         \A n \in NsSet : grp'[n] # NoGroup => n \in nsDir'
  PROVE  TreeOK'
<1>1. DiskTyped'
  BY DEF DiskTyped
<1>2. TreeWhole'
  BY DEF TreeWhole, HasOwner, GroupExists
<1> QED
  BY <1>1, <1>2 DEF TreeOK

LEMMA TreeParts ==
  ASSUME TreeOK
  PROVE  /\ nsDir \in SUBSET NsSet /\ marker \in SUBSET NsSet /\ \A n \in nsDir : n = << >> \/ Parent(n) \in nsDir
         /\ grp \in [NsSet -> GroupRec] /\ snap \in [NsPath -> SnapRec] /\ IdsTyped /\ SnapshotsThere
         /\ \A x \in NsPath : snap[x] # NoSnap => grp[x[1]].owner \in NsOwner
         /\ \A n \in NsSet : grp[n] # NoGroup => n \in nsDir
BY DEF TreeOK, DiskTyped, TreeWhole, HasOwner, GroupExists

LEMMA PathIs ==
  ASSUME NEW x \in NsPath
  PROVE  x[1] \in NsSet /\ x[2] \in NsTime /\ x = <<x[1], x[2]>>
BY DEF NsPath

LEMMA PathPair ==
  ASSUME NEW n \in NsSet, NEW t \in NsTime
  PROVE  <<n, t>> \in NsPath /\ <<n, t>>[1] = n /\ <<n, t>>[2] = t
BY DEF NsPath

(* A group without a directory has no snapshots. *)
LEMMA NoGroupEmpty ==
  ASSUME TreeOK, NEW n \in NsSet, ~HasOwner(n)
  PROVE  Times(n) = {}
<1> SUFFICES ASSUME NEW t \in Times(n) PROVE FALSE
  OBVIOUS
<1>1. <<n, t>> \in NsPath /\ <<n, t>>[1] = n /\ snap[<<n, t>>] # NoSnap
  BY PathPair DEF Times
<1>2. grp[<<n, t>>[1]].owner \in NsOwner
  BY <1>1, TreeParts
<1> QED
  BY <1>1, <1>2 DEF HasOwner

(* What is there is a record with a name. *)
LEMMA SnapTyped ==
  ASSUME TreeOK, NEW x \in NsPath
  PROVE  /\ snap \in [NsPath -> SnapRec]
         /\ snap[x] # NoSnap => /\ snap[x] \in [id : SnapId, fin : BOOLEAN, prot : BOOLEAN] /\ snap[x].id \in born \ gone
                                /\ snap[x].id \in SnapId /\ snap[x].id # NoSnap.id
<1>1. snap \in [NsPath -> SnapRec]
  BY DEF TreeOK, DiskTyped
<1>2. snap[x] # NoSnap => snap[x] \in [id : SnapId, fin : BOOLEAN, prot : BOOLEAN]
  BY <1>1 DEF SnapRec
<1>3. snap[x] # NoSnap => snap[x].id \in SnapId
  BY <1>2
<1>4. snap[x] # NoSnap => snap[x].id \in born \ gone
  BY DEF TreeOK, SnapshotsThere
<1>5. NoSnap.id = << >> /\ \A i \in SnapId : i # << >>
  BY DEF NoSnap, SnapId
<1> QED
  BY <1>1, <1>2, <1>3, <1>4, <1>5

(* A snapshot changes and keeps its name. *)
LEMMA SnapKept ==
  ASSUME TreeOK, UNCHANGED <<born, gone>>, snap' \in [NsPath -> SnapRec],
         \A x \in NsPath : (snap'[x] = NoSnap <=> snap[x] = NoSnap) /\ snap'[x].id = snap[x].id
  PROVE  SnapshotsThere'
<1>1. {x \in NsPath : snap'[x] # NoSnap} = {x \in NsPath : snap[x] # NoSnap}
  OBVIOUS
<1> DEFINE P == {x \in NsPath : snap[x] # NoSnap}
<1>2. {snap[x].id : x \in P} = born \ gone /\ \A x, y \in P : snap[x].id = snap[y].id => x = y
  BY DEF TreeOK, SnapshotsThere
<1>3. {snap'[x].id : x \in P} = {snap[x].id : x \in P}
  OBVIOUS
<1> QED
  BY <1>1, <1>2, <1>3 DEF SnapshotsThere

(* A snapshot goes. *)
LEMMA SnapGone ==
  ASSUME TreeOK, NEW x \in NsPath, snap[x] # NoSnap, snap' = [snap EXCEPT ![x] = NoSnap],
         gone' = gone \cup {snap[x].id}, born' = born, nsOps' = nsOps
  PROVE  SnapshotsThere' /\ IdsTyped' /\ snap' \in [NsPath -> SnapRec]
<1>1. snap \in [NsPath -> SnapRec] /\ snap[x].id \in born
  BY SnapTyped
<1>2. snap' \in [NsPath -> SnapRec] /\ snap'[x] = NoSnap /\ \A y \in NsPath \ {x} : snap'[y] = snap[y]
  BY <1>1 DEF SnapRec
<1>3. IdsTyped'
  BY <1>1 DEF TreeOK, IdsTyped
<1> DEFINE P == {y \in NsPath : snap[y] # NoSnap}
           Q == {y \in NsPath : snap'[y] # NoSnap}
<1>4. {snap[y].id : y \in P} = born \ gone /\ \A y, z \in P : snap[y].id = snap[z].id => y = z
  BY DEF TreeOK, SnapshotsThere
<1>5. Q = P \ {x} /\ x \in P
  BY <1>2
<1>6. {snap'[y].id : y \in Q} = born \ gone'
  <2>1. \A y \in Q : snap'[y].id \in born \ gone'
    BY <1>2, <1>4, <1>5
  <2>2. ASSUME NEW b \in born \ gone' PROVE \E y \in Q : snap'[y].id = b
    <3>1. PICK y \in P : snap[y].id = b
      BY <1>4, <2>2
    <3>2. y # x
      BY <2>2, <3>1
    <3> QED
      BY <1>2, <1>5, <3>1, <3>2
  <2> QED
    BY <2>1, <2>2
<1>7. \A y, z \in Q : snap'[y].id = snap'[z].id => y = z
  BY <1>2, <1>4, <1>5
<1>8. SnapshotsThere'
  BY <1>6, <1>7 DEF SnapshotsThere
<1> QED
  BY <1>2, <1>3, <1>8

(* A snapshot is made; it is none of those that were there before. *)
LEMMA SnapMade ==
  ASSUME TreeOK, NEW x \in NsPath, snap[x] = NoSnap,
         snap' = [snap EXCEPT ![x] = [id |-> <<x, nsOps>>, fin |-> FALSE, prot |-> FALSE]],
         born' = born \cup {<<x, nsOps>>}, gone' = gone, nsOps' = nsOps + 1
  PROVE  SnapshotsThere' /\ IdsTyped' /\ snap' \in [NsPath -> SnapRec]
<1> DEFINE new == [id |-> <<x, nsOps>>, fin |-> FALSE, prot |-> FALSE]
           i == <<x, nsOps>>
<1>1. snap \in [NsPath -> SnapRec] /\ nsOps \in Nat /\ \A b \in born \cup gone : b \in SnapId /\ b[2] < nsOps
  BY SnapTyped DEF TreeOK, IdsTyped
<1>2. i \in SnapId /\ i[2] = nsOps /\ i # << >>
  BY <1>1 DEF SnapId
<1>3. new \in SnapRec /\ new # NoSnap /\ new.id = i
  BY <1>2 DEF SnapRec, NoSnap
<1>4. snap' \in [NsPath -> SnapRec] /\ snap'[x] = new /\ \A y \in NsPath \ {x} : snap'[y] = snap[y]
  BY <1>1, <1>3
<1>5. i \notin born /\ i \notin gone
  BY <1>1, <1>2
<1>6. IdsTyped'
  <2>1. \A b \in SnapId : b[2] \in Nat
    BY DEF SnapId
  <2>2. \A b \in born' \cup gone' : b \in SnapId /\ b[2] < nsOps + 1
    BY <1>1, <1>2, <2>1
  <2> QED
    BY <1>1, <2>2 DEF IdsTyped
<1> DEFINE P == {y \in NsPath : snap[y] # NoSnap}
           Q == {y \in NsPath : snap'[y] # NoSnap}
<1>7. {snap[y].id : y \in P} = born \ gone /\ \A y, z \in P : snap[y].id = snap[z].id => y = z
  BY DEF TreeOK, SnapshotsThere
<1> HIDE DEF new, i
<1>8. Q = P \cup {x} /\ x \notin P
  BY <1>3, <1>4
<1>9. born' = born \cup {i}
  BY DEF i
<1>10. \A y \in P : snap'[y].id = snap[y].id /\ snap[y].id \in born
  BY <1>4, <1>7, <1>8
<1>11. snap'[x].id = i
  BY <1>3, <1>4
<1>12. {snap'[y].id : y \in Q} = born' \ gone
  <2>1. \A y \in Q : snap'[y].id \in born' \ gone
    BY <1>5, <1>7, <1>8, <1>9, <1>10, <1>11
  <2>2. ASSUME NEW b \in born' \ gone PROVE \E y \in Q : snap'[y].id = b
    <3>1. CASE b = i
      BY <1>8, <1>11, <3>1
    <3>2. CASE b # i
      <4>1. PICK y \in P : snap[y].id = b
        BY <1>7, <1>9, <3>2
      <4> QED
        BY <1>8, <1>10, <4>1
    <3> QED
      BY <3>1, <3>2
  <2> QED
    BY <2>1, <2>2
<1>13. \A y, z \in Q : snap'[y].id = snap'[z].id => y = z
  BY <1>5, <1>7, <1>8, <1>10, <1>11
<1>14. SnapshotsThere'
  BY <1>12, <1>13 DEF SnapshotsThere
<1> QED
  BY <1>4, <1>6, <1>14

(* A snapshot has gone, the groups are as they were. *)
LEMMA SnapGoneTree ==
  ASSUME TreeOK, NEW p, NEW x \in NsPath, snap[x] # NoSnap, snap' = [snap EXCEPT ![x] = NoSnap],
         gone' = gone \cup {snap[x].id}, UNCHANGED <<nsDir, marker, grp, nsOps, born>>
  PROVE  /\ TreeOK' /\ GroupsKept(p) /\ GidsKept
         /\ \A n \in NsSet : Times(n)' = IF n = x[1] THEN Times(n) \ {x[2]} ELSE Times(n)
<1>1. SnapshotsThere' /\ IdsTyped' /\ snap' \in [NsPath -> SnapRec]
  BY SnapGone
<1>2. snap'[x] = NoSnap /\ \A y \in NsPath \ {x} : snap'[y] = snap[y]
  BY TreeParts
<1>3. TreeOK'
  <2>1. \A y \in NsPath : snap'[y] # NoSnap => grp'[y[1]].owner \in NsOwner
    BY <1>2, TreeParts
  <2> QED
    BY <1>1, <2>1, TreeParts, TreeBy
<1>4. \A n \in NsSet : Times(n)' = IF n = x[1] THEN Times(n) \ {x[2]} ELSE Times(n)
  <2> SUFFICES ASSUME NEW n \in NsSet, NEW t \in NsTime
               PROVE  snap'[<<n, t>>] # NoSnap <=> snap[<<n, t>>] # NoSnap /\ ~(n = x[1] /\ t = x[2])
    BY DEF Times
  <2>1. <<n, t>> \in NsPath /\ (<<n, t>> = x <=> n = x[1] /\ t = x[2])
    BY PathIs, PathPair
  <2> QED
    BY <1>2, <2>1
<1>5. GroupsKept(p)
  BY <1>4 DEF GroupsKept, HasOwner
<1>6. GidsKept
  BY DEF GidsKept
<1> QED
  BY <1>3, <1>4, <1>5, <1>6

LEMMA DestroySnapshotOK ==
  ASSUME NsInd, NEW p \in NsTask, NEW t \in task[p].left, DestroySnapshot(p, t)
  PROVE  NsInd'
<1> DEFINE c == task[p]
           x == <<c.ns, t>>
           less == c.left \ {t}
           next == [c EXCEPT !.pc = "cleanup", !.left = less]
<1>0. c \in TaskRec
  BY TaskTyped DEF NsInd
<1>1. CallsOK /\ TreeOK /\ task \in [NsTask -> TaskRec] /\ LocksTyped
  BY TaskTyped DEF NsInd
<1>2. /\ c.op = "prune" /\ snap[x] # NoSnap /\ snap' = [snap EXCEPT ![x] = NoSnap] /\ gone' = gone \cup {snap[x].id}
      /\ task' = [task EXCEPT ![p] = next]
      /\ UNCHANGED <<nsDir, marker, grp, groupLock, snapLock, nsOps, born>>
  BY DEF DestroySnapshot, MayDestroy, Go
<1>3. c.ns \in NsSet /\ t \in NsTime /\ less \in SUBSET NsTime
  BY <1>0 DEF TaskRec
<1>4. x \in NsPath
  BY <1>3, PathPair
<1> HIDE DEF c, less, x
<1>5. TreeOK' /\ GroupsKept(p) /\ GidsKept
  BY <1>1, <1>2, <1>4, SnapGoneTree
<1>6. task'[p] = next
  BY <1>1, <1>2
<1>7. next \in TaskRec
  BY <1>0, <1>3, CallNames DEF TaskRec
<1>8. next.op = c.op /\ next.pc = "cleanup" /\ next.stays = c.stays
  BY <1>0 DEF TaskRec
<1> HIDE DEF next
<1>9. OthersKept(p)
  BY <1>1, <1>2, <1>6, <1>7, <1>8, GoRecord DEF c
<1>10. LocksTyped' /\ LocksKept(p)
  BY <1>1, <1>2, LocksSame
<1>11. LockOK(p)'
  BY <1>2, <1>6, <1>8 DEF LockOK, HoldsGroup
<1>12. RouteOK(p)' /\ MoveOK(p)'
  BY <1>1, <1>2, <1>6, <1>8, RouteIdle DEF c
<1> QED
  BY <1>1, <1>5, <1>9, <1>10, <1>11, <1>12, CallStep DEF NsInd

(* The removal of a group goes on: what is left to do is less, and so is   *)
(* what there is, unless a protected snapshot was passed over.             *)
LEMMA DeleteGoesOn ==
  ASSUME NsInd, NEW p \in NsTask, NEW T \in SUBSET NsTime, NEW b \in BOOLEAN, task[p].pc = "snapshots",
         task' = [task EXCEPT ![p] = [task[p] EXCEPT !.left = T, !.made = b]],
         UNCHANGED <<groupLock, snapLock>>, GroupsKept(p), GidsKept, b => {u \in NsTime : snap'[<<task[p].ns, u>>] # NoSnap} \subseteq T
  PROVE  CallsOK'
<1> DEFINE c == task[p]
           next == [c EXCEPT !.left = T, !.made = b]
<1>0. c \in TaskRec
  BY TaskTyped DEF NsInd
<1>1. CallsOK /\ task \in [NsTask -> TaskRec] /\ LockOK(p) /\ MoveOK(p)
  BY TaskTyped DEF NsInd
<1>2. task' = [task EXCEPT ![p] = next] /\ c.pc = "snapshots"
  OBVIOUS
<1> HIDE DEF c
<1>3. task'[p] = next
  BY <1>1, <1>2
<1>4. next \in TaskRec
  BY <1>0, CallNames DEF TaskRec
<1>5. /\ next.op = c.op /\ next.pc = c.pc /\ next.ns = c.ns /\ next.to = c.to /\ next.who = c.who /\ next.time = c.time /\ next.stays = c.stays
      /\ next.todo = c.todo /\ next.tried = c.tried /\ next.deferred = c.deferred
      /\ next.all = c.all /\ next.unlisted = c.unlisted
  BY <1>0 DEF TaskRec
<1>6. next.left = T /\ next.made = b
  BY <1>0 DEF TaskRec
<1> HIDE DEF next
<1>7. OthersKept(p)
  BY <1>1, <1>2, <1>3, <1>4, <1>5, GoRecord DEF c
<1>8. LocksTyped' /\ LocksKept(p)
  BY <1>1, LocksSame
<1>9. LockOK(p)'
  <2>1. b => {t \in NsTime : snap'[<<c.ns, t>>] # NoSnap} \subseteq T
    BY DEF c
  <2>2. groupLock[c.ns] = p
    BY <1>1, <1>2 DEF LockOK, HoldsGroup, c
  <2>3. (c.op \in {"backup", "owner"} => c.who \in NsOwner) /\ (c.op = "backup" => c.time \in NsTime)
    BY <1>1 DEF LockOK, c
  <2>4. task'[p].pc = "snapshots" /\ task'[p].ns = c.ns /\ task'[p].who = c.who /\ task'[p].time = c.time /\ task'[p].op = c.op /\ task'[p].left = T /\ task'[p].made = b
    BY <1>2, <1>3, <1>5, <1>6
  <2> QED
    BY <2>1, <2>2, <2>3, <2>4 DEF LockOK, HoldsGroup, Times
<1>10. RouteOK(p)'
  <2>1. CASE c.op = "move"
    BY <1>1, <1>3, <1>5, <2>1, RouteKept DEF c
  <2>2. CASE c.op # "move"
    BY <1>1, <1>3, <1>5, <2>2, RouteIdle DEF c
  <2> QED
    BY <2>1, <2>2
<1>11. MoveOK(p)'
  <2> SUFFICES ASSUME NEW s \in c.stays
               PROVE  GroupGone(s)' \/ c.unlisted \/ ~c.all \/ s[1] \in c.deferred
    BY <1>2, <1>3, <1>5 DEF MoveOK, GroupGone
  <2>1. GroupGone(s) \/ c.unlisted \/ ~c.all \/ s[1] \in c.deferred
    BY <1>1, <1>2 DEF MoveOK, c
  <2>2. GroupGone(s) => GroupGone(s)'
    BY <1>1, GoneStays DEF CallsOK, c
  <2> QED
    BY <2>1, <2>2
<1> QED
  BY <1>1, <1>7, <1>8, <1>9, <1>10, <1>11, CallStep

LEMMA DeleteNextOK ==
  ASSUME NsInd, NEW p \in NsTask, NEW t \in task[p].left, DeleteNext(p, t)
  PROVE  NsInd'
<1> DEFINE c == task[p]
           x == <<c.ns, t>>
           less == c.left \ {t}
<1>0. c \in TaskRec
  BY TaskTyped DEF NsInd
<1>1. CallsOK /\ TreeOK /\ LockOK(p)
  BY TaskTyped DEF NsInd
<1>2. c.pc = "snapshots" /\ UNCHANGED <<nsDir, marker, grp, nsOps, born>>
  BY DEF DeleteNext
<1>3. c.ns \in NsSet /\ t \in NsTime /\ less \in SUBSET NsTime /\ c.made \in BOOLEAN
  BY <1>0 DEF TaskRec
<1>4. x \in NsPath /\ x[1] = c.ns /\ x[2] = t
  BY <1>3, PathPair
<1>5. CASE Go(p, [task[p] EXCEPT !.left = less, !.made = FALSE]) /\ UNCHANGED <<snap, gone, groupLock, snapLock>>
  <2>1. task' = [task EXCEPT ![p] = [task[p] EXCEPT !.left = less, !.made = FALSE]]
    BY <1>5 DEF Go
  <2>2. GroupsKept(p) /\ GidsKept
    BY <1>2, <1>5, GroupsSame
  <2>3. TreeOK'
    BY <1>1, <1>2, <1>5, TreeSame DEF nsDisk
  <2> HIDE DEF less
  <2>4. CallsOK'
    BY <1>2, <1>3, <1>5, <2>1, <2>2, DeleteGoesOn
  <2> QED
    BY <2>3, <2>4 DEF NsInd
<1>6. CASE /\ MayDestroy(x) /\ snap' = [snap EXCEPT ![x] = NoSnap] /\ gone' = gone \cup {snap[x].id}
           /\ Go(p, [task[p] EXCEPT !.left = less]) /\ UNCHANGED <<groupLock, snapLock>>
  <2>1. task' = [task EXCEPT ![p] = [task[p] EXCEPT !.left = less, !.made = c.made]]
    <3>1. [c EXCEPT !.left = less] = [c EXCEPT !.left = less, !.made = c.made]
      <4> HIDE DEF c, less
      <4> QED
        BY <1>0 DEF TaskRec
    <3> QED
      BY <1>6, <3>1 DEF Go
  <2>2. /\ TreeOK' /\ GroupsKept(p) /\ GidsKept
        /\ \A n \in NsSet : Times(n)' = IF n = x[1] THEN Times(n) \ {x[2]} ELSE Times(n)
    <3> HIDE DEF x, c
    <3> QED
      BY <1>1, <1>2, <1>4, <1>6, SnapGoneTree DEF MayDestroy
  <2>3. c.made => Times(c.ns) \subseteq c.left
    BY <1>1, <1>2 DEF LockOK
  <2>4. {u \in NsTime : snap'[<<c.ns, u>>] # NoSnap} = Times(c.ns) \ {t}
    <3> DEFINE n == c.ns
    <3>1. \A m \in NsSet : Times(m)' = {u \in NsTime : snap'[<<m, u>>] # NoSnap}
      BY DEF Times
    <3>2. n \in NsSet /\ n = x[1] /\ t = x[2]
      BY <1>3, <1>4
    <3> HIDE DEF n, x
    <3>3. {u \in NsTime : snap'[<<n, u>>] # NoSnap} = Times(n) \ {t}
      BY <2>2, <3>1, <3>2
    <3> QED
      BY <3>3 DEF n
  <2>5. c.made => {u \in NsTime : snap'[<<c.ns, u>>] # NoSnap} \subseteq less
    BY <2>3, <2>4
  <2> DEFINE b == c.made
  <2>6. b \in BOOLEAN /\ (b => {u \in NsTime : snap'[<<task[p].ns, u>>] # NoSnap} \subseteq less)
    BY <1>3, <2>5
  <2>7. task' = [task EXCEPT ![p] = [task[p] EXCEPT !.left = less, !.made = b]]
    BY <2>1
  <2> HIDE DEF less, b
  <2>8. CallsOK'
    BY <1>2, <1>3, <1>6, <2>2, <2>6, <2>7, DeleteGoesOn
  <2> QED
    BY <2>2, <2>8 DEF NsInd
<1>7. CASE Return(p) /\ UNCHANGED <<snap, gone>>
  BY <1>2, <1>7, QuietReturn DEF nsDisk
<1> QED
  BY <1>5, <1>6, <1>7 DEF DeleteNext

LEMMA MakeGroupOK ==
  ASSUME NsInd, NEW p \in NsTask, MakeGroup(p)
  PROVE  NsInd'
<1> DEFINE c == task[p]
           n == c.ns
           S == {SubSeq(n, 1, i) : i \in 0 .. Len(n)}
           b == ~GroupExists(n)
           next == [c EXCEPT !.pc = "made", !.made = b]
<1>0. c \in TaskRec
  BY TaskTyped DEF NsInd
<1>1. CallsOK /\ TreeOK /\ task \in [NsTask -> TaskRec] /\ LocksTyped /\ LockOK(p)
  BY TaskTyped DEF NsInd
<1>2. /\ c.op = "backup" /\ nsDir' = nsDir \cup S /\ task' = [task EXCEPT ![p] = next]
      /\ grp' = IF GroupExists(n) THEN grp ELSE [grp EXCEPT ![n] = [owner |-> NoOwner, gid |-> NewGid]]
      /\ UNCHANGED <<marker, snap, groupLock, snapLock, nsOps, born, gone>>
  BY DEF MakeGroup, Go
<1>3. n \in NsSet /\ b \in BOOLEAN
  BY <1>0 DEF TaskRec
<1>4. S \in SUBSET NsSet /\ n \in S /\ \A m \in S : m = << >> \/ Parent(m) \in S
  BY <1>3, PrefixesAre
<1>5. NewGid \in Nat /\ NewGid \notin UsedGids
  BY <1>1, FreshGid DEF CallsOK
<1> HIDE DEF S, n
<1>6. /\ grp' \in [NsSet -> GroupRec] /\ \A m \in NsSet \ {n} : grp'[m] = grp[m]
      /\ grp'[n] = IF GroupExists(n) THEN grp[n] ELSE [owner |-> NoOwner, gid |-> NewGid]
  <2>1. grp \in [NsSet -> GroupRec] /\ [owner |-> NoOwner, gid |-> NewGid] \in GroupRec
    BY <1>1, <1>5, TreeParts DEF GroupRec
  <2> QED
    BY <1>2, <1>3, <2>1
<1>7. \A m \in NsSet : HasOwner(m) => grp'[m] = grp[m]
  BY <1>1, <1>3, <1>6, GroupTyped DEF HasOwner
<1>8. TreeOK'
  <2>1. \A m \in nsDir' : m = << >> \/ Parent(m) \in nsDir'
    BY <1>1, <1>2, <1>4, TreeParts
  <2>2. \A m \in NsSet : grp'[m] # NoGroup => m \in nsDir'
    BY <1>1, <1>2, <1>4, <1>6, TreeParts
  <2>3. \A x \in NsPath : snap'[x] # NoSnap => grp'[x[1]].owner \in NsOwner
    BY <1>1, <1>2, <1>7, TreeParts, PathIs DEF HasOwner
  <2>4. SnapshotsThere' /\ IdsTyped'
    BY <1>1, <1>2 DEF TreeOK, SnapshotsThere, IdsTyped
  <2>5. nsDir' \in SUBSET NsSet /\ marker' \in SUBSET NsSet /\ snap' \in [NsPath -> SnapRec]
    BY <1>1, <1>2, <1>4, TreeParts
  <2> QED
    BY <1>1, <1>6, <2>1, <2>2, <2>3, <2>4, <2>5, TreeBy
<1>9. GidsKept
  BY <1>5, <1>6 DEF GidsKept, GroupExists
<1>10. GroupsKept(p)
  BY <1>2, <1>7 DEF GroupsKept, HasOwner, Times
<1> HIDE DEF c, b
<1>11. task'[p] = next
  BY <1>1, <1>2
<1>12. next \in TaskRec
  BY <1>0, <1>3, CallNames DEF TaskRec
<1>13. next.op = c.op /\ next.pc = "made" /\ next.who = c.who /\ next.time = c.time /\ next.stays = c.stays
  BY <1>0 DEF TaskRec
<1> HIDE DEF next
<1>14. OthersKept(p)
  BY <1>1, <1>2, <1>11, <1>12, <1>13, GoRecord DEF c
<1>15. LocksTyped' /\ LocksKept(p)
  BY <1>1, <1>2, LocksSame
<1>16. LockOK(p)'
  BY <1>1, <1>2, <1>11, <1>13 DEF LockOK, HoldsGroup, c
<1>17. RouteOK(p)' /\ MoveOK(p)'
  BY <1>1, <1>2, <1>11, <1>13, RouteIdle DEF c
<1> QED
  BY <1>1, <1>8, <1>9, <1>10, <1>14, <1>15, <1>16, <1>17, CallStep DEF NsInd

LEMMA MakeSnapshotOK ==
  ASSUME NsInd, NEW p \in NsTask, MakeSnapshot(p)
  PROVE  NsInd'
<1> DEFINE c == task[p]
           n == c.ns
           t == c.time
           x == <<n, t>>
           next == [c EXCEPT !.pc = "created"]
           Last == {u \in Finished(n) : \A v \in Finished(n) : v <= u}
<1>0. c \in TaskRec
  BY TaskTyped DEF NsInd
<1>1. CallsOK /\ TreeOK /\ task \in [NsTask -> TaskRec] /\ LocksTyped /\ LockOK(p)
  BY TaskTyped DEF NsInd
<1>2. /\ c.op = "backup" /\ c.pc = "group" /\ snap[x] = NoSnap
      /\ snap' = [snap EXCEPT ![x] = [id |-> <<x, nsOps>>, fin |-> FALSE, prot |-> FALSE]]
      /\ born' = born \cup {<<x, nsOps>>} /\ nsOps' = nsOps + 1 /\ task' = [task EXCEPT ![p] = next]
      /\ UNCHANGED <<nsDir, marker, grp, groupLock, gone>>
  BY DEF MakeSnapshot, Go
<1>3. snapLock' = [y \in NsPath |-> IF y[1] = n /\ y[2] \in Last THEN p ELSE snapLock[y]]
  BY DEF MakeSnapshot
<1>4. n \in NsSet /\ t \in NsTime
  BY <1>0, <1>1, <1>2 DEF TaskRec, LockOK
<1>5. groupLock[n] = p /\ HasOwner(n) /\ c.who \in NsOwner
  BY <1>1, <1>2 DEF LockOK, HoldsGroup
<1> HIDE DEF c, n, t
<1>6. x \in NsPath /\ x[1] = n /\ x[2] = t
  BY <1>4, PathPair
<1> HIDE DEF Last, x
<1>7. SnapshotsThere' /\ IdsTyped' /\ snap' \in [NsPath -> SnapRec]
  BY <1>1, <1>2, <1>6, SnapMade
<1>8. \A y \in NsPath \ {x} : snap'[y] = snap[y]
  BY <1>1, <1>2, TreeParts
<1>9. TreeOK'
  <2>1. \A y \in NsPath : snap'[y] # NoSnap => grp'[y[1]].owner \in NsOwner
    <3> SUFFICES ASSUME NEW y \in NsPath, snap'[y] # NoSnap PROVE grp[y[1]].owner \in NsOwner
      BY <1>2
    <3>1. CASE y = x
      BY <1>5, <1>6, <3>1 DEF HasOwner
    <3>2. CASE y # x
      BY <1>1, <1>8, <3>2, TreeParts
    <3> QED
      BY <3>1, <3>2
  <2> QED
    BY <1>1, <1>2, <1>7, <2>1, TreeParts, TreeBy
<1>10. GidsKept
  BY <1>2 DEF GidsKept
<1>11. GroupsKept(p)
  <2> SUFFICES ASSUME NEW m \in NsSet, groupLock[m] \notin {p, Free}
               PROVE  (HasOwner(m) => HasOwner(m)') /\ Times(m)' \subseteq Times(m)
    BY DEF GroupsKept
  <2>1. \A u \in NsTime : <<m, u>> \in NsPath /\ <<m, u>> # x
    BY <1>5, <1>6, PathPair
  <2>2. Times(m)' = Times(m)
    BY <1>8, <2>1 DEF Times
  <2> QED
    BY <1>2, <2>2 DEF HasOwner
<1>12. LocksTyped' /\ LocksKept(p)
  BY <1>1, <1>2, <1>3 DEF LocksTyped, LocksKept
<1>13. task'[p] = next
  BY <1>1, <1>2
<1>14. next \in TaskRec
  BY <1>0, CallNames DEF TaskRec
<1>15. /\ next.op = c.op /\ next.pc = "created" /\ next.ns = c.ns /\ next.who = c.who /\ next.time = c.time
       /\ next.stays = c.stays
  BY <1>0 DEF TaskRec
<1> HIDE DEF next
<1>16. OthersKept(p)
  BY <1>1, <1>2, <1>13, <1>14, <1>15, GoRecord DEF c
<1>17. LockOK(p)'
  BY <1>2, <1>4, <1>5, <1>13, <1>15 DEF LockOK, n, t
<1>18. RouteOK(p)' /\ MoveOK(p)'
  BY <1>1, <1>2, <1>13, <1>15, RouteIdle DEF c
<1> QED
  BY <1>1, <1>9, <1>10, <1>11, <1>12, <1>16, <1>17, <1>18, CallStep DEF NsInd

(* A snapshot that stays keeps its name and its place. *)
LEMMA SnapChange ==
  ASSUME TreeOK, NEW p, NEW x \in NsPath, snap[x] # NoSnap, snap' = [snap EXCEPT ![x] = snap'[x]],
         snap'[x] \in [id : {snap[x].id}, fin : BOOLEAN, prot : BOOLEAN],
         nsOps' \in {nsOps, nsOps + 1}, UNCHANGED <<nsDir, marker, grp, born, gone>>
  PROVE  /\ TreeOK' /\ GroupsKept(p) /\ GidsKept
         /\ \A y \in NsPath : snap'[y].id = snap[y].id
         /\ \A n \in NsSet : Times(n)' = Times(n)
<1>1. snap \in [NsPath -> SnapRec] /\ snap[x].id \in SnapId /\ snap[x].id # NoSnap.id
  BY SnapTyped
<1>2. snap'[x] \in SnapRec /\ snap'[x].id = snap[x].id
  BY <1>1 DEF SnapRec
<1>3. snap' \in [NsPath -> SnapRec] /\ \A y \in NsPath \ {x} : snap'[y] = snap[y]
  BY <1>1, <1>2
<1>4. snap'[x] # NoSnap
  BY <1>1, <1>2
<1>5. \A y \in NsPath : (snap'[y] = NoSnap <=> snap[y] = NoSnap) /\ snap'[y].id = snap[y].id
  BY <1>2, <1>3, <1>4
<1>6. SnapshotsThere'
  BY <1>3, <1>5, SnapKept
<1>7. IdsTyped'
  <2>1. \A b \in SnapId : b[2] \in Nat
    BY DEF SnapId
  <2> QED
    BY <2>1 DEF TreeOK, IdsTyped
<1>8. TreeOK'
  BY <1>3, <1>5, <1>6, <1>7, TreeParts, TreeBy
<1>9. \A n \in NsSet : Times(n)' = Times(n)
  BY <1>5, PathPair DEF Times
<1>10. GroupsKept(p) /\ GidsKept
  BY <1>9 DEF GroupsKept, GidsKept, HasOwner
<1> QED
  BY <1>5, <1>8, <1>9, <1>10

LEMMA FinishBackupOK ==
  ASSUME NsInd, NEW p \in NsTask, FinishBackup(p)
  PROVE  NsInd'
<1> DEFINE x == <<task[p].ns, task[p].time>>
<1>1. CallsOK /\ TreeOK
  BY DEF NsInd
<1>2. /\ task[p].op = "backup" /\ snap[x] # NoSnap /\ snap' = [snap EXCEPT ![x].fin = TRUE] /\ Return(p)
      /\ UNCHANGED <<nsDir, marker, grp, nsOps, born, gone>>
  BY DEF FinishBackup
<1>3. x \in NsPath
  <2>1. task[p].ns \in NsSet
    BY <1>1, TaskTyped DEF TaskRec
  <2>2. task[p].time \in NsTime
    BY <1>1, <1>2, TaskTyped DEF LockOK
  <2> QED
    BY <2>1, <2>2, PathPair
<1> HIDE DEF x
<1>4. snap \in [NsPath -> SnapRec] /\ snap[x] \in [id : SnapId, fin : BOOLEAN, prot : BOOLEAN]
  BY <1>1, <1>2, <1>3, SnapTyped
<1>5. snap' = [snap EXCEPT ![x] = snap'[x]] /\ snap'[x] = [snap[x] EXCEPT !.fin = TRUE]
  BY <1>2, <1>3, <1>4
<1>6. snap'[x] \in [id : {snap[x].id}, fin : BOOLEAN, prot : BOOLEAN]
  BY <1>4, <1>5
<1>7. TreeOK' /\ GroupsKept(p) /\ GidsKept
  BY <1>1, <1>2, <1>3, <1>5, <1>6, SnapChange
<1> QED
  BY <1>1, <1>2, <1>7, ReturnStep DEF NsInd

LEMMA SetProtectionOK ==
  ASSUME NsInd, NEW n \in NsSet, NEW t \in NsTime, NEW on \in BOOLEAN, SetProtection(n, t, on)
  PROVE  NsInd'
<1> DEFINE x == <<n, t>>
<1>1. CallsOK /\ TreeOK
  BY DEF NsInd
<1>2. /\ snap[x] # NoSnap /\ snap' = [snap EXCEPT ![x].prot = on] /\ nsOps' = nsOps + 1
      /\ UNCHANGED <<nsDir, marker, grp, groupLock, snapLock, task, born, gone>>
  BY DEF SetProtection
<1>3. x \in NsPath
  BY PathPair
<1> HIDE DEF x
<1>4. snap \in [NsPath -> SnapRec] /\ snap[x] \in [id : SnapId, fin : BOOLEAN, prot : BOOLEAN]
  BY <1>1, <1>2, <1>3, SnapTyped
<1>5. snap' = [snap EXCEPT ![x] = snap'[x]] /\ snap'[x] = [snap[x] EXCEPT !.prot = on]
  BY <1>2, <1>3, <1>4
<1>6. snap'[x] \in [id : {snap[x].id}, fin : BOOLEAN, prot : BOOLEAN]
  BY <1>4, <1>5
<1>7. TreeOK' /\ \A m \in NsSet : Times(m)' = Times(m)
  BY <1>1, <1>2, <1>3, <1>5, <1>6, SnapChange
<1>8. CallsOK'
  <2>1. LocksTyped' /\ CallsTyped'
    BY <1>1, <1>2 DEF CallsOK, LocksTyped, CallsTyped
  <2>2. ASSUME NEW p \in NsTask PROVE CallOK(p)'
    <3>1. LockOK(p) /\ RouteOK(p) /\ MoveOK(p) /\ task[p].ns \in NsSet
      BY <1>1, TaskTyped DEF TaskRec
    <3>2. Times(task[p].ns)' = Times(task[p].ns)
      <4>1. \A m \in NsSet : {u \in NsTime : snap'[<<m, u>>] # NoSnap} = {u \in NsTime : snap[<<m, u>>] # NoSnap}
        BY <1>7 DEF Times
      <4> QED
        BY <1>2, <3>1, <4>1 DEF Times
    <3>3. LockOK(p)'
      BY <1>2, <3>1, <3>2 DEF LockOK, HoldsGroup, HasOwner
    <3>4. RouteOK(p)'
      BY <1>2, <3>1 DEF RouteOK
    <3>5. MoveOK(p)'
      BY <1>2, <3>1 DEF MoveOK, GroupGone
    <3> QED
      BY <3>3, <3>4, <3>5 DEF CallOK
  <2> QED
    BY <2>1, <2>2 DEF CallsOK
<1> QED
  BY <1>7, <1>8 DEF NsInd

(* An aborted backup takes its snapshot away, and the group if that was    *)
(* the last one.                                                           *)
LEMMA AbortBackupOK ==
  ASSUME NsInd, NEW p \in NsTask, AbortBackup(p)
  PROVE  NsInd'
<1> DEFINE n == task[p].ns
           t == task[p].time
           x == <<n, t>>
<1>1. CallsOK /\ TreeOK
  BY DEF NsInd
<1>2. task[p].op = "backup" /\ task[p].pc = "running" /\ Return(p) /\ UNCHANGED <<nsDir, marker, nsOps, born>>
  BY DEF AbortBackup
<1>3. n \in NsSet /\ t \in NsTime /\ groupLock[n] = p
  <2>1. task[p].ns \in NsSet
    BY <1>1, TaskTyped DEF TaskRec
  <2>2. task[p].time \in NsTime /\ groupLock[task[p].ns] = p
    BY <1>1, <1>2, TaskTyped DEF LockOK, HoldsGroup
  <2> QED
    BY <2>1, <2>2
<1>4. x \in NsPath /\ x[1] = n /\ x[2] = t
  BY <1>3, PathPair
<1>5. CASE UNCHANGED <<snap, gone, grp>>
  BY <1>2, <1>5, QuietReturn DEF nsDisk
<1>6. CASE /\ snap[x] # NoSnap /\ snap' = [snap EXCEPT ![x] = NoSnap] /\ gone' = gone \cup {snap[x].id}
           /\ grp' = grp \/ (Times(n) = {t} /\ grp' = [grp EXCEPT ![n] = NoGroup])
  <2> HIDE DEF n, t, x
  <2>1. SnapshotsThere' /\ IdsTyped' /\ snap' \in [NsPath -> SnapRec]
    BY <1>1, <1>2, <1>4, <1>6, SnapGone
  <2>2. snap'[x] = NoSnap /\ \A y \in NsPath \ {x} : snap'[y] = snap[y]
    BY <1>1, <1>4, <1>6, TreeParts
  <2>3. /\ grp' \in [NsSet -> GroupRec] /\ \A m \in NsSet \ {n} : grp'[m] = grp[m]
        /\ grp'[n] = grp[n] \/ (grp'[n] = NoGroup /\ Times(n) = {t})
    <3>1. grp \in [NsSet -> GroupRec] /\ NoGroup \in GroupRec
      BY <1>1, TreeParts DEF GroupRec
    <3> QED
      BY <1>3, <1>6, <3>1
  <2>4. TreeOK'
    <3>1. \A y \in NsPath : snap'[y] # NoSnap => grp'[y[1]].owner \in NsOwner
      <4> SUFFICES ASSUME NEW y \in NsPath, snap'[y] # NoSnap PROVE grp'[y[1]].owner \in NsOwner
        OBVIOUS
      <4>1. y # x /\ snap[y] # NoSnap /\ y[1] \in NsSet /\ y[2] \in NsTime /\ y = <<y[1], y[2]>>
        BY <2>2, PathIs
      <4>2. y[1] = n => y[2] \in Times(n) /\ y[2] # t
        BY <1>4, <4>1, PathIs DEF Times
      <4>3. grp'[y[1]] = grp[y[1]]
        BY <2>3, <4>1, <4>2
      <4> QED
        BY <1>1, <4>1, <4>3, TreeParts
    <3>2. \A m \in NsSet : grp'[m] # NoGroup => m \in nsDir
      BY <1>1, <2>3, TreeParts
    <3> QED
      BY <1>1, <1>2, <2>1, <2>3, <3>1, <3>2, TreeParts, TreeBy
  <2>5. GidsKept
    BY <2>3 DEF GidsKept
  <2>6. GroupsKept(p)
    <3> SUFFICES ASSUME NEW m \in NsSet, groupLock[m] \notin {p, Free}
                 PROVE  (HasOwner(m) => HasOwner(m)') /\ Times(m)' \subseteq Times(m)
      BY DEF GroupsKept
    <3>1. m # n
      BY <1>3
    <3>2. \A u \in NsTime : <<m, u>> \in NsPath /\ <<m, u>> # x
      BY <1>4, <3>1, PathPair
    <3>3. Times(m)' = Times(m)
      BY <2>2, <3>2 DEF Times
    <3> QED
      BY <2>3, <3>1, <3>3 DEF HasOwner
  <2> QED
    BY <1>1, <1>2, <2>4, <2>5, <2>6, ReturnStep DEF NsInd
<1> QED
  BY <1>4, <1>5, <1>6 DEF AbortBackup

-----------------------------------------------------------------------------
(* Moves *)

(* A rename moves snapshots to times that are free. *)
LEMMA SnapMoved ==
  ASSUME TreeOK, NEW n \in NsSet, NEW k \in NsSet, n # k, NEW T \in SUBSET Times(n), T \cap Times(k) = {},
         snap' = Renamed(n, k, T), UNCHANGED <<nsOps, born, gone>>
  PROVE  /\ SnapshotsThere' /\ IdsTyped' /\ snap' \in [NsPath -> SnapRec]
         /\ \A y \in NsPath : snap'[y] # NoSnap =>
               \/ y[1] = k /\ y[2] \in T /\ snap[<<n, y[2]>>] # NoSnap
               \/ snap[y] # NoSnap /\ ~(y[1] = n /\ y[2] \in T)
         /\ \A y \in NsPath : y[1] \notin {n, k} => snap'[y] = snap[y]
         /\ \A y \in NsPath : snap[y] # NoSnap => \E z \in NsPath : snap'[z] = snap[y]
<1> DEFINE from(y) == IF y[1] = k /\ y[2] \in T THEN <<n, y[2]>> ELSE y
           to(y) == IF y[1] = n /\ y[2] \in T THEN <<k, y[2]>> ELSE y
           P == {y \in NsPath : snap[y] # NoSnap}
           Q == {y \in NsPath : snap'[y] # NoSnap}
<1>1. snap \in [NsPath -> SnapRec] /\ NoSnap \in SnapRec
  BY TreeParts DEF SnapRec
<1>2. \A y \in NsPath : y[1] \in NsSet /\ y[2] \in NsTime /\ y = <<y[1], y[2]>>
  BY PathIs
<1>3. \A m \in NsSet, t \in NsTime : <<m, t>> \in NsPath /\ <<m, t>>[1] = m /\ <<m, t>>[2] = t
  BY PathPair
<1>4. T \subseteq NsTime /\ \A t \in T : snap[<<n, t>>] # NoSnap /\ snap[<<k, t>>] = NoSnap
  BY DEF Times
<1>5. \A y \in NsPath : snap'[y] = IF y[1] = k /\ y[2] \in T THEN snap[<<n, y[2]>>]
                                   ELSE IF y[1] = n /\ y[2] \in T THEN NoSnap ELSE snap[y]
  BY DEF Renamed
<1>6. snap' \in [NsPath -> SnapRec]
  <2>1. \A y \in NsPath : snap'[y] \in SnapRec
    <3> SUFFICES ASSUME NEW y \in NsPath PROVE snap'[y] \in SnapRec
      OBVIOUS
    <3>1. <<n, y[2]>> \in NsPath
      BY <1>2, <1>3
    <3>2. snap[<<n, y[2]>>] \in SnapRec /\ snap[y] \in SnapRec
      BY <1>1, <3>1
    <3> QED
      BY <1>1, <1>5, <3>2
  <2>2. snap' = [y \in NsPath |-> snap'[y]]
    BY DEF Renamed
  <2> QED
    BY <2>1, <2>2
<1>7. \A y \in NsPath : from(y) \in NsPath /\ to(y) \in NsPath
  BY <1>2, <1>3, <1>4
<1>8. \A y \in Q : from(y) \in P /\ snap'[y] = snap[from(y)] /\ ~(y[1] = n /\ y[2] \in T)
  BY <1>2, <1>3, <1>4, <1>5
<1>9. \A y \in P : to(y) \in Q /\ snap'[to(y)] = snap[y]
  <2> SUFFICES ASSUME NEW y \in P PROVE to(y) \in Q /\ snap'[to(y)] = snap[y]
    OBVIOUS
  <2>1. CASE y[1] = n /\ y[2] \in T
    <3>1. <<k, y[2]>> \in NsPath /\ <<k, y[2]>>[1] = k /\ <<k, y[2]>>[2] = y[2] /\ y = <<n, y[2]>>
      BY <1>2, <1>3, <1>4, <2>1
    <3>2. snap'[<<k, y[2]>>] = snap[y]
      BY <1>5, <2>1, <3>1
    <3> QED
      BY <2>1, <3>1, <3>2
  <2>2. CASE ~(y[1] = n /\ y[2] \in T)
    <3>1. ~(y[1] = k /\ y[2] \in T)
      BY <1>2, <1>4
    <3>2. snap'[y] = snap[y]
      BY <1>5, <2>2, <3>1
    <3> QED
      BY <2>2, <3>2
  <2> QED
    BY <2>1, <2>2
<1>10. \A y, z \in Q : from(y) = from(z) => y = z
  BY <1>2, <1>3, <1>4, <1>8
<1>11. {snap[y].id : y \in P} = born \ gone /\ \A y, z \in P : snap[y].id = snap[z].id => y = z
  BY DEF TreeOK, SnapshotsThere
<1>12. \A y \in NsPath : snap'[y] # NoSnap =>
               \/ y[1] = k /\ y[2] \in T /\ snap[<<n, y[2]>>] # NoSnap
               \/ snap[y] # NoSnap /\ ~(y[1] = n /\ y[2] \in T)
  BY <1>4, <1>5
<1>13. \A y \in NsPath : y[1] \notin {n, k} => snap'[y] = snap[y]
  BY <1>5
<1>14. \A y \in NsPath : snap[y] # NoSnap => \E z \in NsPath : snap'[z] = snap[y]
  BY <1>9
<1> HIDE DEF from, to
<1>15. {snap'[y].id : y \in Q} = born \ gone
  <2>1. \A y \in Q : snap'[y].id \in born \ gone
    BY <1>8, <1>11
  <2>2. ASSUME NEW b \in born \ gone PROVE \E y \in Q : snap'[y].id = b
    <3>1. PICK y \in P : snap[y].id = b
      BY <1>11
    <3> QED
      BY <1>9, <3>1
  <2> QED
    BY <2>1, <2>2
<1>16. \A y, z \in Q : snap'[y].id = snap'[z].id => y = z
  BY <1>8, <1>10, <1>11
<1>17. SnapshotsThere'
  BY <1>15, <1>16 DEF SnapshotsThere
<1>18. IdsTyped'
  BY DEF TreeOK, IdsTyped
<1> QED
  BY <1>6, <1>12, <1>13, <1>14, <1>17, <1>18

(* When all checks are passed, nobody has locked either group. *)
LEMMA Movable ==
  ASSUME TreeOK, NEW n \in NsSet, NEW k \in NsSet, ~SoftError(n, k), ~HardError(n, k)
  PROVE  /\ groupLock[n] = Free /\ groupLock[k] = Free /\ k \in nsDir /\ HasOwner(n) /\ MergeOk(n, k)
         /\ Times(n) \cap Times(k) = {}
<1>1. groupLock[n] = Free /\ groupLock[k] = Free /\ k \in nsDir /\ HasOwner(n) /\ MergeOk(n, k)
  BY DEF SoftError, HardError, SourceBusy, MoveChecked, TargetBusy
<1>2. Times(n) \cap Times(k) = {}
  <2>1. CASE ~GroupExists(k)
    <3>1. ~HasOwner(k)
      BY <2>1, GroupTyped DEF HasOwner
    <3> QED
      BY <3>1, NoGroupEmpty
  <2>2. CASE \A t \in Times(n), u \in Times(k) : u < t
    <3>1. \A t \in Times(n) : t \in Nat
      BY TimesAre DEF Times
    <3> QED
      BY <2>2, <3>1
  <2> QED
    BY <1>1, <2>1, <2>2 DEF MergeOk
<1> QED
  BY <1>1, <1>2

(* The group of the target: it is new or as it was. *)
LEMMA TargetIs ==
  ASSUME TreeOK, CallsOK, NEW n \in NsSet, NEW k \in NsSet
  PROVE  LET g == TargetMade(n, k) IN
         /\ g \in [NsSet -> GroupRec] /\ \A m \in NsSet \ {k} : g[m] = grp[m]
         /\ \/ g[k] = grp[k]
            \/ /\ groupLock[k] = Free /\ ~GroupExists(k) /\ k \in nsDir
               /\ g[k].gid \notin UsedGids /\ g[k].owner \in NsOwner
         /\ groupLock[n] = Free /\ groupLock[k] = Free /\ MoveChecked(n, k) /\ MergeOk(n, k) => g[k].owner \in NsOwner
<1> DEFINE new == [owner |-> grp[n].owner, gid |-> NewGid]
<1>1. grp \in [NsSet -> GroupRec]
  BY TreeParts
<1>2. NewGid \in Nat /\ NewGid \notin UsedGids
  BY FreshGid DEF CallsOK
<1>3. CASE ~(MoveChecked(n, k) /\ ~SourceBusy(n) /\ ~TargetBusy(k) /\ ~GroupExists(k))
  <2>1. TargetMade(n, k) = grp
    BY <1>3 DEF TargetMade
  <2>2. groupLock[n] = Free /\ groupLock[k] = Free /\ MoveChecked(n, k) /\ MergeOk(n, k) => grp[k].owner \in NsOwner
    BY <1>3 DEF SourceBusy, TargetBusy, MoveChecked, MergeOk, HasOwner
  <2> QED
    BY <1>1, <2>1, <2>2
<1>4. CASE MoveChecked(n, k) /\ ~SourceBusy(n) /\ ~TargetBusy(k) /\ ~GroupExists(k)
  <2>1. TargetMade(n, k) = [grp EXCEPT ![k] = new]
    BY <1>4 DEF TargetMade
  <2>2. grp[n].owner \in NsOwner /\ k \in nsDir /\ groupLock[k] = Free
    BY <1>4 DEF MoveChecked, HasOwner, TargetBusy
  <2>3. new \in GroupRec /\ new.gid = NewGid /\ new.owner \in NsOwner
    BY <1>2, <2>2 DEF GroupRec
  <2> HIDE DEF new
  <2>4. /\ TargetMade(n, k) \in [NsSet -> GroupRec] /\ TargetMade(n, k)[k] = new
        /\ \A m \in NsSet \ {k} : TargetMade(n, k)[m] = grp[m]
    BY <1>1, <2>1, <2>3
  <2> QED
    BY <1>2, <1>4, <2>2, <2>3, <2>4
<1> QED
  BY <1>3, <1>4

(* The tree after a group, or the older part of it, was moved. *)
LEMMA MovedTree ==
  ASSUME NsInd, NEW p, NEW n \in NsSet, NEW k \in NsSet, n # k, ~SoftError(n, k), ~HardError(n, k), NEW T \in SUBSET Times(n),
         snap' = Renamed(n, k, T), UNCHANGED <<nsDir, marker, nsOps, born, gone>>,
         \/ T = Times(n) /\ grp' = [TargetMade(n, k) EXCEPT ![n] = NoGroup]
         \/ grp' = TargetMade(n, k)
  PROVE  TreeOK' /\ GroupsKept(p) /\ GidsKept
<1> DEFINE g == TargetMade(n, k)
<1>1. TreeOK /\ CallsOK
  BY DEF NsInd
<1>2. /\ groupLock[n] = Free /\ groupLock[k] = Free /\ k \in nsDir /\ HasOwner(n) /\ MergeOk(n, k)
      /\ Times(n) \cap Times(k) = {}
  BY <1>1, Movable
<1>3. /\ g \in [NsSet -> GroupRec] /\ \A m \in NsSet \ {k} : g[m] = grp[m]
      /\ g[k] = grp[k] \/ (~GroupExists(k) /\ g[k].gid \notin UsedGids)
      /\ g[k].owner \in NsOwner
  BY <1>1, <1>2, TargetIs DEF MoveChecked
<1> HIDE DEF g
<1>4. /\ SnapshotsThere' /\ IdsTyped' /\ snap' \in [NsPath -> SnapRec]
      /\ \A y \in NsPath : snap'[y] # NoSnap =>
               \/ y[1] = k /\ y[2] \in T /\ snap[<<n, y[2]>>] # NoSnap
               \/ snap[y] # NoSnap /\ ~(y[1] = n /\ y[2] \in T)
      /\ \A y \in NsPath : y[1] \notin {n, k} => snap'[y] = snap[y]
  BY <1>1, <1>2, SnapMoved
<1>5. /\ grp' \in [NsSet -> GroupRec] /\ \A m \in NsSet \ {n, k} : grp'[m] = grp[m]
      /\ grp'[k] = g[k]
      /\ grp'[n] = grp[n] \/ (grp'[n] = NoGroup /\ T = Times(n))
  <2>1. NoGroup \in GroupRec
    BY DEF GroupRec
  <2>2. CASE T = Times(n) /\ grp' = [g EXCEPT ![n] = NoGroup]
    BY <1>3, <2>1, <2>2
  <2>3. CASE grp' = g
    BY <1>3, <2>3
  <2> QED
    BY <2>2, <2>3 DEF g
<1>6. TreeOK'
  <2>1. \A y \in NsPath : snap'[y] # NoSnap => grp'[y[1]].owner \in NsOwner
    <3> SUFFICES ASSUME NEW y \in NsPath, snap'[y] # NoSnap PROVE grp'[y[1]].owner \in NsOwner
      OBVIOUS
    <3>1. y[1] \in NsSet /\ y[2] \in NsTime /\ y = <<y[1], y[2]>>
      BY PathIs
    <3>2. CASE y[1] = k
      BY <1>3, <1>5, <3>2
    <3>3. CASE y[1] = n
      <4>1. y[2] \in Times(n) /\ y[2] \notin T
        BY <1>4, <3>1, <3>3 DEF Times
      <4> QED
        BY <1>2, <1>5, <3>3, <4>1 DEF HasOwner
    <3>4. CASE y[1] \notin {n, k}
      BY <1>1, <1>4, <1>5, <3>1, <3>4, TreeParts
    <3> QED
      BY <3>2, <3>3, <3>4
  <2>2. \A m \in NsSet : grp'[m] # NoGroup => m \in nsDir
    BY <1>1, <1>2, <1>5, TreeParts
  <2> QED
    BY <1>1, <1>4, <1>5, <2>1, <2>2, TreeParts, TreeBy
<1>7. GidsKept
  BY <1>3, <1>5 DEF GidsKept, GroupExists
<1>8. GroupsKept(p)
  <2> SUFFICES ASSUME NEW m \in NsSet, groupLock[m] \notin {p, Free}
               PROVE  (HasOwner(m) => HasOwner(m)') /\ Times(m)' \subseteq Times(m)
    BY DEF GroupsKept
  <2>1. m \notin {n, k}
    BY <1>2
  <2>2. \A u \in NsTime : <<m, u>> \in NsPath /\ <<m, u>>[1] = m
    BY PathPair
  <2>3. Times(m)' = Times(m)
    BY <1>4, <2>1, <2>2 DEF Times
  <2> QED
    BY <1>5, <2>1, <2>3 DEF HasOwner
<1> QED
  BY <1>6, <1>7, <1>8

(* ... and after a try that has only made the target. *)
LEMMA TriedTree ==
  ASSUME NsInd, NEW p, NEW n \in NsSet, NEW k \in NsSet, UNCHANGED <<snap, nsDir, marker, nsOps, born, gone>>,
         grp' = TargetMade(n, k) \/ grp' = grp
  PROVE  TreeOK' /\ GroupsKept(p) /\ GidsKept
<1>1. TreeOK /\ CallsOK /\ grp \in [NsSet -> GroupRec]
  BY TreeParts DEF NsInd
<1>2. /\ grp' \in [NsSet -> GroupRec] /\ \A m \in NsSet \ {k} : grp'[m] = grp[m]
      /\ \/ grp'[k] = grp[k]
         \/ /\ groupLock[k] = Free /\ ~GroupExists(k) /\ k \in nsDir
            /\ grp'[k].gid \notin UsedGids /\ grp'[k].owner \in NsOwner
  BY <1>1, TargetIs
<1>3. \A m \in NsSet : HasOwner(m) => grp'[m].owner \in NsOwner
  BY <1>2 DEF HasOwner
<1>4. TreeOK'
  <2>1. \A x \in NsPath : snap'[x] # NoSnap => grp'[x[1]].owner \in NsOwner
    BY <1>1, <1>3, TreeParts, PathIs DEF HasOwner
  <2>2. \A m \in NsSet : grp'[m] # NoGroup => m \in nsDir'
    BY <1>1, <1>2, TreeParts
  <2>3. SnapshotsThere' /\ IdsTyped'
    BY <1>1 DEF TreeOK, SnapshotsThere, IdsTyped
  <2> QED
    BY <1>1, <1>2, <2>1, <2>2, <2>3, TreeParts, TreeBy
<1>5. GidsKept
  BY <1>2 DEF GidsKept
<1>6. GroupsKept(p)
  BY <1>3 DEF GroupsKept, HasOwner, Times
<1> QED
  BY <1>4, <1>5, <1>6

(* A move goes on after one group: what is neither moved nor failed is     *)
(* still to be done.                                                       *)
LEMMA MoveOn ==
  ASSUME CallsOK, NEW p \in NsTask, NEW n, OthersKept(p), UNCHANGED <<groupLock, snapLock>>, GroupsKept(p), GidsKept,
         task[p].op = "move", task[p].pc \in {"groups", "retry"},
         task'[p].op = "move", task'[p].pc \in {"groups", "retry"},
         task'[p].ns = task[p].ns, task'[p].to = task[p].to, task'[p].stays = task[p].stays,
         task'[p].todo \cup task'[p].tried \cup task'[p].deferred \subseteq task[p].todo \cup task[p].tried \cup task[p].deferred,
         task[p].unlisted => task'[p].unlisted, ~task[p].all => ~task'[p].all,
         task[p].deferred \ {n} \subseteq task'[p].deferred,
         task[p].pc = "groups" => \A m \in task[p].todo \ {n} : task'[p].pc = "groups" /\ m \in task'[p].todo,
         grp'[n] = NoGroup \/ ~task'[p].all \/ n \in task'[p].deferred \/ task'[p].unlisted
  PROVE  CallsOK'
<1>1. LocksTyped' /\ LocksKept(p)
  BY LocksSame
<1>2. LockOK(p)'
  BY DEF LockOK, HoldsGroup
<1>3. RouteOK(p)'
  BY RouteKept
<1>4. MoveOK(p)'
  <2>1. MoveOK(p)
    BY TaskTyped
  <2> SUFFICES ASSUME NEW s \in task[p].stays
               PROVE  \/ GroupGone(s)' \/ task'[p].unlisted \/ ~task'[p].all \/ s[1] \in task'[p].deferred
                      \/ task'[p].pc = "groups" /\ s[1] \in task'[p].todo
    BY DEF MoveOK, GroupGone
  <2>2. GroupGone(s)' <=> (grp'[s[1]] = NoGroup \/ grp'[s[1]].gid # s[2])
    BY DEF GroupGone
  <2>3. CASE s[1] = n
    BY <2>2, <2>3
  <2>4. CASE s[1] # n
    <3>1. \/ GroupGone(s) \/ task[p].unlisted \/ ~task[p].all \/ s[1] \in task[p].deferred
          \/ task[p].pc = "groups" /\ s[1] \in task[p].todo
      BY <2>1 DEF MoveOK
    <3>2. GroupGone(s) => GroupGone(s)'
      BY GoneStays DEF CallsOK
    <3> QED
      BY <2>4, <3>1, <3>2
  <2> QED
    BY <2>3, <2>4
<1> QED
  BY <1>1, <1>2, <1>3, <1>4, CallStep

(* The records of a move that goes on. *)
LEMMA DeferredRecord ==
  ASSUME NEW c \in TaskRec, NEW S \in SUBSET NsSet
  PROVE  LET e == [c EXCEPT !.deferred = S] IN
         /\ e \in TaskRec /\ e.deferred = S
         /\ e.op = c.op /\ e.pc = c.pc /\ e.ns = c.ns /\ e.to = c.to /\ e.stays = c.stays /\ e.tried = c.tried /\ e.todo = c.todo
         /\ e.all = c.all /\ e.unlisted = c.unlisted
<1> DEFINE e == [c EXCEPT !.deferred = S]
<1>1. e \in TaskRec
  BY DEF TaskRec
<1>2. e.deferred = S
  BY DEF TaskRec
<1>3. /\ e.op = c.op /\ e.pc = c.pc /\ e.ns = c.ns /\ e.to = c.to /\ e.stays = c.stays /\ e.tried = c.tried /\ e.todo = c.todo
      /\ e.all = c.all /\ e.unlisted = c.unlisted
  BY DEF TaskRec
<1> QED
  BY <1>1, <1>2, <1>3

LEMMA FailedRecord ==
  ASSUME NEW c \in TaskRec, NEW S \in SUBSET NsSet
  PROVE  LET e == [c EXCEPT !.failed = S, !.all = FALSE] IN
         /\ e \in TaskRec /\ ~e.all
         /\ e.op = c.op /\ e.pc = c.pc /\ e.ns = c.ns /\ e.to = c.to /\ e.stays = c.stays /\ e.tried = c.tried /\ e.todo = c.todo
         /\ e.deferred = c.deferred /\ e.unlisted = c.unlisted
<1> DEFINE e == [c EXCEPT !.failed = S, !.all = FALSE]
<1>1. e \in TaskRec
  BY DEF TaskRec
<1>2. e.all = FALSE
  BY DEF TaskRec
<1>3. /\ e.op = c.op /\ e.pc = c.pc /\ e.ns = c.ns /\ e.to = c.to /\ e.stays = c.stays /\ e.tried = c.tried /\ e.todo = c.todo
      /\ e.deferred = c.deferred /\ e.unlisted = c.unlisted
  BY DEF TaskRec
<1> QED
  BY <1>1, <1>2, <1>3

LEMMA UnlistedRecord ==
  ASSUME NEW c \in TaskRec, NEW S \in SUBSET NsSet
  PROVE  LET e == [c EXCEPT !.failed = S, !.unlisted = TRUE] IN
         /\ e \in TaskRec /\ e.unlisted
         /\ e.op = c.op /\ e.pc = c.pc /\ e.ns = c.ns /\ e.to = c.to /\ e.stays = c.stays /\ e.tried = c.tried /\ e.todo = c.todo
         /\ e.deferred = c.deferred /\ e.all = c.all
<1> DEFINE e == [c EXCEPT !.failed = S, !.unlisted = TRUE]
<1>1. e \in TaskRec
  BY DEF TaskRec
<1>2. e.unlisted = TRUE
  BY DEF TaskRec
<1>3. /\ e.op = c.op /\ e.pc = c.pc /\ e.ns = c.ns /\ e.to = c.to /\ e.stays = c.stays /\ e.tried = c.tried /\ e.todo = c.todo
      /\ e.deferred = c.deferred /\ e.all = c.all
  BY DEF TaskRec
<1> QED
  BY <1>1, <1>2, <1>3

(* Where a move takes a group is another namespace. *)
LEMMA RouteElsewhere ==
  ASSUME CallsOK, NEW p \in NsTask, task[p].op = "move", NEW n \in task[p].todo \cup task[p].deferred
  PROVE  n \in NsSet /\ MapPrefix(n, task[p].ns, task[p].to) \in NsSet /\ MapPrefix(n, task[p].ns, task[p].to) # n
<1>1. n \in NsSet /\ task[p].ns \in NsSet /\ task[p].to \in NsSet
  BY TaskTyped DEF TaskRec
<1>2. task[p].ns # task[p].to /\ Below(task[p].ns, n) /\ MapPrefix(n, task[p].ns, task[p].to) \in NsSet
  BY TaskTyped DEF RouteOK, Maps
<1> QED
  BY <1>1, <1>2, MapsElsewhere

(* What trying a group does to the tree, and to the record of the move.    *)
LEMMA TryGroup ==
  ASSUME NsInd, NEW p \in NsTask, NEW n \in task[p].todo \cup task[p].deferred, task[p].op = "move",
         UNCHANGED <<nsDir, marker, groupLock, snapLock, nsOps, born, gone>>
  PROVE  /\ \A next : MoveGroup(p, n, next) => TreeOK' /\ GroupsKept(p) /\ GidsKept /\ grp'[n] = NoGroup
         /\ \A next : MoveGroupHalf(p, n, next) => TreeOK' /\ GroupsKept(p) /\ GidsKept
         /\ \A next : MoveGroupFails(p, n, next) => TreeOK' /\ GroupsKept(p) /\ GidsKept
         /\ \A next : MoveGroupBusy(p, n, next) => TreeOK' /\ GroupsKept(p) /\ GidsKept
<1> DEFINE k == MapPrefix(n, task[p].ns, task[p].to)
<1>0. n \in NsSet /\ k \in NsSet /\ n # k /\ TreeOK /\ CallsOK
  BY RouteElsewhere DEF NsInd
<1>1. ASSUME NEW next, MoveGroup(p, n, next) PROVE TreeOK' /\ GroupsKept(p) /\ GidsKept /\ grp'[n] = NoGroup
  <2>1. /\ ~SoftError(n, k) /\ ~HardError(n, k) /\ snap' = Renamed(n, k, Times(n))
        /\ grp' = [TargetMade(n, k) EXCEPT ![n] = NoGroup]
    BY <1>1 DEF MoveGroup
  <2> HIDE DEF k
  <2>2. TreeOK' /\ GroupsKept(p) /\ GidsKept
    BY <1>0, <2>1, MovedTree
  <2>3. TargetMade(n, k) \in [NsSet -> GroupRec]
    BY <1>0, TargetIs
  <2> QED
    BY <1>0, <2>1, <2>2, <2>3
<1>2. ASSUME NEW next, MoveGroupHalf(p, n, next) PROVE TreeOK' /\ GroupsKept(p) /\ GidsKept
  <2>1. PICK t \in Times(n) : snap' = Renamed(n, k, {u \in Times(n) : u < t})
    BY <1>2 DEF MoveGroupHalf
  <2>2. ~SoftError(n, k) /\ ~HardError(n, k) /\ grp' = TargetMade(n, k)
    BY <1>2 DEF MoveGroupHalf
  <2> DEFINE T == {u \in Times(n) : u < t}
  <2>3. T \in SUBSET Times(n) /\ snap' = Renamed(n, k, T)
    BY <2>1
  <2> HIDE DEF k, T
  <2> QED
    BY <1>0, <2>2, <2>3, MovedTree
<1>3. ASSUME NEW next, MoveGroupFails(p, n, next) PROVE TreeOK' /\ GroupsKept(p) /\ GidsKept
  <2>1. grp' = grp /\ snap' = snap
    BY <1>3 DEF MoveGroupFails
  <2> HIDE DEF k
  <2> QED
    BY <1>0, <2>1, TriedTree
<1>4. ASSUME NEW next, MoveGroupBusy(p, n, next) PROVE TreeOK' /\ GroupsKept(p) /\ GidsKept
  <2>1. grp' = TargetMade(n, k) /\ snap' = snap
    BY <1>4 DEF MoveGroupBusy
  <2> HIDE DEF k
  <2> QED
    BY <1>0, <2>1, TriedTree
<1> QED
  BY <1>1, <1>2, <1>3, <1>4

LEMMA MoveGroupsOK ==
  ASSUME NsInd, NEW p \in NsTask, NEW n \in task[p].todo, MoveGroups(p, n)
  PROVE  NsInd'
<1> DEFINE c == task[p]
           rest == c.todo \ {n}
           at == IF rest = {} THEN "retry" ELSE c.pc
           e == [c EXCEPT !.todo = rest, !.pc = at]
<1>0. c \in TaskRec
  BY TaskTyped DEF NsInd
<1>1. CallsOK /\ task \in [NsTask -> TaskRec]
  BY TaskTyped DEF NsInd
<1>2. c.op = "move" /\ c.pc = "groups" /\ UNCHANGED <<nsDir, marker, groupLock, snapLock, nsOps, born, gone>>
  BY DEF MoveGroups
<1>3. n \in NsSet /\ rest \in SUBSET NsSet /\ at \in {"groups", "retry"} /\ c.deferred \cup {n} \in SUBSET NsSet /\ c.failed \in SUBSET NsSet
  BY <1>0, <1>2 DEF TaskRec
<1>4. \/ MoveGroup(p, n, e) \/ MoveGroupHalf(p, n, e) \/ MoveGroupFails(p, n, e)
      \/ MoveGroupBusy(p, n, [e EXCEPT !.deferred = @ \cup {n}])
      \/ ~GroupExists(n) /\ Go(p, e) /\ UNCHANGED <<grp, snap>>
      \/ Go(p, [e EXCEPT !.failed = @ \cup {n}, !.unlisted = TRUE]) /\ UNCHANGED <<grp, snap>>
  BY DEF MoveGroups
<1>5. rest = c.todo \ {n} /\ (rest # {} => at = "groups")
  BY <1>2
<1>6. /\ e \in TaskRec /\ e.todo = rest /\ e.pc = at
      /\ e.op = c.op /\ e.ns = c.ns /\ e.to = c.to /\ e.stays = c.stays /\ e.tried = c.tried /\ e.deferred = c.deferred
      /\ e.all = c.all /\ e.unlisted = c.unlisted
  <2> HIDE DEF c, rest, at
  <2>1. e \in TaskRec
    BY <1>0, <1>3, CallNames DEF TaskRec
  <2>2. e.todo = rest /\ e.pc = at
    BY <1>0 DEF TaskRec
  <2>3. /\ e.op = c.op /\ e.ns = c.ns /\ e.to = c.to /\ e.stays = c.stays /\ e.tried = c.tried /\ e.deferred = c.deferred
        /\ e.all = c.all /\ e.unlisted = c.unlisted
    BY <1>0 DEF TaskRec
  <2> QED
    BY <2>1, <2>2, <2>3
<1> HIDE DEF e
<1>7. /\ \A next : MoveGroup(p, n, next) => TreeOK' /\ GroupsKept(p) /\ GidsKept /\ grp'[n] = NoGroup
      /\ \A next : MoveGroupHalf(p, n, next) => TreeOK' /\ GroupsKept(p) /\ GidsKept
      /\ \A next : MoveGroupFails(p, n, next) => TreeOK' /\ GroupsKept(p) /\ GidsKept
      /\ \A next : MoveGroupBusy(p, n, next) => TreeOK' /\ GroupsKept(p) /\ GidsKept
  BY <1>2, TryGroup
<1>8. UNCHANGED <<grp, snap>> => TreeOK' /\ GroupsKept(p) /\ GidsKept
  BY <1>2, <1>3, TriedTree
<1> HIDE DEF c, rest, at
<1>9. ASSUME Go(p, e), TreeOK', GroupsKept(p), GidsKept, grp'[n] = NoGroup PROVE NsInd'
  <2>1. task'[p] = e /\ task' = [task EXCEPT ![p] = e]
    BY <1>1, <1>9 DEF Go
  <2>2. OthersKept(p)
    BY <1>1, <1>6, <2>1, GoRecord DEF c
  <2>3. CallsOK'
    BY <1>1, <1>2, <1>3, <1>5, <1>6, <1>9, <2>1, <2>2, MoveOn DEF c
  <2> QED
    BY <1>9, <2>3 DEF NsInd
<1>10. ASSUME Go(p, [e EXCEPT !.failed = @ \cup {n}, !.all = FALSE]), TreeOK', GroupsKept(p), GidsKept PROVE NsInd'
  <2> DEFINE F == e.failed \cup {n}
             d == [e EXCEPT !.failed = F, !.all = FALSE]
  <2>1. task' = [task EXCEPT ![p] = d] /\ F \in SUBSET NsSet
    BY <1>3, <1>6, <1>10 DEF Go, TaskRec
  <2> HIDE DEF F
  <2>2. /\ d \in TaskRec /\ ~d.all
        /\ d.op = e.op /\ d.pc = e.pc /\ d.ns = e.ns /\ d.to = e.to /\ d.stays = e.stays /\ d.tried = e.tried /\ d.todo = e.todo
        /\ d.deferred = e.deferred /\ d.unlisted = e.unlisted
    BY <1>6, <2>1, FailedRecord
  <2> HIDE DEF d
  <2>3. task'[p] = d
    BY <1>1, <2>1
  <2>4. OthersKept(p)
    BY <1>1, <1>6, <2>1, <2>2, <2>3, GoRecord DEF c
  <2>5. CallsOK'
    BY <1>1, <1>2, <1>3, <1>5, <1>6, <1>10, <2>2, <2>3, <2>4, MoveOn DEF c
  <2> QED
    BY <1>10, <2>5 DEF NsInd
<1>11. ASSUME Go(p, [e EXCEPT !.deferred = @ \cup {n}]), TreeOK', GroupsKept(p), GidsKept PROVE NsInd'
  <2> DEFINE F == e.deferred \cup {n}
             d == [e EXCEPT !.deferred = F]
  <2>1. task' = [task EXCEPT ![p] = d] /\ F \in SUBSET NsSet /\ F = c.deferred \cup {n}
    BY <1>3, <1>6, <1>11 DEF Go, TaskRec
  <2> HIDE DEF F
  <2>2. /\ d \in TaskRec /\ d.deferred = F
        /\ d.op = e.op /\ d.pc = e.pc /\ d.ns = e.ns /\ d.to = e.to /\ d.stays = e.stays /\ d.tried = e.tried /\ d.todo = e.todo
        /\ d.all = e.all /\ d.unlisted = e.unlisted
    BY <1>6, <2>1, DeferredRecord
  <2> HIDE DEF d
  <2>3. task'[p] = d
    BY <1>1, <2>1
  <2>4. OthersKept(p)
    BY <1>1, <1>6, <2>1, <2>2, <2>3, GoRecord DEF c
  <2>5. d.todo \cup d.tried \cup d.deferred \subseteq c.todo \cup c.tried \cup c.deferred
    <3>1. n \in c.todo
      BY DEF c
    <3> QED
      BY <1>5, <1>6, <2>1, <2>2, <3>1
  <2>6. CallsOK'
    BY <1>1, <1>2, <1>3, <1>5, <1>6, <1>11, <2>1, <2>2, <2>3, <2>4, <2>5, MoveOn DEF c
  <2> QED
    BY <1>11, <2>6 DEF NsInd
<1>12. ASSUME Go(p, [e EXCEPT !.failed = @ \cup {n}, !.unlisted = TRUE]), TreeOK', GroupsKept(p), GidsKept PROVE NsInd'
  <2> DEFINE F == e.failed \cup {n}
             d == [e EXCEPT !.failed = F, !.unlisted = TRUE]
  <2>1. task' = [task EXCEPT ![p] = d] /\ F \in SUBSET NsSet
    BY <1>3, <1>6, <1>12 DEF Go, TaskRec
  <2> HIDE DEF F
  <2>2. /\ d \in TaskRec /\ d.unlisted
        /\ d.op = e.op /\ d.pc = e.pc /\ d.ns = e.ns /\ d.to = e.to /\ d.stays = e.stays /\ d.tried = e.tried /\ d.todo = e.todo
        /\ d.deferred = e.deferred /\ d.all = e.all
    BY <1>6, <2>1, UnlistedRecord
  <2> HIDE DEF d
  <2>3. task'[p] = d
    BY <1>1, <2>1
  <2>4. OthersKept(p)
    BY <1>1, <1>6, <2>1, <2>2, <2>3, GoRecord DEF c
  <2>5. CallsOK'
    BY <1>1, <1>2, <1>3, <1>5, <1>6, <1>12, <2>2, <2>3, <2>4, MoveOn DEF c
  <2> QED
    BY <1>12, <2>5 DEF NsInd
<1>13. CASE MoveGroup(p, n, e)
  BY <1>7, <1>9, <1>13 DEF MoveGroup
<1>14. CASE MoveGroupHalf(p, n, e)
  BY <1>7, <1>10, <1>14 DEF MoveGroupHalf
<1>15. CASE MoveGroupFails(p, n, e)
  BY <1>7, <1>10, <1>15 DEF MoveGroupFails
<1>16. CASE MoveGroupBusy(p, n, [e EXCEPT !.deferred = @ \cup {n}])
  BY <1>7, <1>11, <1>16 DEF MoveGroupBusy
<1>17. CASE ~GroupExists(n) /\ Go(p, e) /\ UNCHANGED <<grp, snap>>
  BY <1>8, <1>9, <1>17 DEF GroupExists
<1>18. CASE Go(p, [e EXCEPT !.failed = @ \cup {n}, !.unlisted = TRUE]) /\ UNCHANGED <<grp, snap>>
  BY <1>8, <1>12, <1>18
<1> QED
  BY <1>4, <1>13, <1>14, <1>15, <1>16, <1>17, <1>18

LEMMA MoveRetryOK ==
  ASSUME NsInd, NEW p \in NsTask, NEW n \in task[p].deferred, MoveRetry(p, n)
  PROVE  NsInd'
<1> DEFINE c == task[p]
           rest == c.deferred \ {n}
           e == [c EXCEPT !.deferred = rest]
<1>0. c \in TaskRec
  BY TaskTyped DEF NsInd
<1>1. CallsOK /\ task \in [NsTask -> TaskRec]
  BY TaskTyped DEF NsInd
<1>2. c.op = "move" /\ c.pc = "retry" /\ UNCHANGED <<nsDir, marker, groupLock, snapLock, nsOps, born, gone>>
  BY DEF MoveRetry
<1>3. n \in NsSet /\ rest \in SUBSET NsSet
  BY <1>0 DEF TaskRec
<1>4. \/ MoveGroup(p, n, e) \/ MoveGroupHalf(p, n, e) \/ MoveGroupFails(p, n, e)
      \/ MoveGroupBusy(p, n, [e EXCEPT !.failed = @ \cup {n}, !.all = FALSE])
  BY DEF MoveRetry
<1>5. rest = c.deferred \ {n}
  OBVIOUS
<1>6. /\ e \in TaskRec /\ e.deferred = rest
      /\ e.op = c.op /\ e.pc = c.pc /\ e.ns = c.ns /\ e.to = c.to /\ e.stays = c.stays /\ e.tried = c.tried /\ e.todo = c.todo
      /\ e.all = c.all /\ e.unlisted = c.unlisted
  <2> HIDE DEF c, rest
  <2> QED
    BY <1>0, <1>3, DeferredRecord
<1> HIDE DEF e
<1>7. /\ \A next : MoveGroup(p, n, next) => TreeOK' /\ GroupsKept(p) /\ GidsKept /\ grp'[n] = NoGroup
      /\ \A next : MoveGroupHalf(p, n, next) => TreeOK' /\ GroupsKept(p) /\ GidsKept
      /\ \A next : MoveGroupFails(p, n, next) => TreeOK' /\ GroupsKept(p) /\ GidsKept
      /\ \A next : MoveGroupBusy(p, n, next) => TreeOK' /\ GroupsKept(p) /\ GidsKept
  BY <1>2, TryGroup
<1> HIDE DEF c, rest
<1>8. ASSUME Go(p, e), TreeOK', GroupsKept(p), GidsKept, grp'[n] = NoGroup PROVE NsInd'
  <2>1. task'[p] = e /\ task' = [task EXCEPT ![p] = e]
    BY <1>1, <1>8 DEF Go
  <2>2. OthersKept(p)
    BY <1>1, <1>6, <2>1, GoRecord DEF c
  <2>3. CallsOK'
    BY <1>1, <1>2, <1>5, <1>6, <1>8, <2>1, <2>2, MoveOn DEF c
  <2> QED
    BY <1>8, <2>3 DEF NsInd
<1>9. ASSUME Go(p, [e EXCEPT !.failed = @ \cup {n}, !.all = FALSE]), TreeOK', GroupsKept(p), GidsKept PROVE NsInd'
  <2> DEFINE F == e.failed \cup {n}
             d == [e EXCEPT !.failed = F, !.all = FALSE]
  <2>1. task' = [task EXCEPT ![p] = d] /\ F \in SUBSET NsSet
    BY <1>3, <1>6, <1>9 DEF Go, TaskRec
  <2> HIDE DEF F
  <2>2. /\ d \in TaskRec /\ ~d.all
        /\ d.op = e.op /\ d.pc = e.pc /\ d.ns = e.ns /\ d.to = e.to /\ d.stays = e.stays /\ d.tried = e.tried /\ d.todo = e.todo
        /\ d.deferred = e.deferred /\ d.unlisted = e.unlisted
    BY <1>6, <2>1, FailedRecord
  <2> HIDE DEF d
  <2>3. task'[p] = d
    BY <1>1, <2>1
  <2>4. OthersKept(p)
    BY <1>1, <1>6, <2>1, <2>2, <2>3, GoRecord DEF c
  <2>5. CallsOK'
    BY <1>1, <1>2, <1>5, <1>6, <1>9, <2>2, <2>3, <2>4, MoveOn DEF c
  <2> QED
    BY <1>9, <2>5 DEF NsInd
<1>10. CASE MoveGroup(p, n, e)
  BY <1>7, <1>8, <1>10 DEF MoveGroup
<1>11. CASE MoveGroupHalf(p, n, e)
  BY <1>7, <1>9, <1>11 DEF MoveGroupHalf
<1>12. CASE MoveGroupFails(p, n, e)
  BY <1>7, <1>9, <1>12 DEF MoveGroupFails
<1>13. CASE MoveGroupBusy(p, n, [e EXCEPT !.failed = @ \cup {n}, !.all = FALSE])
  BY <1>7, <1>9, <1>13 DEF MoveGroupBusy
<1> QED
  BY <1>4, <1>10, <1>11, <1>12, <1>13

-----------------------------------------------------------------------------
(* The theorems *)

LEMMA NsInitOK == NsInit => NsInd
<1> SUFFICES ASSUME NsInit PROVE NsInd
  OBVIOUS
<1>1. PICK g \in NsGroups :
        /\ grp = [n \in NsSet |-> IF g[n] = {} THEN NoGroup ELSE [owner |-> CHOOSE o \in NsOwner : TRUE, gid |-> 1]]
        /\ snap = [p \in NsPath |-> IF p[2] \in g[p[1]] THEN [id |-> <<p, 0>>, fin |-> TRUE, prot |-> FALSE] ELSE NoSnap]
        /\ born = {<<p, 0>> : p \in {q \in NsPath : q[2] \in g[q[1]]}}
  BY DEF NsInit
<1>2. /\ nsDir = NsSet /\ marker = NsSet /\ nsOps = 1 /\ gone = {} /\ task = [p \in NsTask |-> NoTask]
      /\ groupLock = [n \in NsSet |-> Free] /\ snapLock = [p \in NsPath |-> Free]
  BY DEF NsInit
<1> DEFINE who == CHOOSE o \in NsOwner : TRUE
           made == [owner |-> who, gid |-> 1]
<1>3. who \in NsOwner
  BY NsAssumption
<1>4. made \in GroupRec /\ NoGroup \in GroupRec /\ made # NoGroup /\ made.owner \in NsOwner
  BY <1>3, NsAssumption DEF GroupRec, NoGroup
<1> HIDE DEF made, who
<1>5. grp = [n \in NsSet |-> IF g[n] = {} THEN NoGroup ELSE made]
  BY <1>1 DEF made, who
<1>6. grp \in [NsSet -> GroupRec]
  BY <1>4, <1>5
<1>7. \A x \in NsPath : <<x, 0>> \in SnapId /\ <<x, 0>>[1] = x /\ <<x, 0>>[2] = 0 /\ <<x, 0>> # << >>
  BY DEF SnapId
<1>8. \A x \in NsPath : /\ [id |-> <<x, 0>>, fin |-> TRUE, prot |-> FALSE] \in SnapRec
                        /\ [id |-> <<x, 0>>, fin |-> TRUE, prot |-> FALSE].id = <<x, 0>>
                        /\ [id |-> <<x, 0>>, fin |-> TRUE, prot |-> FALSE] # NoSnap
  BY <1>7 DEF SnapRec, NoSnap
<1>9. snap \in [NsPath -> SnapRec]
  BY <1>1, <1>8 DEF SnapRec
<1>10. \A x \in NsPath : /\ snap[x] # NoSnap <=> x[2] \in g[x[1]]
                         /\ snap[x] # NoSnap => snap[x].id = <<x, 0>>
  BY <1>1, <1>8
<1>11. DiskTyped
  BY <1>2, <1>6, <1>9 DEF DiskTyped
<1>12. IdsTyped
  BY <1>1, <1>2, <1>7 DEF IdsTyped
<1>13. TreeWhole
  <2>1. \A x \in NsPath : snap[x] # NoSnap => HasOwner(x[1])
    BY <1>4, <1>5, <1>10, PathIs DEF HasOwner
  <2>2. \A n \in nsDir : n = << >> \/ Parent(n) \in nsDir
    BY <1>2, ParentIs
  <2> QED
    BY <1>2, <2>1, <2>2 DEF TreeWhole
<1>14. SnapshotsThere
  <2> DEFINE P == {x \in NsPath : snap[x] # NoSnap}
  <2>1. P = {q \in NsPath : q[2] \in g[q[1]]} /\ \A x \in P : snap[x].id = <<x, 0>>
    BY <1>10
  <2>2. {snap[x].id : x \in P} = born \ gone
    BY <1>1, <1>2, <2>1
  <2>3. \A x, y \in P : snap[x].id = snap[y].id => x = y
    BY <2>1
  <2> QED
    BY <2>2, <2>3 DEF SnapshotsThere
<1>15. LocksTyped
  BY <1>2 DEF LocksTyped
<1>16. CallsTyped
  BY <1>2, NoTaskTyped, FS_EmptySet DEF CallsTyped
<1>17. ASSUME NEW p \in NsTask PROVE CallOK(p)
  <2>1. task[p] = NoTask
    BY <1>2
  <2>2. LockOK(p)
    BY <2>1 DEF LockOK, HoldsGroup, NoTask
  <2>3. RouteOK(p)
    BY <2>1 DEF RouteOK, NoTask
  <2>4. MoveOK(p)
    BY <2>1 DEF MoveOK, NoTask
  <2> QED
    BY <2>2, <2>3, <2>4 DEF CallOK
<1> QED
  BY <1>11, <1>12, <1>13, <1>14, <1>15, <1>16, <1>17 DEF NsInd, TreeOK, CallsOK

LEMMA NsStartOK ==
  ASSUME NsInd, NEW p \in NsTask, NsStart(p)
  PROVE  NsInd'
<1>1. NsUsed \subseteq NsSet
  BY NsAssumption
<1>2. ASSUME NEW n \in NsUsed, NEW t \in NsTime, NEW who \in NsOwner, StartBackup(p, n, t, who) PROVE NsInd'
  BY <1>1, <1>2, StartBackupOK
<1>3. ASSUME NEW n \in NsUsed, NEW t \in NsTime, DeleteSnapshot(p, n, t) PROVE NsInd'
  BY <1>1, <1>3, DeleteSnapshotOK
<1>4. ASSUME NEW n \in NsUsed, PruneGroup(p, n, 1) PROVE NsInd'
  BY <1>1, <1>4, PruneGroupOK
<1>5. ASSUME NEW n \in NsUsed, DeleteGroup(p, n) PROVE NsInd'
  BY <1>1, <1>5, DeleteGroupOK
<1>6. ASSUME NEW n \in NsUsed, NEW groups \in BOOLEAN, DeleteNamespace(p, n, groups) PROVE NsInd'
  BY <1>1, <1>6, DeleteNamespaceOK
<1>7. ASSUME NEW n \in NsUsed, NEW who \in NsOwner, StartSetOwner(p, n, who) PROVE NsInd'
  BY <1>1, <1>7, StartSetOwnerOK
<1>8. ASSUME NEW m \in NsMoves, NEW deleteSource \in BOOLEAN, StartMove(p, m[1], m[2], m[3], deleteSource) PROVE NsInd'
  BY <1>8, StartMoveOK
<1> QED
  BY <1>2, <1>3, <1>4, <1>5, <1>6, <1>7, <1>8 DEF NsStart

LEMMA NsStepOK ==
  ASSUME NsInd, NEW p \in NsTask, NsStep(p)
  PROVE  NsInd'
<1>1. task[p].todo \subseteq NsSet
  BY TaskTyped DEF NsInd, TaskRec
<1>2. CASE MakeGroup(p) \/ GroupLockFails(p) \/ LockGroup(p) \/ MakeSnapshot(p) \/ LockSnapshot(p)
  BY <1>2, MakeGroupOK, GroupLockFailsOK, LockGroupOK, MakeSnapshotOK, LockSnapshotOK
<1>3. CASE BackupRefused(p) \/ FinishBackup(p) \/ AbortBackup(p) \/ MoveDone(p) \/ NsFail(p)
  BY <1>3, QuietReturns, FinishBackupOK, AbortBackupOK
<1>4. ASSUME NEW t \in task[p].left, DestroySnapshot(p, t) \/ DestroyFails(p, t) \/ DeleteNext(p, t) PROVE NsInd'
  BY <1>4, DestroySnapshotOK, DestroyFailsOK, DeleteNextOK
<1>5. CASE CleanupGroup(p) \/ DeleteGroupDir(p) \/ SetOwner(p)
  BY <1>5, CleanupGroupOK, DeleteGroupDirOK, SetOwnerOK
<1>6. ASSUME NEW n \in task[p].todo, DeleteNamespaceGroups(p, n) \/ RemoveNamespace(p, n) PROVE NsInd'
  BY <1>1, <1>6, DeleteNamespaceGroupsOK, RemoveNamespaceOK
<1>7. ASSUME NEW n \in task[p].todo, MoveCreate(p, n) \/ MoveGroups(p, n) PROVE NsInd'
  BY <1>7, MoveCreateOK, MoveGroupsOK
<1>8. ASSUME NEW n \in task[p].deferred, MoveRetry(p, n) PROVE NsInd'
  BY <1>8, MoveRetryOK
<1>9. ASSUME NEW n \in task[p].tried, MoveCleanup(p, n) PROVE NsInd'
  BY <1>9, MoveCleanupOK
<1>10. CASE MoveList(p) \/ MoveReport(p)
  BY <1>10, MoveListOK, MoveReportOK
<1> QED
  BY <1>2, <1>3, <1>4, <1>5, <1>6, <1>7, <1>8, <1>9, <1>10 DEF NsStep

LEMMA NsNextOK == NsInd /\ [NsNext]_nsVars => NsInd'
<1> SUFFICES ASSUME NsInd, [NsNext]_nsVars PROVE NsInd'
  OBVIOUS
<1>1. ASSUME NEW p \in NsTask, NsStart(p) \/ NsStep(p) PROVE NsInd'
  BY <1>1, NsStartOK, NsStepOK
<1>2. ASSUME NEW n \in NsUsed, CreateNamespace(n) PROVE NsInd'
  BY <1>2, CreateNamespaceOK, NsAssumption
<1>3. ASSUME NEW n \in NsUsed, NEW t \in NsTime, NEW on \in BOOLEAN, SetProtection(n, t, on) PROVE NsInd'
  <2>1. n \in NsSet
    BY NsAssumption
  <2> QED
    BY <1>3, <2>1, SetProtectionOK
<1>4. CASE NsCrash
  BY <1>4, NsCrashOK
<1>5. CASE UNCHANGED nsVars
  <2>1. UNCHANGED <<nsDisk, groupLock, snapLock, task, nsOps, born, gone>>
    BY <1>5 DEF nsVars
  <2>2. TreeOK'
    BY <2>1, TreeSame DEF NsInd
  <2>3. CallsOK'
    <3>1. LocksTyped' /\ CallsTyped'
      BY <2>1 DEF NsInd, CallsOK, LocksTyped, CallsTyped
    <3>2. ASSUME NEW p \in NsTask PROVE CallOK(p)'
      <4>1. LockOK(p) /\ RouteOK(p) /\ MoveOK(p)
        BY TaskTyped DEF NsInd
      <4>2. LockOK(p)'
        BY <2>1, <4>1 DEF LockOK, HoldsGroup, HasOwner, Times, nsDisk
      <4>3. RouteOK(p)'
        BY <2>1, <4>1 DEF RouteOK
      <4>4. MoveOK(p)'
        BY <2>1, <4>1 DEF MoveOK, GroupGone, nsDisk
      <4> QED
        BY <4>2, <4>3, <4>4 DEF CallOK
    <3> QED
      BY <3>1, <3>2 DEF CallsOK
  <2> QED
    BY <2>2, <2>3 DEF NsInd
<1> QED
  BY <1>1, <1>2, <1>3, <1>4, <1>5 DEF NsNext

(* The tree, the calls and their locks fit together in every state. *)
THEOREM NamespacesInductive == NsSpec => []NsInd
<1>1. NsInit => NsInd
  BY NsInitOK
<1>2. NsInd /\ [NsNext]_nsVars => NsInd'
  BY NsNextOK
<1> QED
  BY <1>1, <1>2, PTL DEF NsSpec

(* Whatever calls run at the same time, fail or are cut off by a crash: a  *)
(* snapshot that nobody removed is there once, in a group with an owner,   *)
(* in a namespace that exists with all its parents; and a move that        *)
(* reports success has left no group behind.                               *)
THEOREM HierarchyAlwaysSafe == NsSpec => []HierarchySafe
<1>1. NsInd => HierarchySafe
  <2> SUFFICES ASSUME NsInd PROVE HierarchySafe
    OBVIOUS
  <2>1. NsTypeOK
    <3>1. nsDir \subseteq NsSet /\ marker \subseteq NsSet /\ nsOps \in Nat \ {0} /\ LocksTyped /\ TreeOK
      BY DEF NsInd, TreeOK, DiskTyped, IdsTyped, CallsOK
    <3>2. \A n \in NsSet : grp[n] = NoGroup \/ grp[n].owner \in NsOwner \cup {NoOwner}
      BY <3>1, GroupTyped DEF GroupExists
    <3> QED
      BY <3>1, <3>2 DEF NsTypeOK, LocksTyped
  <2>2. MoveHonest
    <3> SUFFICES ASSUME NEW p \in NsTask, task[p].pc = "moved"
                 PROVE  task[p].unlisted \/ \A s \in task[p].stays : grp[s[1]] = NoGroup \/ grp[s[1]].gid # s[2]
      BY DEF MoveHonest
    <3>1. MoveOK(p)
      BY TaskTyped DEF NsInd
    <3> QED
      BY <3>1 DEF MoveOK, GroupGone
  <2> QED
    BY <2>1, <2>2 DEF NsInd, TreeOK, HierarchySafe
<1> QED
  BY <1>1, NamespacesInductive, PTL


-----------------------------------------------------------------------------
(* Protected snapshots *)

(* What a step has to keep of the protected snapshots. *)
ProtStep == \A x \in NsPath : snap[x].prot => \E y \in NsPath : snap'[y].id = snap[x].id /\ (snap'[y].prot \/ y = x)

LEMMA ProtSame ==
  ASSUME snap' = snap
  PROVE  ProtStep
BY DEF ProtStep

(* A place whose snapshot is not protected may change. *)
LEMMA ProtBut ==
  ASSUME TreeOK, NEW x \in NsPath, ~snap[x].prot, NEW v, snap' = [snap EXCEPT ![x] = v]
  PROVE  ProtStep
<1>1. \A y \in NsPath \ {x} : snap'[y] = snap[y]
  BY TreeParts
<1> QED
  BY <1>1 DEF ProtStep

(* A change keeps the name in its place. *)
LEMMA ProtInPlace ==
  ASSUME \A y \in NsPath : snap'[y].id = snap[y].id
  PROVE  ProtStep
BY DEF ProtStep

(* A rename takes the protection along. *)
LEMMA ProtMoved ==
  ASSUME NsInd, NEW n \in NsSet, NEW k \in NsSet, n # k, ~SoftError(n, k), ~HardError(n, k), NEW T \in SUBSET Times(n),
         snap' = Renamed(n, k, T), UNCHANGED <<nsOps, born, gone>>
  PROVE  ProtStep
<1>1. TreeOK
  BY DEF NsInd
<1>2. Times(n) \cap Times(k) = {}
  BY <1>1, Movable
<1>3. T \cap Times(k) = {}
  BY <1>2
<1>4. \A y \in NsPath : snap[y] # NoSnap => \E z \in NsPath : snap'[z] = snap[y]
  BY <1>1, <1>3, SnapMoved
<1>5. ~NoSnap.prot
  BY DEF NoSnap
<1> QED
  BY <1>4, <1>5 DEF ProtStep

LEMMA ProtTried ==
  ASSUME NsInd, NEW p \in NsTask, NEW n \in task[p].todo \cup task[p].deferred, task[p].op = "move",
         UNCHANGED <<nsOps, born, gone>>
  PROVE  /\ \A next : MoveGroup(p, n, next) => ProtStep
         /\ \A next : MoveGroupHalf(p, n, next) => ProtStep
         /\ \A next : MoveGroupFails(p, n, next) => ProtStep
         /\ \A next : MoveGroupBusy(p, n, next) => ProtStep
<1> DEFINE k == MapPrefix(n, task[p].ns, task[p].to)
<1>0. n \in NsSet /\ k \in NsSet /\ n # k
  BY RouteElsewhere DEF NsInd
<1>1. ASSUME NEW next, MoveGroup(p, n, next) PROVE ProtStep
  <2>1. ~SoftError(n, k) /\ ~HardError(n, k) /\ snap' = Renamed(n, k, Times(n))
    BY <1>1 DEF MoveGroup
  <2> HIDE DEF k
  <2> QED
    BY <1>0, <2>1, ProtMoved
<1>2. ASSUME NEW next, MoveGroupHalf(p, n, next) PROVE ProtStep
  <2>1. PICK t \in Times(n) : snap' = Renamed(n, k, {u \in Times(n) : u < t})
    BY <1>2 DEF MoveGroupHalf
  <2>2. ~SoftError(n, k) /\ ~HardError(n, k)
    BY <1>2 DEF MoveGroupHalf
  <2> DEFINE T == {u \in Times(n) : u < t}
  <2>3. T \in SUBSET Times(n) /\ snap' = Renamed(n, k, T)
    BY <2>1
  <2> HIDE DEF k, T
  <2> QED
    BY <1>0, <2>2, <2>3, ProtMoved
<1>3. ASSUME NEW next, MoveGroupFails(p, n, next) PROVE ProtStep
  BY <1>3, ProtSame DEF MoveGroupFails
<1>4. ASSUME NEW next, MoveGroupBusy(p, n, next) PROVE ProtStep
  BY <1>4, ProtSame DEF MoveGroupBusy
<1> QED
  BY <1>1, <1>2, <1>3, <1>4

LEMMA MoveProtects ==
  ASSUME NsInd, NEW p \in NsTask, NEW n \in task[p].todo \cup task[p].deferred, MoveGroups(p, n) \/ MoveRetry(p, n)
  PROVE  ProtStep
<1>1. task[p].op = "move" /\ UNCHANGED <<nsOps, born, gone>>
  BY DEF MoveGroups, MoveRetry
<1>2. \/ \E next : MoveGroup(p, n, next) \/ MoveGroupHalf(p, n, next) \/ MoveGroupFails(p, n, next) \/ MoveGroupBusy(p, n, next)
      \/ snap' = snap
  BY DEF MoveGroups, MoveRetry
<1> QED
  BY <1>1, <1>2, ProtTried, ProtSame

(* The end of a backup, good or bad. *)
LEMMA BackupProtects ==
  ASSUME NsInd, NEW p \in NsTask, MakeSnapshot(p) \/ FinishBackup(p) \/ AbortBackup(p)
  PROVE  ProtStep
<1> DEFINE x == <<task[p].ns, task[p].time>>
<1>1. TreeOK /\ task[p] \in TaskRec /\ task[p].op = "backup"
  BY TaskTyped DEF NsInd, MakeSnapshot, FinishBackup, AbortBackup
<1>2. x \in NsPath
  <2>1. task[p].time \in NsTime
    BY <1>1, TaskTyped DEF NsInd, LockOK
  <2>2. task[p].ns \in NsSet
    BY <1>1 DEF TaskRec
  <2> QED
    BY <2>1, <2>2, PathPair
<1>3. CASE MakeSnapshot(p)
  <2>1. \E v : snap[x] = NoSnap /\ snap' = [snap EXCEPT ![x] = v]
    BY <1>3 DEF MakeSnapshot
  <2>2. ~NoSnap.prot
    BY DEF NoSnap
  <2> HIDE DEF x
  <2> QED
    BY <1>1, <1>2, <2>1, <2>2, ProtBut
<1>4. CASE FinishBackup(p)
  <2>1. snap' = [snap EXCEPT ![x].fin = TRUE] /\ snap[x] # NoSnap
    BY <1>4 DEF FinishBackup
  <2> HIDE DEF x
  <2>2. snap \in [NsPath -> SnapRec] /\ snap[x] \in [id : SnapId, fin : BOOLEAN, prot : BOOLEAN]
    BY <1>1, <1>2, <2>1, SnapTyped
  <2>3. snap'[x] = [snap[x] EXCEPT !.fin = TRUE] /\ \A y \in NsPath \ {x} : snap'[y] = snap[y]
    BY <1>2, <2>1, <2>2
  <2>4. snap'[x].id = snap[x].id
    BY <2>2, <2>3
  <2> QED
    BY <2>3, <2>4, ProtInPlace
<1>5. CASE AbortBackup(p)
  <2>1. (snap' = [snap EXCEPT ![x] = NoSnap] /\ ~snap[x].prot) \/ snap' = snap
    BY <1>5 DEF AbortBackup
  <2> HIDE DEF x
  <2> QED
    BY <1>1, <1>2, <2>1, ProtBut, ProtSame
<1> QED
  BY <1>3, <1>4, <1>5

LEMMA DeleteProtects ==
  ASSUME NsInd, NEW p \in NsTask, NEW t \in task[p].left, DestroySnapshot(p, t) \/ DestroyFails(p, t) \/ DeleteNext(p, t)
  PROVE  ProtStep
<1> DEFINE x == <<task[p].ns, t>>
<1>1. TreeOK /\ task[p] \in TaskRec
  BY TaskTyped DEF NsInd
<1>2. x \in NsPath
  BY <1>1, PathPair DEF TaskRec
<1>3. (snap' = [snap EXCEPT ![x] = NoSnap] /\ ~snap[x].prot) \/ snap' = snap
  BY DEF DestroySnapshot, DestroyFails, DeleteNext, MayDestroy, nsDisk
<1> HIDE DEF x
<1> QED
  BY <1>1, <1>2, <1>3, ProtBut, ProtSame

LEMMA SetProtectionProtects ==
  ASSUME NsInd, NEW n \in NsSet, NEW t \in NsTime, NEW on \in BOOLEAN, SetProtection(n, t, on)
  PROVE  ProtStep
<1> DEFINE x == <<n, t>>
<1>1. snap' = [snap EXCEPT ![x].prot = on] /\ snap[x] # NoSnap
  BY DEF SetProtection
<1>2. x \in NsPath
  BY PathPair
<1> HIDE DEF x
<1>3. snap \in [NsPath -> SnapRec] /\ snap[x] \in [id : SnapId, fin : BOOLEAN, prot : BOOLEAN]
  BY <1>1, <1>2, SnapTyped DEF NsInd
<1>4. snap'[x] = [snap[x] EXCEPT !.prot = on] /\ \A y \in NsPath \ {x} : snap'[y] = snap[y]
  BY <1>1, <1>2, <1>3
<1>5. snap'[x].id = snap[x].id
  BY <1>3, <1>4
<1> QED
  BY <1>4, <1>5, ProtInPlace

LEMMA StepProtects ==
  ASSUME NsInd, NEW p \in NsTask, NsStep(p)
  PROVE  ProtStep
<1>1. CASE MakeSnapshot(p) \/ FinishBackup(p) \/ AbortBackup(p)
  BY <1>1, BackupProtects
<1>2. ASSUME NEW t \in task[p].left, DestroySnapshot(p, t) \/ DestroyFails(p, t) \/ DeleteNext(p, t) PROVE ProtStep
  BY <1>2, DeleteProtects
<1>3. ASSUME NEW n \in task[p].todo, MoveGroups(p, n) PROVE ProtStep
  BY <1>3, MoveProtects
<1>4. ASSUME NEW n \in task[p].deferred, MoveRetry(p, n) PROVE ProtStep
  BY <1>4, MoveProtects
<1>5. ASSUME NEW n \in task[p].todo, DeleteNamespaceGroups(p, n) \/ RemoveNamespace(p, n) \/ MoveCreate(p, n) PROVE ProtStep
  <2>1. snap' = snap
    BY <1>5 DEF DeleteNamespaceGroups, RemoveNamespace, MoveCreate, nsDisk
  <2> QED
    BY <2>1, ProtSame
<1>6. ASSUME NEW n \in task[p].tried, MoveCleanup(p, n) PROVE ProtStep
  BY <1>6, ProtSame DEF MoveCleanup
<1>7. CASE MakeGroup(p) \/ GroupLockFails(p) \/ LockGroup(p) \/ LockSnapshot(p) \/ BackupRefused(p)
  BY <1>7, ProtSame DEF MakeGroup, GroupLockFails, LockGroup, LockSnapshot, BackupRefused, nsDisk
<1>8. CASE CleanupGroup(p) \/ DeleteGroupDir(p) \/ SetOwner(p)
  BY <1>8, ProtSame DEF CleanupGroup, DeleteGroupDir, SetOwner
<1>9. CASE MoveList(p) \/ MoveReport(p) \/ MoveDone(p) \/ NsFail(p)
  BY <1>9, ProtSame DEF MoveList, MoveReport, MoveDone, NsFail, nsDisk
<1> QED
  BY <1>1, <1>2, <1>3, <1>4, <1>5, <1>6, <1>7, <1>8, <1>9 DEF NsStep

LEMMA StartProtects ==
  ASSUME NEW p \in NsTask, NsStart(p)
  PROVE  ProtStep
<1>1. snap' = snap
  BY DEF NsStart, StartBackup, DeleteSnapshot, PruneGroup, DeleteGroup, DeleteNamespace, StartSetOwner, StartMove, nsDisk
<1> QED
  BY <1>1, ProtSame

(* No call, failure or crash makes a protected snapshot vanish or lose its *)
(* protection when it is moved: update_protection alone takes it away.     *)
THEOREM ProtectedSnapshotsStay == NsSpec => ProtectedKept
<1>1. NsInd /\ [NsNext]_nsVars => [ProtStep]_nsVars
  <2> SUFFICES ASSUME NsInd, NsNext PROVE ProtStep
    OBVIOUS
  <2>1. ASSUME NEW p \in NsTask, NsStart(p) \/ NsStep(p) PROVE ProtStep
    BY <2>1, StartProtects, StepProtects
  <2>2. ASSUME NEW n \in NsUsed, CreateNamespace(n) PROVE ProtStep
    BY <2>2, ProtSame DEF CreateNamespace
  <2>3. ASSUME NEW n \in NsUsed, NEW t \in NsTime, NEW on \in BOOLEAN, SetProtection(n, t, on) PROVE ProtStep
    <3>1. n \in NsSet
      BY NsAssumption
    <3> QED
      BY <2>3, <3>1, SetProtectionProtects
  <2>4. CASE NsCrash
    BY <2>4, ProtSame DEF NsCrash, nsDisk
  <2> QED
    BY <2>1, <2>2, <2>3, <2>4 DEF NsNext
<1>2. NsSpec => [][ProtStep]_nsVars
  BY <1>1, NamespacesInductive, PTL DEF NsSpec
<1> QED
  BY <1>2 DEF ProtectedKept, ProtStep
=============================================================================
