-------------------------- MODULE GroupMoveProofs --------------------------
(***************************************************************************)
(* Proofs about GroupMove, for any number of namespaces, times, snapshots  *)
(* and movers.                                                             *)
(***************************************************************************)
EXTENDS GroupMove, TLAPS

(* Initially everything is of its type. *)
LEMMA InitTypeOK == Init => TypeOK
<1> SUFFICES ASSUME Init PROVE TypeOK
  OBVIOUS
<1> USE NoneAssumption, TimeAssumption, BoundAssumption DEF Init
<1>1. DiskType
  BY DEF DiskType
<1>2. MoveType
  BY DEF MoveType, MoveOK, Move, NoMove
<1>3. GcType
  BY DEF NoGc, Collection, GcType
<1>4. OtherType
  BY DEF OtherType
<1> QED
  BY <1>1, <1>2, <1>3, <1>4 DEF TypeOK

(* The paths of a move are two different ones. *)
LEMMA MovePaths ==
  ASSUME TypeOK, NEW m \in Mover, NEW t \in Time, mv[m].pc # "idle"
  PROVE  /\ mv[m].src \in Ns /\ mv[m].dst \in Ns /\ mv[m].src # mv[m].dst
         /\ OldPath(m, t) \in Path /\ NewPath(m, t) \in Path
         /\ OldPath(m, t) # NewPath(m, t)
  BY DEF TypeOK, MoveType, MoveOK, OldPath, NewPath, Path

(* Replacing the state of one move by a proper one keeps the type. *)
LEMMA MoveUpdate ==
  ASSUME MoveType, NEW m \in Mover, NEW r \in Move, MoveOK(r), mv' = [mv EXCEPT ![m] = r]
  PROVE  MoveType'
  BY DEF MoveType

(* Moves keep the types. *)
LEMMA MoveTypeOK ==
  ASSUME MoveInv, NEW m \in Mover, MoveStep(m)
  PROVE  TypeOK'
<1> USE NoneAssumption, TimeAssumption, BoundAssumption DEF MoveInv, TypeOK, diskVars, ghostVars
<1>1. ASSUME NEW n \in Ns, NEW k \in Ns, LockSource(m, n, k) PROVE TypeOK'
  <2>1. DiskType'
    BY <1>1 DEF LockSource, DiskType
  <2>2. MoveType'
    BY <1>1 DEF LockSource, NoMove, Move, MoveType, MoveOK
  <2>3. GcType'
    BY <1>1 DEF LockSource, GcType
  <2>4. OtherType'
    BY <1>1 DEF LockSource, Op, OtherType
  <2> QED
    BY <2>1, <2>2, <2>3, <2>4
<1>2. CASE LockTarget(m)
  <2>1. DiskType'
    BY <1>2 DEF LockTarget, MoveType, MoveOK, DiskType
  <2>2. MoveType'
    <3> DEFINE T == Times(mv[m].src)
               r == [mv[m] EXCEPT !.pc = "move", !.todo = T]
    <3>1. T \subseteq Time
      BY DEF Times
    <3>2. mv[m] \in Move /\ MoveOK(mv[m]) /\ mv[m].pc = "source"
      BY <1>2 DEF LockTarget, MoveType
    <3>3. mv' = [mv EXCEPT ![m] = r]
      BY <1>2, <3>2 DEF LockTarget, Move, MoveType
    <3> HIDE DEF T
    <3>4. r \in Move /\ MoveOK(r)
      BY <3>1, <3>2 DEF Move, MoveOK
    <3> HIDE DEF r
    <3> QED
      BY <3>3, <3>4, MoveUpdate
  <2>3. GcType'
    BY <1>2 DEF LockTarget, Created, CheckMoveGroup, MoveType, Move, Collection, GcType
  <2>4. OtherType'
    BY <1>2 DEF LockTarget, OtherType
  <2> QED
    BY <2>1, <2>2, <2>3, <2>4
<1>3. ASSUME NEW batch \in SUBSET Time, LockBatch(m, batch) PROVE TypeOK'
  <2>1. DiskType'
    BY <1>3 DEF LockBatch, DiskType
  <2>2. MoveType'
    BY <1>3 DEF LockBatch, Move, MoveType, MoveOK
  <2>3. GcType'
    BY <1>3 DEF LockBatch, GcType
  <2>4. OtherType'
    BY <1>3 DEF LockBatch, OtherType
  <2> QED
    BY <2>1, <2>2, <2>3, <2>4
<1>4. ASSUME NEW t \in Time, LogMove(m, t) PROVE TypeOK'
  <2>1. DiskType'
    BY <1>4 DEF LogMove, DiskType
  <2>2. MoveType'
    BY <1>4 DEF LogMove, Move, MoveType, MoveOK
  <2>3. GcType'
    BY <1>4 DEF LogMove, GcType
  <2>4. OtherType'
    <3>1. NewPath(m, t) \in Path
      BY <1>4, MovePaths DEF LogMove
    <3>2. journal' \in Seq(Path) /\ Len(journal') <= MaxJournal
      BY <1>4, <3>1 DEF LogMove, OtherType
    <3> QED
      BY <1>4, <3>2 DEF LogMove, OtherType
  <2> QED
    BY <2>1, <2>2, <2>3, <2>4
<1>5. ASSUME NEW t \in Time, CopyObjects(m, t) PROVE TypeOK'
  <2>1. DiskType'
    BY <1>5, MovePaths DEF CopyObjects, DiskType
  <2>2. MoveType'
    BY <1>5 DEF CopyObjects, Move, MoveType, MoveOK
  <2>3. GcType'
    BY <1>5 DEF CopyObjects, GcType
  <2>4. OtherType'
    BY <1>5 DEF CopyObjects, OtherType
  <2> QED
    BY <2>1, <2>2, <2>3, <2>4
<1>6. ASSUME NEW t \in Time, Rename(m, t) PROVE TypeOK'
  <2>1. DiskType'
    <3>1. mv[m].pc # "idle"
      BY <1>6 DEF Rename
    <3> QED
      BY <1>6, <3>1, MovePaths DEF Rename, DiskType
  <2>2. MoveType'
    <3> DEFINE r == StepDone(m, t)
    <3>1. mv[m] \in Move /\ MoveOK(mv[m]) /\ mv[m].pc # "idle"
      BY <1>6 DEF Rename, MoveType
    <3>2. r \in Move /\ MoveOK(r)
      BY <3>1 DEF Move, MoveOK, StepDone
    <3>3. CASE S3
      BY <1>6, <3>1, <3>3 DEF Rename, Move, MoveType, MoveOK
    <3>4. CASE ~S3
      <4>1. mv' = [mv EXCEPT ![m] = r]
        BY <1>6, <3>4 DEF Rename
      <4> HIDE DEF r
      <4> QED
        BY <4>1, <3>2, MoveUpdate
    <3> QED
      BY <3>3, <3>4
  <2>3. GcType'
    BY <1>6 DEF Rename, GcType
  <2>4. OtherType'
    <3>1. mv[m].pc # "idle" /\ Pending(m) /\ IsNext(m, t)
      BY <1>6 DEF Rename, Pending
    <3>2. dir[OldPath(m, t)] \in Snap
      BY <3>1, MovePaths DEF MoverOK, DiskType
    <3> QED
      BY <1>6, <3>2 DEF Rename, OtherType
  <2> QED
    BY <2>1, <2>2, <2>3, <2>4
<1>7. ASSUME NEW t \in Time, DeleteObjects(m, t) PROVE TypeOK'
  <2>1. DiskType'
    BY <1>7 DEF DeleteObjects, DiskType
  <2>2. MoveType'
    <3> DEFINE r == StepDone(m, t)
    <3>1. mv[m] \in Move /\ MoveOK(mv[m]) /\ mv[m].pc # "idle"
      BY <1>7 DEF DeleteObjects, MoveType
    <3>2. r \in Move /\ MoveOK(r)
      BY <3>1 DEF Move, MoveOK, StepDone
    <3>3. mv' = [mv EXCEPT ![m] = r]
      BY <1>7 DEF DeleteObjects
    <3> HIDE DEF r
    <3> QED
      BY <3>2, <3>3, MoveUpdate
  <2>3. GcType'
    BY <1>7 DEF DeleteObjects, GcType
  <2>4. OtherType'
    BY <1>7 DEF DeleteObjects, OtherType
  <2> QED
    BY <2>1, <2>2, <2>3, <2>4
<1>8. CASE DestroySource(m)
  <2>1. DiskType'
    BY <1>8 DEF DestroySource, DiskType
  <2>2. MoveType'
    BY <1>8 DEF DestroySource, NoMove, Move, MoveType, MoveOK
  <2>3. GcType'
    BY <1>8 DEF DestroySource, GcType
  <2>4. OtherType'
    BY <1>8 DEF DestroySource, OtherType
  <2> QED
    BY <2>1, <2>2, <2>3, <2>4
<1>9. CASE MoveFails(m)
  <2>1. DiskType'
    BY <1>9 DEF MoveFails, DiskType
  <2>2. MoveType'
    BY <1>9 DEF MoveFails, NoMove, Move, MoveType, MoveOK
  <2>3. GcType'
    BY <1>9 DEF MoveFails, GcType
  <2>4. OtherType'
    BY <1>9 DEF MoveFails, OtherType
  <2> QED
    BY <2>1, <2>2, <2>3, <2>4
<1> QED
  BY <1>1, <1>2, <1>3, <1>4, <1>5, <1>6, <1>7, <1>8, <1>9 DEF MoveStep

(* Backups and prunes keep the types. *)
LEMMA BackupTypeOK == MoveInv /\ BackupStep => TypeOK'
<1> SUFFICES ASSUME MoveInv, BackupStep PROVE TypeOK'
  OBVIOUS
<1> USE NoneAssumption, TimeAssumption, BoundAssumption DEF MoveInv, TypeOK, diskVars, ghostVars
<1>1. ASSUME NEW n \in Ns, NEW t \in Time, NEW s \in Snap, StartBackup(n, t, s) PROVE TypeOK'
  <2>1. DiskType'
    BY <1>1 DEF StartBackup, DiskType
  <2>2. MoveType'
    BY <1>1 DEF StartBackup, MoveType, MoveOK
  <2>3. GcType'
    BY <1>1 DEF StartBackup, Created, Collection, GcType
  <2>4. OtherType'
    BY <1>1 DEF StartBackup, Op, OtherType
  <2> QED
    BY <2>1, <2>2, <2>3, <2>4
<1>2. ASSUME NEW n \in Ns, FinishBackup(n) PROVE TypeOK'
  <2>1. DiskType'
    BY <1>2 DEF FinishBackup, DiskType
  <2>2. MoveType'
    BY <1>2 DEF FinishBackup, MoveType, MoveOK
  <2>3. GcType'
    BY <1>2 DEF FinishBackup, GcType
  <2>4. OtherType'
    <3>1. dir[<<n, backup[n]>>] \in Snap
      BY <1>2 DEF FinishBackup, ContentInv, DiskType, Path, OtherType
    <3> QED
      BY <1>2, <3>1 DEF FinishBackup, OtherType
  <2> QED
    BY <2>1, <2>2, <2>3, <2>4
<1>3. ASSUME NEW n \in Ns, AbortBackup(n) PROVE TypeOK'
  <2>1. DiskType'
    BY <1>3 DEF AbortBackup, DiskType
  <2>2. MoveType'
    BY <1>3 DEF AbortBackup, MoveType, MoveOK
  <2>3. GcType'
    BY <1>3 DEF AbortBackup, GcType
  <2>4. OtherType'
    BY <1>3 DEF AbortBackup, OtherType
  <2> QED
    BY <2>1, <2>2, <2>3, <2>4
<1>4. ASSUME NEW n \in Ns, CrashBackup(n) PROVE TypeOK'
  <2>1. DiskType'
    BY <1>4 DEF CrashBackup, DiskType
  <2>2. MoveType'
    BY <1>4 DEF CrashBackup, MoveType, MoveOK
  <2>3. GcType'
    BY <1>4 DEF CrashBackup, GcType
  <2>4. OtherType'
    BY <1>4 DEF CrashBackup, OtherType
  <2> QED
    BY <2>1, <2>2, <2>3, <2>4
<1>5. ASSUME NEW n \in Ns, PruneGroup(n) PROVE TypeOK'
  <2>1. DiskType'
    BY <1>5 DEF PruneGroup, DiskType
  <2>2. MoveType'
    BY <1>5 DEF PruneGroup, MoveType, MoveOK
  <2>3. GcType'
    BY <1>5 DEF PruneGroup, GcType
  <2>4. OtherType'
    BY <1>5 DEF PruneGroup, OtherType
  <2> QED
    BY <2>1, <2>2, <2>3, <2>4
<1>6. ASSUME NEW p \in Path, Prune(p) PROVE TypeOK'
  <2>1. DiskType'
    BY <1>6 DEF Prune, DiskType
  <2>2. MoveType'
    BY <1>6 DEF Prune, MoveType, MoveOK
  <2>3. GcType'
    BY <1>6 DEF Prune, Forget, Collection, GcType
  <2>4. OtherType'
    BY <1>6 DEF Prune, Forget, Op, Path, OtherType
  <2> QED
    BY <2>1, <2>2, <2>3, <2>4
<1>7. ASSUME NEW p \in Path, PruneFails(p) PROVE TypeOK'
  <2>1. DiskType'
    BY <1>7 DEF PruneFails, DiskType
  <2>2. MoveType'
    BY <1>7 DEF PruneFails, MoveType, MoveOK
  <2>3. GcType'
    BY <1>7 DEF PruneFails, Forget, Collection, GcType
  <2>4. OtherType'
    BY <1>7 DEF PruneFails, Forget, Op, OtherType
  <2> QED
    BY <2>1, <2>2, <2>3, <2>4
<1> QED
  BY <1>1, <1>2, <1>3, <1>4, <1>5, <1>6, <1>7 DEF BackupStep

(* Going on with the iteration keeps the type. *)
LEMMA GcIterateType ==
  ASSUME GcType, gc' = GcIterate
  PROVE  GcType'
<1>1. 0 \in 0 .. MaxRetries
  BY BoundAssumption
<1> QED
  BY <1>1 DEF GcType, GcIterate, Collection

(* The collection keeps the types. *)
LEMMA GcTypeOK == MoveInv /\ GcStep => TypeOK'
<1> SUFFICES ASSUME MoveInv, GcStep PROVE TypeOK'
  OBVIOUS
<1> USE NoneAssumption, TimeAssumption, BoundAssumption DEF MoveInv, TypeOK, diskVars, ghostVars
<1>1. CASE GcStart
  <2>1. DiskType'
    BY <1>1 DEF GcStart, GcOnly, DiskType
  <2>2. MoveType'
    BY <1>1 DEF GcStart, GcOnly, MoveType, MoveOK
  <2>3. GcType'
    <3> DEFINE I == {p \in Path : Indexed(p)}
               O == {dir[p] : p \in I}
    <3>1. I \subseteq Path /\ O \subseteq Snap
      BY DEF Indexed, DiskType
    <3>2. gc' = [NoGc EXCEPT !.pc = "iterate", !.todo = Ns, !.left = I, !.old = O]
      BY <1>1 DEF GcStart
    <3>3. 0 \in 0 .. MaxRetries
      OBVIOUS
    <3> HIDE DEF I, O
    <3>4. gc' = [pc |-> "iterate", todo |-> Ns, fresh |-> {}, cur |-> None, list |-> {},
                 newest |-> {}, retries |-> 0, left |-> I, pos |-> 0, old |-> O, marked |-> {}]
      BY <3>2 DEF NoGc
    <3>5. gc' \in Collection
      BY <3>1, <3>3, <3>4 DEF Collection
    <3> QED
      BY <3>4, <3>5 DEF GcType
  <2>4. OtherType'
    BY <1>1 DEF GcStart, GcOnly, OtherType
  <2> QED
    BY <2>1, <2>2, <2>3, <2>4
<1>2. ASSUME NEW n \in Ns, GcNextGroup(n) PROVE TypeOK'
  <2>1. DiskType'
    BY <1>2 DEF GcNextGroup, GcOnly, DiskType
  <2>2. MoveType'
    BY <1>2 DEF GcNextGroup, GcOnly, MoveType, MoveOK
  <2>3. GcType'
    <3>1. CASE gc' = [gc EXCEPT !.pc = "list", !.cur = n, !.todo = @ \ {n}]
      BY <3>1 DEF Collection, GcType
    <3>2. CASE gc' = [gc EXCEPT !.todo = @ \ {n}]
      BY <1>2, <3>2 DEF GcNextGroup, Collection, GcType
    <3> QED
      BY <1>2, <3>1, <3>2 DEF GcNextGroup
  <2>4. OtherType'
    BY <1>2 DEF GcNextGroup, GcOnly, OtherType
  <2> QED
    BY <2>1, <2>2, <2>3, <2>4
<1>3. CASE GcListGroup
  <2>1. DiskType'
    BY <1>3 DEF GcListGroup, GcOnly, DiskType
  <2>2. MoveType'
    BY <1>3 DEF GcListGroup, GcOnly, MoveType, MoveOK
  <2>3. GcType'
    <3> DEFINE L == {t \in Time : Indexed(<<gc.cur, t>>)}
               N == {t \in Times(gc.cur) : \A u \in Times(gc.cur) : u <= t}
    <3>1. L \subseteq Time /\ N \subseteq Time
      BY SMTT(40) DEF Times
    <3>2. CASE gc' = [gc EXCEPT !.pc = "group", !.list = L, !.newest = N]
      <4> HIDE DEF L, N
      <4> QED
        BY ZenonT(60), <1>3, <3>1, <3>2 DEF GcListGroup, Collection, GcType
    <3>3. CASE gc' = GcIterate
      BY <3>3, GcIterateType
    <3> QED
      BY <1>3, <3>2, <3>3 DEF GcListGroup
  <2>4. OtherType'
    BY <1>3 DEF GcListGroup, GcOnly, OtherType
  <2> QED
    BY <2>1, <2>2, <2>3, <2>4
<1>4. ASSUME NEW t \in Time, GcMark(t) PROVE TypeOK'
  <2>1. DiskType'
    BY <1>4 DEF GcMark, GcOnly, DiskType
  <2>2. MoveType'
    BY <1>4 DEF GcMark, GcOnly, MoveType, MoveOK
  <2>3. GcType'
    <3> DEFINE p == <<gc.cur, t>>
    <3>1. gc.pc = "group" /\ dir[p] \in Snap
      BY <1>4 DEF GcMark, Indexed, DiskType, Path, GcType
    <3>2. gc' = [gc EXCEPT !.marked = @ \cup {dir[p]}, !.left = @ \ {p}, !.list = @ \ {t}]
      BY <1>4 DEF GcMark
    <3> HIDE DEF p
    <3> QED
      BY <3>1, <3>2 DEF Collection, GcType
  <2>4. OtherType'
    BY <1>4 DEF GcMark, GcOnly, OtherType
  <2> QED
    BY <2>1, <2>2, <2>3, <2>4
<1>5. ASSUME NEW t \in Time, GcVanished(t) PROVE TypeOK'
  <2>1. DiskType'
    BY <1>5 DEF GcVanished, GcOnly, DiskType
  <2>2. MoveType'
    BY <1>5 DEF GcVanished, GcOnly, MoveType, MoveOK
  <2>3. GcType'
    <3> DEFINE p == <<gc.cur, t>>
    <3>1. gc.pc = "group" /\ (t \in gc.newest => gc.retries < MaxRetries)
      BY <1>5 DEF GcVanished
    <3>2. CASE t \in gc.newest
      <4>1. gc' = [gc EXCEPT !.pc = "list", !.left = @ \ {p}, !.list = {}, !.newest = {},
                             !.retries = @ + 1]
        BY <1>5, <3>2 DEF GcVanished
      <4> HIDE DEF p
      <4>2. gc.retries + 1 \in 0 .. MaxRetries
        BY <3>1, <3>2 DEF Collection, GcType
      <4> QED
        BY <3>1, <4>1, <4>2 DEF Collection, GcType
    <3>3. CASE t \notin gc.newest
      <4>1. gc' = [gc EXCEPT !.left = @ \ {p}, !.list = @ \ {t}]
        BY <1>5, <3>3 DEF GcVanished
      <4> HIDE DEF p
      <4> QED
        BY <3>1, <4>1 DEF Collection, GcType
    <3> QED
      BY <3>2, <3>3
  <2>4. OtherType'
    BY <1>5 DEF GcVanished, GcOnly, OtherType
  <2> QED
    BY <2>1, <2>2, <2>3, <2>4
<1>6. CASE GcGroupDone
  <2>1. DiskType'
    BY <1>6 DEF GcGroupDone, GcOnly, DiskType
  <2>2. MoveType'
    BY <1>6 DEF GcGroupDone, GcOnly, MoveType, MoveOK
  <2>3. GcType'
    BY <1>6, GcIterateType DEF GcGroupDone
  <2>4. OtherType'
    BY <1>6 DEF GcGroupDone, GcOnly, OtherType
  <2> QED
    BY <2>1, <2>2, <2>3, <2>4
<1>7. CASE GcIterated
  <2>1. DiskType'
    BY <1>7 DEF GcIterated, GcOnly, DiskType
  <2>2. MoveType'
    BY <1>7 DEF GcIterated, GcOnly, MoveType, MoveOK
  <2>3. GcType'
    BY <1>7 DEF GcIterated, GcOnly, Collection, GcType
  <2>4. OtherType'
    BY <1>7 DEF GcIterated, GcOnly, OtherType
  <2> QED
    BY <2>1, <2>2, <2>3, <2>4
<1>8. ASSUME NEW p \in Path, GcMarkStrange(p) PROVE TypeOK'
  <2>1. DiskType'
    BY <1>8 DEF GcMarkStrange, GcOnly, DiskType
  <2>2. MoveType'
    BY <1>8 DEF GcMarkStrange, GcOnly, MoveType, MoveOK
  <2>3. GcType'
    BY ZenonT(60), <1>8 DEF GcMarkStrange, GcOnly, Indexed, DiskType, Collection, GcType
  <2>4. OtherType'
    BY <1>8 DEF GcMarkStrange, GcOnly, OtherType
  <2> QED
    BY <2>1, <2>2, <2>3, <2>4
<1>9. CASE GcLockJournal
  <2>1. DiskType'
    BY <1>9 DEF GcLockJournal, GcOnly, DiskType
  <2>2. MoveType'
    BY <1>9 DEF GcLockJournal, GcOnly, MoveType, MoveOK
  <2>3. GcType'
    BY <1>9 DEF GcLockJournal, GcOnly, Collection, GcType
  <2>4. OtherType'
    BY <1>9 DEF GcLockJournal, GcOnly, OtherType
  <2> QED
    BY <2>1, <2>2, <2>3, <2>4
<1>10. CASE GcDrain
  <2>1. DiskType'
    BY <1>10 DEF GcDrain, GcOnly, DiskType
  <2>2. MoveType'
    BY <1>10 DEF GcDrain, GcOnly, MoveType, MoveOK
  <2>3. GcType'
    <3> DEFINE p == journal[gc.pos + 1]
               M == IF Indexed(p) THEN gc.marked \cup {dir[p]} ELSE gc.marked
    <3>1. gc.pc = "drain" /\ gc.pos \in Nat /\ gc.pos < Len(journal)
      BY <1>10 DEF GcDrain, Collection, GcType
    <3>2. p \in Path
      BY <3>1 DEF OtherType
    <3> HIDE DEF p
    <3>3. M \subseteq Snap
      BY <3>2 DEF Indexed, DiskType, Collection, GcType
    <3> DEFINE K == gc.pos + 1
    <3>4. K \in Nat
      BY <3>1
    <3>5. gc' = [gc EXCEPT !.pos = K, !.marked = M]
      BY <1>10 DEF GcDrain, p
    <3> HIDE DEF M, K
    <3> QED
      BY <3>1, <3>3, <3>4, <3>5 DEF Collection, GcType
  <2>4. OtherType'
    BY <1>10 DEF GcDrain, GcOnly, OtherType
  <2> QED
    BY <2>1, <2>2, <2>3, <2>4
<1>11. CASE GcTruncate
  <2>1. DiskType'
    BY <1>11 DEF GcTruncate, DiskType
  <2>2. MoveType'
    BY <1>11 DEF GcTruncate, MoveType, MoveOK
  <2>3. GcType'
    BY <1>11 DEF GcTruncate, Collection, GcType
  <2>4. OtherType'
    BY <1>11 DEF GcTruncate, OtherType
  <2> QED
    BY <2>1, <2>2, <2>3, <2>4
<1>12. CASE GcEnd
  <2>1. DiskType'
    BY <1>12 DEF GcEnd, GcOnly, DiskType
  <2>2. MoveType'
    BY <1>12 DEF GcEnd, GcOnly, MoveType, MoveOK
  <2>3. GcType'
    BY <1>12 DEF GcEnd, GcOnly, NoGc, Collection, GcType
  <2>4. OtherType'
    BY <1>12 DEF GcEnd, GcOnly, OtherType
  <2> QED
    BY <2>1, <2>2, <2>3, <2>4
<1> QED
  BY <1>1, <1>2, <1>3, <1>4, <1>5, <1>6, <1>7, <1>8, <1>9, <1>10, <1>11, <1>12 DEF GcStep

(* Every step keeps the types. *)
LEMMA NextTypeOK == MoveInv /\ [Next]_vars => TypeOK'
<1> SUFFICES ASSUME MoveInv, [Next]_vars PROVE TypeOK'
  OBVIOUS
<1>1. CASE Next
  BY <1>1, MoveTypeOK, BackupTypeOK, GcTypeOK DEF Next
<1>2. CASE UNCHANGED vars
  BY <1>2 DEF MoveInv, TypeOK, DiskType, MoveType, GcType, OtherType, vars, diskVars, ghostVars
<1> QED
  BY <1>1, <1>2

-----------------------------------------------------------------------------
(* What a step leaves as it is *)

(* The moves that are about to rename were so before. *)
SamePending ==
    \A k \in Mover \ truncated', t \in Time : AtRename(k, t)' =>
        /\ k \notin truncated /\ AtRename(k, t)
        /\ mv'[k].src = mv[k].src /\ mv'[k].dst = mv[k].dst

(* The collection keeps what its invariant is about. *)
SameMarks ==
    /\ gc'.pc = gc.pc /\ gc'.left = gc.left /\ gc'.pos = gc.pos
    /\ gc'.old = gc.old /\ gc'.marked = gc.marked
    /\ exposed' = exposed

(* A step after which no group is held that was not held before. *)
LEMMA LocksKept ==
  ASSUME LockInv, UNCHANGED backup,
         \A k \in Mover, n \in Ns : Holds(k, n)' => Holds(k, n)
  PROVE  LockInv'
  BY DEF LockInv

(* Two moves have nothing to do with each other's paths. *)
LEMMA MovesDisjoint ==
  ASSUME MoveInv, NEW m \in Mover, NEW k \in Mover, m # k, Moving(m), Moving(k),
         NEW t \in Time, NEW u \in Time
  PROVE  /\ OldPath(m, t) # OldPath(k, u) /\ OldPath(m, t) # NewPath(k, u)
         /\ NewPath(m, t) # OldPath(k, u) /\ NewPath(m, t) # NewPath(k, u)
<1>1. /\ mv[m].src \in Ns /\ Holds(m, mv[m].src) /\ mv[m].dst \in Ns /\ Holds(m, mv[m].dst)
      /\ mv[k].src \in Ns /\ Holds(k, mv[k].src) /\ mv[k].dst \in Ns /\ Holds(k, mv[k].dst)
  BY DEF MoveInv, TypeOK, MoveType, MoveOK, Moving, Holds, HoldsSource, HoldsTarget
<1>2. /\ mv[m].src # mv[k].src /\ mv[m].src # mv[k].dst
      /\ mv[m].dst # mv[k].src /\ mv[m].dst # mv[k].dst
  BY <1>1 DEF MoveInv, LockInv
<1> QED
  BY <1>2 DEF OldPath, NewPath

(* No backup runs in a group that is being moved. *)
LEMMA MoveNoBackup ==
  ASSUME MoveInv, NEW m \in Mover, Moving(m)
  PROVE  backup[mv[m].src] = None /\ backup[mv[m].dst] = None
<1>1. /\ mv[m].src \in Ns /\ Holds(m, mv[m].src) /\ mv[m].dst \in Ns /\ Holds(m, mv[m].dst)
  BY DEF MoveInv, TypeOK, MoveType, MoveOK, Moving, Holds, HoldsSource, HoldsTarget
<1> QED
  BY <1>1 DEF MoveInv, LockInv

(* A move whose two groups no step has touched. *)
LEMMA Undisturbed ==
  ASSUME MoveInv, NEW k \in Mover, mv'[k] = mv[k],
         Moving(k) => \A t \in Time :
            /\ dir'[OldPath(k, t)] = dir[OldPath(k, t)]
            /\ dir'[NewPath(k, t)] = dir[NewPath(k, t)]
            /\ object'[OldPath(k, t)] = object[OldPath(k, t)]
            /\ object'[NewPath(k, t)] = object[NewPath(k, t)]
  PROVE  MoverOK(k)' /\ (Moving(k) => MergeInvariants(mv[k].src, mv[k].dst))'
<1> USE DEF OldPath, NewPath
<1>1. Moving(k)' = Moving(k) /\ Pending(k)' = Pending(k)
  BY DEF Moving, Pending
<1>2. \A t \in Time : IsNext(k, t)' = IsNext(k, t)
  BY DEF IsNext
<1>3. ASSUME Moving(k)
      PROVE Times(mv[k].src)' = Times(mv[k].src) /\ Times(mv[k].dst)' = Times(mv[k].dst)
  BY <1>3 DEF Times
<1>4. MoverOK(k) /\ (Moving(k) => MergeInvariants(mv[k].src, mv[k].dst))
  BY DEF MoveInv, MovedOlder
<1>5. MoverOK(k)'
  <2>1. Moving(k)' => Times(mv[k].src)' \subseteq mv'[k].todo
    BY <1>1, <1>3, <1>4 DEF MoverOK
  <2>2. \A t \in mv'[k].batch, u \in mv'[k].todo \ mv'[k].batch : t < u
    BY <1>4 DEF MoverOK
  <2>3. ASSUME NEW t \in Time, IsNext(k, t)'
        PROVE  /\ Pending(k)' => dir'[<<mv'[k].src, t>>] # None
               /\ mv'[k].pc = "copied" =>
                     object'[<<mv'[k].dst, t>>] = object'[<<mv'[k].src, t>>]
               /\ mv'[k].pc = "renamed" => dir'[<<mv'[k].src, t>>] = None
    BY <1>1, <1>2, <1>4, <2>3 DEF MoverOK, Moving, Pending
  <2> QED
    BY <2>1, <2>2, <2>3 DEF MoverOK
<1>6. (Moving(k) => MergeInvariants(mv[k].src, mv[k].dst))'
  BY <1>1, <1>3, <1>4 DEF MergeInvariants
<1> QED
  BY <1>5, <1>6

(* What is in the journal stays there when more is appended. *)
LEMMA AheadKept ==
  ASSUME journal \in Seq(Path), NEW p, NEW k \in Nat, Ahead(p, k),
         journal' = journal \/ \E q \in Path : journal' = Append(journal, q)
  PROVE  Ahead(p, k)'
  BY DEF Ahead

(* No move has come to its rename, and the journal is the same. *)
LEMMA EntriesKept ==
  ASSUME EntryInv, SamePending, UNCHANGED journal
  PROVE  EntryInv'
  BY ZenonT(60) DEF EntryInv, SamePending, Ahead, NewPath

(* An entry that is not drained yet still leads to its snapshot. *)
LEMMA EntryKept ==
  ASSUME SamePending, UNCHANGED journal, NEW p \in Path,
         NEW k \in 1 .. Len(journal), k > gc'.pos, journal[k] = p,
         \A m \in Mover \ truncated, t \in Time :
            AtRename(m, t) /\ OldPath(m, t) = p => Ahead(NewPath(m, t), k)
  PROVE  WillBeMarked(p)'
<1>1. ASSUME NEW m \in Mover \ truncated', NEW t \in Time, AtRename(m, t)', OldPath(m, t)' = p
      PROVE  Ahead(NewPath(m, t), k)'
  <2>1. /\ m \notin truncated /\ AtRename(m, t)
        /\ mv'[m].src = mv[m].src /\ mv'[m].dst = mv[m].dst
    BY <1>1 DEF SamePending
  <2>2. Ahead(NewPath(m, t), k)
    BY <1>1, <2>1 DEF OldPath
  <2> QED
    BY <2>1, <2>2 DEF Ahead, NewPath
<1> QED
  BY <1>1 DEF WillBeMarked

(* The collection comes to the same snapshots. *)
LEMMA WillKept ==
  ASSUME SamePending, UNCHANGED journal, gc'.pos = gc.pos,
         NEW p \in Path, p \in gc.left => p \in gc'.left, WillBeMarked(p)
  PROVE  WillBeMarked(p)'
<1>1. CASE p \in gc.left
  BY <1>1 DEF WillBeMarked
<1>2. CASE p \notin gc.left
  <2>1. PICK k \in 1 .. Len(journal) :
           /\ k > gc.pos /\ journal[k] = p
           /\ \A m \in Mover \ truncated, t \in Time :
                 AtRename(m, t) /\ OldPath(m, t) = p => Ahead(NewPath(m, t), k)
    BY <1>2 DEF WillBeMarked
  <2> QED
    BY <2>1, EntryKept
<1> QED
  BY <1>1, <1>2

(* Neither the snapshots nor the marks nor the journal have changed. *)
LEMMA MarksKept ==
  ASSUME MoveInv, SamePending, SameMarks, UNCHANGED <<dir, backup, journal>>
  PROVE  MarkInv' /\ OldMarked'
<1>1. ASSUME NEW p \in Path, WillBeMarked(p) PROVE WillBeMarked(p)'
  BY <1>1, WillKept DEF SameMarks
<1>2. MarkInv /\ OldMarked
  BY DEF MoveInv
<1>3. OldMarked'
  BY <1>2 DEF OldMarked, SameMarks
<1>4. (\A s \in gc.old : \E p \in Path : dir[p] = s /\ Indexed(p))'
  BY <1>2 DEF MarkInv, SameMarks, Indexed
<1>5. Iterating' = Iterating
  BY DEF Iterating, SameMarks
<1> QED
  BY <1>1, <1>2, <1>3, <1>4, <1>5 DEF MarkInv, SameMarks

-----------------------------------------------------------------------------
(* The steps of a move *)

(* A move that has not started to move snapshots has nothing to keep. *)
LEMMA NothingMoving ==
  ASSUME NEW m \in Mover, mv'[m].pc \in {"idle", "source"}, mv'[m].batch = {}
  PROVE  /\ MoverOK(m)' /\ (Moving(m) => MergeInvariants(mv[m].src, mv[m].dst))'
         /\ \A t \in Time : ~AtRename(m, t)'
  BY DEF MoverOK, Moving, Pending, IsNext, AtRename

(* A step by which only the state of the move changes. *)
LEMMA MoverOnly ==
  ASSUME MoveInv, NEW m \in Mover, MoveStep(m),
         UNCHANGED <<dir, object, backup, journal, alive>>,
         \A k \in Mover \ {m} : mv'[k] = mv[k],
         LockInv', SamePending, SameMarks,
         MoverOK(m)', (Moving(m) => MergeInvariants(mv[m].src, mv[m].dst))'
  PROVE  MoveInv'
<1>1. TypeOK'
  BY MoveTypeOK
<1>2. ContentInv'
  BY DEF MoveInv, ContentInv
<1>3. ASSUME NEW k \in Mover, k # m
      PROVE MoverOK(k)' /\ (Moving(k) => MergeInvariants(mv[k].src, mv[k].dst))'
  <2>1. mv'[k] = mv[k]
    BY <1>3
  <2> QED
    BY <2>1, Undisturbed
<1>4. \A k \in Mover : MoverOK(k)'
  BY <1>3
<1>5. MovedOlder'
  BY <1>3 DEF MovedOlder
<1>6. Backed'
  BY DEF MoveInv, Backed
<1>7. EntryInv'
  BY EntriesKept DEF MoveInv
<1>8. MarkInv' /\ OldMarked'
  BY MarksKept
<1> QED
  BY <1>1, <1>2, <1>4, <1>5, <1>6, <1>7, <1>8 DEF MoveInv

(* Locking the source: nobody else uses the group. *)
LEMMA LockSourceKeeps ==
  ASSUME MoveInv, NEW m \in Mover, NEW n \in Ns, NEW k \in Ns, LockSource(m, n, k)
  PROVE  MoveInv'
<1> USE DEF diskVars
<1>1. MoveStep(m)
  BY DEF MoveStep
<1>2. /\ mv'[m].pc = "source" /\ mv'[m].src = n /\ mv'[m].dst = k /\ mv'[m].batch = {}
      /\ \A j \in Mover \ {m} : mv'[j] = mv[j]
  BY DEF LockSource, NoMove, MoveInv, TypeOK, MoveType
<1>3. LockInv'
  <2>1. backup[n] = None /\ \A j \in Mover : ~Holds(j, n)
    BY DEF LockSource, GroupLocked, Holds
  <2>2. \A j \in Mover \ {m}, x \in Ns : Holds(j, x)' = Holds(j, x)
    BY <1>2 DEF Holds, HoldsSource, HoldsTarget
  <2>3. \A x \in Ns : Holds(m, x)' => x = n
    BY <1>2 DEF Holds, HoldsSource, HoldsTarget
  <2>4. backup' = backup
    BY DEF LockSource
  <2> QED
    BY <2>1, <2>2, <2>3, <2>4 DEF MoveInv, LockInv
<1>4. SamePending
  BY <1>2, NothingMoving DEF SamePending, AtRename, Pending, IsNext, LockSource
<1>5. SameMarks
  BY DEF LockSource, SameMarks
<1>6. UNCHANGED <<dir, object, backup, journal, alive>>
  BY DEF LockSource
<1> QED
  BY <1>1, <1>2, <1>3, <1>4, <1>5, <1>6, NothingMoving, MoverOnly

(* Locking the target: nobody else uses the group, and all of it is older. *)
LEMMA LockTargetKeeps ==
  ASSUME MoveInv, NEW m \in Mover, LockTarget(m)
  PROVE  MoveInv'
<1> USE DEF ghostVars
<1> DEFINE n == mv[m].src
           k == mv[m].dst
<1>1. MoveStep(m)
  BY DEF MoveStep
<1>2. UNCHANGED <<dir, object, backup, journal, alive, truncated, exposed>>
  BY DEF LockTarget
<1>3. /\ mv[m].pc = "source" /\ mv[m].batch = {} /\ n \in Ns /\ k \in Ns
  BY DEF LockTarget, MoveInv, TypeOK, MoveType, MoveOK
<1>4. /\ mv'[m].pc = "move" /\ mv'[m].src = n /\ mv'[m].dst = k
      /\ mv'[m].todo = Times(n) /\ mv'[m].batch = {}
      /\ \A j \in Mover \ {m} : mv'[j] = mv[j]
  BY <1>3 DEF LockTarget, MoveInv, TypeOK, MoveType, Move
<1>5. LockInv'
  <2>1. backup[k] = None /\ \A j \in Mover : ~Holds(j, k)
    BY DEF LockTarget, GroupLocked, Holds
  <2>2. \A j \in Mover \ {m}, x \in Ns : Holds(j, x)' = Holds(j, x)
    BY <1>4 DEF Holds, HoldsSource, HoldsTarget
  <2>3. \A x \in Ns : Holds(m, x)' => x = k \/ Holds(m, x)
    BY <1>3, <1>4 DEF Holds, HoldsSource, HoldsTarget
  <2> HIDE DEF k
  <2> QED
    BY <1>2, <1>3, <2>1, <2>2, <2>3 DEF MoveInv, LockInv
<1>6. SamePending
  BY <1>2, <1>4 DEF SamePending, AtRename, Pending, IsNext
<1>7. SameMarks
  <2>1. gc' = gc \/ \E x \in Ns : gc' = [gc EXCEPT !.fresh = @ \cup {x}]
    BY <1>3 DEF LockTarget, Created
  <2> QED
    BY <1>2, <2>1 DEF SameMarks, MoveInv, TypeOK, GcType, Collection
<1>8. Times(n)' = Times(n) /\ Times(k)' = Times(k)
  BY <1>2, <1>4 DEF Times
<1>9. MoverOK(m)'
  BY <1>4, <1>8 DEF MoverOK, Pending, IsNext
<1>10. (Moving(m) => MergeInvariants(mv[m].src, mv[m].dst))'
  BY <1>4, <1>8 DEF LockTarget, MergeInvariants
<1> QED
  BY <1>1, <1>2, <1>4, <1>5, <1>6, <1>7, <1>9, <1>10, MoverOnly

(* Locking a batch: it is the oldest part of what is left. *)
LEMMA LockBatchKeeps ==
  ASSUME MoveInv, NEW m \in Mover, NEW batch \in SUBSET Time, LockBatch(m, batch)
  PROVE  MoveInv'
<1> USE DEF diskVars, ghostVars
<1>1. MoveStep(m)
  BY DEF MoveStep
<1>2. UNCHANGED <<dir, object, backup, journal, alive, truncated, exposed, gc>>
  BY DEF LockBatch
<1>3. /\ mv[m].pc = "move"
      /\ mv'[m].pc = "move" /\ mv'[m].src = mv[m].src /\ mv'[m].dst = mv[m].dst
      /\ mv'[m].todo = mv[m].todo /\ mv'[m].batch = batch
      /\ \A j \in Mover \ {m} : mv'[j] = mv[j]
  BY DEF LockBatch, MoveInv, TypeOK, MoveType, Move
<1>4. LockInv'
  <2>1. \A j \in Mover, x \in Ns : Holds(j, x)' => Holds(j, x)
    BY <1>3 DEF Holds, HoldsSource, HoldsTarget
  <2> QED
    BY <1>2, <2>1, LocksKept DEF MoveInv
<1>5. SamePending
  BY <1>2, <1>3 DEF SamePending, AtRename, Pending, IsNext
<1>6. SameMarks
  BY <1>2 DEF SameMarks
<1>7. Times(mv[m].src)' = Times(mv[m].src) /\ Times(mv[m].dst)' = Times(mv[m].dst)
  BY <1>2, <1>3 DEF Times
<1>8. MoverOK(m)'
  BY <1>3, <1>7 DEF LockBatch, MoverOK, Moving, Pending, MoveInv
<1>9. (Moving(m) => MergeInvariants(mv[m].src, mv[m].dst))'
  BY <1>3, <1>7 DEF MoveInv, MovedOlder, Moving, MergeInvariants
<1> QED
  BY <1>1, <1>2, <1>3, <1>4, <1>5, <1>6, <1>8, <1>9, MoverOnly

(* A move that fails leaves everything as it is. *)
LEMMA MoveFailsKeeps ==
  ASSUME MoveInv, NEW m \in Mover, MoveFails(m)
  PROVE  MoveInv'
<1> USE DEF diskVars
<1>1. MoveStep(m)
  BY DEF MoveStep
<1>2. UNCHANGED <<dir, object, backup, journal, alive, exposed, gc>>
  BY DEF MoveFails
<1>3. /\ mv'[m].pc = "idle" /\ mv'[m].batch = {}
      /\ \A j \in Mover \ {m} : mv'[j] = mv[j]
  BY DEF MoveFails, NoMove, MoveInv, TypeOK, MoveType
<1>4. LockInv'
  <2>1. \A j \in Mover, x \in Ns : Holds(j, x)' => Holds(j, x)
    BY <1>3 DEF Holds, HoldsSource, HoldsTarget
  <2> QED
    BY <1>2, <2>1, LocksKept DEF MoveInv
<1>5. SamePending
  BY <1>3, NothingMoving DEF SamePending, AtRename, Pending, IsNext, MoveFails
<1>6. SameMarks
  BY <1>2 DEF SameMarks
<1> QED
  BY <1>1, <1>2, <1>3, <1>4, <1>5, <1>6, NothingMoving, MoverOnly

(* There is one next snapshot. *)
LEMMA OneNext ==
  ASSUME NEW m \in Mover, NEW t \in Time, NEW u \in Time, IsNext(m, t), IsNext(m, u)
  PROVE  t = u
<1>1. t \in Nat /\ u \in Nat /\ t <= u /\ u <= t
  BY TimeAssumption DEF IsNext
<1> QED
  BY <1>1

(* The target has no snapshot of a time that the source has. *)
LEMMA TargetFree ==
  ASSUME MoveInv, NEW m \in Mover, NEW t \in Time, Moving(m), dir[OldPath(m, t)] # None
  PROVE  dir[NewPath(m, t)] = None
<1>1. SUFFICES ASSUME dir[NewPath(m, t)] # None PROVE FALSE
  OBVIOUS
<1>2. t \in Times(mv[m].src) /\ t \in Times(mv[m].dst)
  BY <1>1 DEF Times, OldPath, NewPath
<1>3. t < t
  BY <1>2 DEF MoveInv, MovedOlder, MergeInvariants
<1> QED
  BY <1>3, TimeAssumption

(* Recording a move: the journal has the new path after all other entries. *)
LEMMA LogMoveKeeps ==
  ASSUME MoveInv, NEW m \in Mover, NEW t \in Time, LogMove(m, t)
  PROVE  MoveInv'
<1> USE DEF diskVars, ghostVars
<1> DEFINE p == NewPath(m, t)
<1>1. TypeOK'
  BY MoveTypeOK DEF MoveStep
<1>2. UNCHANGED <<dir, object, backup, alive, truncated, exposed, gc>>
  BY DEF LogMove
<1>3. /\ mv[m].pc = "move" /\ IsNext(m, t) /\ dir[OldPath(m, t)] # None
      /\ mv'[m].pc = "logged" /\ mv'[m].src = mv[m].src /\ mv'[m].dst = mv[m].dst
      /\ mv'[m].todo = mv[m].todo /\ mv'[m].batch = mv[m].batch
      /\ \A j \in Mover \ {m} : mv'[j] = mv[j]
  BY DEF LogMove, MoveInv, TypeOK, MoveType, Move
<1>4. /\ journal \in Seq(Path) /\ p \in Path /\ journal' = Append(journal, p)
  BY <1>3, MovePaths DEF LogMove, MoveInv, TypeOK, OtherType
<1>5. LockInv'
  <2>1. \A j \in Mover, x \in Ns : Holds(j, x)' => Holds(j, x)
    BY <1>3 DEF Holds, HoldsSource, HoldsTarget
  <2> QED
    BY <1>2, <2>1, LocksKept DEF MoveInv
<1>6. ContentInv'
  BY <1>2 DEF MoveInv, ContentInv
<1>7. ASSUME NEW k \in Mover
      PROVE MoverOK(k)' /\ (Moving(k) => MergeInvariants(mv[k].src, mv[k].dst))'
  <2>1. CASE k # m
    <3>1. mv'[k] = mv[k]
      BY <1>3, <2>1
    <3> QED
      BY <1>2, <3>1, Undisturbed
  <2>2. CASE k = m
    <3>1. Times(mv[m].src)' = Times(mv[m].src) /\ Times(mv[m].dst)' = Times(mv[m].dst)
      BY <1>2, <1>3 DEF Times
    <3>2. MoverOK(m) /\ MergeInvariants(mv[m].src, mv[m].dst)
      BY <1>3 DEF MoveInv, MovedOlder, Moving
    <3>3. \A u \in Time : IsNext(m, u)' => u = t
      BY <1>3, OneNext DEF IsNext
    <3>4. MoverOK(m)'
      BY <1>2, <1>3, <3>1, <3>2, <3>3 DEF MoverOK, Moving, OldPath
    <3>5. MergeInvariants(mv[m].src, mv[m].dst)'
      BY <3>1, <3>2 DEF MergeInvariants
    <3> QED
      BY <2>2, <3>4, <3>5
  <2> QED
    BY <2>1, <2>2
<1>8. Backed'
  BY <1>2 DEF MoveInv, Backed
<1>9. ASSUME NEW k \in Mover \ truncated', NEW u \in Time, AtRename(k, u)', k # m
      PROVE k \notin truncated /\ AtRename(k, u) /\ mv'[k] = mv[k]
  BY <1>2, <1>3, <1>9 DEF AtRename, Pending, IsNext
<1>10. ASSUME NEW u \in Time, AtRename(m, u)' PROVE u = t
  BY <1>3, <1>10, OneNext DEF AtRename, IsNext
<1>11. ASSUME NEW k \in Nat, k <= Len(journal) PROVE Ahead(p, k)'
  <2>1. /\ Len(journal) + 1 \in 1 .. Len(journal') /\ journal'[Len(journal) + 1] = p
        /\ Len(journal) + 1 > k
    BY <1>4, <1>11
  <2>2. p' = p
    BY <1>3 DEF NewPath
  <2> HIDE DEF p
  <2> QED
    BY <2>1, <2>2 DEF Ahead
<1>12. EntryInv'
  <2> SUFFICES ASSUME NEW k \in Mover \ truncated', NEW u \in Time, AtRename(k, u)'
               PROVE  Ahead(NewPath(k, u), 0)'
    BY DEF EntryInv
  <2>1. CASE k = m
    BY <1>4, <1>10, <1>11, <2>1
  <2>2. CASE k # m
    <3>1. Ahead(NewPath(k, u), 0) /\ NewPath(k, u)' = NewPath(k, u)
      BY <1>9, <2>2 DEF MoveInv, EntryInv, NewPath
    <3> QED
      BY <1>4, <3>1, AheadKept
  <2> QED
    BY <2>1, <2>2
<1>13. MarkInv'
  <2>1. ASSUME NEW q \in Path, WillBeMarked(q) PROVE WillBeMarked(q)'
    <3>1. CASE q \in gc.left
      BY <1>2, <3>1 DEF WillBeMarked
    <3>2. CASE q \notin gc.left
      <4>1. PICK k \in 1 .. Len(journal) :
               /\ k > gc.pos /\ journal[k] = q
               /\ \A j \in Mover \ truncated, u \in Time :
                     AtRename(j, u) /\ OldPath(j, u) = q => Ahead(NewPath(j, u), k)
        BY <2>1, <3>2 DEF WillBeMarked
      <4>2. k \in Nat /\ k <= Len(journal) /\ k \in 1 .. Len(journal') /\ journal'[k] = q
        BY <1>4, <4>1
      <4>3. ASSUME NEW j \in Mover \ truncated', NEW u \in Time, AtRename(j, u)', OldPath(j, u)' = q
            PROVE  Ahead(NewPath(j, u), k)'
        <5>1. CASE j = m
          BY <1>10, <1>11, <4>2, <4>3, <5>1
        <5>2. CASE j # m
          <6>1. Ahead(NewPath(j, u), k) /\ NewPath(j, u)' = NewPath(j, u)
            BY <1>9, <4>1, <4>3, <5>2 DEF OldPath, NewPath
          <6> QED
            BY <1>4, <4>2, <6>1, AheadKept
        <5> QED
          BY <5>1, <5>2
      <4> QED
        BY <1>2, <4>1, <4>2, <4>3 DEF WillBeMarked
    <3> QED
      BY <3>1, <3>2
  <2>2. (\A s \in gc.old : \E q \in Path : dir[q] = s /\ Indexed(q))'
    BY <1>2 DEF MoveInv, MarkInv, Indexed
  <2> QED
    BY <1>2, <2>1, <2>2 DEF MoveInv, MarkInv, Iterating
<1>14. OldMarked'
  BY <1>2 DEF MoveInv, OldMarked
<1> QED
  BY <1>1, <1>5, <1>6, <1>7, <1>8, <1>12, <1>13, <1>14 DEF MoveInv, MovedOlder

(* A step of a move by which only objects in its own groups change. *)
LEMMA ObjectsOnly ==
  ASSUME MoveInv, NEW m \in Mover, MoveStep(m), Moving(m),
         UNCHANGED <<dir, backup, journal, alive>>,
         \A p \in Path : (\A t \in Time : p # OldPath(m, t) /\ p # NewPath(m, t))
                             => object'[p] = object[p],
         \A k \in Mover \ {m} : mv'[k] = mv[k],
         \A n \in Ns : Holds(m, n)' => Holds(m, n),
         SamePending, SameMarks, Backed',
         MoverOK(m)', (Moving(m) => MergeInvariants(mv[m].src, mv[m].dst))'
  PROVE  MoveInv'
<1>1. TypeOK'
  BY MoveTypeOK
<1>2. LockInv'
  <2>1. \A j \in Mover, x \in Ns : Holds(j, x)' => Holds(j, x)
    BY DEF Holds, HoldsSource, HoldsTarget
  <2> QED
    BY <2>1, LocksKept DEF MoveInv
<1>3. ContentInv'
  BY DEF MoveInv, ContentInv
<1>4. ASSUME NEW k \in Mover, k # m
      PROVE MoverOK(k)' /\ (Moving(k) => MergeInvariants(mv[k].src, mv[k].dst))'
  <2>1. mv'[k] = mv[k]
    BY <1>4
  <2>2. ASSUME Moving(k), NEW t \in Time
        PROVE /\ object'[OldPath(k, t)] = object[OldPath(k, t)]
              /\ object'[NewPath(k, t)] = object[NewPath(k, t)]
    <3>1. OldPath(k, t) \in Path /\ NewPath(k, t) \in Path
      BY <2>2, MovePaths DEF Moving, MoveInv
    <3> QED
      BY <1>4, <2>2, <3>1, MovesDisjoint
  <2> QED
    BY <2>1, <2>2, Undisturbed
<1>5. \A k \in Mover : MoverOK(k)'
  BY <1>4
<1>6. MovedOlder'
  BY <1>4 DEF MovedOlder
<1>7. EntryInv'
  BY EntriesKept DEF MoveInv
<1>8. MarkInv' /\ OldMarked'
  BY MarksKept
<1> QED
  BY <1>1, <1>2, <1>3, <1>5, <1>6, <1>7, <1>8 DEF MoveInv

(* Copying the objects: the target has no snapshot of that time. *)
LEMMA CopyObjectsKeeps ==
  ASSUME MoveInv, NEW m \in Mover, NEW t \in Time, CopyObjects(m, t)
  PROVE  MoveInv'
<1> USE DEF ghostVars
<1>1. MoveStep(m)
  BY DEF MoveStep
<1>2. UNCHANGED <<dir, backup, journal, alive, truncated, exposed, gc>>
  BY DEF CopyObjects
<1>3. /\ mv[m].pc = "logged" /\ IsNext(m, t)
      /\ mv'[m].pc = "copied" /\ mv'[m].src = mv[m].src /\ mv'[m].dst = mv[m].dst
      /\ mv'[m].todo = mv[m].todo /\ mv'[m].batch = mv[m].batch
      /\ \A j \in Mover \ {m} : mv'[j] = mv[j]
  BY DEF CopyObjects, MoveInv, TypeOK, MoveType, Move
<1>4. Moving(m) /\ Pending(m)
  BY <1>3 DEF Moving, Pending
<1>5. MoverOK(m) /\ MergeInvariants(mv[m].src, mv[m].dst)
  BY <1>4 DEF MoveInv, MovedOlder
<1>6. /\ OldPath(m, t) \in Path /\ NewPath(m, t) \in Path /\ OldPath(m, t) # NewPath(m, t)
  BY <1>3, MovePaths DEF MoveInv
<1>7. dir[OldPath(m, t)] # None /\ dir[NewPath(m, t)] = None
  BY <1>3, <1>4, <1>5, TargetFree DEF MoverOK
<1>8. /\ object'[NewPath(m, t)] = object[OldPath(m, t)]
      /\ \A p \in Path : p # NewPath(m, t) => object'[p] = object[p]
  BY <1>6 DEF CopyObjects, MoveInv, TypeOK, DiskType
<1>9. \A n \in Ns : Holds(m, n)' => Holds(m, n)
  BY <1>3 DEF Holds, HoldsSource, HoldsTarget
<1>10. SamePending
  BY <1>2, <1>3 DEF SamePending, AtRename, Pending, IsNext
<1>11. SameMarks
  BY <1>2 DEF SameMarks
<1>12. Backed'
  <2>1. None \notin alive
    BY NoneAssumption DEF MoveInv, TypeOK, OtherType
  <2> QED
    BY <1>2, <1>7, <1>8, <2>1 DEF MoveInv, Backed
<1>13. Times(mv[m].src)' = Times(mv[m].src) /\ Times(mv[m].dst)' = Times(mv[m].dst)
  BY <1>2, <1>3 DEF Times
<1>14. MoverOK(m)'
  <2>1. \A u \in Time : IsNext(m, u)' => u = t
    BY <1>3, OneNext DEF IsNext
  <2>2. OldPath(m, t)' = OldPath(m, t) /\ NewPath(m, t)' = NewPath(m, t)
    BY <1>3 DEF OldPath, NewPath
  <2> QED
    BY <1>2, <1>3, <1>4, <1>5, <1>6, <1>7, <1>8, <1>13, <2>1, <2>2 DEF MoverOK
<1>15. (Moving(m) => MergeInvariants(mv[m].src, mv[m].dst))'
  BY <1>5, <1>13 DEF MergeInvariants
<1> QED
  BY <1>1, <1>2, <1>3, <1>4, <1>8, <1>9, <1>10, <1>11, <1>12, <1>14, <1>15, ObjectsOnly

(* Going on to the next snapshot: what is left is still the oldest part of *)
(* the source.                                                             *)
LEMMA NextSnapshot ==
  ASSUME MoveInv, NEW m \in Mover, NEW t \in Time, Moving(m), IsNext(m, t),
         mv'[m].pc = "move", mv'[m].src = mv[m].src,
         mv'[m].todo = mv[m].todo \ {t}, mv'[m].batch = mv[m].batch \ {t},
         Times(mv[m].src)' \subseteq Times(mv[m].src) \ {t}
  PROVE  MoverOK(m)'
<1>1. MoverOK(m)
  BY DEF MoveInv
<1>2. (Moving(m) => Times(mv[m].src) \subseteq mv[m].todo)'
  BY <1>1 DEF MoverOK
<1>3. (\A x \in mv[m].batch, u \in mv[m].todo \ mv[m].batch : x < u)'
  BY <1>1 DEF MoverOK, IsNext
<1> QED
  BY <1>2, <1>3 DEF MoverOK, Pending

(* Deleting the old objects: the source has no snapshot of that time. *)
LEMMA DeleteObjectsKeeps ==
  ASSUME MoveInv, NEW m \in Mover, NEW t \in Time, DeleteObjects(m, t)
  PROVE  MoveInv'
<1> USE DEF ghostVars
<1>1. MoveStep(m)
  BY DEF MoveStep
<1>2. UNCHANGED <<dir, backup, journal, alive, truncated, exposed, gc>>
  BY DEF DeleteObjects
<1>3. /\ mv[m].pc = "renamed" /\ IsNext(m, t)
      /\ mv'[m].pc = "move" /\ mv'[m].src = mv[m].src /\ mv'[m].dst = mv[m].dst
      /\ mv'[m].todo = mv[m].todo \ {t} /\ mv'[m].batch = mv[m].batch \ {t}
      /\ \A j \in Mover \ {m} : mv'[j] = mv[j]
  <2> DEFINE r == StepDone(m, t)
  <2>1. mv \in [Mover -> Move] /\ mv[m].pc = "renamed" /\ IsNext(m, t)
    BY DEF DeleteObjects, MoveInv, TypeOK, MoveType
  <2>2. mv' = [mv EXCEPT ![m] = r]
    BY DEF DeleteObjects
  <2>3. /\ r.pc = "move" /\ r.src = mv[m].src /\ r.dst = mv[m].dst
        /\ r.todo = mv[m].todo \ {t} /\ r.batch = mv[m].batch \ {t}
    BY <2>1 DEF Move, StepDone
  <2> HIDE DEF r
  <2> QED
    BY <2>1, <2>2, <2>3
<1>4. Moving(m)
  BY <1>3 DEF Moving
<1>5. MoverOK(m) /\ MergeInvariants(mv[m].src, mv[m].dst)
  BY <1>4 DEF MoveInv, MovedOlder
<1>6. dir[OldPath(m, t)] = None
  BY <1>3, <1>5 DEF MoverOK
<1>7. \A p \in Path : p # OldPath(m, t) => object'[p] = object[p]
  BY <1>3, MovePaths DEF DeleteObjects, MoveInv, TypeOK, DiskType
<1>8. \A n \in Ns : Holds(m, n)' => Holds(m, n)
  BY <1>3 DEF Holds, HoldsSource, HoldsTarget
<1>9. SamePending
  BY <1>2, <1>3 DEF SamePending, AtRename, Pending, IsNext
<1>10. SameMarks
  BY <1>2 DEF SameMarks
<1>11. Backed'
  <2>1. None \notin alive
    BY NoneAssumption DEF MoveInv, TypeOK, OtherType
  <2> QED
    BY <1>2, <1>6, <1>7, <2>1 DEF MoveInv, Backed
<1>12. Times(mv[m].src)' = Times(mv[m].src) /\ Times(mv[m].dst)' = Times(mv[m].dst)
  BY <1>2, <1>3 DEF Times
<1>13. MoverOK(m)'
  <2>1. t \notin Times(mv[m].src)
    BY <1>6 DEF Times, OldPath
  <2> QED
    BY <1>3, <1>4, <1>12, <2>1, NextSnapshot
<1>14. (Moving(m) => MergeInvariants(mv[m].src, mv[m].dst))'
  BY <1>5, <1>12 DEF MergeInvariants
<1> QED
  BY <1>1, <1>2, <1>3, <1>4, <1>7, <1>8, <1>9, <1>10, <1>11, <1>13, <1>14, ObjectsOnly

(* Destroying the source: it is empty. *)
LEMMA DestroySourceKeeps ==
  ASSUME MoveInv, NEW m \in Mover, DestroySource(m)
  PROVE  MoveInv'
<1> USE DEF ghostVars
<1>1. MoveStep(m)
  BY DEF MoveStep
<1>2. UNCHANGED <<backup, journal, alive, truncated, exposed, gc>>
  BY DEF DestroySource
<1>3. /\ mv[m].pc = "move" /\ mv[m].todo = {} /\ mv[m].src \in Ns
      /\ mv'[m].pc = "idle" /\ mv'[m].batch = {}
      /\ \A j \in Mover \ {m} : mv'[j] = mv[j]
  BY DEF DestroySource, NoMove, MoveInv, TypeOK, MoveType, MoveOK
<1>4. Moving(m)
  BY <1>3 DEF Moving
<1>5. \A t \in Time : dir[<<mv[m].src, t>>] = None
  BY <1>3, <1>4 DEF MoveInv, MoverOK, Times
<1>6. dir' = dir
  <2>1. \A p \in Path : p[1] = mv[m].src => dir[p] = None
    BY <1>5 DEF Path
  <2>2. dir' = [p \in Path |-> dir[p]]
    BY <2>1 DEF DestroySource
  <2> QED
    BY <2>2 DEF MoveInv, TypeOK, DiskType
<1>7. \A p \in Path : (\A t \in Time : p # OldPath(m, t)) => object'[p] = object[p]
  BY DEF DestroySource, OldPath, Path
<1>8. \A n \in Ns : Holds(m, n)' => Holds(m, n)
  BY <1>3 DEF Holds, HoldsSource, HoldsTarget
<1>9. SamePending
  BY <1>2, <1>3 DEF SamePending, AtRename, Pending, IsNext
<1>10. SameMarks
  BY <1>2 DEF SameMarks
<1>11. Backed'
  <2>1. None \notin alive
    BY NoneAssumption DEF MoveInv, TypeOK, OtherType
  <2>2. \A p \in Path : dir[p] # None => object'[p] = object[p]
    BY <1>5, <1>7 DEF OldPath
  <2> QED
    BY <1>2, <1>6, <2>1, <2>2 DEF MoveInv, Backed
<1> QED
  BY <1>1, <1>2, <1>3, <1>4, <1>6, <1>7, <1>8, <1>9, <1>10, <1>11, NothingMoving, ObjectsOnly

(* The rename: the snapshot, its objects and its entry in the journal are  *)
(* there under the new path.                                               *)
LEMMA RenameKeeps ==
  ASSUME MoveInv, NEW m \in Mover, NEW t \in Time, Rename(m, t)
  PROVE  MoveInv'
<1> DEFINE from == OldPath(m, t)
           to == NewPath(m, t)
<1>1. TypeOK'
  BY MoveTypeOK DEF MoveStep
<1>2. UNCHANGED <<object, backup, journal, alive, gc>>
  BY DEF Rename
<1>3. /\ IsNext(m, t) /\ Pending(m) /\ mv[m].pc # "idle" /\ (S3 => mv[m].pc = "copied")
      /\ mv[m].pc # "source"
  BY DEF Rename, Pending
<1>4. /\ mv'[m].pc \in {"move", "renamed"} /\ mv'[m].src = mv[m].src /\ mv'[m].dst = mv[m].dst
      /\ \/ /\ mv'[m].pc = "renamed" /\ mv'[m].todo = mv[m].todo /\ mv'[m].batch = mv[m].batch
         \/ /\ mv'[m].pc = "move" /\ mv'[m].todo = mv[m].todo \ {t}
            /\ mv'[m].batch = mv[m].batch \ {t}
      /\ \A j \in Mover \ {m} : mv'[j] = mv[j]
  <2>1. mv \in [Mover -> Move]
    BY DEF MoveInv, TypeOK, MoveType
  <2>2. CASE S3
    BY <2>1, <2>2 DEF Rename, Move
  <2>3. CASE ~S3
    <3> DEFINE r == StepDone(m, t)
    <3>1. mv' = [mv EXCEPT ![m] = r]
      BY <2>3 DEF Rename
    <3>2. /\ r.pc = "move" /\ r.src = mv[m].src /\ r.dst = mv[m].dst
          /\ r.todo = mv[m].todo \ {t} /\ r.batch = mv[m].batch \ {t}
      BY <2>1 DEF Move, StepDone
    <3> HIDE DEF r
    <3> QED
      BY <2>1, <3>1, <3>2
  <2> QED
    BY <2>2, <2>3
<1>5. Moving(m) /\ Moving(m)' /\ ~Pending(m)'
  BY <1>3, <1>4 DEF Moving, Pending
<1>6. MoverOK(m) /\ MergeInvariants(mv[m].src, mv[m].dst)
  BY <1>5 DEF MoveInv, MovedOlder
<1>7. from \in Path /\ to \in Path /\ from # to /\ mv[m].src # mv[m].dst
  BY <1>3, MovePaths DEF MoveInv
<1>8. dir[from] \in Snap /\ dir[from] # None /\ dir[to] = None /\ None \notin alive
  BY <1>3, <1>6, <1>7, NoneAssumption DEF MoverOK, Rename, MoveInv, TypeOK, DiskType, OtherType
<1>9. /\ dir'[to] = dir[from] /\ dir'[from] = None
      /\ \A p \in Path : p # from /\ p # to => dir'[p] = dir[p]
  BY <1>7 DEF Rename, MoveInv, TypeOK, DiskType
<1>10. /\ backup[mv[m].src] = None /\ backup[mv[m].dst] = None
  BY <1>5, MoveNoBackup
<1>11. backup[from[1]] # from[2] /\ backup[to[1]] # to[2]
  BY <1>10, TimeAssumption DEF OldPath, NewPath
<1>12. from' = from /\ to' = to
  BY <1>4 DEF OldPath, NewPath
<1>13. LockInv'
  <2>1. \A j \in Mover, x \in Ns : Holds(j, x)' => Holds(j, x)
    BY <1>3, <1>4 DEF Holds, HoldsSource, HoldsTarget
  <2> QED
    BY <1>2, <2>1, LocksKept DEF MoveInv
<1>14. ContentInv'
  <2> HIDE DEF from, to
  <2>1. ContentInv
    BY DEF MoveInv
  <2>2. \A p, q \in Path : dir'[p] = dir'[q] => p = q \/ dir'[p] = None
    BY <1>7, <1>8, <1>9, <2>1 DEF ContentInv
  <2>3. \A s \in alive : \E p \in Path : dir'[p] = s
    BY <1>7, <1>8, <1>9, <2>1 DEF ContentInv
  <2>4. ASSUME NEW n \in Ns, backup[n] # None PROVE dir'[<<n, backup[n]>>] \notin alive \cup {None}
    <3>1. <<n, backup[n]>> \in Path
      BY <2>4 DEF MoveInv, TypeOK, OtherType, Path
    <3>2. <<n, backup[n]>> # from /\ <<n, backup[n]>> # to
      BY <1>10, <2>4 DEF from, to, OldPath, NewPath
    <3> QED
      BY <1>9, <2>1, <2>4, <3>1, <3>2 DEF ContentInv
  <2> QED
    BY <1>2, <2>2, <2>3, <2>4 DEF ContentInv
<1>15. /\ Times(mv[m].src)' = Times(mv[m].src) \ {t}
       /\ Times(mv[m].dst)' = Times(mv[m].dst) \cup {t}
  <2>1. /\ \A u \in Time : u # t => dir'[<<mv[m].src, u>>] = dir[<<mv[m].src, u>>]
        /\ \A u \in Time : u # t => dir'[<<mv[m].dst, u>>] = dir[<<mv[m].dst, u>>]
    BY <1>3, <1>7, <1>9, MovePaths DEF OldPath, NewPath, MoveInv
  <2>2. dir'[<<mv[m].src, t>>] = None /\ dir'[<<mv[m].dst, t>>] # None
    BY <1>8, <1>9 DEF OldPath, NewPath
  <2> QED
    BY <1>4, <2>1, <2>2 DEF Times
<1>16. ASSUME NEW k \in Mover
       PROVE MoverOK(k)' /\ (Moving(k) => MergeInvariants(mv[k].src, mv[k].dst))'
  <2>1. CASE k # m
    <3>1. mv'[k] = mv[k]
      BY <1>4, <2>1
    <3>2. ASSUME Moving(k), NEW u \in Time
          PROVE  dir'[OldPath(k, u)] = dir[OldPath(k, u)] /\ dir'[NewPath(k, u)] = dir[NewPath(k, u)]
      <4>1. OldPath(k, u) \in Path /\ NewPath(k, u) \in Path
        BY <3>2, MovePaths DEF Moving, MoveInv
      <4> QED
        BY <1>5, <1>9, <2>1, <3>2, <4>1, MovesDisjoint
    <3> QED
      BY <1>2, <3>1, <3>2, Undisturbed
  <2>2. CASE k = m
    <3>1. MoverOK(m)'
      <4>1. CASE mv'[m].pc = "move"
        BY <1>3, <1>4, <1>5, <1>15, <4>1, NextSnapshot
      <4>2. CASE mv'[m].pc = "renamed"
        <5>1. \A u \in Time : IsNext(m, u)' => u = t
          BY <1>3, <1>4, <4>2, OneNext DEF IsNext
        <5>2. mv'[m].todo = mv[m].todo /\ mv'[m].batch = mv[m].batch
          BY <1>4, <4>2
        <5>3. (Moving(m) => Times(mv[m].src) \subseteq mv[m].todo)'
          BY <1>5, <1>6, <1>15, <5>2 DEF MoverOK
        <5>4. (\A x \in mv[m].batch, u \in mv[m].todo \ mv[m].batch : x < u)'
          BY <1>6, <5>2 DEF MoverOK
        <5>5. ASSUME NEW u \in Time, IsNext(m, u)' PROVE dir'[OldPath(m, u)'] = None
          BY <1>9, <1>12, <5>1, <5>5
        <5> QED
          BY <1>5, <4>2, <5>3, <5>4, <5>5 DEF MoverOK
      <4> QED
        BY <1>4, <4>1, <4>2
    <3>2. MergeInvariants(mv[m].src, mv[m].dst)'
      <4> SUFFICES ASSUME NEW x \in Times(mv[m].src) \ {t}, NEW u \in Times(mv[m].dst) \cup {t}
                   PROVE  u < x
        BY <1>15 DEF MergeInvariants
      <4>1. CASE u # t
        BY <1>6, <4>1 DEF MergeInvariants
      <4>2. CASE u = t
        <5>1. x \in mv[m].todo /\ x \in Nat /\ t \in Nat /\ t \in mv[m].batch
          BY <1>3, <1>5, <1>6, TimeAssumption DEF MoverOK, Times, IsNext
        <5>2. CASE x \in mv[m].batch
          <6>1. t <= x
            BY <1>3, <5>2 DEF IsNext
          <6> QED
            BY <4>2, <5>1, <6>1
        <5>3. CASE x \notin mv[m].batch
          BY <1>6, <4>2, <5>1, <5>3 DEF MoverOK
        <5> QED
          BY <5>2, <5>3
      <4> QED
        BY <4>1, <4>2
    <3> QED
      BY <2>2, <3>1, <3>2
  <2> QED
    BY <2>1, <2>2
<1>17. Backed'
  <2> SUFFICES ASSUME S3, NEW p \in Path, dir'[p] \in alive PROVE object[p] = dir'[p]
    BY <1>2 DEF Backed
  <2>1. Backed /\ object[to] = object[from]
    BY <1>3, <1>6 DEF MoveInv, MoverOK
  <2> HIDE DEF from, to
  <2>2. CASE p = to
    BY <1>7, <1>9, <2>1, <2>2 DEF Backed
  <2>3. CASE p = from
    BY <1>8, <1>9, <2>3
  <2>4. CASE p # to /\ p # from
    BY <1>9, <2>1, <2>4 DEF Backed
  <2> QED
    BY <2>2, <2>3, <2>4
<1>18. SamePending
  BY <1>4, <1>5 DEF SamePending, AtRename, Pending, IsNext, Rename
<1>19. EntryInv'
  BY <1>2, <1>18, EntriesKept DEF MoveInv
<1>20. exposed \subseteq exposed'
  BY DEF Rename
<1>21. OldMarked'
  BY <1>2, <1>20 DEF MoveInv, OldMarked
<1>22. (\A s \in gc.old : \E p \in Path : dir[p] = s /\ Indexed(p))'
  <2> SUFFICES ASSUME NEW s \in gc.old PROVE \E p \in Path : dir'[p] = s /\ Indexed(p)'
    BY <1>2
  <2>1. PICK p \in Path : dir[p] = s /\ Indexed(p)
    BY DEF MoveInv, MarkInv
  <2> HIDE DEF from, to
  <2>2. CASE p = from
    BY <1>2, <1>7, <1>8, <1>9, <1>11, <2>1, <2>2 DEF Indexed
  <2>3. CASE p # from
    BY <1>2, <1>8, <1>9, <2>1, <2>3 DEF Indexed
  <2> QED
    BY <2>2, <2>3
<1>23. ASSUME NEW p \in Path, Iterating \/ gc.pc = "drain",
              dir'[p] \in gc.old \ (gc.marked \cup exposed')
       PROVE  WillBeMarked(p)'
  <2>1. \A q \in Path : dir[q] \in gc.old \ (gc.marked \cup exposed) => WillBeMarked(q)
    BY <1>23 DEF MoveInv, MarkInv
  <2>2. None \notin gc.old
    BY NoneAssumption DEF MoveInv, TypeOK, GcType, Collection
  <2>3. CASE p # to
    <3>1. dir[p] \in gc.old \ (gc.marked \cup exposed)
      BY <1>9, <1>20, <1>23, <2>2, <2>3
    <3> QED
      BY <1>2, <1>18, <2>1, <3>1, WillKept
  <2>4. CASE p = to
    <3>1. m \notin truncated
      BY <1>9, <1>23, <2>4 DEF Rename, Iterating
    <3>2. WillBeMarked(from)
      BY <1>7, <1>9, <1>20, <1>23, <2>1, <2>4
    <3>3. AtRename(m, t)
      BY <1>3 DEF AtRename
    <3>4. \E k \in 1 .. Len(journal) : k > gc.pos /\ journal[k] = to
      <4>1. gc.pos \in Nat /\ journal \in Seq(Path)
        BY DEF MoveInv, TypeOK, GcType, Collection, OtherType
      <4>2. CASE from \in gc.left
        <5>1. gc.pos = 0
          BY <1>23, <4>2 DEF MoveInv, MarkInv
        <5>2. Ahead(to, 0)
          BY <3>1, <3>3 DEF MoveInv, EntryInv
        <5> QED
          BY <5>1, <5>2 DEF Ahead
      <4>3. CASE from \notin gc.left
        <5>1. PICK k \in 1 .. Len(journal) : k > gc.pos /\ Ahead(to, k)
          BY <3>1, <3>2, <3>3, <4>3 DEF WillBeMarked
        <5>2. PICK j \in 1 .. Len(journal) : j > k /\ journal[j] = to
          BY <5>1 DEF Ahead
        <5>3. j > gc.pos
          BY <4>1, <5>1, <5>2
        <5> QED
          BY <5>2, <5>3
      <4> QED
        BY <4>2, <4>3
    <3>5. ASSUME NEW k \in Mover \ truncated', NEW u \in Time, AtRename(k, u)' PROVE OldPath(k, u)' # to
      <4>1. k # m /\ Moving(k) /\ mv'[k].src = mv[k].src
        BY <1>5, <1>18, <3>5 DEF SamePending, AtRename, Pending, Moving
      <4> QED
        BY <1>5, <4>1, MovesDisjoint DEF OldPath
    <3> HIDE DEF from, to
    <3> QED
      BY <1>2, <2>4, <3>4, <3>5 DEF WillBeMarked
  <2> QED
    BY <2>3, <2>4
<1>24. MarkInv'
  BY <1>2, <1>22, <1>23 DEF MoveInv, MarkInv, Iterating
<1> QED
  BY <1>1, <1>13, <1>14, <1>16, <1>17, <1>19, <1>21, <1>24 DEF MoveInv, MovedOlder

(* Every step of a move keeps the invariant. *)
LEMMA MoveStepKeeps ==
  ASSUME MoveInv, NEW m \in Mover, MoveStep(m)
  PROVE  MoveInv'
  BY LockSourceKeeps, LockTargetKeeps, LockBatchKeeps, LogMoveKeeps, CopyObjectsKeeps,
     RenameKeeps, DeleteObjectsKeeps, DestroySourceKeeps, MoveFailsKeeps DEF MoveStep

-----------------------------------------------------------------------------
(* Backups and prunes *)

(* The snapshots that the collection is to mark stay where they are, apart *)
(* from those that it may forget.                                          *)
LEMMA MarksShrink ==
  ASSUME MoveInv, UNCHANGED <<mv, journal, truncated>>,
         gc'.pc = gc.pc, gc'.left = gc.left, gc'.pos = gc.pos, gc'.old \subseteq gc.old,
         \A p \in Path : dir[p] \in gc'.old /\ Indexed(p) => dir'[p] = dir[p] /\ Indexed(p)',
         \A p \in Path : dir'[p] \in gc'.old => dir'[p] = dir[p],
         \A s \in gc'.old : s \in gc.marked \cup exposed <=> s \in gc'.marked \cup exposed'
  PROVE  MarkInv' /\ OldMarked'
<1>1. SamePending
  BY DEF SamePending, AtRename, Pending, IsNext
<1>2. MarkInv /\ OldMarked
  BY DEF MoveInv
<1>3. OldMarked'
  BY <1>2 DEF OldMarked
<1>4. (\A s \in gc.old : \E p \in Path : dir[p] = s /\ Indexed(p))'
  <2> SUFFICES ASSUME NEW s \in gc'.old PROVE \E p \in Path : dir'[p] = s /\ Indexed(p)'
    OBVIOUS
  <2>1. PICK p \in Path : dir[p] = s /\ Indexed(p)
    BY <1>2 DEF MarkInv
  <2> QED
    BY <2>1
<1>5. ASSUME NEW p \in Path, Iterating \/ gc.pc = "drain",
             dir'[p] \in gc'.old \ (gc'.marked \cup exposed')
      PROVE  WillBeMarked(p)'
  <2>1. dir[p] \in gc.old \ (gc.marked \cup exposed)
    BY <1>5
  <2>2. WillBeMarked(p)
    BY <1>2, <1>5, <2>1 DEF MarkInv
  <2> QED
    BY <1>1, <2>2, WillKept
<1> QED
  BY <1>2, <1>3, <1>4, <1>5 DEF MarkInv, Iterating

(* A backup works in a group that is not being moved. *)
LEMMA NotMoved ==
  ASSUME MoveInv, NEW n \in Ns, backup[n] # None \/ ~GroupLocked(n),
         NEW k \in Mover, Moving(k)
  PROVE  n # mv[k].src /\ n # mv[k].dst
<1>1. /\ mv[k].src \in Ns /\ Holds(k, mv[k].src) /\ mv[k].dst \in Ns /\ Holds(k, mv[k].dst)
  BY DEF MoveInv, TypeOK, MoveType, MoveOK, Moving, Holds, HoldsSource, HoldsTarget
<1>2. ~Holds(k, n)
  BY DEF MoveInv, LockInv, GroupLocked, Holds
<1> QED
  BY <1>1, <1>2

(* A step of a backup in a group that is not being moved. *)
LEMMA BackupOnly ==
  ASSUME MoveInv, BackupStep, UNCHANGED <<mv, journal, truncated>>,
         NEW n \in Ns, backup[n] # None \/ ~GroupLocked(n),
         \A p \in Path : p[1] # n => dir'[p] = dir[p] /\ object'[p] = object[p],
         LockInv', ContentInv', Backed', MarkInv', OldMarked'
  PROVE  MoveInv'
<1>1. TypeOK'
  BY BackupTypeOK
<1>2. ASSUME NEW k \in Mover
      PROVE MoverOK(k)' /\ (Moving(k) => MergeInvariants(mv[k].src, mv[k].dst))'
  <2>1. ASSUME Moving(k), NEW t \in Time
        PROVE /\ dir'[OldPath(k, t)] = dir[OldPath(k, t)]
              /\ dir'[NewPath(k, t)] = dir[NewPath(k, t)]
              /\ object'[OldPath(k, t)] = object[OldPath(k, t)]
              /\ object'[NewPath(k, t)] = object[NewPath(k, t)]
    <3>1. OldPath(k, t) \in Path /\ NewPath(k, t) \in Path
      BY <2>1, MovePaths DEF Moving, MoveInv
    <3>2. OldPath(k, t)[1] # n /\ NewPath(k, t)[1] # n
      BY <2>1, NotMoved DEF OldPath, NewPath
    <3> QED
      BY <3>1, <3>2
  <2> QED
    BY <2>1, Undisturbed
<1>3. EntryInv'
  BY EntriesKept DEF MoveInv, SamePending, AtRename, Pending, IsNext
<1> QED
  BY <1>1, <1>2, <1>3 DEF MoveInv, MovedOlder

(* A new backup: it has a path and a content of its own. *)
LEMMA StartBackupKeeps ==
  ASSUME MoveInv, NEW n \in Ns, NEW t \in Time, NEW s \in Snap, StartBackup(n, t, s)
  PROVE  MoveInv'
<1> DEFINE p == <<n, t>>
<1>1. UNCHANGED <<object, mv, journal, alive, truncated, exposed>>
  BY DEF StartBackup
<1>2. p \in Path /\ ~GroupLocked(n) /\ s # None /\ t # None
  BY NoneAssumption, TimeAssumption DEF StartBackup, Path
<1>3. dir[p] = None
  BY DEF StartBackup
<1>4. \A q \in Path : dir[q] # s
  BY DEF StartBackup
<1>5. dir'[p] = s /\ \A q \in Path : q # p => dir'[q] = dir[q]
  BY <1>2 DEF StartBackup, MoveInv, TypeOK, DiskType
<1>6. backup'[n] = t /\ \A k \in Ns : k # n => backup'[k] = backup[k]
  BY DEF StartBackup, MoveInv, TypeOK, OtherType
<1>7. s \notin alive /\ None \notin alive
  BY <1>4, NoneAssumption DEF MoveInv, ContentInv, TypeOK, OtherType
<1>8. \A q \in Path : q # p => (q[1] = n => q[2] # t)
  BY DEF Path
<1>9. LockInv'
  <2>1. \A k \in Mover, x \in Ns : Holds(k, x)' = Holds(k, x)
    BY <1>1 DEF Holds, HoldsSource, HoldsTarget
  <2>2. \A k \in Mover : ~Holds(k, n)
    BY <1>2 DEF GroupLocked, Holds
  <2> QED
    BY <1>6, <2>1, <2>2 DEF MoveInv, LockInv
<1>10. ContentInv'
  <2>1. ContentInv
    BY DEF MoveInv
  <2>2. ASSUME NEW k \in Ns, backup'[k] # None
        PROVE dir'[<<k, backup'[k]>>] \notin alive \cup {None}
    <3>1. CASE k = n
      BY <1>2, <1>5, <1>6, <1>7, <3>1
    <3>2. CASE k # n
      <4>1. <<k, backup[k]>> \in Path /\ <<k, backup[k]>> # p
        BY <1>6, <2>2, <3>2 DEF MoveInv, TypeOK, OtherType, Path
      <4> HIDE DEF p
      <4> QED
        BY <1>5, <1>6, <2>1, <2>2, <3>2, <4>1 DEF ContentInv
    <3> QED
      BY <3>1, <3>2
  <2> HIDE DEF p
  <2>3. \A q, r \in Path : dir'[q] = dir'[r] => q = r \/ dir'[q] = None
    BY <1>2, <1>4, <1>5, <2>1 DEF ContentInv
  <2>4. \A x \in alive : \E q \in Path : dir'[q] = x
    BY <1>3, <1>5, <1>7, <2>1 DEF ContentInv
  <2> QED
    BY <1>1, <2>2, <2>3, <2>4 DEF ContentInv
<1>11. Backed'
  <2> HIDE DEF p
  <2> QED
    BY <1>1, <1>2, <1>5, <1>7 DEF MoveInv, Backed
<1>12. SameMarks
  <2>1. gc' = gc \/ gc' = [gc EXCEPT !.fresh = @ \cup {n}]
    BY DEF StartBackup, Created
  <2> QED
    BY <1>1, <2>1 DEF SameMarks, MoveInv, TypeOK, GcType, Collection
<1>13. MarkInv' /\ OldMarked'
  <2>1. s \notin gc.old /\ None \notin gc.old
    BY <1>4, NoneAssumption DEF MoveInv, MarkInv, TypeOK, GcType, Collection
  <2>2. ASSUME NEW q \in Path, q # p, Indexed(q) PROVE Indexed(q)'
    <3>1. q[1] \in Ns
      BY DEF Path
    <3> QED
      BY <1>5, <1>6, <1>8, <2>2, <3>1 DEF Indexed
  <2> HIDE DEF p
  <2>3. \A q \in Path : dir[q] \in gc.old /\ Indexed(q) => dir'[q] = dir[q] /\ Indexed(q)'
    BY <1>3, <1>5, <2>1, <2>2
  <2>4. \A q \in Path : dir'[q] \in gc.old => dir'[q] = dir[q]
    BY <1>5, <2>1
  <2> QED
    BY <1>1, <1>12, <2>3, <2>4, MarksShrink DEF SameMarks
<1>14. BackupStep
  BY DEF BackupStep
<1>15. \A q \in Path : q[1] # n => dir'[q] = dir[q] /\ object'[q] = object[q]
  BY <1>1, <1>5
<1> QED
  BY <1>1, <1>2, <1>9, <1>10, <1>11, <1>13, <1>14, <1>15, BackupOnly

(* The end of a backup leaves no group held that was not. *)
LEMMA BackupEndLocks ==
  ASSUME MoveInv, UNCHANGED mv, NEW n \in Ns, backup' = [backup EXCEPT ![n] = None]
  PROVE  /\ LockInv'
         /\ \A p \in Path : Indexed(p) /\ dir'[p] = dir[p] => Indexed(p)'
<1>1. backup'[n] = None /\ \A k \in Ns : k # n => backup'[k] = backup[k]
  BY DEF MoveInv, TypeOK, OtherType
<1>2. \A k \in Mover, x \in Ns : Holds(k, x)' = Holds(k, x)
  BY DEF Holds, HoldsSource, HoldsTarget
<1>3. LockInv'
  BY <1>1, <1>2 DEF MoveInv, LockInv
<1>4. \A p \in Path : p[1] \in Ns /\ p[2] # None
  BY TimeAssumption DEF Path
<1> QED
  BY <1>1, <1>3, <1>4 DEF Indexed

(* A finished backup has its objects, and nobody else has its content. *)
LEMMA FinishBackupKeeps ==
  ASSUME MoveInv, NEW n \in Ns, FinishBackup(n)
  PROVE  MoveInv'
<1> DEFINE p == <<n, backup[n]>>
<1>1. UNCHANGED <<dir, mv, journal, gc, truncated, exposed>>
  BY DEF FinishBackup
<1>2. backup[n] # None /\ p \in Path /\ dir[p] \notin alive /\ dir[p] # None
  BY DEF FinishBackup, MoveInv, ContentInv, TypeOK, OtherType, Path
<1>3. backup'[n] = None /\ \A k \in Ns : k # n => backup'[k] = backup[k]
  BY DEF FinishBackup, MoveInv, TypeOK, OtherType
<1>4. alive' = alive \cup {dir[p]}
  BY DEF FinishBackup
<1>5. /\ S3 => object'[p] = dir[p]
      /\ \A q \in Path : q # p => object'[q] = object[q]
  BY <1>2 DEF FinishBackup, MoveInv, TypeOK, DiskType
<1>6. LockInv' /\ \A q \in Path : Indexed(q) => Indexed(q)'
  BY <1>1, BackupEndLocks DEF FinishBackup
<1>7. ContentInv'
  <2>1. ContentInv
    BY DEF MoveInv
  <2>2. ASSUME NEW k \in Ns, backup'[k] # None
        PROVE dir'[<<k, backup'[k]>>] \notin alive' \cup {None}
    <3>1. k # n /\ backup'[k] = backup[k]
      BY <1>3, <2>2
    <3>2. <<k, backup[k]>> \in Path /\ <<k, backup[k]>> # p
      BY <2>2, <3>1 DEF MoveInv, TypeOK, OtherType, Path
    <3> HIDE DEF p
    <3> QED
      BY <1>1, <1>2, <1>4, <2>1, <2>2, <3>1, <3>2 DEF ContentInv
  <2> HIDE DEF p
  <2> QED
    BY <1>1, <1>2, <1>4, <2>1, <2>2 DEF ContentInv
<1>8. Backed'
  <2> HIDE DEF p
  <2> QED
    BY <1>1, <1>2, <1>4, <1>5 DEF MoveInv, ContentInv, Backed
<1>9. MarkInv' /\ OldMarked'
  BY <1>1, <1>6, MarksShrink
<1>10. BackupStep
  BY DEF BackupStep
<1>11. \A q \in Path : q[1] # n => dir'[q] = dir[q] /\ object'[q] = object[q]
  BY <1>1, <1>5
<1> QED
  BY <1>1, <1>2, <1>6, <1>7, <1>8, <1>9, <1>10, <1>11, BackupOnly

(* An aborted backup takes nothing but itself along. *)
LEMMA AbortBackupKeeps ==
  ASSUME MoveInv, NEW n \in Ns, AbortBackup(n)
  PROVE  MoveInv'
<1> USE DEF ghostVars
<1> DEFINE p == <<n, backup[n]>>
<1>1. UNCHANGED <<mv, journal, gc, alive, truncated, exposed>>
  BY DEF AbortBackup
<1>2. backup[n] # None /\ p \in Path /\ dir[p] \notin alive /\ dir[p] # None
  BY DEF AbortBackup, MoveInv, ContentInv, TypeOK, OtherType, Path
<1>3. backup'[n] = None /\ \A k \in Ns : k # n => backup'[k] = backup[k]
  BY DEF AbortBackup, MoveInv, TypeOK, OtherType
<1>4. dir'[p] = None /\ \A q \in Path : q # p => dir'[q] = dir[q] /\ object'[q] = object[q]
  BY <1>2 DEF AbortBackup, MoveInv, TypeOK, DiskType
<1>5. None \notin alive /\ None \notin gc.old /\ ~Indexed(p)
  BY NoneAssumption DEF MoveInv, TypeOK, GcType, Collection, OtherType, Indexed
<1>6. LockInv' /\ \A q \in Path : Indexed(q) /\ dir'[q] = dir[q] => Indexed(q)'
  BY <1>1, BackupEndLocks DEF AbortBackup
<1>7. ContentInv'
  <2>1. ContentInv
    BY DEF MoveInv
  <2>2. ASSUME NEW k \in Ns, backup'[k] # None
        PROVE dir'[<<k, backup'[k]>>] \notin alive \cup {None}
    <3>1. k # n /\ backup'[k] = backup[k]
      BY <1>3, <2>2
    <3>2. <<k, backup[k]>> \in Path /\ <<k, backup[k]>> # p
      BY <2>2, <3>1 DEF MoveInv, TypeOK, OtherType, Path
    <3> HIDE DEF p
    <3> QED
      BY <1>4, <2>1, <2>2, <3>1, <3>2 DEF ContentInv
  <2> HIDE DEF p
  <2>3. \A q, r \in Path : dir'[q] = dir'[r] => q = r \/ dir'[q] = None
    BY <1>4, <2>1 DEF ContentInv
  <2>4. \A x \in alive : \E q \in Path : dir'[q] = x
    BY <1>2, <1>4, <2>1 DEF ContentInv
  <2> QED
    BY <1>1, <2>2, <2>3, <2>4 DEF ContentInv
<1>8. Backed'
  <2> HIDE DEF p
  <2> QED
    BY <1>1, <1>4, <1>5 DEF MoveInv, Backed
<1>9. MarkInv' /\ OldMarked'
  <2> HIDE DEF p
  <2>1. \A q \in Path : dir[q] \in gc.old /\ Indexed(q) => dir'[q] = dir[q] /\ Indexed(q)'
    BY <1>4, <1>5, <1>6
  <2>2. \A q \in Path : dir'[q] \in gc.old => dir'[q] = dir[q]
    BY <1>4, <1>5
  <2> QED
    BY <1>1, <2>1, <2>2, MarksShrink
<1>10. BackupStep
  BY DEF BackupStep
<1>11. \A q \in Path : q[1] # n => dir'[q] = dir[q] /\ object'[q] = object[q]
  BY <1>4
<1> QED
  BY <1>1, <1>2, <1>6, <1>7, <1>8, <1>9, <1>10, <1>11, BackupOnly

(* The unfinished snapshot of a killed backup is nobody's. *)
LEMMA CrashBackupKeeps ==
  ASSUME MoveInv, NEW n \in Ns, CrashBackup(n)
  PROVE  MoveInv'
<1> USE DEF diskVars, ghostVars
<1>1. UNCHANGED <<dir, object, mv, journal, gc, alive, truncated, exposed>> /\ backup[n] # None
  BY DEF CrashBackup
<1>2. backup'[n] = None /\ \A k \in Ns : k # n => backup'[k] = backup[k]
  BY DEF CrashBackup, MoveInv, TypeOK, OtherType
<1>3. LockInv' /\ \A q \in Path : Indexed(q) => Indexed(q)'
  BY <1>1, BackupEndLocks DEF CrashBackup
<1>4. ContentInv' /\ Backed'
  BY <1>1, <1>2 DEF MoveInv, ContentInv, Backed
<1>5. MarkInv' /\ OldMarked'
  BY <1>1, <1>3, MarksShrink
<1>6. BackupStep
  BY DEF BackupStep
<1> QED
  BY <1>1, <1>3, <1>4, <1>5, <1>6, BackupOnly

(* Removing an empty group changes no snapshot. *)
LEMMA PruneGroupKeeps ==
  ASSUME MoveInv, NEW n \in Ns, PruneGroup(n)
  PROVE  MoveInv'
<1> USE DEF ghostVars
<1>1. UNCHANGED <<dir, object, mv, backup, journal, gc, alive, truncated, exposed>>
  BY DEF PruneGroup
<1>2. TypeOK'
  BY BackupTypeOK DEF BackupStep
<1>3. LockInv' /\ ContentInv' /\ Backed'
  BY <1>1 DEF MoveInv, LockInv, ContentInv, Backed, Holds, HoldsSource, HoldsTarget
<1>4. \A k \in Mover : MoverOK(k)' /\ (Moving(k) => MergeInvariants(mv[k].src, mv[k].dst))'
  BY <1>1, Undisturbed
<1>5. EntryInv'
  BY <1>1, EntriesKept DEF MoveInv, SamePending, AtRename, Pending, IsNext
<1>6. MarkInv' /\ OldMarked'
  BY <1>1, MarksShrink DEF Indexed
<1> QED
  BY <1>2, <1>3, <1>4, <1>5, <1>6 DEF MoveInv, MovedOlder

(* A prune removes a snapshot that no backup writes and no batch has       *)
(* locked; moves do not miss it.                                           *)
LEMMA PruneAny ==
  ASSUME MoveInv, BackupStep, NEW p \in Path, dir[p] # None, ~SnapshotLocked(p),
         UNCHANGED <<mv, backup, journal, truncated>>, Forget(dir[p]),
         \A q \in Path : q # p => dir'[q] = dir[q] /\ object'[q] = object[q],
         dir'[p] = dir[p] \/ dir'[p] = None
  PROVE  MoveInv'
<1>1. TypeOK'
  BY BackupTypeOK
<1>2. LockInv'
  BY DEF MoveInv, LockInv, Holds, HoldsSource, HoldsTarget
<1>3. /\ alive' = alive \ {dir[p]} /\ exposed' = exposed \ {dir[p]}
      /\ gc'.old = gc.old \ {dir[p]} /\ gc'.marked = gc.marked \ {dir[p]}
      /\ gc'.pc = gc.pc /\ gc'.left = gc.left /\ gc'.pos = gc.pos
  BY DEF Forget, MoveInv, TypeOK, GcType, Collection
<1>4. None \notin alive /\ None \notin gc.old
  BY NoneAssumption DEF MoveInv, TypeOK, GcType, Collection, OtherType
<1>5. ContentInv'
  <2>1. ContentInv
    BY DEF MoveInv
  <2>2. ASSUME NEW k \in Ns, backup[k] # None
        PROVE dir'[<<k, backup[k]>>] \notin alive' \cup {None}
    <3>1. <<k, backup[k]>> \in Path /\ <<k, backup[k]>> # p
      BY <2>2 DEF SnapshotLocked, MoveInv, TypeOK, OtherType, Path
    <3> QED
      BY <1>3, <2>1, <2>2, <3>1 DEF ContentInv
  <2>3. \A q, r \in Path : dir'[q] = dir'[r] => q = r \/ dir'[q] = None
    BY <2>1 DEF ContentInv
  <2>4. \A x \in alive' : \E q \in Path : dir'[q] = x
    BY <1>3, <2>1 DEF ContentInv
  <2> QED
    BY <2>2, <2>3, <2>4 DEF ContentInv
<1>6. Backed'
  BY <1>3, <1>4 DEF MoveInv, Backed
<1>7. ASSUME NEW k \in Mover
      PROVE MoverOK(k)' /\ (Moving(k) => MergeInvariants(mv[k].src, mv[k].dst))'
  <2>1. MoverOK(k) /\ (Moving(k) => MergeInvariants(mv[k].src, mv[k].dst))
    BY DEF MoveInv, MovedOlder
  <2>2. ASSUME Moving(k)
        PROVE /\ Times(mv[k].src)' \subseteq Times(mv[k].src)
              /\ Times(mv[k].dst)' \subseteq Times(mv[k].dst)
    <3>1. mv[k].src \in Ns /\ mv[k].dst \in Ns
      BY <2>2 DEF MoveInv, TypeOK, MoveType, MoveOK, Moving
    <3>2. \A t \in Time : <<mv[k].src, t>> \in Path /\ <<mv[k].dst, t>> \in Path
      BY <3>1 DEF Path
    <3> QED
      BY <3>2 DEF Times
  <2>3. ASSUME NEW t \in Time, IsNext(k, t), Moving(k)
        PROVE  /\ Pending(k) => dir'[OldPath(k, t)] # None
               /\ mv[k].pc = "copied" => object'[NewPath(k, t)] = object'[OldPath(k, t)]
               /\ mv[k].pc = "renamed" => dir'[OldPath(k, t)] = None
    <3>1. OldPath(k, t) \in Path /\ NewPath(k, t) \in Path
      BY <2>3, MovePaths DEF Moving, MoveInv
    <3>2. OldPath(k, t) # p
      BY <2>3 DEF SnapshotLocked, OldPath, IsNext
    <3>3. Pending(k) => NewPath(k, t) # p
      BY <2>1, <2>3, TargetFree DEF MoverOK
    <3> QED
      BY <2>1, <2>3, <3>1, <3>2, <3>3 DEF MoverOK, Pending
  <2>4. MoverOK(k)'
    <3>1. (Moving(k) => Times(mv[k].src) \subseteq mv[k].todo)'
      BY <2>1, <2>2 DEF MoverOK, Moving
    <3>2. (\A t \in mv[k].batch, u \in mv[k].todo \ mv[k].batch : t < u)'
      BY <2>1 DEF MoverOK
    <3> QED
      BY <2>3, <3>1, <3>2 DEF MoverOK, Moving, Pending, IsNext, OldPath, NewPath
  <2>5. (Moving(k) => MergeInvariants(mv[k].src, mv[k].dst))'
    BY <2>1, <2>2 DEF Moving, MergeInvariants
  <2> QED
    BY <2>4, <2>5
<1>8. EntryInv'
  BY EntriesKept DEF MoveInv, SamePending, AtRename, Pending, IsNext
<1>9. MarkInv' /\ OldMarked'
  <2>1. \A q \in Path : dir[q] \in gc'.old /\ Indexed(q) => dir'[q] = dir[q] /\ Indexed(q)'
    BY <1>3 DEF Indexed
  <2>2. \A q \in Path : dir'[q] \in gc'.old => dir'[q] = dir[q]
    BY <1>3, <1>4
  <2>3. \A s \in gc'.old : s \in gc.marked \cup exposed <=> s \in gc'.marked \cup exposed'
    BY <1>3
  <2> QED
    BY <1>3, <2>1, <2>2, <2>3, MarksShrink
<1> QED
  BY <1>1, <1>2, <1>5, <1>6, <1>7, <1>8, <1>9 DEF MoveInv, MovedOlder

(* Both outcomes of a prune keep the invariant. *)
LEMMA PruneKeeps ==
  ASSUME MoveInv, NEW p \in Path, Prune(p) \/ PruneFails(p)
  PROVE  MoveInv'
<1>1. BackupStep
  BY DEF BackupStep
<1>2. CASE Prune(p)
  <2>1. dir'[p] = None /\ \A q \in Path : q # p => dir'[q] = dir[q] /\ object'[q] = object[q]
    BY <1>2 DEF Prune, MoveInv, TypeOK, DiskType
  <2> QED
    BY <1>1, <1>2, <2>1, PruneAny DEF Prune
<1>3. CASE PruneFails(p)
  <2>1. dir' = dir /\ \A q \in Path : q # p => object'[q] = object[q]
    BY <1>3 DEF PruneFails, MoveInv, TypeOK, DiskType
  <2> QED
    BY <1>1, <1>3, <2>1, PruneAny DEF PruneFails
<1> QED
  BY <1>2, <1>3

(* Every step of a backup or a prune keeps the invariant. *)
LEMMA BackupStepKeeps ==
  ASSUME MoveInv, BackupStep
  PROVE  MoveInv'
  BY StartBackupKeeps, FinishBackupKeeps, AbortBackupKeeps, CrashBackupKeeps, PruneGroupKeeps,
     PruneKeeps DEF BackupStep

-----------------------------------------------------------------------------
(* The collection *)

(* The collection changes nothing that moves and backups rely on. *)
LEMMA GcOnlyKeeps ==
  ASSUME MoveInv, GcStep, GcOnly, MarkInv', OldMarked'
  PROVE  MoveInv'
<1> USE DEF diskVars
<1>1. UNCHANGED <<dir, object, mv, backup, journal, alive, truncated>>
  BY DEF GcOnly
<1>2. TypeOK'
  BY GcTypeOK
<1>3. LockInv' /\ ContentInv' /\ Backed'
  BY <1>1 DEF MoveInv, LockInv, ContentInv, Backed, Holds, HoldsSource, HoldsTarget
<1>4. \A k \in Mover : MoverOK(k)' /\ (Moving(k) => MergeInvariants(mv[k].src, mv[k].dst))'
  BY <1>1, Undisturbed
<1>5. EntryInv'
  BY <1>1, EntriesKept DEF MoveInv, SamePending, AtRename, Pending, IsNext
<1> QED
  BY <1>2, <1>3, <1>4, <1>5 DEF MoveInv, MovedOlder

(* An old snapshot is nowhere but where its index is. *)
LEMMA OldIndexed ==
  ASSUME MoveInv, NEW p \in Path, dir[p] \in gc.old
  PROVE  Indexed(p)
<1>1. PICK q \in Path : dir[q] = dir[p] /\ Indexed(q)
  BY DEF MoveInv, MarkInv
<1>2. dir[p] # None
  BY NoneAssumption DEF MoveInv, TypeOK, GcType, Collection
<1> QED
  BY <1>1, <1>2 DEF MoveInv, ContentInv

(* The collection goes on, and takes off its listing only what needs no    *)
(* mark any more.                                                          *)
LEMMA MarkStep ==
  ASSUME MoveInv, GcOnly, UNCHANGED exposed, Iterating, Iterating',
         gc'.pos = gc.pos, gc'.old = gc.old, gc.marked \subseteq gc'.marked,
         \A p \in gc.left : p \in gc'.left \/ dir[p] \in gc'.marked \/ ~Indexed(p)
  PROVE  MarkInv' /\ OldMarked'
<1> USE DEF diskVars
<1>1. UNCHANGED <<dir, mv, backup, journal, truncated>>
  BY DEF GcOnly
<1>2. gc'.pc # "drain" /\ gc'.pc # "sweep" /\ gc.pos = 0
  BY DEF Iterating, MoveInv, MarkInv
<1>3. (\A s \in gc.old : \E q \in Path : dir[q] = s /\ Indexed(q))'
  BY <1>1 DEF MoveInv, MarkInv, Indexed
<1>4. ASSUME NEW q \in Path, dir[q] \in gc.old \ (gc'.marked \cup exposed)
      PROVE  WillBeMarked(q)'
  <2>1. WillBeMarked(q) /\ Indexed(q)
    BY <1>4, OldIndexed DEF MoveInv, MarkInv
  <2>2. q \in gc.left => q \in gc'.left
    BY <1>4, <2>1
  <2>3. SamePending
    BY <1>1 DEF SamePending, AtRename, Pending, IsNext
  <2> QED
    BY <1>1, <2>1, <2>2, <2>3, WillKept
<1> QED
  BY <1>1, <1>2, <1>3, <1>4 DEF MarkInv, OldMarked, Iterating

(* The start: every old snapshot is in the listing. *)
LEMMA GcStartKeeps ==
  ASSUME MoveInv, GcStart
  PROVE  MoveInv'
<1> USE DEF diskVars
<1> DEFINE I == {p \in Path : Indexed(p)}
<1>1. GcStep /\ GcOnly
  BY DEF GcStep, GcStart
<1>2. /\ gc'.pc = "iterate" /\ gc'.left = I /\ gc'.pos = 0
      /\ gc'.old = {dir[p] : p \in I}
  BY DEF GcStart, NoGc
<1>3. UNCHANGED <<dir, backup>>
  BY <1>1 DEF GcOnly
<1>4. (\A s \in gc.old : \E p \in Path : dir[p] = s /\ Indexed(p))'
  BY <1>2, <1>3 DEF Indexed
<1>5. ASSUME NEW p \in Path, dir[p] \in gc'.old PROVE p \in gc'.left
  <2>1. PICK q \in I : dir[q] = dir[p]
    BY <1>2, <1>5
  <2>2. q = p
    BY <2>1 DEF MoveInv, ContentInv, Indexed
  <2> QED
    BY <1>2, <2>1, <2>2
<1>6. MarkInv'
  <2> HIDE DEF I
  <2> QED
    BY <1>2, <1>3, <1>4, <1>5 DEF MarkInv, Iterating, WillBeMarked
<1>7. OldMarked'
  BY <1>2 DEF OldMarked
<1> QED
  BY <1>1, <1>6, <1>7, GcOnlyKeeps

(* The iteration: what leaves the listing is marked, or was not there. *)
LEMMA GcIterateKeeps ==
  ASSUME MoveInv, GcStep, GcOnly, UNCHANGED exposed,
         \/ \E n \in Ns : GcNextGroup(n)
         \/ GcListGroup
         \/ \E t \in Time : GcMark(t) \/ GcVanished(t)
         \/ GcGroupDone
         \/ GcIterated
         \/ \E p \in Path : GcMarkStrange(p)
  PROVE  MoveInv'
<1> DEFINE Goal == /\ Iterating /\ Iterating'
                   /\ gc'.pos = gc.pos /\ gc'.old = gc.old /\ gc.marked \subseteq gc'.marked
                   /\ \A p \in gc.left : p \in gc'.left \/ dir[p] \in gc'.marked \/ ~Indexed(p)
<1>1. gc \in Collection
  BY DEF MoveInv, TypeOK, GcType
<1>2. ASSUME NEW n \in Ns, GcNextGroup(n) PROVE Goal
  BY ZenonT(60), <1>1, <1>2 DEF GcNextGroup, Collection, Iterating
<1>3. ASSUME gc' = GcIterate, Iterating PROVE Goal
  BY <1>1, <1>3 DEF GcIterate, Collection, Iterating
<1>4. ASSUME GcListGroup PROVE Goal
  <2>1. gc.pc = "list"
    BY <1>4 DEF GcListGroup
  <2>2. CASE gc' = GcIterate
    BY <1>3, <2>1, <2>2 DEF Iterating
  <2>3. CASE gc' # GcIterate
    <3>1. /\ gc'.pc = "group" /\ gc'.pos = gc.pos /\ gc'.old = gc.old
          /\ gc'.marked = gc.marked /\ gc'.left = gc.left
      BY <1>1, <1>4, <2>3 DEF GcListGroup, Collection
    <3> QED
      BY <2>1, <3>1 DEF Iterating
  <2> QED
    BY <2>2, <2>3
<1>5. ASSUME NEW t \in Time, GcMark(t) PROVE Goal
  <2> DEFINE q == <<gc.cur, t>>
  <2>1. /\ gc.pc = "group" /\ gc'.pc = "group" /\ gc'.pos = gc.pos /\ gc'.old = gc.old
        /\ gc'.marked = gc.marked \cup {dir[q]} /\ gc'.left = gc.left \ {q}
    BY <1>1, <1>5 DEF GcMark, Collection
  <2> HIDE DEF q
  <2> QED
    BY <2>1 DEF Iterating
<1>6. ASSUME NEW t \in Time, GcVanished(t) PROVE Goal
  <2> DEFINE q == <<gc.cur, t>>
  <2>1. /\ gc.pc = "group" /\ gc'.pc \in {"list", "group"} /\ gc'.pos = gc.pos
        /\ gc'.old = gc.old /\ gc'.marked = gc.marked /\ gc'.left = gc.left \ {q}
    BY <1>1, <1>6 DEF GcVanished, Collection
  <2>2. ~Indexed(q)
    BY <1>6 DEF GcVanished
  <2> HIDE DEF q
  <2> QED
    BY <2>1, <2>2 DEF Iterating
<1>7. ASSUME GcGroupDone PROVE Goal
  BY <1>3, <1>7 DEF GcGroupDone, Iterating
<1>8. ASSUME GcIterated PROVE Goal
  BY <1>1, <1>8 DEF GcIterated, Collection, Iterating
<1>9. ASSUME NEW p \in Path, GcMarkStrange(p) PROVE Goal
  <2>1. /\ gc.pc = "strange" /\ gc'.pc = "strange" /\ gc'.pos = gc.pos /\ gc'.old = gc.old
        /\ gc'.marked = IF Indexed(p) THEN gc.marked \cup {dir[p]} ELSE gc.marked
        /\ gc'.left = gc.left \ {p}
    BY <1>1, <1>9 DEF GcMarkStrange, Collection
  <2> QED
    BY <2>1 DEF Iterating
<1>10. Goal
  BY <1>2, <1>4, <1>5, <1>6, <1>7, <1>8, <1>9
<1>11. MarkInv' /\ OldMarked'
  BY <1>10, MarkStep
<1> QED
  BY <1>11, GcOnlyKeeps

(* Locking the journal: the listing is worked off. *)
LEMMA GcLockJournalKeeps ==
  ASSUME MoveInv, GcLockJournal
  PROVE  MoveInv'
<1> USE DEF diskVars
<1>1. GcStep /\ GcOnly /\ UNCHANGED exposed
  BY DEF GcStep, GcLockJournal
<1>2. /\ gc.pc = "strange" /\ gc.left = {} /\ gc'.pc = "drain" /\ gc'.left = {}
      /\ gc'.pos = gc.pos /\ gc'.old = gc.old /\ gc'.marked = gc.marked
  BY DEF GcLockJournal, MoveInv, TypeOK, GcType, Collection
<1>3. UNCHANGED <<dir, mv, backup, journal, truncated>>
  BY <1>1 DEF GcOnly
<1>4. SamePending
  BY <1>3 DEF SamePending, AtRename, Pending, IsNext
<1>5. ASSUME NEW p \in Path, dir[p] \in gc.old \ (gc.marked \cup exposed) PROVE WillBeMarked(p)'
  BY <1>2, <1>3, <1>4, <1>5, WillKept DEF MoveInv, MarkInv, Iterating
<1>6. (\A s \in gc.old : \E p \in Path : dir[p] = s /\ Indexed(p))'
  BY <1>2, <1>3 DEF MoveInv, MarkInv, Indexed
<1>7. MarkInv' /\ OldMarked'
  BY <1>1, <1>2, <1>3, <1>5, <1>6 DEF MarkInv, OldMarked, Iterating
<1> QED
  BY <1>1, <1>7, GcOnlyKeeps

(* Draining an entry: an old snapshot at that path is marked. *)
LEMMA GcDrainKeeps ==
  ASSUME MoveInv, GcDrain
  PROVE  MoveInv'
<1> USE DEF diskVars
<1> DEFINE p == journal[gc.pos + 1]
<1>1. GcStep /\ GcOnly /\ UNCHANGED exposed
  BY DEF GcStep, GcDrain
<1>2. /\ gc.pc = "drain" /\ gc'.pc = "drain" /\ gc'.left = gc.left
      /\ gc'.pos = gc.pos + 1 /\ gc'.old = gc.old
      /\ gc'.marked = IF Indexed(p) THEN gc.marked \cup {dir[p]} ELSE gc.marked
      /\ gc.pos \in Nat
  BY DEF GcDrain, MoveInv, TypeOK, GcType, Collection
<1>3. UNCHANGED <<dir, mv, backup, journal, truncated>>
  BY <1>1 DEF GcOnly
<1>4. gc.left = {}
  BY <1>2 DEF MoveInv, MarkInv
<1>5. ASSUME NEW q \in Path, dir[q] \in gc.old \ (gc'.marked \cup exposed) PROVE WillBeMarked(q)'
  <2>1. Indexed(q)
    BY <1>5, OldIndexed
  <2>2. q # p
    BY <1>2, <1>5, <2>1
  <2>3. dir[q] \notin gc.marked
    BY <1>2, <1>5
  <2>4. WillBeMarked(q)
    BY <1>2, <1>5, <2>3 DEF MoveInv, MarkInv
  <2>5. PICK k \in 1 .. Len(journal) :
           /\ k > gc.pos /\ journal[k] = q
           /\ \A m \in Mover \ truncated, t \in Time :
                 AtRename(m, t) /\ OldPath(m, t) = q => Ahead(NewPath(m, t), k)
    BY <1>4, <2>4 DEF WillBeMarked
  <2>6. k > gc'.pos
    <3>1. k # gc.pos + 1
      BY <2>2, <2>5
    <3> QED
      BY <1>2, <2>5, <3>1
  <2>7. SamePending
    BY <1>3 DEF SamePending, AtRename, Pending, IsNext
  <2> HIDE DEF p
  <2> QED
    BY <1>3, <2>5, <2>6, <2>7, EntryKept
<1>6. (\A s \in gc.old : \E q \in Path : dir[q] = s /\ Indexed(q))'
  BY <1>2, <1>3 DEF MoveInv, MarkInv, Indexed
<1> HIDE DEF p
<1>7. MarkInv' /\ OldMarked'
  BY <1>1, <1>2, <1>3, <1>4, <1>5, <1>6 DEF MarkInv, OldMarked, Iterating
<1> QED
  BY <1>1, <1>7, GcOnlyKeeps

(* Dropping the journal: no old snapshot is without a mark any more, and   *)
(* the moves that have recorded but not renamed are known.                 *)
LEMMA GcTruncateKeeps ==
  ASSUME MoveInv, GcTruncate
  PROVE  MoveInv'
<1> USE DEF diskVars
<1>1. UNCHANGED <<dir, object, mv, backup, alive, exposed>>
  BY DEF GcTruncate
<1>2. /\ gc.pc = "drain" /\ gc.pos = Len(journal) /\ gc'.pc = "sweep"
      /\ gc'.old = gc.old /\ gc'.marked = gc.marked /\ gc.pos \in Nat
  BY DEF GcTruncate, MoveInv, TypeOK, GcType, Collection
<1>3. TypeOK'
  BY GcTypeOK DEF GcStep
<1>4. LockInv' /\ ContentInv' /\ Backed'
  BY <1>1 DEF MoveInv, LockInv, ContentInv, Backed, Holds, HoldsSource, HoldsTarget
<1>5. \A k \in Mover : MoverOK(k)' /\ (Moving(k) => MergeInvariants(mv[k].src, mv[k].dst))'
  BY <1>1, Undisturbed
<1>6. EntryInv'
  <2>1. \A m \in Mover \ truncated' : ~Pending(m)'
    BY <1>1 DEF GcTruncate, Pending
  <2> QED
    BY <2>1 DEF EntryInv, AtRename
<1>7. \A p \in Path : ~WillBeMarked(p)
  <2>1. gc.left = {}
    BY <1>2 DEF MoveInv, MarkInv
  <2>2. \A k \in 1 .. Len(journal) : ~(k > gc.pos)
    BY <1>2
  <2> QED
    BY <2>1, <2>2 DEF WillBeMarked
<1>8. OldMarked'
  <2>1. ASSUME NEW s \in gc.old PROVE s \in gc.marked \cup exposed
    <3>1. PICK p \in Path : dir[p] = s
      BY DEF MoveInv, MarkInv
    <3> QED
      BY <1>2, <1>7, <3>1 DEF MoveInv, MarkInv
  <2> QED
    BY <1>1, <1>2, <2>1 DEF OldMarked
<1>9. MarkInv'
  <2>1. (\A s \in gc.old : \E q \in Path : dir[q] = s /\ Indexed(q))'
    BY <1>1, <1>2 DEF MoveInv, MarkInv, Indexed
  <2> QED
    BY <1>2, <2>1 DEF MarkInv, Iterating
<1> QED
  BY <1>3, <1>4, <1>5, <1>6, <1>8, <1>9 DEF MoveInv, MovedOlder

(* The end: there is nothing to mark. *)
LEMMA GcEndKeeps ==
  ASSUME MoveInv, GcEnd
  PROVE  MoveInv'
<1>1. GcStep /\ GcOnly
  BY DEF GcStep, GcEnd
<1>2. gc'.pc = "idle" /\ gc'.old = {}
  BY DEF GcEnd, NoGc
<1>3. MarkInv' /\ OldMarked'
  BY <1>2 DEF MarkInv, OldMarked, Iterating
<1> QED
  BY <1>1, <1>3, GcOnlyKeeps

(* Every step of the collection keeps the invariant. *)
LEMMA GcStepKeeps ==
  ASSUME MoveInv, GcStep
  PROVE  MoveInv'
<1>1. CASE GcStart
  BY <1>1, GcStartKeeps
<1>2. ASSUME NEW n \in Ns, GcNextGroup(n) PROVE MoveInv'
  BY <1>2, GcIterateKeeps DEF GcNextGroup
<1>3. CASE GcListGroup
  BY <1>3, GcIterateKeeps DEF GcListGroup
<1>4. ASSUME NEW t \in Time, GcMark(t) \/ GcVanished(t) PROVE MoveInv'
  BY <1>4, GcIterateKeeps DEF GcMark, GcVanished
<1>5. CASE GcGroupDone
  BY <1>5, GcIterateKeeps DEF GcGroupDone
<1>6. CASE GcIterated
  BY <1>6, GcIterateKeeps DEF GcIterated
<1>7. ASSUME NEW p \in Path, GcMarkStrange(p) PROVE MoveInv'
  BY <1>7, GcIterateKeeps DEF GcMarkStrange
<1> QED
  BY <1>1, <1>2, <1>3, <1>4, <1>5, <1>6, <1>7, GcLockJournalKeeps, GcDrainKeeps, GcTruncateKeeps,
     GcEndKeeps DEF GcStep

-----------------------------------------------------------------------------
(* The theorems *)

(* Initially no move, no backup and no collection goes on. *)
LEMMA InitMoveInv == Init => MoveInv
<1> SUFFICES ASSUME Init PROVE MoveInv
  OBVIOUS
<1>1. TypeOK
  BY InitTypeOK
<1>2. /\ \A m \in Mover : mv[m].pc = "idle" /\ mv[m].batch = {}
      /\ \A n \in Ns : backup[n] = None
      /\ gc.pc = "idle" /\ gc.old = {}
      /\ alive = {dir[p] : p \in Path} \ {None}
      /\ \A p, q \in Path : dir[p] = dir[q] => p = q \/ dir[p] = None
  BY DEF Init, NoMove, NoGc
<1>3. LockInv
  BY <1>2 DEF LockInv, Holds, HoldsSource, HoldsTarget
<1>4. ContentInv
  BY <1>2 DEF ContentInv
<1>5. \A m \in Mover : MoverOK(m) /\ ~Moving(m) /\ ~Pending(m)
  BY <1>2 DEF MoverOK, Moving, Pending, IsNext
<1>6. Backed
  BY DEF Init, Backed
<1>7. MovedOlder /\ EntryInv
  BY <1>5 DEF MovedOlder, EntryInv, AtRename
<1>8. MarkInv /\ OldMarked
  BY <1>2 DEF MarkInv, OldMarked, Iterating
<1> QED
  BY <1>1, <1>3, <1>4, <1>5, <1>6, <1>7, <1>8 DEF MoveInv

(* Stuttering keeps the invariant. *)
LEMMA StutterKeeps ==
  ASSUME MoveInv, UNCHANGED vars
  PROVE  MoveInv'
<1> USE DEF vars, diskVars, ghostVars
<1>1. TypeOK'
  BY NextTypeOK
<1>2. LockInv' /\ ContentInv' /\ Backed'
  BY DEF MoveInv, LockInv, ContentInv, Backed, Holds, HoldsSource, HoldsTarget
<1>3. \A k \in Mover : MoverOK(k)' /\ (Moving(k) => MergeInvariants(mv[k].src, mv[k].dst))'
  BY Undisturbed
<1>4. SamePending
  BY DEF SamePending, AtRename, Pending, IsNext
<1>5. EntryInv'
  BY <1>4, EntriesKept DEF MoveInv
<1>6. MarkInv' /\ OldMarked'
  BY <1>4, MarksKept DEF SameMarks
<1> QED
  BY <1>1, <1>2, <1>3, <1>5, <1>6 DEF MoveInv, MovedOlder

(* The invariant holds in every state of every behaviour, for any number   *)
(* of namespaces, moves, backups and collections: in particular the locks  *)
(* of lock_and_move_group, of backups and of prunes exclude each other.    *)
THEOREM MoveInvariance == Spec => []MoveInv
<1>1. Init => MoveInv
  BY InitMoveInv
<1>2. MoveInv /\ [Next]_vars => MoveInv'
  BY MoveStepKeeps, BackupStepKeeps, GcStepKeeps, StutterKeeps DEF Next
<1> QED
  BY <1>1, <1>2, PTL DEF Spec

(* Only a prune removes a finished snapshot: a move that ends, fails or is *)
(* killed at any step loses and duplicates none, keeps the objects of each *)
(* under its path, and leaves a split in time (lock_and_move_group,        *)
(* BackupDir::move_to, BackupGroup::destroy).                              *)
THEOREM MovesKeepSnapshots == Spec => [](NoneLost /\ Backed /\ MovedOlder)
<1>1. MoveInv => NoneLost
  <2> SUFFICES ASSUME MoveInv, NEW s \in alive
               PROVE  \E p \in Path : dir[p] = s /\ \A q \in Path : dir[q] = s => q = p
    BY DEF NoneLost
  <2>1. PICK p \in Path : dir[p] = s
    BY DEF MoveInv, ContentInv
  <2>2. s # None
    BY NoneAssumption DEF MoveInv, TypeOK, OtherType
  <2> QED
    BY <2>1, <2>2 DEF MoveInv, ContentInv
<1>2. MoveInv => NoneLost /\ Backed /\ MovedOlder
  BY <1>1 DEF MoveInv
<1> QED
  BY <1>2, MoveInvariance, PTL

(* The collection that sweeps has marked every snapshot that was there     *)
(* when it started and still is, wherever it was moved meanwhile, but for  *)
(* those whose entry an earlier collection had dropped before the rename   *)
(* (mark_used_chunks, drain_move_journal).                                 *)
THEOREM MovedSnapshotsMarked == Spec => []OldMarked
<1>1. MoveInv => OldMarked
  BY DEF MoveInv
<1> QED
  BY <1>1, MoveInvariance, PTL

=============================================================================
