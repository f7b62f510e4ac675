------------------------- MODULE DatastoreGCProofs -------------------------
(* Theorems about DatastoreGC, for any groups, backup times, chunks,        *)
(* processes, cutoff and retry limit.                                       *)
EXTENDS DatastoreGC, TLAPS

-----------------------------------------------------------------------------
(* Type correctness *)

LEMMA IdleTypes == IdleSession \in Session /\ IdleCollection \in Collection
  BY GcAssumption DEF IdleSession, IdleCollection, Session, Collection

LEMMA InitTypeOK == Init => TypeOK
  BY IdleTypes DEF Init, TypeOK, IdleSession, IdleCollection

(* A session whose state is replaced by a well-typed one. *)
LEMMA SessionUpdate ==
    ASSUME TypeOK, NEW g \in Group, NEW x \in Session,
           x.pc # "idle" => x.slot \in Slot,
           sess' = [sess EXCEPT ![g] = x]
    PROVE  /\ sess' \in [Group -> Session]
           /\ \A h \in Group : sess'[h].pc # "idle" => sess'[h].slot \in Slot
  BY DEF TypeOK

(* What a removed snapshot directory leaves. *)
LEMMA RemoveDirType ==
    ASSUME TypeOK, NEW g \in Group, NEW s \in Slot, RemoveDir(g, s)
    PROVE  /\ dirs' \in [Group -> SUBSET Slot]
           /\ indexed' \in [Group -> SUBSET Slot]
           /\ finished' \in [Group -> SUBSET Slot]
           /\ index' \in [Group -> [Slot -> SUBSET Chunk]]
  BY DEF TypeOK, RemoveDir

LEMMA SessionTypeOK ==
    ASSUME TypeOK, NEW g \in Group, SessionNext(g)
    PROVE  TypeOK'
<1> DEFINE x == sess[g]
<1>0. x \in Session /\ (x.pc # "idle" => x.slot \in Slot)
  BY DEF TypeOK
<1>1. ASSUME NEW p \in Process, NEW s \in Slot, NEW b \in Slot \cup {NoSlot},
             StartBackup(g, p, s, b)
      PROVE  TypeOK'
  <2> DEFINE y == [IdleSession EXCEPT !.pc = "group", !.proc = p, !.slot = s, !.base = b]
  <2>1. y \in Session /\ y.slot \in Slot
    BY IdleTypes DEF Session, IdleSession
  <2> HIDE DEF y
  <2>2. sess' = [sess EXCEPT ![g] = y]
    BY <1>1 DEF StartBackup, y
  <2> QED BY <1>1, <2>1, <2>2, SessionUpdate DEF StartBackup, TypeOK, snapVars
<1>2. CASE CreateBackupDir(g)
  <2> DEFINE y == [x EXCEPT !.pc = "dir", !.baseGuard = (x.base # NoSlot)]
  <2>1. y \in Session /\ y.slot \in Slot /\ x.slot \in Slot
    BY <1>0, <1>2 DEF Session, CreateBackupDir
  <2>2. sess' = [sess EXCEPT ![g] = y]
    BY <1>2 DEF CreateBackupDir
  <2> HIDE DEF y
  <2>3. exposed' \in [Group -> SUBSET Exposure]
    BY <1>2 DEF CreateBackupDir, Expose, Exposure, TypeOK
  <2> QED BY <1>2, <2>1, <2>2, <2>3, SessionUpdate DEF CreateBackupDir, TypeOK
<1>3. CASE LockChunkStore(g)
  <2> DEFINE y == [x EXCEPT !.pc = "active", !.started = now, !.storeGuard = TRUE]
  <2>1. y \in Session /\ y.slot \in Slot
    BY <1>0, <1>3 DEF Session, LockChunkStore, TypeOK
  <2>2. sess' = [sess EXCEPT ![g] = y]
    BY <1>3 DEF LockChunkStore
  <2> HIDE DEF y
  <2> QED BY <1>3, <2>1, <2>2, SessionUpdate DEF LockChunkStore, TypeOK, snapVars
<1>4. CASE FailSetup(g)
  <2>1. sess' = [sess EXCEPT ![g] = IdleSession] /\ IdleSession.pc = "idle"
    BY <1>4 DEF FailSetup, IdleSession
  <2> QED BY <1>4, <2>1, IdleTypes, SessionUpdate DEF FailSetup, TypeOK, snapVars
<1>5. ASSUME NEW c \in Chunk, UploadChunk(g, c) PROVE TypeOK'
  <2> DEFINE y == [x EXCEPT !.known = x.known \cup {c}]
  <2>1. y \in Session /\ y.slot \in Slot
    BY <1>0, <1>5 DEF Session, UploadChunk
  <2>2. sess' = [sess EXCEPT ![g] = y]
    BY <1>5 DEF UploadChunk
  <2> HIDE DEF y
  <2> QED BY <1>5, <2>1, <2>2, SessionUpdate DEF UploadChunk, TypeOK, snapVars
<1>6. CASE DownloadPrevious(g)
  <2> DEFINE y == [x EXCEPT !.known = x.known \cup index[g][x.base]]
  <2>0. index[g][x.base] \subseteq Chunk
    BY <1>6 DEF DownloadPrevious, TypeOK
  <2>1. y \in Session /\ y.slot \in Slot
    BY <1>0, <1>6, <2>0 DEF Session, DownloadPrevious
  <2>2. sess' = [sess EXCEPT ![g] = y]
    BY <1>6 DEF DownloadPrevious
  <2> HIDE DEF y
  <2> QED BY <1>6, <2>1, <2>2, SessionUpdate DEF DownloadPrevious, TypeOK, snapVars
<1>7. ASSUME NEW S \in SUBSET Chunk, CreateIndex(g, S) PROVE TypeOK'
  <2> DEFINE y == [x EXCEPT !.open = TRUE, !.writer = S]
  <2>1. y \in Session /\ y.slot \in Slot
    BY <1>0, <1>7 DEF Session, CreateIndex
  <2>2. sess' = [sess EXCEPT ![g] = y]
    BY <1>7 DEF CreateIndex
  <2> HIDE DEF y
  <2> QED BY <1>7, <2>1, <2>2, SessionUpdate DEF CreateIndex, TypeOK, snapVars
<1>8. ASSUME NEW c \in Chunk, AppendChunk(g, c) PROVE TypeOK'
  <2> DEFINE y == [x EXCEPT !.writer = x.writer \cup {c}]
  <2>1. y \in Session /\ y.slot \in Slot
    BY <1>0, <1>8 DEF Session, AppendChunk
  <2>2. sess' = [sess EXCEPT ![g] = y]
    BY <1>8 DEF AppendChunk
  <2> HIDE DEF y
  <2> QED BY <1>8, <2>1, <2>2, SessionUpdate DEF AppendChunk, TypeOK, snapVars
<1>9. CASE CloseIndex(g)
  <2> DEFINE y == [x EXCEPT !.open = FALSE, !.writer = {}]
  <2>1. y \in Session /\ y.slot \in Slot /\ x.slot \in Slot /\ x.writer \subseteq Chunk
    BY <1>0, <1>9 DEF Session, CloseIndex
  <2>2. sess' = [sess EXCEPT ![g] = y]
    BY <1>9 DEF CloseIndex
  <2> HIDE DEF y
  <2> QED BY <1>9, <2>1, <2>2, SessionUpdate DEF CloseIndex, TypeOK
<1>10. ASSUME GiveUpBase(g)
       PROVE  /\ gc' \in Collection /\ gc'.pc = gc.pc
              /\ gc'.group = gc.group /\ gc'.retries = gc.retries
  BY ZenonT(60), <1>0, <1>10 DEF GiveUpBase, Collection, Session, TypeOK
<1>11. CASE FinishBackup(g)
  <2> DEFINE y == [x EXCEPT !.pc = "finishing", !.known = {},
                            !.storeGuard = FALSE, !.baseGuard = FALSE]
  <2>1. y \in Session /\ y.slot \in Slot
    BY <1>0, <1>11 DEF Session, FinishBackup, FinishAllowed
  <2>2. sess' = [sess EXCEPT ![g] = y]
    BY <1>11 DEF FinishBackup
  <2> HIDE DEF y
  <2> QED BY <1>10, <1>11, <2>1, <2>2, SessionUpdate DEF FinishBackup, TypeOK, snapVars
<1>12. CASE RejectManifest(g)
  <2> DEFINE y == [x EXCEPT !.storeGuard = FALSE, !.baseGuard = FALSE]
  <2>1. y \in Session /\ y.slot \in Slot
    BY <1>0, <1>12 DEF Session, RejectManifest, FinishAllowed
  <2>2. sess' = [sess EXCEPT ![g] = y]
    BY <1>12 DEF RejectManifest
  <2> HIDE DEF y
  <2>3. exposed' \in [Group -> SUBSET Exposure]
    BY <1>12 DEF RejectManifest, Expose, Exposure, TypeOK
  <2> QED BY <1>10, <1>12, <2>1, <2>2, <2>3, SessionUpdate DEF RejectManifest, TypeOK, snapVars
<1>13. CASE PersistManifest(g)
  BY <1>0, <1>13 DEF PersistManifest, TypeOK
<1>14. CASE CompleteFinish(g)
  <2>1. sess' = [sess EXCEPT ![g] = IdleSession] /\ IdleSession.pc = "idle"
    BY <1>14 DEF CompleteFinish, IdleSession
  <2> QED BY <1>14, <2>1, IdleTypes, SessionUpdate DEF CompleteFinish, TypeOK, snapVars
<1>15. CASE AbortBackup(g)
  <2>1. sess' = [sess EXCEPT ![g] = IdleSession] /\ IdleSession.pc = "idle"
    BY <1>15 DEF AbortBackup, IdleSession
  <2>2. x.slot \in Slot /\ RemoveDir(g, x.slot)
    BY <1>0, <1>15 DEF AbortBackup
  <2> QED BY <1>15, <2>1, <2>2, IdleTypes, SessionUpdate, RemoveDirType
          DEF AbortBackup, TypeOK
<1> QED
  BY <1>1, <1>2, <1>3, <1>4, <1>5, <1>6, <1>7, <1>8, <1>9, <1>11, <1>12, <1>13,
     <1>14, <1>15 DEF SessionNext

(* A collection whose state is replaced by a well-typed one, while the     *)
(* sessions and snapshots stay as they are.                                *)
LEMMA CollectionUpdate ==
    ASSUME TypeOK, NEW y \in Collection,
           y.pc \in {"group", "mark"} => y.group \in Group,
           y.pc = "mark" => y.retries <= MaxRetries,
           gc' = y, store' \subseteq Chunk, atime' \in [Chunk -> Nat],
           exposed' \in [Group -> SUBSET Exposure],
           UNCHANGED <<now, snapVars, sess>>
    PROVE  TypeOK'
  BY DEF TypeOK, snapVars

LEMMA TouchType ==
    ASSUME TypeOK, NEW S, Touch(S)
    PROVE  atime' \in [Chunk -> Nat]
  BY DEF TypeOK, Touch

LEMMA GcTypeOK ==
    ASSUME TypeOK, GcStep \/ GcAbort \/ \E p \in Process : GcStart(p)
    PROVE  TypeOK'
<1>0. gc \in Collection /\ (gc.pc \in {"group", "mark"} => gc.group \in Group)
      /\ (gc.pc = "mark" => gc.retries <= MaxRetries)
      /\ store \subseteq Chunk /\ atime \in [Chunk -> Nat] /\ now \in Nat
      /\ exposed \in [Group -> SUBSET Exposure]
  BY DEF TypeOK
<1>1. ASSUME gc' \in Collection, gc'.pc \in {"group", "mark"} => gc'.group \in Group,
             gc'.pc = "mark" => gc'.retries <= MaxRetries,
             store' \subseteq Chunk, atime' \in [Chunk -> Nat],
             exposed' \in [Group -> SUBSET Exposure],
             UNCHANGED <<now, snapVars, sess>>
      PROVE  TypeOK'
  BY <1>1, CollectionUpdate
<1>2. ASSUME NEW p \in Process, GcStart(p) PROVE TypeOK'
  <2>1. PICK t \in 0 .. now :
           gc' = [IdleCollection EXCEPT !.pc = "list", !.proc = p, !.minAtime = MinAtime(t)]
    BY <1>2 DEF GcStart
  <2>2. MinAtime(t) \in Int
    BY <1>0, TimeAssumption DEF MinAtime
  <2>3. gc' \in Collection /\ gc'.pc = "list"
    BY ZenonT(60), <2>1, <2>2, IdleTypes DEF Collection, IdleCollection
  <2> QED BY <1>0, <1>1, <1>2, <2>3 DEF GcStart
<1>3. ASSUME NEW T \in SUBSET Group, GcListIndexFiles(T) PROVE TypeOK'
  <2>1. gc' \in Collection /\ gc'.pc = "groups"
    BY ZenonT(60), <1>0, <1>3 DEF GcListIndexFiles, Collection
  <2> QED BY <1>0, <1>1, <1>3, <2>1 DEF GcListIndexFiles
<1>4. ASSUME NEW g \in Group, GcNextGroup(g) PROVE TypeOK'
  <2>1. 0 \in 0 .. MaxRetries + 1
    BY GcAssumption
  <2>2. gc' \in Collection /\ gc'.group \in Group /\ gc'.pc = "group"
    BY <1>0, <1>4, <2>1 DEF GcNextGroup, Collection
  <2> QED BY <1>0, <1>1, <1>4, <2>2 DEF GcNextGroup
<1>5. CASE GcListGroup
  <2>1. gc.group \in Group /\ dirs[gc.group] \subseteq Slot /\ indexed[gc.group] \subseteq Slot
    BY <1>5 DEF GcListGroup, TypeOK
  <2> DEFINE full == (gc.retries = MaxRetries)
  <2>2. full \in BOOLEAN
    OBVIOUS
  <2>3. gc' = [gc EXCEPT !.pc = "mark", !.rem = dirs[gc.group], !.files = indexed[gc.group],
                 !.first = TRUE, !.bases = {}, !.lock = full]
    BY <1>5 DEF GcListGroup
  <2>4. gc.retries <= MaxRetries
    BY <1>0, <1>5, GcAssumption DEF GcListGroup, Collection
  <2> HIDE DEF full
  <2>5. gc' \in Collection /\ gc'.group \in Group /\ gc'.retries = gc.retries
    BY <1>0, <2>1, <2>2, <2>3 DEF Collection
  <2> QED BY <1>0, <1>1, <1>5, <2>4, <2>5 DEF GcListGroup
<1>6. CASE GcGiveUpGroup
  BY <1>0, <1>1, <1>6, IdleTypes DEF GcGiveUpGroup, IdleCollection
<1>7. ASSUME NEW s \in Slot, GcSkipSnapshot(s) PROVE TypeOK'
  <2>1. gc' \in Collection /\ gc'.group \in Group /\ gc'.retries = gc.retries
    BY ZenonT(60), <1>0, <1>7 DEF GcSkipSnapshot, Newest, Collection
  <2> QED BY <1>0, <1>1, <1>7, <2>1 DEF GcSkipSnapshot, Newest
<1>8. ASSUME NEW s \in Slot, gc.pc = "mark"
      PROVE  Visited(s) \in Collection /\ Visited(s).group \in Group
             /\ Visited(s).retries <= MaxRetries
  BY <1>0, <1>8 DEF Visited, Collection
<1>9. ASSUME NEW S \in SUBSET Chunk PROVE Cached(S) \subseteq Chunk
  BY <1>0 DEF Cached, Collection
<1>10. ASSUME NEW s \in Slot, GcMarkIndex(s) PROVE TypeOK'
  <2>1. index[gc.group][s] \subseteq Chunk
    BY <1>0, <1>10 DEF GcMarkIndex, Newest, TypeOK
  <2>2. gc' \in Collection /\ gc'.group \in Group /\ gc'.retries <= MaxRetries
    BY <1>8, <1>9, <1>10, <2>1 DEF GcMarkIndex, Newest, Collection
  <2>3. atime' \in [Chunk -> Nat]
    BY <1>10, TouchType DEF GcMarkIndex
  <2> QED BY <1>0, <1>1, <1>10, <2>2, <2>3 DEF GcMarkIndex
<1>11. ASSUME NEW s \in Slot, GcRetryGroup(s) PROVE TypeOK'
  <2>1. gc.pc = "mark" /\ gc.retries + 1 \in 0 .. MaxRetries + 1
    BY <1>0, <1>11, GcAssumption DEF GcRetryGroup, Newest, Collection
  <2>2. gc' \in Collection /\ gc'.group \in Group /\ gc'.pc = "group"
    BY <1>0, <1>11, <2>1 DEF GcRetryGroup, Collection
  <2> QED BY <1>0, <1>1, <1>11, <2>2 DEF GcRetryGroup
<1>12. ASSUME NEW s \in Slot, GcSkipVanished(s) PROVE TypeOK'
  <2>1. exposed' \in [Group -> SUBSET Exposure]
    BY <1>0, <1>12 DEF GcSkipVanished, Expose, Exposure
  <2> QED BY <1>0, <1>1, <1>8, <1>12, <2>1 DEF GcSkipVanished, Newest
<1>13. CASE GcGroupDone
  <2>1. gc' \in Collection /\ gc'.pc = "groups"
    BY <1>0, <1>13 DEF GcGroupDone, Collection
  <2> QED BY <1>0, <1>1, <1>13, <2>1 DEF GcGroupDone
<1>14. ASSUME NEW g \in Group, NEW s \in Slot, GcMarkStrange(g, s) PROVE TypeOK'
  <2>1. index[g][s] \subseteq Chunk
    BY DEF TypeOK
  <2>2. gc' \in Collection /\ gc'.pc = "groups"
    BY <1>0, <1>9, <1>14, <2>1 DEF GcMarkStrange, Collection
  <2>3. atime' \in [Chunk -> Nat]
    BY <1>14, TouchType DEF GcMarkStrange
  <2> QED BY <1>0, <1>1, <1>14, <2>2, <2>3 DEF GcMarkStrange
<1>15. CASE GcStartSweep
  <2>1. gc' \in Collection /\ gc'.pc = "sweep"
    BY <1>0, <1>15 DEF GcStartSweep, Collection
  <2> QED BY <1>0, <1>1, <1>15, <2>1 DEF GcStartSweep
<1>16. ASSUME NEW c \in Chunk, GcSweepChunk(c) PROVE TypeOK'
  <2>1. gc' \in Collection /\ gc'.pc = "sweep"
    BY <1>0, <1>16 DEF GcSweepChunk, Collection
  <2>2. store' \subseteq Chunk /\ atime' \in [Chunk -> Nat]
    BY <1>0, <1>16 DEF GcSweepChunk
  <2> QED BY <1>0, <1>1, <1>16, <2>1, <2>2 DEF GcSweepChunk
<1>17. CASE GcFinish
  BY <1>0, <1>1, <1>17, IdleTypes DEF GcFinish, IdleCollection
<1>18. CASE GcAbort
  BY <1>0, <1>1, <1>18, IdleTypes DEF GcAbort, IdleCollection
<1> QED
  BY <1>2, <1>3, <1>4, <1>5, <1>6, <1>7, <1>10, <1>11, <1>12, <1>13, <1>14, <1>15,
     <1>16, <1>17, <1>18 DEF GcStep

LEMMA NextTypeOK == TypeOK /\ [Next]_vars => TypeOK'
<1> SUFFICES ASSUME TypeOK, [Next]_vars PROVE TypeOK'
  OBVIOUS
<1>1. ASSUME NEW g \in Group, NEW s \in Slot, Prune(g, s) PROVE TypeOK'
  BY <1>1, RemoveDirType DEF Prune, TypeOK
<1>2. CASE Tick
  BY <1>2 DEF Tick, TypeOK, snapVars
<1>3. ASSUME NEW p \in Process, Crash(p) PROVE TypeOK'
  <2>1. gc' \in Collection /\ (gc' = gc \/ gc'.pc = "idle")
    BY <1>3, IdleTypes DEF Crash, TypeOK, IdleCollection
  <2>2. /\ sess' \in [Group -> Session]
        /\ \A g \in Group : sess'[g].pc # "idle" => sess'[g].slot \in Slot
    BY <1>3, IdleTypes DEF Crash, TypeOK, IdleSession
  <2> QED BY <1>3, <2>1, <2>2 DEF Crash, TypeOK, snapVars
<1>4. CASE UNCHANGED vars
  BY <1>4 DEF vars, TypeOK
<1> QED
  BY <1>1, <1>2, <1>3, <1>4, SessionTypeOK, GcTypeOK DEF Next

(* Every reachable state is well typed; in particular the retry counter    *)
(* of mark_used_chunks never passes the value it bails at.                 *)
THEOREM TypeCorrect == Spec => []TypeOK
<1>1. Init => TypeOK
  BY InitTypeOK
<1>2. TypeOK /\ [Next]_vars => TypeOK'
  BY NextTypeOK
<1> QED BY <1>1, <1>2, PTL DEF Spec

-----------------------------------------------------------------------------

(* Garbage collection never takes a chunk that a finished snapshot or a     *)
(* running backup counts on: the proof that IndInv is inductive.            *)

-----------------------------------------------------------------------------
(* Steps of a session *)

(* A step of group g's session leaves the other groups' sessions alone. *)
LEMMA OtherSessions ==
    ASSUME TypeOK, NEW g \in Group, NEW x, sess' = [sess EXCEPT ![g] = x]
    PROVE  /\ sess'[g] = x
           /\ \A h \in Group : h # g => sess'[h] = sess[h]
  BY DEF TypeOK

(* A session step that changes neither chunks, snapshots nor the           *)
(* collection keeps the invariant, if it does so for the session itself,   *)
(* no snapshot comes to life by it and an active session stays on its      *)
(* snapshot and its base.                                                  *)
LEMMA QuietSession ==
    ASSUME IndInv, TypeOK', NEW g \in Group,
           UNCHANGED <<now, store, atime, snapVars, gc, exposed>>,
           \A h \in Group : h # g => sess'[h] = sess[h],
           SessionOK(g)', KnownOK(g)',
           sess'[g].storeGuard => sess[g].storeGuard /\ sess'[g].started = sess[g].started,
           sess'[g].pc \in {"active", "finishing"} =>
               /\ sess[g].pc = sess'[g].pc
               /\ sess[g].slot = sess'[g].slot,
           sess[g].pc = "active" => sess'[g].pc = "active" /\ sess'[g].base = sess[g].base,
           sess'[g].pc # "dir"
    PROVE  IndInv'
<1>1. DirInv' /\ GcPhaseInv'
  BY DEF IndInv, DirInv, GcPhaseInv, snapVars
<1>2. SessionInv'
  BY DEF IndInv, SessionInv, SessionOK, snapVars
<1>3. KnownInv'
  BY DEF IndInv, KnownInv, KnownOK, snapVars
<1>4. CutoffInv'
  BY DEF IndInv, CutoffInv, GcRunning
<1>5. \A h \in Group, s \in Slot : Live(h, s)' => Live(h, s)
  BY DEF Live, snapVars
<1>6. StoreInv'
  BY <1>5 DEF IndInv, StoreInv, snapVars
<1>7. CoverageInv'
  <2>1. ASSUME NEW h \in Group, NEW s, NEW c, ToBeMarked(h, s, c)
        PROVE  ToBeMarked(h, s, c)'
    BY <2>1 DEF ToBeMarked, snapVars
  <2> QED BY <1>5, <2>1 DEF IndInv, CoverageInv, snapVars, GcRunning
<1>8. ListingInv'
  BY DEF IndInv, ListingInv, snapVars
<1> QED BY <1>1, <1>2, <1>3, <1>4, <1>6, <1>7, <1>8 DEF IndInv

LEMMA StartBackupInv ==
    ASSUME IndInv, TypeOK', NEW g \in Group, NEW p \in Process, NEW s \in Slot,
           NEW b \in Slot \cup {NoSlot}, StartBackup(g, p, s, b)
    PROVE  IndInv'
<1> DEFINE y == [IdleSession EXCEPT !.pc = "group", !.proc = p, !.slot = s, !.base = b]
<1>1. /\ y.pc = "group" /\ y.slot = s /\ y.base = b /\ y.known = {} /\ y.writer = {}
      /\ ~y.open /\ ~y.storeGuard /\ ~y.baseGuard /\ y.started = 0
  BY DEF IdleSession
<1> HIDE DEF y
<1>2. sess[g].pc = "idle" /\ sess'[g] = y /\ \A h \in Group : h # g => sess'[h] = sess[h]
  BY OtherSessions DEF StartBackup, GroupLocked, IndInv, y
<1>3. UNCHANGED <<now, store, atime, snapVars, gc, exposed>>
  BY DEF StartBackup
<1>4. s # b /\ (b \in dirs[g] => b \in finished[g])
  BY SlotAssumption DEF StartBackup, LastFinished, NoSlot, IndInv, TypeOK
<1>5. SessionOK(g)' /\ KnownOK(g)'
  BY <1>1, <1>2, <1>3, <1>4 DEF IndInv, SessionOK, KnownOK, snapVars, TypeOK
<1> QED BY <1>1, <1>2, <1>3, <1>5, QuietSession

LEMMA FailSetupInv ==
    ASSUME IndInv, TypeOK', NEW g \in Group, FailSetup(g) \/ CompleteFinish(g)
    PROVE  IndInv'
<1>1. /\ IdleSession.pc = "idle" /\ IdleSession.started = 0
      /\ ~IdleSession.open /\ ~IdleSession.storeGuard /\ ~IdleSession.baseGuard
  BY DEF IdleSession
<1>2. /\ sess[g].pc # "active" /\ sess'[g] = IdleSession
      /\ \A h \in Group : h # g => sess'[h] = sess[h]
  BY OtherSessions DEF FailSetup, CompleteFinish, IndInv
<1>3. UNCHANGED <<now, store, atime, snapVars, gc, exposed>>
  BY DEF FailSetup, CompleteFinish
<1>4. SessionOK(g)' /\ KnownOK(g)'
  BY <1>1, <1>2, <1>3 DEF IndInv, SessionOK, KnownOK, snapVars, TypeOK
<1> QED BY <1>1, <1>2, <1>3, <1>4, QuietSession

(* An active session that gets to know chunks of its base, or appends      *)
(* known ones.                                                             *)
LEMMA ReadBaseInv ==
    ASSUME IndInv, TypeOK', NEW g \in Group,
           \/ DownloadPrevious(g)
           \/ \E S \in SUBSET Chunk : CreateIndex(g, S)
           \/ \E c \in Chunk : AppendChunk(g, c)
    PROVE  IndInv'
<1> DEFINE x == sess[g]
           y == sess'[g]
           Kept == /\ x.pc = "active" /\ y.pc = "active" /\ y.slot = x.slot /\ y.base = x.base
                   /\ y.storeGuard = x.storeGuard /\ y.baseGuard = x.baseGuard /\ y.started = x.started
                   /\ \A h \in Group : h # g => sess'[h] = sess[h]
<1>1. Kept
  <2>1. CASE DownloadPrevious(g)
    BY <2>1 DEF DownloadPrevious, IndInv, TypeOK, Session
  <2>2. ASSUME NEW S \in SUBSET Chunk, CreateIndex(g, S) PROVE Kept
    <3>1. sess' = [sess EXCEPT ![g] = [x EXCEPT !.open = TRUE, !.writer = S]]
      BY <2>2 DEF CreateIndex, IndInv, TypeOK
    <3>2. x.pc = "active" /\ x \in Session
      BY <2>2 DEF CreateIndex, IndInv, TypeOK
    <3>3. y = [x EXCEPT !.open = TRUE, !.writer = S] /\ \A h \in Group : h # g => sess'[h] = sess[h]
      BY <3>1 DEF IndInv, TypeOK
    <3> QED
      BY <3>2, <3>3 DEF Session
  <2>3. ASSUME NEW c \in Chunk, AppendChunk(g, c) PROVE Kept
    BY <2>3 DEF AppendChunk, IndInv, TypeOK, Session
  <2> QED
    BY <2>1, <2>2, <2>3
<1>2. y.open => x.open \/ x.slot \notin indexed[g]
  BY ZenonT(60) DEF DownloadPrevious, CreateIndex, AppendChunk, IndInv, TypeOK, Session
<1>3. \A c \in y.known \cup y.writer :
         \/ c \in x.known \cup x.writer
         \/ x.base \in indexed[g] /\ c \in index[g][x.base]
  <2>1. CASE DownloadPrevious(g)
    <3>1. y.known = x.known \cup index[g][x.base] /\ y.writer = x.writer
      BY <2>1 DEF DownloadPrevious, IndInv, TypeOK, Session
    <3> QED BY <2>1, <3>1 DEF DownloadPrevious
  <2>2. ASSUME NEW S \in SUBSET Chunk, CreateIndex(g, S)
        PROVE  \A c \in y.known \cup y.writer :
                  \/ c \in x.known \cup x.writer
                  \/ x.base \in indexed[g] /\ c \in index[g][x.base]
    <3>1. sess' = [sess EXCEPT ![g] = [x EXCEPT !.open = TRUE, !.writer = S]]
      BY <2>2 DEF CreateIndex, IndInv, TypeOK
    <3>2. y = [x EXCEPT !.open = TRUE, !.writer = S]
      BY <3>1 DEF IndInv, TypeOK
    <3>3. y.known = x.known /\ y.writer = S
      BY <3>2 DEF IndInv, TypeOK, Session
    <3> QED BY <2>2, <3>3 DEF CreateIndex
  <2>3. ASSUME NEW d \in Chunk, AppendChunk(g, d)
        PROVE  \A c \in y.known \cup y.writer : c \in x.known \cup x.writer
    <3>1. y.known = x.known /\ y.writer = x.writer \cup {d}
      BY <2>3 DEF AppendChunk, IndInv, TypeOK, Session
    <3> QED BY <2>3, <3>1 DEF AppendChunk
  <2> QED BY <2>1, <2>2, <2>3
<1>4. UNCHANGED <<now, store, atime, snapVars, gc, exposed>>
  BY DEF DownloadPrevious, CreateIndex, AppendChunk
<1>5. SessionOK(g)'
  BY <1>1, <1>2, <1>4 DEF IndInv, SessionInv, SessionOK, snapVars
<1>6. KnownOK(g)'
  BY <1>1, <1>3, <1>4 DEF IndInv, KnownInv, KnownOK, snapVars
<1> QED BY <1>1, <1>4, <1>5, <1>6, QuietSession

LEMMA CreateBackupDirInv ==
    ASSUME IndInv, TypeOK', NEW g \in Group, CreateBackupDir(g)
    PROVE  IndInv'
<1> DEFINE x == sess[g]
           y == [x EXCEPT !.pc = "dir", !.baseGuard = (x.base # NoSlot)]
<1>1. /\ y.pc = "dir" /\ y.slot = x.slot /\ y.base = x.base /\ y.known = x.known
      /\ y.writer = x.writer /\ y.open = x.open /\ y.storeGuard = x.storeGuard
      /\ y.started = x.started /\ y.baseGuard = (x.base # NoSlot)
  BY DEF IndInv, TypeOK, Session
<1>0. x.base = NoSlot \/ y.baseGuard
  BY Zenon, <1>1
<1> HIDE DEF y
<1>2. x.pc = "group" /\ sess'[g] = y /\ \A h \in Group : h # g => sess'[h] = sess[h]
  <2>1. sess' = [sess EXCEPT ![g] = y]
    BY DEF CreateBackupDir, IndInv, TypeOK, y
  <2> QED BY <2>1, OtherSessions DEF CreateBackupDir, IndInv
<1>3. /\ UNCHANGED <<now, store, atime, indexed, finished, index, gc>>
      /\ x.slot \notin dirs[g] /\ x.slot \in Slot
      /\ dirs'[g] = dirs[g] \cup {x.slot}
      /\ \A h \in Group : h # g => dirs'[h] = dirs[h]
  BY <1>2 DEF CreateBackupDir, IndInv, TypeOK
<1>4. /\ \A h \in Group : exposed'[h] = {} => exposed[h] = {}
      /\ \A h \in Group : h # g => exposed'[h] = exposed[h]
      /\ gc.pc = "mark" /\ gc.group = g /\ exposed'[g] = {} => x.slot \notin gc.rem
  BY ZenonT(60) DEF CreateBackupDir, Expose, IndInv, TypeOK
<1>5. DirInv' /\ GcPhaseInv'
  BY <1>3 DEF IndInv, DirInv, GcPhaseInv
<1>6. SessionInv'
  BY <1>0, <1>1, <1>2, <1>3, <1>4 DEF IndInv, SessionInv, SessionOK, DirInv
<1>7. KnownInv'
  BY <1>1, <1>2, <1>3, <1>4 DEF IndInv, KnownInv, KnownOK
<1>8. CutoffInv'
  BY <1>1, <1>2, <1>3 DEF IndInv, CutoffInv, GcRunning
<1>9. \A h \in Group, t \in Slot : Live(h, t)' => Live(h, t)
  BY <1>1, <1>2, <1>3 DEF Live
<1>10. StoreInv'
  BY <1>3, <1>4, <1>9 DEF IndInv, StoreInv
<1>11. CoverageInv'
  <2>1. ASSUME NEW h \in Group, NEW t, NEW c, ToBeMarked(h, t, c)
        PROVE  ToBeMarked(h, t, c)'
    BY <1>1, <1>2, <1>3, <2>1 DEF ToBeMarked
  <2> QED BY <1>3, <1>4, <1>9, <2>1 DEF IndInv, CoverageInv, GcRunning
<1>12. ListingInv'
  BY <1>1, <1>2, <1>3, <1>4 DEF IndInv, ListingInv
<1> QED BY <1>5, <1>6, <1>7, <1>8, <1>10, <1>11, <1>12 DEF IndInv

LEMMA LockChunkStoreInv ==
    ASSUME IndInv, TypeOK', NEW g \in Group, LockChunkStore(g)
    PROVE  IndInv'
<1> DEFINE x == sess[g]
           y == sess'[g]
<1>1. /\ x.pc = "dir" /\ y.pc = "active" /\ y.slot = x.slot /\ y.base = x.base
      /\ y.known = x.known /\ y.writer = x.writer /\ y.open = x.open
      /\ y.storeGuard /\ y.baseGuard = x.baseGuard /\ y.started = now
      /\ \A h \in Group : h # g => sess'[h] = sess[h]
  BY DEF LockChunkStore, IndInv, TypeOK, Session
<1>2. UNCHANGED <<now, store, atime, snapVars, gc, exposed>>
  BY DEF LockChunkStore
<1>3. DirInv' /\ GcPhaseInv'
  BY <1>2 DEF IndInv, DirInv, GcPhaseInv, snapVars
<1>4. SessionOK(g) /\ SessionOK(g)'
  BY <1>1, <1>2 DEF IndInv, SessionInv, SessionOK, snapVars, TypeOK
<1>5. SessionInv'
  BY <1>1, <1>2, <1>4 DEF IndInv, SessionInv, SessionOK, snapVars
<1>6. KnownInv'
  BY <1>1, <1>2, <1>4 DEF IndInv, KnownInv, KnownOK, SessionOK, snapVars
<1>7. CutoffInv'
  BY <1>1, <1>2 DEF IndInv, CutoffInv, GcRunning
<1>8. \A h \in Group, s \in Slot : Live(h, s)' => Live(h, s)
  BY <1>1, <1>2, <1>4 DEF Live, SessionOK, snapVars
<1>9. StoreInv'
  BY <1>2, <1>8 DEF IndInv, StoreInv, snapVars
<1>10. CoverageInv'
  <2>1. ASSUME NEW h \in Group, NEW s, NEW c, ToBeMarked(h, s, c)
        PROVE  ToBeMarked(h, s, c)'
    BY <1>1, <1>2, <2>1 DEF ToBeMarked, snapVars
  <2> QED BY <1>2, <1>8, <2>1 DEF IndInv, CoverageInv, snapVars, GcRunning
<1>11. ListingInv'
  BY <1>1, <1>2 DEF IndInv, ListingInv, snapVars
<1> QED BY <1>3, <1>5, <1>6, <1>7, <1>9, <1>10, <1>11 DEF IndInv

LEMMA UploadChunkInv ==
    ASSUME IndInv, TypeOK', NEW g \in Group, NEW d \in Chunk, UploadChunk(g, d)
    PROVE  IndInv'
<1> DEFINE x == sess[g]
           y == sess'[g]
<1>1. /\ x.pc = "active" /\ y.pc = "active" /\ y.slot = x.slot /\ y.base = x.base
      /\ y.known = x.known \cup {d} /\ y.writer = x.writer /\ y.open = x.open
      /\ y.storeGuard = x.storeGuard /\ y.baseGuard = x.baseGuard /\ y.started = x.started
      /\ \A h \in Group : h # g => sess'[h] = sess[h]
  BY DEF UploadChunk, IndInv, TypeOK, Session
<1>2. UNCHANGED <<now, snapVars, gc, exposed>> /\ store' = store \cup {d}
  BY DEF UploadChunk
<1>3. atime'[d] = now /\ \A c \in Chunk : c # d => atime'[c] = atime[c]
  BY DEF UploadChunk, IndInv, TypeOK
<1>4. DirInv' /\ GcPhaseInv'
  BY <1>2 DEF IndInv, DirInv, GcPhaseInv, snapVars
<1>5. SessionInv'
  BY <1>1, <1>2 DEF IndInv, SessionInv, SessionOK, snapVars
<1>6. KnownInv'
  <2> SUFFICES ASSUME NEW h \in Group, exposed[h] = {}, sess'[h].pc = "active",
                      NEW c \in sess'[h].known \cup sess'[h].writer
               PROVE  \/ c \in store' /\ atime'[c] >= sess'[h].started
                      \/ sess[h].base \in indexed[h] /\ c \in index[h][sess[h].base]
    BY <1>1, <1>2 DEF KnownInv, KnownOK, snapVars
  <2>1. c \in Chunk /\ sess'[h].started = sess[h].started /\ sess[h].started <= now
    BY ZenonT(60), <1>1 DEF IndInv, SessionInv, SessionOK, TypeOK, Session
  <2>2. CASE c = d
    BY <1>2, <1>3, <2>1, <2>2 DEF IndInv, TypeOK, Session
  <2>3. CASE c # d
    BY <1>1, <1>2, <1>3, <2>1, <2>3 DEF IndInv, KnownInv, KnownOK
  <2> QED BY <2>2, <2>3
<1>7. CutoffInv'
  BY ZenonT(60), <1>1, <1>2, <1>3 DEF IndInv, CutoffInv, GcRunning, TypeOK, Collection
<1>8. \A h \in Group, s \in Slot : Live(h, s)' => Live(h, s)
  BY <1>1, <1>2 DEF Live, snapVars
<1>9. StoreInv'
  BY <1>2, <1>8 DEF IndInv, StoreInv, snapVars
<1>10. CoverageInv'
  <2>1. ASSUME NEW h \in Group, NEW s, NEW c, ToBeMarked(h, s, c)
        PROVE  ToBeMarked(h, s, c)'
    BY <1>1, <1>2, <2>1 DEF ToBeMarked, snapVars
  <2>2. ASSUME GcRunning, NEW c \in Chunk, atime[c] >= gc.minAtime
        PROVE  atime'[c] >= gc.minAtime
    BY <1>3, <2>2 DEF IndInv, CutoffInv
  <2>3. \A h \in Group, s \in Slot : index[h][s] \subseteq Chunk
    BY DEF IndInv, TypeOK
  <2> QED BY <1>2, <1>8, <2>1, <2>2, <2>3 DEF IndInv, CoverageInv, snapVars, GcRunning
<1>11. ListingInv'
  BY <1>1, <1>2 DEF IndInv, ListingInv, snapVars
<1> QED BY <1>4, <1>5, <1>6, <1>7, <1>9, <1>10, <1>11 DEF IndInv

(* The index of the running backup becomes visible: what it references is  *)
(* fresh, or is covered by the base, which is still locked.                *)
LEMMA CloseIndexInv ==
    ASSUME IndInv, TypeOK', NEW g \in Group, CloseIndex(g)
    PROVE  IndInv'
<1> DEFINE x == sess[g]
           y == sess'[g]
           n == x.slot
           b == x.base
<1>1. /\ x.pc = "active" /\ x.open /\ y.pc = "active" /\ y.slot = n /\ y.base = b
      /\ y.known = x.known /\ y.writer = {} /\ ~y.open
      /\ y.storeGuard = x.storeGuard /\ y.baseGuard = x.baseGuard /\ y.started = x.started
      /\ \A h \in Group : h # g => sess'[h] = sess[h]
  BY DEF CloseIndex, IndInv, TypeOK, Session
<1>2. UNCHANGED <<now, store, atime, dirs, finished, gc, exposed>>
  BY DEF CloseIndex
<1>3. SessionOK(g) /\ n \in Slot /\ n \notin indexed[g] /\ n \in dirs[g] /\ n # b
  BY <1>1 DEF IndInv, SessionInv, SessionOK, TypeOK
<1>4. /\ indexed'[g] = indexed[g] \cup {n}
      /\ index'[g][n] = x.writer
      /\ \A t \in Slot : t # n => index'[g][t] = index[g][t]
      /\ \A h \in Group : h # g => indexed'[h] = indexed[h] /\ index'[h] = index[h]
  BY <1>3 DEF CloseIndex, IndInv, TypeOK
<1>5. DirInv' /\ GcPhaseInv'
  BY <1>2, <1>3, <1>4 DEF IndInv, DirInv, GcPhaseInv
<1>6. SessionInv'
  BY <1>1, <1>2, <1>3, <1>4 DEF IndInv, SessionInv, SessionOK
<1>7. b \in indexed[g] => b \in Slot /\ Live(g, b)
  BY <1>1, <1>3 DEF IndInv, DirInv, SessionOK, Live, TypeOK
<1>8. KnownInv'
  BY <1>1, <1>2, <1>3, <1>4, <1>7 DEF IndInv, KnownInv, KnownOK
<1>9. CutoffInv'
  BY <1>1, <1>2 DEF IndInv, CutoffInv, GcRunning
<1>10. \A h \in Group, t \in Slot : Live(h, t)' => Live(h, t) \/ (h = g /\ t = n)
  BY <1>1, <1>2, <1>4 DEF Live
<1>11. ASSUME exposed[g] = {}, NEW c \in x.writer
       PROVE  \/ c \in store /\ atime[c] >= x.started
              \/ b \in indexed[g] /\ c \in index[g][b]
  BY <1>1, <1>11 DEF IndInv, KnownInv, KnownOK
<1>12. StoreInv'
  <2> SUFFICES ASSUME NEW h \in Group, exposed[h] = {}, NEW t \in Slot, Live(h, t)'
               PROVE  index'[h][t] \subseteq store
    BY <1>2 DEF StoreInv
  <2>1. CASE h = g /\ t = n
    BY <1>4, <1>7, <1>11, <2>1 DEF IndInv, StoreInv
  <2>2. CASE ~(h = g /\ t = n)
    BY <1>4, <1>10, <2>2 DEF IndInv, StoreInv
  <2> QED BY <2>1, <2>2
<1>13. ASSUME exposed[g] = {}, gc.pc = "mark", gc.group = g
       PROVE  n \notin gc.rem \cap gc.files
  BY <1>1, <1>3, <1>13 DEF IndInv, ListingInv
<1>14. CoverageInv'
  <2> SUFFICES ASSUME GcRunning, NEW h \in Group, exposed[h] = {}, NEW t \in Slot,
                      Live(h, t)', NEW c \in index'[h][t]
               PROVE  atime[c] >= gc.minAtime \/ ToBeMarked(h, t, c)'
    BY <1>2 DEF CoverageInv, GcRunning
  <2>1. CASE h = g /\ t = n
    <3>1. c \in x.writer
      BY <1>4, <2>1
    <3>2. CASE c \in store /\ atime[c] >= x.started
      <4>1. gc.minAtime <= x.started
        BY <1>1, <1>3, <2>1 DEF IndInv, CutoffInv, SessionOK
      <4>2. c \in Chunk /\ atime[c] \in Int /\ gc.minAtime \in Int /\ x.started \in Int
        BY <3>1 DEF IndInv, TypeOK, Session, Collection
      <4> QED BY <3>2, <4>1, <4>2
    <3>3. CASE b \in indexed[g] /\ c \in index[g][b]
      <4>1. atime[c] >= gc.minAtime \/ ToBeMarked(g, b, c)
        BY <1>7, <2>1, <3>3 DEF IndInv, CoverageInv
      <4>2. ASSUME ToBeMarked(g, b, c) PROVE ToBeMarked(g, n, c)'
        <5>1. gc.bases \cap gc.rem \cap gc.files \subseteq Slot
          BY DEF IndInv, TypeOK, Collection
        <5> QED BY <1>1, <1>2, <1>3, <1>4, <1>7, <1>13, <2>1, <3>3, <4>2, <5>1 DEF ToBeMarked
      <4> QED BY <1>1, <2>1, <4>1, <4>2 DEF ToBeMarked
    <3> QED BY <1>11, <2>1, <3>1, <3>2, <3>3
  <2>2. CASE ~(h = g /\ t = n)
    <3>1. Live(h, t) /\ c \in index[h][t]
      BY <1>4, <1>10, <2>2
    <3>2. ASSUME ToBeMarked(h, t, c) PROVE ToBeMarked(h, t, c)'
      <4>1. gc.bases \cap gc.rem \cap gc.files \subseteq Slot
        BY DEF IndInv, TypeOK, Collection
      <4> QED BY <1>1, <1>2, <1>3, <1>4, <1>13, <2>2, <3>2, <4>1 DEF ToBeMarked
    <3> QED BY <3>1, <3>2 DEF IndInv, CoverageInv
  <2> QED BY <2>1, <2>2
<1>15. ListingInv'
  BY <1>1, <1>2, <1>3, <1>4 DEF IndInv, ListingInv
<1> QED BY <1>5, <1>6, <1>8, <1>9, <1>12, <1>14, <1>15 DEF IndInv

(* The effect of GiveUpBase on the collection: only its history grows. *)
LEMMA GiveUpBaseEffect ==
    ASSUME TypeOK, NEW g \in Group, GiveUpBase(g)
    PROVE  /\ gc'.pc = gc.pc /\ gc'.todo = gc.todo /\ gc'.group = gc.group
           /\ gc'.rem = gc.rem /\ gc'.files = gc.files /\ gc'.minAtime = gc.minAtime
           /\ gc'.cached = gc.cached /\ gc'.lock = gc.lock
           /\ gc.bases \subseteq gc'.bases
           /\ gc.pc = "mark" /\ gc.group = g => sess[g].base \in gc'.bases
  BY DEF GiveUpBase, TypeOK, Collection

(* The guards are dropped: the base, no longer locked, is remembered among *)
(* the released ones, and the new snapshot counts on it from now on.       *)
LEMMA FinishBackupInv ==
    ASSUME IndInv, TypeOK', NEW g \in Group, FinishBackup(g)
    PROVE  IndInv'
<1> DEFINE x == sess[g]
           y == sess'[g]
<1>1. /\ x.pc = "active" /\ ~x.open /\ y.pc = "finishing" /\ y.slot = x.slot
      /\ y.base = x.base /\ ~y.open /\ ~y.storeGuard /\ ~y.baseGuard
      /\ y.started = x.started
      /\ \A h \in Group : h # g => sess'[h] = sess[h]
  BY DEF FinishBackup, FinishAllowed, IndInv, TypeOK, Session
<1>2. UNCHANGED <<now, store, atime, snapVars, exposed>> /\ GiveUpBase(g)
  BY DEF FinishBackup
<1>3. /\ gc'.pc = gc.pc /\ gc'.todo = gc.todo /\ gc'.group = gc.group
      /\ gc'.rem = gc.rem /\ gc'.files = gc.files /\ gc'.minAtime = gc.minAtime
      /\ gc'.cached = gc.cached /\ gc'.lock = gc.lock
      /\ gc.bases \subseteq gc'.bases
      /\ gc.pc = "mark" /\ gc.group = g => x.base \in gc'.bases
  BY <1>2, GiveUpBaseEffect DEF IndInv
<1>4. DirInv' /\ GcPhaseInv'
  BY <1>2, <1>3 DEF IndInv, DirInv, GcPhaseInv, snapVars
<1>5. SessionInv'
  BY <1>1, <1>2 DEF IndInv, SessionInv, SessionOK, snapVars
<1>6. KnownInv'
  BY <1>1, <1>2 DEF IndInv, KnownInv, KnownOK, snapVars
<1>7. CutoffInv'
  BY <1>1, <1>2, <1>3 DEF IndInv, CutoffInv, GcRunning
<1>8. \A h \in Group, s \in Slot : Live(h, s)' => Live(h, s)
  BY <1>1, <1>2 DEF Live, snapVars
<1>9. StoreInv'
  BY <1>2, <1>8 DEF IndInv, StoreInv, snapVars
<1>10. CoverageInv'
  <2>1. ASSUME NEW h \in Group, NEW s, NEW c, ToBeMarked(h, s, c)
        PROVE  ToBeMarked(h, s, c)'
    BY <1>1, <1>2, <1>3, <2>1 DEF ToBeMarked, snapVars
  <2> QED BY <1>2, <1>3, <1>8, <2>1 DEF IndInv, CoverageInv, snapVars, GcRunning
<1>11. ListingInv'
  BY <1>1, <1>2, <1>3 DEF IndInv, ListingInv, snapVars
<1> QED BY <1>4, <1>5, <1>6, <1>7, <1>9, <1>10, <1>11 DEF IndInv

LEMMA RejectManifestInv ==
    ASSUME IndInv, TypeOK', NEW g \in Group, RejectManifest(g)
    PROVE  IndInv'
<1> DEFINE x == sess[g]
           y == sess'[g]
<1>1. /\ x.pc = "active" /\ ~x.open /\ y.pc = "active" /\ y.slot = x.slot
      /\ y.base = x.base /\ ~y.open /\ ~y.storeGuard /\ ~y.baseGuard
      /\ y.started = x.started
      /\ \A h \in Group : h # g => sess'[h] = sess[h]
  BY DEF RejectManifest, FinishAllowed, IndInv, TypeOK, Session
<1>2. /\ UNCHANGED <<now, store, atime, snapVars>> /\ GiveUpBase(g)
      /\ exposed'[g] # {} /\ \A h \in Group : h # g => exposed'[h] = exposed[h]
  BY DEF RejectManifest, Expose, IndInv, TypeOK
<1>3. /\ gc'.pc = gc.pc /\ gc'.todo = gc.todo /\ gc'.group = gc.group
      /\ gc'.rem = gc.rem /\ gc'.files = gc.files /\ gc'.minAtime = gc.minAtime
      /\ gc'.cached = gc.cached /\ gc'.lock = gc.lock
      /\ gc.bases \subseteq gc'.bases
  BY <1>2, GiveUpBaseEffect DEF IndInv
<1>4. DirInv' /\ GcPhaseInv'
  BY <1>2, <1>3 DEF IndInv, DirInv, GcPhaseInv, snapVars
<1>5. SessionInv'
  BY <1>1, <1>2 DEF IndInv, SessionInv, SessionOK, snapVars
<1>6. KnownInv'
  BY <1>1, <1>2 DEF IndInv, KnownInv, KnownOK, snapVars
<1>7. CutoffInv'
  BY <1>1, <1>2, <1>3 DEF IndInv, CutoffInv, GcRunning
<1>8. \A h \in Group, s \in Slot : h # g /\ Live(h, s)' => Live(h, s)
  BY <1>1, <1>2 DEF Live, snapVars
<1>9. StoreInv'
  BY <1>2, <1>8 DEF IndInv, StoreInv, snapVars
<1>10. CoverageInv'
  <2>1. ASSUME NEW h \in Group, h # g, NEW s, NEW c, ToBeMarked(h, s, c)
        PROVE  ToBeMarked(h, s, c)'
    BY <1>1, <1>2, <1>3, <2>1 DEF ToBeMarked, snapVars
  <2> QED BY <1>2, <1>3, <1>8, <2>1 DEF IndInv, CoverageInv, snapVars, GcRunning
<1>11. ListingInv'
  BY <1>1, <1>2, <1>3 DEF IndInv, ListingInv, snapVars
<1> QED BY <1>4, <1>5, <1>6, <1>7, <1>9, <1>10, <1>11 DEF IndInv

LEMMA PersistManifestInv ==
    ASSUME IndInv, TypeOK', NEW g \in Group, PersistManifest(g)
    PROVE  IndInv'
<1>1. /\ UNCHANGED <<now, store, atime, dirs, indexed, index, sess, gc, exposed>>
      /\ sess[g].pc = "finishing" /\ SessionOK(g)
      /\ finished'[g] = finished[g] \cup {sess[g].slot}
      /\ \A h \in Group : h # g => finished'[h] = finished[h]
  BY DEF PersistManifest, IndInv, SessionInv, TypeOK
<1>2. DirInv' /\ GcPhaseInv' /\ SessionInv'
  BY <1>1 DEF IndInv, DirInv, GcPhaseInv, SessionInv, SessionOK
<1>3. KnownInv' /\ CutoffInv' /\ ListingInv'
  BY <1>1 DEF IndInv, KnownInv, KnownOK, CutoffInv, ListingInv, GcRunning
<1>4. \A h \in Group, s \in Slot : Live(h, s)' => Live(h, s)
  BY <1>1 DEF Live
<1>5. StoreInv'
  BY <1>1, <1>4 DEF IndInv, StoreInv
<1>6. CoverageInv'
  <2>1. ASSUME NEW h \in Group, NEW s, NEW c, ToBeMarked(h, s, c)
        PROVE  ToBeMarked(h, s, c)'
    BY <1>1, <2>1 DEF ToBeMarked
  <2> QED BY <1>1, <1>4, <2>1 DEF IndInv, CoverageInv, GcRunning
<1> QED BY <1>2, <1>3, <1>5, <1>6 DEF IndInv

-----------------------------------------------------------------------------
(* Removal of snapshots *)

LEMMA RemoveDirEffect ==
    ASSUME TypeOK, NEW g \in Group, NEW s \in Slot, RemoveDir(g, s)
    PROVE  /\ dirs'[g] = dirs[g] \ {s}
           /\ indexed'[g] = indexed[g] \ {s}
           /\ finished'[g] = finished[g] \ {s}
           /\ index'[g][s] = {}
           /\ \A t \in Slot : t # s => index'[g][t] = index[g][t]
           /\ \A h \in Group : h # g => /\ dirs'[h] = dirs[h]
                                        /\ indexed'[h] = indexed[h]
                                        /\ finished'[h] = finished[h]
                                        /\ index'[h] = index[h]
  BY DEF RemoveDir, TypeOK

(* An unfinished backup goes with its session. *)
LEMMA AbortBackupInv ==
    ASSUME IndInv, TypeOK', NEW g \in Group, AbortBackup(g)
    PROVE  IndInv'
<1> DEFINE n == sess[g].slot
<1>1. /\ IdleSession.pc = "idle" /\ IdleSession.started = 0
      /\ ~IdleSession.open /\ ~IdleSession.storeGuard /\ ~IdleSession.baseGuard
  BY DEF IdleSession
<1>2. /\ sess[g].pc \in {"active", "finishing"} /\ n \in Slot /\ sess'[g] = IdleSession
      /\ \A h \in Group : h # g => sess'[h] = sess[h]
  BY OtherSessions DEF AbortBackup, IndInv, TypeOK
<1>3. UNCHANGED <<now, store, atime, gc, exposed>>
  BY DEF AbortBackup
<1>4. /\ dirs'[g] = dirs[g] \ {n}
      /\ indexed'[g] = indexed[g] \ {n}
      /\ finished'[g] = finished[g] \ {n}
      /\ index'[g][n] = {}
      /\ \A t \in Slot : t # n => index'[g][t] = index[g][t]
      /\ \A h \in Group : h # g => /\ dirs'[h] = dirs[h]
                                   /\ indexed'[h] = indexed[h]
                                   /\ finished'[h] = finished[h]
                                   /\ index'[h] = index[h]
  BY <1>2, RemoveDirEffect DEF AbortBackup, IndInv
<1>5. DirInv' /\ GcPhaseInv'
  BY <1>3, <1>4 DEF IndInv, DirInv, GcPhaseInv
<1>6. SessionInv'
  <2>1. SessionOK(g)'
    BY <1>1, <1>2, <1>3 DEF IndInv, SessionOK, TypeOK
  <2>2. ASSUME NEW h \in Group, h # g PROVE SessionOK(h)'
    BY <1>2, <1>3, <1>4, <2>2 DEF IndInv, SessionInv, SessionOK
  <2> QED BY <2>1, <2>2 DEF SessionInv
<1>7. KnownInv'
  BY <1>1, <1>2, <1>3, <1>4 DEF IndInv, KnownInv, KnownOK
<1>8. CutoffInv'
  BY <1>1, <1>2, <1>3 DEF IndInv, CutoffInv, GcRunning
<1>9. \A h \in Group, t \in Slot : Live(h, t)' => Live(h, t) /\ (h = g => t # n)
  BY <1>1, <1>2, <1>4 DEF Live
<1>10. StoreInv'
  BY <1>3, <1>4, <1>9 DEF IndInv, StoreInv
<1>11. CoverageInv'
  <2>1. ASSUME NEW h \in Group, NEW t \in Slot, h = g => t # n, NEW c, ToBeMarked(h, t, c)
        PROVE  ToBeMarked(h, t, c)'
    <3>1. gc.bases \cap gc.rem \cap gc.files \subseteq Slot
      BY DEF IndInv, TypeOK, Collection
    <3> QED BY <1>2, <1>3, <1>4, <2>1, <3>1 DEF ToBeMarked
  <2> QED BY <1>3, <1>4, <1>9, <2>1 DEF IndInv, CoverageInv, GcRunning
<1>12. ListingInv'
  BY <1>1, <1>2, <1>3, <1>4 DEF IndInv, ListingInv
<1> QED BY <1>5, <1>6, <1>7, <1>8, <1>10, <1>11, <1>12 DEF IndInv

(* A pruned snapshot is neither a running backup nor a locked base.  If    *)
(* the collection still counts on it, it is a released base: then it is    *)
(* among those a collection must not pass over.                            *)
LEMMA PruneInv ==
    ASSUME IndInv, TypeOK', NEW g \in Group, NEW n \in Slot, Prune(g, n)
    PROVE  IndInv'
<1>1. UNCHANGED <<now, store, atime, sess, gc, exposed>> /\ ~SnapshotLocked(g, n)
  BY DEF Prune
<1>2. /\ dirs'[g] = dirs[g] \ {n}
      /\ indexed'[g] = indexed[g] \ {n}
      /\ finished'[g] = finished[g] \ {n}
      /\ index'[g][n] = {}
      /\ \A t \in Slot : t # n => index'[g][t] = index[g][t]
      /\ \A h \in Group : h # g => /\ dirs'[h] = dirs[h]
                                   /\ indexed'[h] = indexed[h]
                                   /\ finished'[h] = finished[h]
                                   /\ index'[h] = index[h]
  BY RemoveDirEffect DEF Prune, IndInv
<1>3. SessionOK(g)
  BY DEF IndInv, SessionInv
<1>4. exposed[g] = {} /\ sess[g].pc = "active" => sess[g].base # n
  BY <1>1, <1>3, SlotAssumption DEF SnapshotLocked, SessionOK
<1>5. DirInv' /\ GcPhaseInv'
  BY <1>1, <1>2 DEF IndInv, DirInv, GcPhaseInv
<1>6. SessionInv'
  BY <1>1, <1>2 DEF IndInv, SessionInv, SessionOK, SnapshotLocked
<1>7. KnownInv'
  <2>1. \A h \in Group : indexed[h] \subseteq Slot
    BY DEF IndInv, TypeOK
  <2> QED BY <1>1, <1>2, <1>4, <2>1 DEF IndInv, KnownInv, KnownOK
<1>8. CutoffInv'
  BY <1>1 DEF IndInv, CutoffInv, GcRunning
<1>9. \A h \in Group, t \in Slot : Live(h, t)' => Live(h, t) /\ (h = g => t # n)
  BY <1>1, <1>2 DEF Live
<1>10. StoreInv'
  BY <1>1, <1>2, <1>9 DEF IndInv, StoreInv
<1>11. CoverageInv'
  <2>1. ASSUME NEW h \in Group, exposed[h] = {}, NEW t \in Slot, h = g => t # n, NEW c,
               ToBeMarked(h, t, c)
        PROVE  ToBeMarked(h, t, c)'
    <3>1. gc.bases \cap gc.rem \cap gc.files \subseteq Slot /\ indexed[h] \subseteq Slot
      BY DEF IndInv, TypeOK, Collection
    <3> QED BY <1>1, <1>2, <1>4, <2>1, <3>1 DEF ToBeMarked
  <2> QED BY <1>1, <1>2, <1>9, <2>1 DEF IndInv, CoverageInv, GcRunning
<1>12. ListingInv'
  BY <1>1, <1>2 DEF IndInv, ListingInv, SnapshotLocked
<1> QED BY <1>5, <1>6, <1>7, <1>8, <1>10, <1>11, <1>12 DEF IndInv

-----------------------------------------------------------------------------
(* Steps of a collection *)

(* Marking touches some of the given chunks at the present time, and all   *)
(* of them that the LRU cache does not hold.                               *)
LEMMA TouchEffect ==
    ASSUME TypeOK, NEW S \in SUBSET Chunk, Touch(ToTouch(S))
    PROVE  /\ \A c \in Chunk : atime'[c] = atime[c] \/ atime'[c] = now
           /\ \A c \in S \cap store : c \in gc.cached \/ atime'[c] = now
           /\ \A c \in Cached(S) : c \in gc.cached \/ c \in S
  BY DEF TypeOK, Touch, ToTouch, Cached

(* A step of the collection that leaves snapshots and sessions alone and   *)
(* removes no chunk keeps what does not speak about the collection.        *)
LEMMA QuietGc ==
    ASSUME IndInv, TypeOK', UNCHANGED <<now, store, snapVars, sess>>,
           \A g \in Group : exposed'[g] = {} => exposed[g] = {},
           \A c \in Chunk : atime'[c] = atime[c] \/ atime'[c] = now
    PROVE  /\ DirInv' /\ SessionInv' /\ KnownInv' /\ StoreInv'
           /\ \A h \in Group, s \in Slot : Live(h, s)' = Live(h, s)
<1>1. DirInv'
  BY DEF IndInv, DirInv, snapVars
<1>2. SessionInv'
  BY DEF IndInv, SessionInv, SessionOK, snapVars
<1>3. KnownInv'
  <2> SUFFICES ASSUME NEW g \in Group, exposed[g] = {}, sess[g].pc = "active",
                      NEW c \in sess[g].known \cup sess[g].writer
               PROVE  \/ c \in store /\ atime'[c] >= sess[g].started
                      \/ sess[g].base \in indexed[g] /\ c \in index[g][sess[g].base]
    BY DEF KnownInv, KnownOK, snapVars
  <2>1. c \in Chunk /\ sess[g].started \in Nat /\ sess[g].started <= now
    BY DEF IndInv, SessionInv, SessionOK, TypeOK, Session
  <2>2. \/ c \in store /\ atime[c] >= sess[g].started
        \/ sess[g].base \in indexed[g] /\ c \in index[g][sess[g].base]
    BY DEF IndInv, KnownInv, KnownOK
  <2>3. atime[c] >= sess[g].started => atime'[c] >= sess[g].started
    BY <2>1
  <2> QED BY <2>2, <2>3
<1>4. \A h \in Group, s \in Slot : Live(h, s)' = Live(h, s)
  BY DEF Live, snapVars
<1>5. StoreInv'
  BY <1>4 DEF IndInv, StoreInv, snapVars
<1> QED BY <1>1, <1>2, <1>3, <1>4, <1>5

(* The cutoff of a new collection lies before every writer it can meet:    *)
(* the exclusive lock was free, so all of them are its own process's.      *)
LEMMA GcStartInv ==
    ASSUME IndInv, TypeOK', NEW p \in Process, GcStart(p)
    PROVE  IndInv'
<1>1. UNCHANGED <<now, store, atime, snapVars, sess, exposed>>
  BY DEF GcStart
<1>2. DirInv' /\ SessionInv' /\ KnownInv' /\ StoreInv'
  BY <1>1, QuietGc
<1>3. PICK t \in 0 .. now :
         /\ OldestWriter(p, t)
         /\ gc' = [IdleCollection EXCEPT !.pc = "list", !.proc = p, !.minAtime = MinAtime(t)]
  BY DEF GcStart
<1>4. /\ gc'.pc = "list" /\ gc'.minAtime = MinAtime(t)
      /\ gc'.cached = {} /\ ~gc'.lock /\ gc'.todo = {}
  BY <1>3 DEF IdleCollection
<1>5. now \in Nat /\ t \in Int /\ t <= now
  BY <1>3 DEF IndInv, TypeOK
<1>6. MinAtime(t) <= now /\ MinAtime(t) <= t /\ MinAtime(t) \in Int
  BY <1>5, TimeAssumption DEF MinAtime
<1>7. ASSUME NEW g \in Group, sess[g].storeGuard PROVE MinAtime(t) <= sess[g].started
  <2>1. sess[g].proc = p
    BY <1>7 DEF GcStart, ExclusiveLockFree
  <2>2. sess[g].started \in WriterStarts(p)
    BY <1>7, <2>1 DEF WriterStarts
  <2>3. t <= sess[g].started
    BY <1>3, <2>2 DEF OldestWriter
  <2> QED BY <1>5, <1>6, <2>3 DEF IndInv, TypeOK, Session
<1>8. CutoffInv'
  BY <1>1, <1>4, <1>6, <1>7 DEF CutoffInv
<1>9. CoverageInv' /\ ListingInv' /\ GcPhaseInv'
  BY <1>4 DEF CoverageInv, ToBeMarked, ListingInv, GcPhaseInv
<1> QED BY <1>2, <1>8, <1>9 DEF IndInv

LEMMA GcStopInv ==
    ASSUME IndInv, TypeOK', GcFinish \/ GcAbort \/ GcGiveUpGroup
    PROVE  IndInv'
<1>1. UNCHANGED <<now, store, atime, snapVars, sess, exposed>> /\ gc' = IdleCollection
  BY DEF GcFinish, GcAbort, GcGiveUpGroup
<1>2. DirInv' /\ SessionInv' /\ KnownInv' /\ StoreInv'
  BY <1>1, QuietGc
<1>3. CutoffInv' /\ CoverageInv' /\ ListingInv' /\ GcPhaseInv'
  BY <1>1 DEF CutoffInv, CoverageInv, ListingInv, GcPhaseInv, GcRunning, IdleCollection
<1> QED BY <1>2, <1>3 DEF IndInv

LEMMA GcListIndexFilesInv ==
    ASSUME IndInv, TypeOK', NEW T \in SUBSET Group, GcListIndexFiles(T)
    PROVE  IndInv'
<1>1. UNCHANGED <<now, store, atime, snapVars, sess, exposed>>
  BY DEF GcListIndexFiles
<1>2. /\ DirInv' /\ SessionInv' /\ KnownInv' /\ StoreInv'
      /\ \A h \in Group, s \in Slot : Live(h, s)' = Live(h, s)
  BY <1>1, QuietGc
<1>3. /\ gc.pc = "list" /\ gc'.pc = "groups" /\ gc'.todo = T
      /\ gc'.minAtime = gc.minAtime /\ gc'.cached = gc.cached /\ gc'.lock = gc.lock
  BY ZenonT(60) DEF GcListIndexFiles, IndInv, TypeOK, Collection
<1>4. CutoffInv' /\ ListingInv' /\ GcPhaseInv'
  BY <1>1, <1>3 DEF IndInv, CutoffInv, ListingInv, GcPhaseInv, GcRunning
<1>5. ASSUME NEW g \in Group, NEW s \in Slot, Live(g, s) PROVE g \in T
  BY <1>5 DEF GcListIndexFiles, Live, IndInv, DirInv
<1>6. CoverageInv'
  BY <1>2, <1>3, <1>5 DEF CoverageInv, ToBeMarked
<1> QED BY <1>2, <1>4, <1>6 DEF IndInv

LEMMA GcNextGroupInv ==
    ASSUME IndInv, TypeOK', NEW g \in Group, GcNextGroup(g)
    PROVE  IndInv'
<1>1. UNCHANGED <<now, store, atime, snapVars, sess, exposed>>
  BY DEF GcNextGroup
<1>2. /\ DirInv' /\ SessionInv' /\ KnownInv' /\ StoreInv'
      /\ \A h \in Group, s \in Slot : Live(h, s)' = Live(h, s)
  BY <1>1, QuietGc
<1>3. /\ gc.pc = "groups" /\ gc'.pc = "group" /\ gc'.todo = gc.todo \ {g} /\ gc'.group = g
      /\ gc'.minAtime = gc.minAtime /\ gc'.cached = gc.cached /\ gc'.lock = gc.lock
  BY DEF GcNextGroup, IndInv, TypeOK, Collection
<1>4. CutoffInv' /\ ListingInv' /\ GcPhaseInv'
  BY <1>1, <1>3 DEF IndInv, CutoffInv, ListingInv, GcPhaseInv, GcRunning
<1>5. ASSUME NEW h \in Group, NEW s, NEW c, ToBeMarked(h, s, c)
      PROVE  ToBeMarked(h, s, c)'
  BY <1>3, <1>5 DEF ToBeMarked
<1>6. CoverageInv'
  BY <1>1, <1>2, <1>3, <1>5 DEF IndInv, CoverageInv, GcRunning, snapVars
<1> QED BY <1>2, <1>4, <1>6 DEF IndInv

LEMMA GcListGroupInv ==
    ASSUME IndInv, TypeOK', GcListGroup
    PROVE  IndInv'
<1> DEFINE g == gc.group
<1>1. UNCHANGED <<now, store, atime, snapVars, sess, exposed>>
  BY DEF GcListGroup
<1>2. /\ DirInv' /\ SessionInv' /\ KnownInv' /\ StoreInv'
      /\ \A h \in Group, s \in Slot : Live(h, s)' = Live(h, s)
  BY <1>1, QuietGc
<1>3. /\ gc.pc = "group" /\ gc'.pc = "mark" /\ gc'.todo = gc.todo /\ gc'.group = g
      /\ gc'.rem = dirs[g] /\ gc'.files = indexed[g]
      /\ gc'.minAtime = gc.minAtime /\ gc'.cached = gc.cached
  BY DEF GcListGroup, IndInv, TypeOK, Collection
<1>4. CutoffInv' /\ ListingInv' /\ GcPhaseInv'
  BY <1>1, <1>3 DEF IndInv, CutoffInv, ListingInv, GcPhaseInv, GcRunning, snapVars
<1>5. ASSUME NEW h \in Group, NEW s \in Slot, Live(h, s), NEW c, ToBeMarked(h, s, c)
      PROVE  ToBeMarked(h, s, c)'
  <2>1. s \in indexed[h] /\ s \in dirs[h]
    BY <1>5 DEF Live, IndInv, DirInv
  <2> QED BY <1>3, <1>5, <2>1 DEF ToBeMarked
<1>6. CoverageInv'
  BY <1>1, <1>2, <1>3, <1>5 DEF IndInv, CoverageInv, GcRunning, snapVars
<1> QED BY <1>2, <1>4, <1>6 DEF IndInv

LEMMA GcSkipSnapshotInv ==
    ASSUME IndInv, TypeOK', NEW n \in Slot, GcSkipSnapshot(n)
    PROVE  IndInv'
<1>1. UNCHANGED <<now, store, atime, snapVars, sess, exposed>>
  BY DEF GcSkipSnapshot
<1>2. /\ DirInv' /\ SessionInv' /\ KnownInv' /\ StoreInv'
      /\ \A h \in Group, s \in Slot : Live(h, s)' = Live(h, s)
  BY <1>1, QuietGc
<1>3. /\ gc.pc = "mark" /\ gc'.pc = "mark" /\ gc'.todo = gc.todo /\ gc'.group = gc.group
      /\ gc'.rem = gc.rem \ {n} /\ gc'.files = gc.files /\ n \notin gc.files
      /\ gc'.bases = gc.bases
      /\ gc'.minAtime = gc.minAtime /\ gc'.cached = gc.cached /\ gc'.lock = gc.lock
  BY DEF GcSkipSnapshot, Newest, IndInv, TypeOK, Collection
<1>4. CutoffInv' /\ ListingInv' /\ GcPhaseInv'
  BY <1>1, <1>3 DEF IndInv, CutoffInv, ListingInv, GcPhaseInv, GcRunning, snapVars
<1>5. ASSUME NEW h \in Group, NEW s, NEW c, ToBeMarked(h, s, c)
      PROVE  ToBeMarked(h, s, c)'
  BY <1>1, <1>3, <1>5 DEF ToBeMarked, snapVars
<1>6. CoverageInv'
  BY <1>1, <1>2, <1>3, <1>5 DEF IndInv, CoverageInv, GcRunning, snapVars
<1> QED BY <1>2, <1>4, <1>6 DEF IndInv

(* The index of snapshot n is read: whatever waited for n is touched now.  *)
LEMMA GcMarkIndexInv ==
    ASSUME IndInv, TypeOK', NEW n \in Slot, GcMarkIndex(n)
    PROVE  IndInv'
<1> DEFINE g == gc.group
           S == index[g][n]
<1>1. UNCHANGED <<now, store, snapVars, sess, exposed>>
  BY DEF GcMarkIndex
<1>2. g \in Group /\ S \in SUBSET Chunk /\ gc.pc = "mark" /\ n \in indexed[g]
  BY DEF GcMarkIndex, Newest, IndInv, TypeOK
<1>3. /\ \A c \in Chunk : atime'[c] = atime[c] \/ atime'[c] = now
      /\ \A c \in S \cap store : c \in gc.cached \/ atime'[c] = now
      /\ \A c \in Cached(S) : c \in gc.cached \/ c \in S
  BY <1>2, TouchEffect DEF GcMarkIndex, IndInv
<1>4. /\ DirInv' /\ SessionInv' /\ KnownInv' /\ StoreInv'
      /\ \A h \in Group, s \in Slot : Live(h, s)' = Live(h, s)
  BY <1>1, <1>3, QuietGc
<1>5. /\ gc'.pc = "mark" /\ gc'.todo = gc.todo /\ gc'.group = g
      /\ gc'.rem = gc.rem \ {n} /\ gc'.files = gc.files /\ gc'.bases = gc.bases
      /\ gc'.minAtime = gc.minAtime /\ gc'.cached = Cached(S) /\ gc'.lock = gc.lock
  BY <1>2 DEF GcMarkIndex, Visited, IndInv, TypeOK, Collection
<1>6. /\ \A c \in Chunk : atime[c] \in Int /\ atime'[c] \in Int
      /\ gc.minAtime \in Int /\ now \in Int /\ gc.minAtime <= now
      /\ gc.cached \subseteq Chunk /\ store \subseteq Chunk
  BY <1>2 DEF IndInv, TypeOK, Collection, CutoffInv, GcRunning
<1>7. \A c \in Chunk : atime[c] >= gc.minAtime => atime'[c] >= gc.minAtime
  BY <1>3, <1>6
<1>8. \A c \in S \cap store : atime'[c] >= gc.minAtime
  BY <1>2, <1>3, <1>6, <1>7 DEF IndInv, CutoffInv, GcRunning
<1>9. CutoffInv'
  BY <1>1, <1>2, <1>3, <1>5, <1>6, <1>7, <1>8 DEF IndInv, CutoffInv, GcRunning
<1>10. ListingInv' /\ GcPhaseInv'
  BY <1>1, <1>2, <1>5 DEF IndInv, ListingInv, GcPhaseInv, snapVars
<1>11. CoverageInv'
  <2> SUFFICES ASSUME NEW h \in Group, exposed[h] = {}, NEW s \in Slot, Live(h, s),
                      NEW c \in index[h][s]
               PROVE  atime'[c] >= gc.minAtime \/ ToBeMarked(h, s, c)'
    BY <1>1, <1>4, <1>5 DEF CoverageInv, snapVars
  <2>1. c \in Chunk /\ c \in store
    BY DEF IndInv, TypeOK, StoreInv
  <2>2. atime[c] >= gc.minAtime \/ ToBeMarked(h, s, c)
    BY <1>2 DEF IndInv, CoverageInv, GcRunning
  <2>3. ASSUME ToBeMarked(h, s, c), ~(h = g /\ c \in S) PROVE ToBeMarked(h, s, c)'
    BY <1>1, <1>2, <1>5, <2>3 DEF ToBeMarked, snapVars
  <2>4. CASE h = g /\ c \in S
    BY <1>8, <2>1, <2>4
  <2> QED BY <1>7, <2>1, <2>2, <2>3, <2>4
<1> QED BY <1>4, <1>9, <1>10, <1>11 DEF IndInv

LEMMA GcRetryGroupInv ==
    ASSUME IndInv, TypeOK', NEW n \in Slot, GcRetryGroup(n)
    PROVE  IndInv'
<1>1. UNCHANGED <<now, store, atime, snapVars, sess, exposed>>
  BY DEF GcRetryGroup
<1>2. /\ DirInv' /\ SessionInv' /\ KnownInv' /\ StoreInv'
      /\ \A h \in Group, s \in Slot : Live(h, s)' = Live(h, s)
  BY <1>1, QuietGc
<1>3. /\ gc.pc = "mark" /\ gc'.pc = "group" /\ gc'.todo = gc.todo /\ gc'.group = gc.group
      /\ gc'.minAtime = gc.minAtime /\ gc'.cached = gc.cached /\ ~gc'.lock
  BY DEF GcRetryGroup, Newest, IndInv, TypeOK, Collection
<1>4. CutoffInv' /\ ListingInv' /\ GcPhaseInv'
  BY <1>1, <1>3 DEF IndInv, CutoffInv, ListingInv, GcPhaseInv, GcRunning
<1>5. ASSUME NEW h \in Group, NEW s, NEW c, ToBeMarked(h, s, c)
      PROVE  ToBeMarked(h, s, c)'
  BY <1>3, <1>5 DEF ToBeMarked
<1>6. CoverageInv'
  BY <1>1, <1>2, <1>3, <1>5 DEF IndInv, CoverageInv, GcRunning, snapVars
<1> QED BY <1>2, <1>4, <1>6 DEF IndInv

(* Passing over a vanished snapshot loses only what waited for it: if that *)
(* is something, the snapshot was a released base and the group is exposed. *)
LEMMA GcSkipVanishedInv ==
    ASSUME IndInv, TypeOK', NEW n \in Slot, GcSkipVanished(n)
    PROVE  IndInv'
<1>1. UNCHANGED <<now, store, atime, snapVars, sess>> /\ n \notin indexed[gc.group]
  BY DEF GcSkipVanished
<1>2. /\ \A h \in Group : exposed'[h] = {} => exposed[h] = {}
      /\ n \in gc.bases => exposed'[gc.group] # {}
  BY DEF GcSkipVanished, Newest, Expose, IndInv, TypeOK
<1>3. /\ DirInv' /\ SessionInv' /\ KnownInv' /\ StoreInv'
      /\ \A h \in Group, s \in Slot : Live(h, s)' = Live(h, s)
  BY <1>1, <1>2, QuietGc
<1>4. /\ gc.pc = "mark" /\ gc'.pc = "mark" /\ gc'.todo = gc.todo /\ gc'.group = gc.group
      /\ gc'.rem = gc.rem \ {n} /\ gc'.files = gc.files /\ gc'.bases = gc.bases
      /\ gc'.minAtime = gc.minAtime /\ gc'.cached = gc.cached /\ gc'.lock = gc.lock
  BY DEF GcSkipVanished, Newest, Visited, IndInv, TypeOK, Collection
<1>5. CutoffInv' /\ ListingInv' /\ GcPhaseInv'
  BY <1>1, <1>2, <1>4 DEF IndInv, CutoffInv, ListingInv, GcPhaseInv, GcRunning, snapVars
<1>6. ASSUME NEW h \in Group, exposed'[h] = {}, NEW s \in Slot, Live(h, s), NEW c,
             ToBeMarked(h, s, c)
      PROVE  ToBeMarked(h, s, c)'
  <2>1. h = gc.group => s # n
    BY <1>1, <1>6 DEF Live
  <2> QED BY <1>1, <1>2, <1>4, <1>6, <2>1 DEF ToBeMarked, snapVars
<1>7. CoverageInv'
  BY <1>1, <1>2, <1>3, <1>4, <1>6 DEF IndInv, CoverageInv, GcRunning, snapVars
<1> QED BY <1>3, <1>5, <1>7 DEF IndInv

LEMMA GcGroupDoneInv ==
    ASSUME IndInv, TypeOK', GcGroupDone
    PROVE  IndInv'
<1>1. UNCHANGED <<now, store, atime, snapVars, sess, exposed>>
  BY DEF GcGroupDone
<1>2. /\ DirInv' /\ SessionInv' /\ KnownInv' /\ StoreInv'
      /\ \A h \in Group, s \in Slot : Live(h, s)' = Live(h, s)
  BY <1>1, QuietGc
<1>3. /\ gc.pc = "mark" /\ gc.rem = {} /\ gc'.pc = "groups" /\ gc'.todo = gc.todo
      /\ gc'.minAtime = gc.minAtime /\ gc'.cached = gc.cached /\ ~gc'.lock
  BY DEF GcGroupDone, IndInv, TypeOK, Collection
<1>4. CutoffInv' /\ ListingInv' /\ GcPhaseInv'
  BY <1>1, <1>3 DEF IndInv, CutoffInv, ListingInv, GcPhaseInv, GcRunning
<1>5. ASSUME NEW h \in Group, NEW s, NEW c, ToBeMarked(h, s, c)
      PROVE  ToBeMarked(h, s, c)'
  BY <1>3, <1>5 DEF ToBeMarked
<1>6. CoverageInv'
  BY <1>1, <1>2, <1>3, <1>5 DEF IndInv, CoverageInv, GcRunning, snapVars
<1> QED BY <1>2, <1>4, <1>6 DEF IndInv

LEMMA GcMarkStrangeInv ==
    ASSUME IndInv, TypeOK', NEW g \in Group, NEW n \in Slot, GcMarkStrange(g, n)
    PROVE  IndInv'
<1> DEFINE S == index[g][n]
<1>1. UNCHANGED <<now, store, snapVars, sess, exposed>>
  BY DEF GcMarkStrange
<1>2. S \in SUBSET Chunk /\ gc.pc = "groups"
  BY DEF GcMarkStrange, IndInv, TypeOK
<1>3. /\ \A c \in Chunk : atime'[c] = atime[c] \/ atime'[c] = now
      /\ \A c \in S \cap store : c \in gc.cached \/ atime'[c] = now
      /\ \A c \in Cached(S) : c \in gc.cached \/ c \in S
  BY <1>2, TouchEffect DEF GcMarkStrange, IndInv
<1>4. /\ DirInv' /\ SessionInv' /\ KnownInv' /\ StoreInv'
      /\ \A h \in Group, s \in Slot : Live(h, s)' = Live(h, s)
  BY <1>1, <1>3, QuietGc
<1>5. /\ gc'.pc = "groups" /\ gc'.todo = gc.todo /\ gc'.group = gc.group
      /\ gc'.minAtime = gc.minAtime /\ gc'.cached = Cached(S) /\ gc'.lock = gc.lock
  BY <1>2 DEF GcMarkStrange, IndInv, TypeOK, Collection
<1>6. /\ \A c \in Chunk : atime[c] \in Int /\ atime'[c] \in Int
      /\ gc.minAtime \in Int /\ now \in Int /\ gc.minAtime <= now
      /\ gc.cached \subseteq Chunk /\ store \subseteq Chunk
  BY <1>2 DEF IndInv, TypeOK, Collection, CutoffInv, GcRunning
<1>7. \A c \in Chunk : atime[c] >= gc.minAtime => atime'[c] >= gc.minAtime
  BY <1>3, <1>6
<1>8. \A c \in S \cap store : atime'[c] >= gc.minAtime
  BY <1>2, <1>3, <1>6, <1>7 DEF IndInv, CutoffInv, GcRunning
<1>9. CutoffInv'
  BY <1>1, <1>2, <1>3, <1>5, <1>6, <1>7, <1>8 DEF IndInv, CutoffInv, GcRunning
<1>10. ListingInv' /\ GcPhaseInv'
  BY <1>1, <1>2, <1>5 DEF IndInv, ListingInv, GcPhaseInv
<1>11. CoverageInv'
  <2>1. ASSUME NEW h \in Group, NEW s, NEW c, ToBeMarked(h, s, c)
        PROVE  ToBeMarked(h, s, c)'
    BY <1>2, <1>5, <2>1 DEF ToBeMarked
  <2>2. \A h \in Group, s \in Slot : index[h][s] \subseteq Chunk
    BY DEF IndInv, TypeOK
  <2> QED BY <1>1, <1>2, <1>4, <1>5, <1>7, <2>1, <2>2 DEF IndInv, CoverageInv, GcRunning, snapVars
<1> QED BY <1>4, <1>9, <1>10, <1>11 DEF IndInv

LEMMA GcStartSweepInv ==
    ASSUME IndInv, TypeOK', GcStartSweep
    PROVE  IndInv'
<1>1. UNCHANGED <<now, store, atime, snapVars, sess, exposed>>
  BY DEF GcStartSweep
<1>2. /\ DirInv' /\ SessionInv' /\ KnownInv' /\ StoreInv'
      /\ \A h \in Group, s \in Slot : Live(h, s)' = Live(h, s)
  BY <1>1, QuietGc
<1>3. /\ gc.pc = "groups" /\ gc.todo = {} /\ gc'.pc = "sweep" /\ gc'.todo = {}
      /\ gc'.minAtime = gc.minAtime /\ gc'.cached = {} /\ gc'.lock = gc.lock
  BY DEF GcStartSweep, IndInv, TypeOK, Collection
<1>4. CutoffInv' /\ ListingInv' /\ GcPhaseInv'
  BY <1>1, <1>3 DEF IndInv, CutoffInv, ListingInv, GcPhaseInv, GcRunning
<1>5. \A h \in Group, s \in Slot, c \in Chunk : ~ToBeMarked(h, s, c)
  BY <1>3 DEF ToBeMarked
<1>6. CoverageInv'
  <2>1. \A h \in Group, s \in Slot : index[h][s] \subseteq Chunk
    BY DEF IndInv, TypeOK
  <2> QED BY <1>1, <1>2, <1>3, <1>5, <2>1 DEF IndInv, CoverageInv, GcRunning, snapVars
<1> QED BY <1>2, <1>4, <1>6 DEF IndInv

(* Nothing is waiting to be marked in the sweep, so a chunk older than the *)
(* cutoff is neither referenced by a live index nor known to a writer.     *)
LEMMA GcSweepChunkInv ==
    ASSUME IndInv, TypeOK', NEW d \in Chunk, GcSweepChunk(d)
    PROVE  IndInv'
<1>1. UNCHANGED <<now, snapVars, sess, exposed>>
  BY DEF GcSweepChunk
<1>2. /\ gc.pc = "sweep" /\ gc.todo = {} /\ gc'.pc = "sweep" /\ gc'.todo = {}
      /\ gc'.minAtime = gc.minAtime /\ gc'.cached = gc.cached /\ gc'.lock = gc.lock
  BY DEF GcSweepChunk, IndInv, TypeOK, Collection, GcPhaseInv
<1>3. ASSUME NEW c \in Chunk, atime[c] >= gc.minAtime
      PROVE  atime'[c] = atime[c] /\ (c \in store => c \in store')
  <2>1. atime[c] \in Int /\ gc.minAtime \in Int
    BY DEF IndInv, TypeOK, Collection
  <2> QED BY <1>3, <2>1 DEF GcSweepChunk, IndInv, TypeOK
<1>4. store' \subseteq store /\ \A c \in store' : atime'[c] = atime[c]
  BY DEF GcSweepChunk, IndInv, TypeOK
<1>5. DirInv' /\ SessionInv' /\ ListingInv' /\ GcPhaseInv'
  BY <1>1, <1>2 DEF IndInv, DirInv, SessionInv, SessionOK, ListingInv, GcPhaseInv, snapVars
<1>6. CutoffInv'
  BY <1>1, <1>2, <1>4 DEF IndInv, CutoffInv, GcRunning
<1>7. \A h \in Group, s \in Slot : Live(h, s)' = Live(h, s)
  BY <1>1 DEF Live, snapVars
<1>8. ASSUME NEW h \in Group, exposed[h] = {}, NEW s \in Slot, Live(h, s), NEW c \in index[h][s]
      PROVE  c \in Chunk /\ atime[c] >= gc.minAtime
  <2>1. c \in Chunk
    BY DEF IndInv, TypeOK
  <2>2. ~ToBeMarked(h, s, c)
    BY <1>2 DEF ToBeMarked
  <2> QED BY <1>2, <1>8, <2>1, <2>2 DEF IndInv, CoverageInv, GcRunning
<1>9. StoreInv'
  BY <1>1, <1>3, <1>7, <1>8 DEF IndInv, StoreInv, snapVars
<1>10. CoverageInv'
  BY <1>1, <1>2, <1>3, <1>7, <1>8 DEF CoverageInv, snapVars
<1>11. KnownInv'
  <2> SUFFICES ASSUME NEW h \in Group, exposed[h] = {}, sess[h].pc = "active",
                      NEW c \in sess[h].known \cup sess[h].writer,
                      ~(sess[h].base \in indexed[h] /\ c \in index[h][sess[h].base])
               PROVE  c \in store' /\ atime'[c] >= sess[h].started
    BY <1>1 DEF KnownInv, KnownOK, snapVars
  <2>1. c \in Chunk /\ c \in store /\ atime[c] >= sess[h].started
    BY DEF IndInv, KnownInv, KnownOK, TypeOK, Session
  <2>2. sess[h].started >= gc.minAtime
    BY <1>2 DEF IndInv, SessionInv, SessionOK, CutoffInv, GcRunning
  <2>3. atime[c] \in Int /\ gc.minAtime \in Int /\ sess[h].started \in Int
    BY <2>1 DEF IndInv, TypeOK, Collection, Session
  <2> QED BY <1>3, <2>1, <2>2, <2>3
<1> QED BY <1>5, <1>6, <1>9, <1>10, <1>11 DEF IndInv

-----------------------------------------------------------------------------
(* The environment, and all steps together *)

LEMMA TickInv ==
    ASSUME IndInv, TypeOK', Tick \/ UNCHANGED vars
    PROVE  IndInv'
<1>1. UNCHANGED <<store, atime, snapVars, sess, gc, exposed>> /\ now' >= now
  BY DEF Tick, vars, snapVars, IndInv, TypeOK
<1>2. now \in Int /\ now' \in Int /\ gc.minAtime \in Int
      /\ \A g \in Group : sess[g].started \in Int
  BY DEF IndInv, TypeOK, Collection, Session
<1>3. DirInv' /\ KnownInv' /\ ListingInv' /\ GcPhaseInv'
  BY <1>1 DEF IndInv, DirInv, KnownInv, KnownOK, ListingInv, GcPhaseInv, snapVars
<1>4. SessionInv'
  BY <1>1, <1>2 DEF IndInv, SessionInv, SessionOK, snapVars
<1>5. CutoffInv'
  BY <1>1, <1>2 DEF IndInv, CutoffInv, GcRunning
<1>6. \A h \in Group, s \in Slot : Live(h, s)' = Live(h, s)
  BY <1>1 DEF Live, snapVars
<1>7. \A h \in Group, s \in Slot, c \in Chunk : ToBeMarked(h, s, c)' = ToBeMarked(h, s, c)
  BY <1>1 DEF ToBeMarked, snapVars
<1>8. StoreInv'
  BY <1>1, <1>6 DEF IndInv, StoreInv, snapVars
<1>9. CoverageInv'
  <2>1. \A h \in Group, s \in Slot : index[h][s] \subseteq Chunk
    BY DEF IndInv, TypeOK
  <2> QED BY <1>1, <1>6, <1>7, <2>1 DEF IndInv, CoverageInv, GcRunning, snapVars
<1> QED BY <1>3, <1>4, <1>5, <1>8, <1>9 DEF IndInv

(* A dead process leaves fewer sessions, hence fewer live snapshots. *)
LEMMA CrashInv ==
    ASSUME IndInv, TypeOK', NEW p \in Process, Crash(p)
    PROVE  IndInv'
<1>1. UNCHANGED <<now, store, atime, snapVars, exposed>>
  BY DEF Crash
<1>2. \A g \in Group : sess'[g] = sess[g] \/ sess'[g] = IdleSession
  BY DEF Crash
<1>3. /\ IdleSession.pc = "idle" /\ IdleSession.started = 0 /\ ~IdleSession.open
      /\ ~IdleSession.storeGuard /\ ~IdleSession.baseGuard
  BY DEF IdleSession
<1>4. gc' = gc \/ gc' = IdleCollection
  BY DEF Crash
<1>5. /\ IdleCollection.pc = "idle" /\ IdleCollection.todo = {}
  BY DEF IdleCollection
<1>6. DirInv' /\ GcPhaseInv'
  BY <1>1, <1>4, <1>5 DEF IndInv, DirInv, GcPhaseInv, snapVars
<1>7. SessionInv'
  <2> SUFFICES ASSUME NEW g \in Group PROVE SessionOK(g)'
    BY DEF SessionInv
  <2>1. CASE sess'[g] = sess[g]
    BY <1>1, <2>1 DEF IndInv, SessionInv, SessionOK, snapVars
  <2>2. CASE sess'[g] = IdleSession
    BY <1>1, <1>3, <2>2 DEF IndInv, SessionOK, TypeOK
  <2> QED BY <1>2, <2>1, <2>2
<1>8. KnownInv'
  BY <1>1, <1>2, <1>3 DEF IndInv, KnownInv, KnownOK, snapVars
<1>9. CutoffInv'
  BY <1>1, <1>2, <1>3, <1>4, <1>5 DEF IndInv, CutoffInv, GcRunning
<1>10. \A h \in Group, s \in Slot : Live(h, s)' => Live(h, s) /\ (s \in finished[h] \/ sess'[h] = sess[h])
  BY <1>1, <1>2, <1>3 DEF Live, snapVars
<1>11. StoreInv'
  BY <1>1, <1>10 DEF IndInv, StoreInv, snapVars
<1>12. CoverageInv'
  <2> SUFFICES ASSUME gc' = gc, GcRunning, NEW h \in Group, exposed[h] = {}, NEW s \in Slot,
                      Live(h, s)', NEW c \in index[h][s]
               PROVE  atime[c] >= gc.minAtime \/ ToBeMarked(h, s, c)'
    BY <1>1, <1>4, <1>5 DEF CoverageInv, GcRunning, snapVars
  <2>1. atime[c] >= gc.minAtime \/ ToBeMarked(h, s, c)
    BY <1>10 DEF IndInv, CoverageInv
  <2>2. sess[h].pc = "active" /\ sess[h].slot = s => s \notin finished[h]
    BY DEF IndInv, SessionInv, SessionOK
  <2> QED BY <1>1, <1>10, <2>1, <2>2 DEF ToBeMarked, snapVars
<1>13. ListingInv'
  BY <1>1, <1>2, <1>3, <1>4, <1>5 DEF IndInv, ListingInv, snapVars
<1> QED BY <1>6, <1>7, <1>8, <1>9, <1>11, <1>12, <1>13 DEF IndInv

LEMMA SessionInvariance ==
    ASSUME IndInv, TypeOK', NEW g \in Group, SessionNext(g)
    PROVE  IndInv'
<1>1. CASE \E p \in Process, s \in Slot, b \in Slot \cup {NoSlot} : StartBackup(g, p, s, b)
  BY <1>1, StartBackupInv
<1>2. CASE CreateBackupDir(g)
  BY <1>2, CreateBackupDirInv
<1>3. CASE LockChunkStore(g)
  BY <1>3, LockChunkStoreInv
<1>4. CASE FailSetup(g) \/ CompleteFinish(g)
  BY <1>4, FailSetupInv
<1>5. CASE \E c \in Chunk : UploadChunk(g, c)
  BY <1>5, UploadChunkInv
<1>6. CASE \/ DownloadPrevious(g)
           \/ \E S \in SUBSET Chunk : CreateIndex(g, S)
           \/ \E c \in Chunk : AppendChunk(g, c)
  BY <1>6, ReadBaseInv
<1>7. CASE CloseIndex(g)
  BY <1>7, CloseIndexInv
<1>8. CASE FinishBackup(g)
  BY <1>8, FinishBackupInv
<1>9. CASE RejectManifest(g)
  BY <1>9, RejectManifestInv
<1>10. CASE PersistManifest(g)
  BY <1>10, PersistManifestInv
<1>11. CASE AbortBackup(g)
  BY <1>11, AbortBackupInv
<1> QED BY <1>1, <1>2, <1>3, <1>4, <1>5, <1>6, <1>7, <1>8, <1>9, <1>10, <1>11 DEF SessionNext

LEMMA CollectionInvariance ==
    ASSUME IndInv, TypeOK', GcStep
    PROVE  IndInv'
<1>1. CASE \E T \in SUBSET Group : GcListIndexFiles(T)
  BY <1>1, GcListIndexFilesInv
<1>2. CASE \E g \in Group : GcNextGroup(g)
  BY <1>2, GcNextGroupInv
<1>3. CASE GcListGroup
  BY <1>3, GcListGroupInv
<1>4. CASE GcGiveUpGroup \/ GcFinish
  BY <1>4, GcStopInv
<1>5. CASE \E s \in Slot : GcSkipSnapshot(s)
  BY <1>5, GcSkipSnapshotInv
<1>6. CASE \E s \in Slot : GcMarkIndex(s)
  BY <1>6, GcMarkIndexInv
<1>7. CASE \E s \in Slot : GcRetryGroup(s)
  BY <1>7, GcRetryGroupInv
<1>8. CASE \E s \in Slot : GcSkipVanished(s)
  BY <1>8, GcSkipVanishedInv
<1>9. CASE GcGroupDone
  BY <1>9, GcGroupDoneInv
<1>10. CASE \E g \in Group, s \in Slot : GcMarkStrange(g, s)
  BY <1>10, GcMarkStrangeInv
<1>11. CASE GcStartSweep
  BY <1>11, GcStartSweepInv
<1>12. CASE \E c \in Chunk : GcSweepChunk(c)
  BY <1>12, GcSweepChunkInv
<1> QED BY <1>1, <1>2, <1>3, <1>4, <1>5, <1>6, <1>7, <1>8, <1>9, <1>10, <1>11, <1>12 DEF GcStep

LEMMA InitInv == Init => IndInv
<1> SUFFICES ASSUME Init PROVE IndInv
  OBVIOUS
<1>1. TypeOK
  BY InitTypeOK
<1>2. /\ IdleSession.pc = "idle" /\ IdleSession.started = 0 /\ ~IdleSession.open
      /\ ~IdleSession.storeGuard /\ ~IdleSession.baseGuard
  BY DEF IdleSession
<1>3. IdleCollection.pc = "idle" /\ IdleCollection.todo = {}
  BY DEF IdleCollection
<1>4. DirInv /\ StoreInv
  BY DEF Init, DirInv, StoreInv, Live
<1>5. SessionInv /\ KnownInv
  BY <1>2 DEF Init, SessionInv, SessionOK, KnownInv, KnownOK
<1>6. CutoffInv /\ CoverageInv /\ ListingInv /\ GcPhaseInv
  BY <1>3 DEF Init, CutoffInv, CoverageInv, ListingInv, GcPhaseInv, GcRunning
<1> QED BY <1>1, <1>4, <1>5, <1>6 DEF IndInv

LEMMA NextInv == IndInv /\ [Next]_vars => IndInv'
<1> SUFFICES ASSUME IndInv, [Next]_vars PROVE IndInv'
  OBVIOUS
<1>1. TypeOK'
  BY NextTypeOK DEF IndInv
<1>2. CASE \E g \in Group : SessionNext(g)
  BY <1>1, <1>2, SessionInvariance
<1>3. CASE \E g \in Group, s \in Slot : Prune(g, s)
  BY <1>1, <1>3, PruneInv
<1>4. CASE \E p \in Process : GcStart(p)
  BY <1>1, <1>4, GcStartInv
<1>5. CASE GcStep
  BY <1>1, <1>5, CollectionInvariance
<1>6. CASE GcAbort
  BY <1>1, <1>6, GcStopInv
<1>7. CASE Tick \/ UNCHANGED vars
  BY <1>1, <1>7, TickInv
<1>8. CASE \E p \in Process : Crash(p)
  BY <1>1, <1>8, CrashInv
<1> QED BY <1>2, <1>3, <1>4, <1>5, <1>6, <1>7, <1>8 DEF Next

(* The invariant gives both promises: a finished snapshot with an index is *)
(* live, and what a writer knows is fresh or its live base references it.  *)
LEMMA InvImplies == IndInv => FinishedComplete /\ WritersChunksKept
<1> SUFFICES ASSUME IndInv PROVE FinishedComplete /\ WritersChunksKept
  OBVIOUS
<1>1. FinishedComplete
  <2> SUFFICES ASSUME NEW g \in Group, exposed[g] = {}, NEW s \in finished[g]
               PROVE  index[g][s] \subseteq store
    BY DEF FinishedComplete, Complete
  <2>1. s \in Slot
    BY DEF IndInv, TypeOK
  <2>2. CASE s \in indexed[g]
    BY <2>1, <2>2 DEF IndInv, StoreInv, Live
  <2>3. CASE s \notin indexed[g]
    BY <2>1, <2>3 DEF IndInv, DirInv
  <2> QED BY <2>2, <2>3
<1>2. WritersChunksKept
  <2> SUFFICES ASSUME NEW g \in Group, exposed[g] = {}, sess[g].pc = "active",
                      NEW c \in sess[g].known \cup sess[g].writer
               PROVE  c \in store
    BY DEF WritersChunksKept
  <2>1. ASSUME sess[g].base \in indexed[g]
        PROVE  sess[g].base \in Slot /\ Live(g, sess[g].base)
    BY <2>1 DEF IndInv, TypeOK, DirInv, SessionInv, SessionOK, Live
  <2> QED BY <2>1 DEF IndInv, KnownInv, KnownOK, StoreInv
<1> QED BY <1>1, <1>2

(* The inductive invariant holds for any number of groups, snapshots,      *)
(* chunks and daemon processes, whatever backups, prunes, collections and  *)
(* crashes interleave.                                                     *)
THEOREM Invariance == Spec => []IndInv
  BY InitInv, NextInv, PTL DEF Spec

(* In a group that no exposure has touched, every chunk a finished         *)
(* snapshot references stays in the chunk store.                           *)
THEOREM SnapshotsStayComplete == Spec => []FinishedComplete
  BY Invariance, InvImplies, PTL

(* Likewise for a running backup: the chunks it may still reference stay   *)
(* in the chunk store while it is active.                                  *)
THEOREM WritersStaySafe == Spec => []WritersChunksKept
  BY Invariance, InvImplies, PTL

-----------------------------------------------------------------------------
(* Collections and the writers of other processes *)

LEMMA SessionKeepsProcess ==
    ASSUME TypeOK, NEW g \in Group, SessionNext(g), ~LockChunkStore(g)
    PROVE  \A h \in Group : sess'[h].storeGuard => sess[h].storeGuard /\ sess'[h].proc = sess[h].proc
<1> SUFFICES /\ \A h \in Group : h # g => sess'[h] = sess[h]
             /\ sess'[g].storeGuard => sess[g].storeGuard /\ sess'[g].proc = sess[g].proc
  OBVIOUS
<1>0. ~IdleSession.storeGuard /\ ~IdleSession.baseGuard
  BY DEF IdleSession
<1>1. ASSUME NEW p \in Process, NEW s \in Slot, NEW b \in Slot \cup {NoSlot}, StartBackup(g, p, s, b)
      PROVE  (\A h \in Group : h # g => sess'[h] = sess[h]) /\ ~sess'[g].storeGuard
  <2> DEFINE y == [IdleSession EXCEPT !.pc = "group", !.proc = p, !.slot = s, !.base = b]
  <2>1. ~y.storeGuard
    BY DEF IdleSession
  <2> HIDE DEF y
  <2>2. sess' = [sess EXCEPT ![g] = y]
    BY <1>1 DEF StartBackup, y
  <2> QED BY <2>1, <2>2, OtherSessions
<1>2. CASE FailSetup(g) \/ CompleteFinish(g) \/ AbortBackup(g)
  <2>1. sess' = [sess EXCEPT ![g] = IdleSession]
    BY <1>2 DEF FailSetup, CompleteFinish, AbortBackup
  <2> QED BY <1>0, <2>1, OtherSessions
<1>3. CASE CreateBackupDir(g)
  BY <1>3 DEF CreateBackupDir, TypeOK, Session
<1>4. CASE \E c \in Chunk : UploadChunk(g, c)
  BY <1>4 DEF UploadChunk, TypeOK, Session
<1>5. CASE DownloadPrevious(g)
  BY <1>5 DEF DownloadPrevious, TypeOK, Session
<1>6. CASE \E S \in SUBSET Chunk : CreateIndex(g, S)
  BY <1>6 DEF CreateIndex, TypeOK, Session
<1>7. CASE \E c \in Chunk : AppendChunk(g, c)
  BY <1>7 DEF AppendChunk, TypeOK, Session
<1>8. CASE CloseIndex(g)
  BY <1>8 DEF CloseIndex, TypeOK, Session
<1>9. CASE FinishBackup(g) \/ RejectManifest(g)
  BY ZenonT(60), <1>9 DEF FinishBackup, RejectManifest, TypeOK, Session
<1>10. CASE PersistManifest(g)
  BY <1>10 DEF PersistManifest
<1> QED BY <1>1, <1>2, <1>3, <1>4, <1>5, <1>6, <1>7, <1>8, <1>9, <1>10 DEF SessionNext

LEMMA CollectionKeepsProcess ==
    ASSUME TypeOK, GcStep \/ GcAbort
    PROVE  UNCHANGED sess /\ GcRunning /\ (gc'.pc = "idle" \/ gc'.proc = gc.proc)
<1>1. IdleCollection.pc = "idle"
  BY DEF IdleCollection
<1>2. CASE GcGiveUpGroup \/ GcFinish \/ GcAbort
  BY <1>1, <1>2 DEF GcGiveUpGroup, GcFinish, GcAbort, GcRunning
<1>3. CASE \E T \in SUBSET Group : GcListIndexFiles(T)
  BY <1>3 DEF GcListIndexFiles, GcRunning, TypeOK, Collection
<1>4. CASE (\E g \in Group : GcNextGroup(g)) \/ GcListGroup
  BY ZenonT(60), <1>4 DEF GcNextGroup, GcListGroup, GcRunning, TypeOK, Collection
<1>5. CASE \E s \in Slot : GcSkipSnapshot(s) \/ GcRetryGroup(s)
  BY ZenonT(60), <1>5 DEF GcSkipSnapshot, GcRetryGroup, Newest, GcRunning, TypeOK, Collection
<1>6. CASE \E s \in Slot : GcMarkIndex(s) \/ GcSkipVanished(s)
  BY ZenonT(60), <1>6 DEF GcMarkIndex, GcSkipVanished, Visited, Newest, GcRunning, TypeOK, Collection
<1>7. CASE GcGroupDone \/ GcStartSweep
  BY <1>7 DEF GcGroupDone, GcStartSweep, GcRunning, TypeOK, Collection
<1>8. CASE \E g \in Group, s \in Slot : GcMarkStrange(g, s)
  BY <1>8 DEF GcMarkStrange, GcRunning, TypeOK, Collection
<1>9. CASE \E c \in Chunk : GcSweepChunk(c)
  BY <1>9 DEF GcSweepChunk, GcRunning, TypeOK, Collection
<1> QED BY <1>2, <1>3, <1>4, <1>5, <1>6, <1>7, <1>8, <1>9 DEF GcStep

LEMMA NextWriterInv ==
    ASSUME TypeOK, WriterInv, [Next]_vars
    PROVE  WriterInv'
<1>1. ASSUME NEW g \in Group, SessionNext(g), ~LockChunkStore(g) PROVE WriterInv'
  <2>1. gc'.pc = gc.pc /\ gc'.proc = gc.proc
    BY ZenonT(60), <1>1 DEF SessionNext, StartBackup, CreateBackupDir, FailSetup, UploadChunk,
       DownloadPrevious, CreateIndex, AppendChunk, CloseIndex, FinishBackup, RejectManifest,
       GiveUpBase, PersistManifest, CompleteFinish, AbortBackup, TypeOK, Collection
  <2> QED BY <1>1, <2>1, SessionKeepsProcess DEF WriterInv, GcRunning
<1>2. ASSUME NEW g \in Group, LockChunkStore(g) PROVE WriterInv'
  <2>1. /\ sess'[g].proc = sess[g].proc /\ gc' = gc /\ (GcRunning => gc.proc = sess[g].proc)
        /\ \A h \in Group : h # g => sess'[h] = sess[h]
    BY <1>2 DEF LockChunkStore, SharedLockFree, TypeOK, Session
  <2> QED BY <2>1 DEF WriterInv, GcRunning
<1>3. CASE \E g \in Group, s \in Slot : Prune(g, s)
  BY <1>3 DEF Prune, WriterInv, GcRunning
<1>4. ASSUME NEW p \in Process, GcStart(p) PROVE WriterInv'
  <2>1. gc'.proc = p /\ UNCHANGED sess
    BY <1>4 DEF GcStart, IdleCollection
  <2> QED BY <1>4, <2>1 DEF GcStart, ExclusiveLockFree, WriterInv
<1>5. CASE GcStep \/ GcAbort
  BY <1>5, CollectionKeepsProcess DEF WriterInv, GcRunning
<1>6. CASE Tick \/ UNCHANGED vars
  BY <1>6 DEF Tick, vars, WriterInv, GcRunning
<1>7. ASSUME NEW p \in Process, Crash(p) PROVE WriterInv'
  <2>1. \A h \in Group : sess'[h] = sess[h] \/ ~sess'[h].storeGuard
    BY <1>7 DEF Crash, IdleSession
  <2>2. gc' = gc \/ gc'.pc = "idle"
    BY <1>7 DEF Crash, IdleCollection
  <2> QED BY <2>1, <2>2 DEF WriterInv, GcRunning
<1> QED BY <1>1, <1>2, <1>3, <1>4, <1>5, <1>6, <1>7 DEF Next

(* Only a sweep takes a chunk out of the store. *)
LEMMA OnlySweepRemoves ==
    ASSUME TypeOK, [Next]_vars, store \ store' # {}
    PROVE  GcRunning
<1>1. ASSUME NEW g \in Group, SessionNext(g) PROVE store \subseteq store'
  BY ZenonT(60), <1>1 DEF SessionNext, StartBackup, CreateBackupDir, LockChunkStore, FailSetup, UploadChunk,
     DownloadPrevious, CreateIndex, AppendChunk, CloseIndex, FinishBackup, RejectManifest,
     PersistManifest, CompleteFinish, AbortBackup
<1>2. CASE (\E g \in Group, s \in Slot : Prune(g, s)) \/ (\E p \in Process : GcStart(p) \/ Crash(p))
  BY <1>2 DEF Prune, GcStart, Crash
<1>3. CASE Tick \/ UNCHANGED vars
  BY <1>3 DEF Tick, vars
<1> QED BY SMTT(40), <1>1, <1>2, <1>3, CollectionKeepsProcess DEF Next

(* Whatever the number of processes: when a collection sweeps a chunk, no  *)
(* session of another process holds the chunk store lock.                  *)
THEOREM SweepsOnlyOwnWriters == Spec => OnlyOwnWriters
<1>1. Init => WriterInv
  BY DEF Init, WriterInv, GcRunning, IdleCollection
<1>2. Spec => []WriterInv
  BY <1>1, NextWriterInv, TypeCorrect, PTL DEF Spec
<1>3. ASSUME TypeOK, WriterInv, [Next]_vars
      PROVE  [store \ store' # {} =>
                \A g \in Group : sess[g].storeGuard => sess[g].proc = gc.proc]_vars
  BY <1>3, OnlySweepRemoves DEF WriterInv
<1> QED BY <1>2, <1>3, TypeCorrect, PTL DEF Spec, OnlyOwnWriters
=============================================================================
