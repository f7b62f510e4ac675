------------------------ MODULE ObjectStoreGCProofs ------------------------
(***************************************************************************)
(* Theorems about ObjectStoreGC, for any snapshots, chunks, readers,       *)
(* instances, cutoff and safety gap, and for every environment.            *)
(*                                                                         *)
(* AcceptedKept alone is not inductive: that a collection does not delete  *)
(* an accepted chunk follows from the access times and .using files it has *)
(* left behind phase by phase (KeptInv), and those from who holds the lock *)
(* of a chunk and what is true while it is held (HeldInv).                 *)
(***************************************************************************)
EXTENDS ObjectStoreGC, WellFoundedInduction, TLAPS

-----------------------------------------------------------------------------
(* The inductive invariant *)

(* Who has a chunk's lock, and what the lock protects meanwhile. *)
UploadHeld(s) ==
    sess[s].step # "idle" => sess[s].stage = "open" /\ sess[s].up \in Chunk /\ lock[sess[s].up] = s
UploadStored(s) ==
    /\ sess[s].step \in {"put", "duplicate", "cached"} => sess[s].up \in object
    /\ sess[s].step = "cached" => file[sess[s].up] # "none" /\ atime[sess[s].up] >= sess[s].start
RenameHeld ==
    verifier.step # "idle" =>
        /\ verifier.chunk \in condemned /\ lock[verifier.chunk] = Verifier
        /\ file[verifier.chunk] = "none" \/ verifier.chunk \in orphan
DeletesHeld ==
    \A c \in Chunk : \A b \in {"good", "bad"} :
        <<c, b>> \in gc.dlist => lock[c] = Gc /\ (b = "good" => file[c] = "none" \/ c \in orphan)

(* Users of the local cache have an instance of the datastore. *)
SessionOf(s) == sess[s].stage = "open" => sess[s].impl \in Impl /\ sess[s].start <= time
AccessOf(r) == reader[r].step # "idle" => reader[r].chunk \in Chunk /\ reader[r].impl \in Impl

(* The collection, phase by phase; its minimum is no later than the start  *)
(* of any session that is open.                                            *)
CollectionOf ==
    /\ gc.phase # "idle" => gc.impl \in Impl /\ gc.min <= time
    /\ gc.phase # "mark" => gc.miss = None /\ gc.visit = {} /\ gc.todo = {}
    /\ gc.phase = "list" => gc.marked = {}
    /\ gc.phase # "sweep" => gc.listed = {} /\ gc.dlist = {}
MinBeforeSessions ==
    \A s \in Snapshot : gc.phase # "idle" /\ sess[s].stage = "open" => gc.min <= sess[s].start

(* A chunk that snapshot s was told is stored, and may count on. *)
Kept(s, c) ==
    sess[s].stage \in {"open", "done"} /\ exposed[s] = {} /\ c \in sess[s].got /\ c \notin condemned

(* A collection will not sweep the chunk: its file is new enough, or it is *)
(* expected; or it is about to be.                                         *)
Fresh(c) == file[c] # "none" /\ atime[c] >= gc.min
Covered(c) == Fresh(c) \/ (file[c] = "none" /\ c \in expected)
Reached(c) == Covered(c) \/ (c = gc.miss /\ ~gc.isBad)

KeptStored(s, c) == c \in object /\ <<c, "good">> \notin gc.dlist
KeptNotBad(c) == file[c] = "none" => bad[c] = Absent
KeptTouched(s, c) == sess[s].stage = "open" => file[c] # "none" /\ atime[c] >= sess[s].start
KeptMarked(s, c) ==
    gc.phase = "mark" =>
        /\ c \in gc.marked => Reached(c)
        /\ s \notin gc.visit => c \in gc.todo \/ Reached(c)
KeptSwept(c) ==
    /\ gc.phase = "sweep" => Covered(c)
    /\ gc.phase = "local" => (file[c] # "none" => atime[c] >= gc.min)

KeptInv(s, c) == KeptStored(s, c) /\ KeptNotBad(c) /\ KeptTouched(s, c) /\ KeptMarked(s, c) /\ KeptSwept(c)

HeldInv ==
    /\ \A s \in Snapshot : UploadHeld(s) /\ UploadStored(s) /\ SessionOf(s)
    /\ \A r \in Reader : AccessOf(r)
    /\ RenameHeld /\ DeletesHeld /\ CollectionOf /\ MinBeforeSessions
KeptAll == \A s \in Snapshot, c \in Chunk : Kept(s, c) => KeptInv(s, c)

StoreInd == TypeOK /\ HeldInv /\ KeptAll /\ MarkersTrue /\ ListedHasFile

-----------------------------------------------------------------------------
(* Numbers, records and fields *)

(* A set of numbers has a least one. *)
LEMMA LeastNumber ==
  ASSUME NEW T \in SUBSET Nat, T # {}
  PROVE  \E x \in T : \A y \in T : x <= y
<1>1. PICK x \in T : \A y \in T : <<y, x>> \notin OpToRel(<, Nat)
  BY WFMin, NatLessThanWellFounded
<1>2. ASSUME NEW y \in T, y < x PROVE FALSE
  BY <1>1, <1>2 DEF OpToRel
<1> QED
  BY <1>2

(* min_atime is a time no later than the start of any session. *)
LEMMA MinAtimeIs ==
  ASSUME TypeOK
  PROVE  /\ MinAtime \in Int /\ MinAtime <= time
         /\ \A s \in Snapshot : sess[s].stage = "open" => MinAtime <= sess[s].start
<1>1. Starts \subseteq Nat /\ time \in Nat /\ Cutoff \in Nat /\ SafetyGap \in Nat
  BY SizeAssumption DEF Starts, TypeOK, Session, Times
<1>2. CASE Starts = {}
  <2>1. \A s \in Snapshot : sess[s].stage # "open"
    BY <1>2 DEF Starts
  <2> QED
    BY <1>1, <1>2, <2>1 DEF MinAtime, OldestWriter
<1>3. CASE Starts # {}
  <2>1. OldestWriter \in Starts /\ \A u \in Starts : OldestWriter <= u
    BY <1>1, <1>3, LeastNumber DEF OldestWriter
  <2>2. \A s \in Snapshot : sess[s].stage = "open" => OldestWriter <= sess[s].start /\ sess[s].start \in Nat
    BY <1>1, <2>1 DEF Starts
  <2>3. OldestWriter \in Nat
    BY <1>1, <2>1
  <2>4. MinAtime \in Int /\ MinAtime <= time /\ MinAtime <= OldestWriter
    BY <1>1, <2>3 DEF MinAtime
  <2> QED
    BY <2>2, <2>3, <2>4
<1> QED
  BY <1>2, <1>3

(* Records of sessions that are new, gone or done. *)
LEMMA SessionRecords ==
  /\ NewSession \in Session /\ Gone \in Session
  /\ \A C \in SUBSET Chunk : [NewSession EXCEPT !.stage = "done", !.got = C] \in Session
<1>1. 0 \in Times
  BY SizeAssumption DEF Times
<1>2. NewSession \in Session
  BY <1>1 DEF NewSession, Session
<1>3. \A C \in SUBSET Chunk : [NewSession EXCEPT !.stage = "done", !.got = C] \in Session
  BY <1>2 DEF Session
<1>4. Gone \in Session
  BY <1>2 DEF Gone, Session
<1> QED
  BY <1>2, <1>3, <1>4

(* The record of no collection. *)
LEMMA IdleIsCollection == IdleCollection \in Collection
<1>1. 0 \in Int
  OBVIOUS
<1> QED
  BY <1>1 DEF IdleCollection, Collection

(* Fields of a collection. *)
LEMMA GcFields ==
  ASSUME gc \in Collection
  PROVE  /\ gc.visit \subseteq Snapshot /\ gc.todo \subseteq Chunk /\ gc.marked \subseteq Chunk
         /\ gc.miss \in Chunk \cup {None}
         /\ gc.keys \subseteq Key /\ gc.listed \subseteq Key /\ gc.dlist \subseteq Key
         /\ gc.left \subseteq Chunk /\ gc.impl \in Impl \cup {None}
  BY DEF Collection

(* Records of sessions in which an upload begins or ends. *)
LEMMA SessionUpdates ==
  ASSUME TypeOK, NEW z \in Snapshot
  PROVE  /\ \A d \in Chunk : [sess[z] EXCEPT !.up = d, !.step = "locked"] \in Session
         /\ [sess[z] EXCEPT !.up = None, !.step = "idle"] \in Session
         /\ sess[z].up \in Chunk =>
              [sess[z] EXCEPT !.got = sess[z].got \cup {sess[z].up}, !.up = None, !.step = "idle"] \in Session
<1>1. sess[z] \in Session
  BY DEF TypeOK
<1>2. \A d \in Chunk : [sess[z] EXCEPT !.up = d, !.step = "locked"] \in Session
  BY <1>1 DEF Session
<1>3. [sess[z] EXCEPT !.up = None, !.step = "idle"] \in Session
  BY <1>1 DEF Session
<1>4. ASSUME sess[z].up \in Chunk
      PROVE  [sess[z] EXCEPT !.got = sess[z].got \cup {sess[z].up}, !.up = None, !.step = "idle"] \in Session
  <2>1. sess[z].got \cup {sess[z].up} \in SUBSET Chunk
    BY <1>1, <1>4 DEF Session
  <2> QED
    BY <1>1, <2>1 DEF Session
<1> QED
  BY <1>2, <1>3, <1>4

(* A chunk is marked and its lock awaited. *)
LEMMA MissRecord == ASSUME TypeOK, NEW d \in Chunk, NEW m \in {None, d}, NEW b \in BOOLEAN
   PROVE [gc EXCEPT !.todo = @ \ {d}, !.marked = @ \cup {d}, !.miss = m, !.isBad = b] \in Collection
<1>1. gc.todo \ {d} \subseteq Chunk /\ gc.marked \cup {d} \subseteq Chunk /\ gc \in Collection
  BY GcFields DEF TypeOK
<1> QED
  BY <1>1 DEF Collection

(* A chunk is marked. *)
LEMMA MarkRecord == ASSUME TypeOK, NEW d \in Chunk
                    PROVE  [gc EXCEPT !.todo = @ \ {d}, !.marked = @ \cup {d}] \in Collection
  BY ZenonT(60) DEF Collection, TypeOK
(* A key is listed. *)
LEMMA ListRecord == ASSUME TypeOK, NEW k \in Key
                    PROVE  [gc EXCEPT !.keys = @ \ {k}, !.listed = @ \cup {k}] \in Collection
  BY ZenonT(60) DEF Collection, TypeOK
(* A key has no object. *)
LEMMA PassRecord == ASSUME TypeOK, NEW k \in Key PROVE [gc EXCEPT !.keys = @ \ {k}] \in Collection
  BY DEF Collection, TypeOK
(* A key is to be deleted. *)
LEMMA SweepRecord == ASSUME TypeOK, NEW k \in Key
                     PROVE  [gc EXCEPT !.listed = @ \ {k}, !.dlist = @ \cup {k}] \in Collection
  BY DEF Collection, TypeOK
(* A chunk was looked at again. *)
LEMMA FoundRecord == ASSUME TypeOK PROVE [gc EXCEPT !.miss = None, !.isBad = FALSE] \in Collection
  BY DEF Collection, TypeOK
(* The chunks of an index that are not marked yet are to be marked. *)
LEMMA VisitRecord ==
  ASSUME TypeOK, NEW z \in Snapshot
  PROVE  [gc EXCEPT !.visit = @ \ {z},
                    !.todo = IF sess[z].stage = "done" THEN sess[z].got \ gc.marked ELSE {}] \in Collection
<1>1. (IF sess[z].stage = "done" THEN sess[z].got \ gc.marked ELSE {}) \subseteq Chunk
  BY DEF TypeOK, Session
<1> QED
  BY ZenonT(60), <1>1 DEF TypeOK, Collection

-----------------------------------------------------------------------------
(* Types *)

(* lock_chunk notes the chunk in the session. *)
LEMMA LockChunkType ==
  ASSUME TypeOK, HeldInv, NEW z \in Snapshot, NEW d \in Chunk, LockChunk(z, d)
  PROVE  TypeOK'
<1> USE SizeAssumption, NameAssumption DEF LockChunk, localVars, historyVars, TypeOK, Key
<1>1. sess' \in [Snapshot -> Session]
  <2> DEFINE r == [sess[z] EXCEPT !.up = d, !.step = "locked"]
  <2>1. r \in Session
    BY SessionUpdates
  <2>2. sess' = [sess EXCEPT ![z] = r]
    OBVIOUS
  <2> HIDE DEF r
  <2> QED
    BY SMTT(40), <2>1, <2>2
<1> QED
  BY <1>1 DEF HeldInv, UploadHeld, SessionOf, AccessOf, RenameHeld, CollectionOf

(* A chunk answered from the LRU list is added to the accepted ones. *)
LEMMA SkipCachedType ==
  ASSUME TypeOK, HeldInv, NEW z \in Snapshot, SkipCached(z)
  PROVE  TypeOK'
<1> USE SizeAssumption, NameAssumption DEF SkipCached, Uploading, Accept, CachedExposure,
                                           localVars, TypeOK, Key
<1>1. sess' \in [Snapshot -> Session]
  <2>0. sess[z].up \in Chunk
    BY SMTT(40) DEF HeldInv, UploadHeld
  <2> DEFINE r == [sess[z] EXCEPT !.got = sess[z].got \cup {sess[z].up}, !.up = None, !.step = "idle"]
  <2>1. r \in Session
    BY SessionUpdates, <2>0
  <2>2. sess' = [sess EXCEPT ![z] = r]
    OBVIOUS
  <2> HIDE DEF r
  <2> QED
    BY <2>1, <2>2
<1> QED
  BY <1>1 DEF HeldInv, UploadHeld, SessionOf, AccessOf, RenameHeld, CollectionOf

(* A chunk answered from its marker is added to the accepted ones. *)
LEMMA SkipTouchedType ==
  ASSUME TypeOK, HeldInv, NEW z \in Snapshot, SkipTouched(z)
  PROVE  TypeOK'
<1> USE SizeAssumption, NameAssumption DEF SkipTouched, Uploading, Accept, TypeOK, Key
<1>1. sess' \in [Snapshot -> Session]
  <2>0. sess[z].up \in Chunk
    BY SMTT(40) DEF HeldInv, UploadHeld
  <2> DEFINE r == [sess[z] EXCEPT !.got = sess[z].got \cup {sess[z].up}, !.up = None, !.step = "idle"]
  <2>1. r \in Session
    BY ZenonT(60), SessionUpdates, <2>0
  <2>2. sess' = [sess EXCEPT ![z] = r]
    OBVIOUS
  <2> HIDE DEF r
  <2> QED
    BY <2>1, <2>2
<1> QED
  BY <1>1 DEF HeldInv, UploadHeld, SessionOf, AccessOf, RenameHeld, CollectionOf

(* A chunk uploaded without the cache is added to the accepted ones. *)
LEMMA PutNoCacheType ==
  ASSUME TypeOK, HeldInv, NEW z \in Snapshot, PutNoCache(z)
  PROVE  TypeOK'
<1> USE SizeAssumption, NameAssumption DEF PutNoCache, Uploading, Put, Accept, localVars, TypeOK,
                                           Key
<1>1. sess' \in [Snapshot -> Session]
  <2>0. sess[z].up \in Chunk
    BY SMTT(40) DEF HeldInv, UploadHeld
  <2> DEFINE r == [sess[z] EXCEPT !.got = sess[z].got \cup {sess[z].up}, !.up = None, !.step = "idle"]
  <2>1. r \in Session
    BY SessionUpdates, <2>0
  <2>2. sess' = [sess EXCEPT ![z] = r]
    OBVIOUS
  <2> HIDE DEF r
  <2> QED
    BY <2>1, <2>2
<1> QED
  BY <1>1 DEF HeldInv, UploadHeld, SessionOf, AccessOf, RenameHeld, CollectionOf

(* An uploaded chunk gets a file and an entry of the LRU list. *)
LEMMA InsertUploadedType ==
  ASSUME TypeOK, HeldInv, NEW z \in Snapshot, InsertUploaded(z)
  PROVE  TypeOK'
<1> USE SizeAssumption, NameAssumption DEF InsertUploaded, CacheInsert, LruInsert, Dangling,
                                           TypeOK, Key
<1>1. file' \in [Chunk -> {"none", "marker", "full"}]
  BY DEF HeldInv, UploadHeld, SessionOf, AccessOf, RenameHeld, CollectionOf
<1>2. atime' \in [Chunk -> Times]
  BY DEF HeldInv, UploadHeld, SessionOf, AccessOf, RenameHeld, CollectionOf, Times
<1>3. lru' \in [Impl -> SUBSET Chunk] /\ impl' \in Impl
  BY DEF HeldInv, UploadHeld, SessionOf, AccessOf, RenameHeld, CollectionOf
<1>4. sess' \in [Snapshot -> Session]
  BY SMTT(40) DEF HeldInv, UploadHeld, SessionOf, AccessOf, RenameHeld, CollectionOf, Session, Times
<1>5. condemned' \subseteq Chunk /\ orphan' \subseteq Chunk
  BY DEF HeldInv, UploadHeld, SessionOf, AccessOf, RenameHeld, CollectionOf
<1> QED
  BY <1>1, <1>2, <1>3, <1>4, <1>5 DEF HeldInv, UploadHeld, SessionOf, AccessOf, RenameHeld,
                                      CollectionOf

(* A chunk uploaded through the cache is added to the accepted ones. *)
LEMMA ClearExpectedType ==
  ASSUME TypeOK, HeldInv, NEW z \in Snapshot, ClearExpected(z)
  PROVE  TypeOK'
<1> USE SizeAssumption, NameAssumption DEF ClearExpected, Uploading, Accept, historyVars, TypeOK,
                                           Key
<1>1. sess' \in [Snapshot -> Session]
  <2>0. sess[z].up \in Chunk
    BY SMTT(40) DEF HeldInv, UploadHeld
  <2> DEFINE r == [sess[z] EXCEPT !.got = sess[z].got \cup {sess[z].up}, !.up = None, !.step = "idle"]
  <2>1. r \in Session
    BY SessionUpdates, <2>0
  <2>2. sess' = [sess EXCEPT ![z] = r]
    OBVIOUS
  <2> HIDE DEF r
  <2> QED
    BY <2>1, <2>2
<1> QED
  BY <1>1 DEF HeldInv, UploadHeld, SessionOf, AccessOf, RenameHeld, CollectionOf

(* A failed upload leaves the session as it was before. *)
LEMMA UploadFailsType ==
  ASSUME TypeOK, HeldInv, NEW z \in Snapshot, UploadFails(z)
  PROVE  TypeOK'
<1> USE SizeAssumption, NameAssumption DEF UploadFails, localVars, historyVars, TypeOK, Key
<1>1. sess' \in [Snapshot -> Session]
  <2> DEFINE r == [sess[z] EXCEPT !.up = None, !.step = "idle"]
  <2>1. r \in Session
    BY SessionUpdates
  <2>2. sess' = [sess EXCEPT ![z] = r]
    OBVIOUS
  <2> HIDE DEF r
  <2> QED
    BY SMTT(40), <2>1, <2>2
<1> QED
  BY <1>1 DEF HeldInv, UploadHeld, SessionOf, AccessOf, RenameHeld, CollectionOf

(* A finished session keeps its accepted chunks. *)
LEMMA FinishBackupType ==
  ASSUME TypeOK, HeldInv, NEW z \in Snapshot, FinishBackup(z)
  PROVE  TypeOK'
<1> USE SizeAssumption, NameAssumption DEF FinishBackup, Uploading, NewSession, localVars,
                                           historyVars, TypeOK, Key
<1>1. sess' \in [Snapshot -> Session]
  <2> HIDE DEF NewSession
  <2>1. sess[z].got \in SUBSET Chunk
    BY DEF Session
  <2> QED
    BY <2>1, SessionRecords
<1> QED
  BY <1>1 DEF HeldInv, UploadHeld, SessionOf, AccessOf, RenameHeld, CollectionOf

(* An aborted session is gone. *)
LEMMA AbortBackupType ==
  ASSUME TypeOK, HeldInv, NEW z \in Snapshot, AbortBackup(z)
  PROVE  TypeOK'
<1> USE SizeAssumption, NameAssumption DEF AbortBackup, Uploading, Gone, NewSession, localVars,
                                           historyVars, TypeOK, Key
<1>1. sess' \in [Snapshot -> Session]
  <2> HIDE DEF NewSession, Gone
  <2> QED
    BY SessionRecords
<1> QED
  BY <1>1 DEF HeldInv, UploadHeld, SessionOf, AccessOf, RenameHeld, CollectionOf

(* A pruned snapshot is gone. *)
LEMMA PruneType ==
  ASSUME TypeOK, HeldInv, NEW z \in Snapshot, Prune(z)
  PROVE  TypeOK'
<1> USE SizeAssumption, NameAssumption DEF Prune, Gone, NewSession, localVars, historyVars,
                                           TypeOK, Key
<1>1. sess' \in [Snapshot -> Session]
  <2> HIDE DEF NewSession, Gone
  <2> QED
    BY SessionRecords
<1> QED
  BY <1>1 DEF HeldInv, UploadHeld, SessionOf, AccessOf, RenameHeld, CollectionOf

(* A new collection has a minimal access time. *)
LEMMA GcStartType ==
  ASSUME TypeOK, HeldInv, GcStart
  PROVE  TypeOK'
<1> USE SizeAssumption, NameAssumption DEF GcStart, IdleCollection, localVars, historyVars,
                                           TypeOK, Key
<1>1. gc' \in Collection
  <2> HIDE DEF IdleCollection
  <2>1. MinAtime \in Int /\ IdleCollection \in Collection
    BY MinAtimeIs, IdleIsCollection
  <2> QED
    BY ZenonT(60), <2>1 DEF Collection
<1> QED
  BY <1>1 DEF HeldInv, UploadHeld, SessionOf, AccessOf, RenameHeld, CollectionOf

(* The chunks of an index are those of a finished session. *)
LEMMA GcVisitType ==
  ASSUME TypeOK, HeldInv, NEW z \in Snapshot, GcVisit(z)
  PROVE  TypeOK'
<1> USE SizeAssumption, NameAssumption DEF GcVisit, localVars, historyVars, TypeOK, Key
<1>1. gc' \in Collection
  BY VisitRecord
<1> QED
  BY <1>1 DEF HeldInv, UploadHeld, SessionOf, AccessOf, RenameHeld, CollectionOf

(* A touched chunk is marked. *)
LEMMA GcTouchType ==
  ASSUME TypeOK, HeldInv, NEW d \in Chunk, GcTouch(d)
  PROVE  TypeOK'
<1> USE SizeAssumption, NameAssumption DEF GcTouch, historyVars, TypeOK, Key
<1>1. gc' \in Collection
  BY MarkRecord
<1> QED
  BY <1>1 DEF HeldInv, UploadHeld, SessionOf, AccessOf, RenameHeld, CollectionOf

(* A chunk without a file is marked, and its lock awaited. *)
LEMMA GcMissType ==
  ASSUME TypeOK, HeldInv, NEW d \in Chunk, GcMiss(d)
  PROVE  TypeOK'
<1> USE SizeAssumption, NameAssumption DEF GcMiss, historyVars, TypeOK, Key
<1>1. gc' \in Collection
  BY MissRecord
<1> QED
  BY <1>1 DEF HeldInv, UploadHeld, SessionOf, AccessOf, RenameHeld, CollectionOf

(* A chunk that is expected is one of an index. *)
LEMMA GcExpectType ==
  ASSUME TypeOK, HeldInv, GcExpect
  PROVE  TypeOK'
<1> USE SizeAssumption, NameAssumption DEF GcExpect, historyVars, TypeOK, Key
<1>1. object' \subseteq Chunk /\ badObject' \subseteq Chunk /\ expected' \subseteq Chunk
  BY GcFields
<1>2. atime' \in [Chunk -> Times]
  BY ZenonT(60) DEF HeldInv, UploadHeld, SessionOf, AccessOf, RenameHeld, CollectionOf, Times
<1>3. gc' \in Collection
  BY ZenonT(60) DEF HeldInv, UploadHeld, SessionOf, AccessOf, RenameHeld, CollectionOf, Collection
<1> QED
  BY <1>1, <1>2, <1>3 DEF HeldInv, UploadHeld, SessionOf, AccessOf, RenameHeld, CollectionOf

(* A listed key is a key. *)
LEMMA GcListKeyType ==
  ASSUME TypeOK, HeldInv, NEW k \in Key, GcListKey(k)
  PROVE  TypeOK'
<1> USE SizeAssumption, NameAssumption DEF GcListKey, InOrder, localVars, historyVars, TypeOK, Key
<1>1. gc' \in Collection
  <2>1. gc' = [gc EXCEPT !.keys = @ \ {k}, !.listed = @ \cup {k}] \/ gc' = [gc EXCEPT !.keys = @ \ {k}]
    BY ZenonT(60) DEF Collection
  <2> QED
    BY <2>1, ListRecord, PassRecord
<1> QED
  BY <1>1 DEF HeldInv, UploadHeld, SessionOf, AccessOf, RenameHeld, CollectionOf

(* A key with an old file goes onto the list of deletes. *)
LEMMA GcSweepOldType ==
  ASSUME TypeOK, HeldInv, NEW k \in Key, GcSweepOld(k)
  PROVE  TypeOK'
<1> USE SizeAssumption, NameAssumption DEF GcSweepOld, InOrder, Present, AccessTime, CacheRemove,
                                           TypeOK, Key
<1>1. gc' \in Collection
  BY SweepRecord
<1>2. file' \in [Chunk -> {"none", "marker", "full"}]
  BY DEF HeldInv, UploadHeld, SessionOf, AccessOf, RenameHeld, CollectionOf
<1>3. atime' \in [Chunk -> Times]
  BY DEF HeldInv, UploadHeld, SessionOf, AccessOf, RenameHeld, CollectionOf, Times
<1>4. bad' \in [Chunk -> Times \cup {Absent}]
  BY DEF HeldInv, UploadHeld, SessionOf, AccessOf, RenameHeld, CollectionOf, Times, Absent
<1>5. lru' \in [Impl -> SUBSET Chunk] /\ impl' \in Impl
  BY DEF HeldInv, UploadHeld, SessionOf, AccessOf, RenameHeld, CollectionOf
<1>6. lock' \in [Chunk -> Snapshot \cup {None, Gc, Verifier}]
  BY DEF HeldInv, UploadHeld, SessionOf, AccessOf, RenameHeld, CollectionOf
<1> QED
  BY <1>1, <1>2, <1>3, <1>4, <1>5, <1>6 DEF HeldInv, UploadHeld, SessionOf, AccessOf,
                                            RenameHeld, CollectionOf

(* An expected chunk gets a marker. *)
LEMMA GcKeepExpectedType ==
  ASSUME TypeOK, HeldInv, NEW k \in Key, GcKeepExpected(k)
  PROVE  TypeOK'
<1> USE SizeAssumption, NameAssumption DEF GcKeepExpected, InOrder, Present, TypeOK, Key
<1>1. file' \in [Chunk -> {"none", "marker", "full"}]
  BY DEF HeldInv, UploadHeld, SessionOf, AccessOf, RenameHeld, CollectionOf
<1>2. atime' \in [Chunk -> Times]
  BY DEF HeldInv, UploadHeld, SessionOf, AccessOf, RenameHeld, CollectionOf, Times
<1>3. gc' \in Collection
  BY SMTT(40) DEF HeldInv, UploadHeld, SessionOf, AccessOf, RenameHeld, CollectionOf, Collection
<1>4. condemned' \subseteq Chunk /\ orphan' \subseteq Chunk
  BY DEF HeldInv, UploadHeld, SessionOf, AccessOf, RenameHeld, CollectionOf
<1> QED
  BY <1>1, <1>2, <1>3, <1>4 DEF HeldInv, UploadHeld, SessionOf, AccessOf, RenameHeld, CollectionOf

(* A key nobody knows goes onto the list of deletes. *)
LEMMA GcSweepUnknownType ==
  ASSUME TypeOK, HeldInv, NEW k \in Key, GcSweepUnknown(k)
  PROVE  TypeOK'
<1> USE SizeAssumption, NameAssumption DEF GcSweepUnknown, InOrder, Present, localVars,
                                           historyVars, TypeOK, Key
<1>1. gc' \in Collection
  BY SweepRecord
<1> QED
  BY <1>1 DEF HeldInv, UploadHeld, SessionOf, AccessOf, RenameHeld, CollectionOf

(* Files, bad files and .using files of a chunk are swept. *)
LEMMA GcLocalType ==
  ASSUME TypeOK, HeldInv, NEW d \in Chunk, GcLocal(d)
  PROVE  TypeOK'
<1> USE SizeAssumption, NameAssumption DEF GcLocal, SweepOther, CacheRemove, TypeOK, Key
<1>1. file' \in [Chunk -> {"none", "marker", "full"}]
  BY DEF HeldInv, UploadHeld, SessionOf, AccessOf, RenameHeld, CollectionOf
<1>2. atime' \in [Chunk -> Times]
  BY DEF HeldInv, UploadHeld, SessionOf, AccessOf, RenameHeld, CollectionOf, Times
<1>3. bad' \in [Chunk -> Times \cup {Absent}]
  BY DEF HeldInv, UploadHeld, SessionOf, AccessOf, RenameHeld, CollectionOf, Times, Absent
<1>4. lru' \in [Impl -> SUBSET Chunk] /\ impl' \in Impl
  BY DEF HeldInv, UploadHeld, SessionOf, AccessOf, RenameHeld, CollectionOf
<1>5. gc' \in Collection
  BY SMTT(40) DEF HeldInv, UploadHeld, SessionOf, AccessOf, RenameHeld, CollectionOf, Collection
<1> QED
  BY <1>1, <1>2, <1>3, <1>4, <1>5 DEF HeldInv, UploadHeld, SessionOf, AccessOf, RenameHeld,
                                      CollectionOf

(* After a crash the open sessions are gone. *)
LEMMA CrashType ==
  ASSUME TypeOK, HeldInv, Crash
  PROVE  TypeOK'
<1> USE SizeAssumption, NameAssumption DEF Crash, Event, Gone, NewSession, IdleAccess,
                                           IdleVerifier, IdleCollection, historyVars, TypeOK, Key
<1>1. sess' \in [Snapshot -> Session]
  <2> HIDE DEF NewSession, Gone
  <2> QED
    BY SessionRecords
<1>2. time' \in Times /\ events' \in 0 .. MaxEvents
  BY DEF HeldInv, UploadHeld, SessionOf, AccessOf, RenameHeld, CollectionOf
<1>3. object' \subseteq Chunk /\ badObject' \subseteq Chunk /\ expected' \subseteq Chunk
  BY DEF HeldInv, UploadHeld, SessionOf, AccessOf, RenameHeld, CollectionOf
<1>4. file' \in [Chunk -> {"none", "marker", "full"}]
  BY DEF HeldInv, UploadHeld, SessionOf, AccessOf, RenameHeld, CollectionOf
<1>5. atime' \in [Chunk -> Times]
  BY DEF HeldInv, UploadHeld, SessionOf, AccessOf, RenameHeld, CollectionOf, Times
<1>6. bad' \in [Chunk -> Times \cup {Absent}]
  BY DEF HeldInv, UploadHeld, SessionOf, AccessOf, RenameHeld, CollectionOf, Times, Absent
<1>7. lock' \in [Chunk -> Snapshot \cup {None, Gc, Verifier}]
  BY DEF HeldInv, UploadHeld, SessionOf, AccessOf, RenameHeld, CollectionOf
<1>8. lru' \in [Impl -> SUBSET Chunk] /\ impl' \in Impl
  BY DEF HeldInv, UploadHeld, SessionOf, AccessOf, RenameHeld, CollectionOf
<1>9. reader' \in [Reader -> Access]
  BY DEF HeldInv, UploadHeld, SessionOf, AccessOf, RenameHeld, CollectionOf, Access
<1>10. verifier' \in [step : {"idle", "renamed", "copied"}, chunk : Chunk \cup {None}]
  BY DEF HeldInv, UploadHeld, SessionOf, AccessOf, RenameHeld, CollectionOf
<1>11. gc' \in Collection
  BY DEF HeldInv, UploadHeld, SessionOf, AccessOf, RenameHeld, CollectionOf, Collection
<1>12. condemned' \subseteq Chunk /\ orphan' \subseteq Chunk
  BY DEF HeldInv, UploadHeld, SessionOf, AccessOf, RenameHeld, CollectionOf
<1>13. exposed' \in [Snapshot -> SUBSET {"untouched", "orphan", "nocache"}]
  BY DEF HeldInv, UploadHeld, SessionOf, AccessOf, RenameHeld, CollectionOf
<1> QED
  BY <1>1, <1>2, <1>3, <1>4, <1>5, <1>6, <1>7, <1>8, <1>9, <1>10, <1>11, <1>12, <1>13
     DEF HeldInv, UploadHeld, SessionOf, AccessOf, RenameHeld, CollectionOf

(* Every step keeps the types. *)
LEMMA StepTyped == ASSUME TypeOK, HeldInv, Next PROVE TypeOK'
<1>1. ASSUME NEW z \in Snapshot, NEW nocache \in BOOLEAN, StartBackup(z, nocache) PROVE TypeOK'
  BY <1>1 DEF StartBackup, NewSession, localVars, historyVars, TypeOK, Session
<1>2. ASSUME NEW z \in Snapshot, NEW d \in Chunk, LockChunk(z, d) PROVE TypeOK'
  BY <1>2, LockChunkType
<1>3. ASSUME NEW z \in Snapshot, SkipCached(z) PROVE TypeOK'
  BY <1>3, SkipCachedType
<1>4. ASSUME NEW z \in Snapshot, SkipTouched(z) PROVE TypeOK'
  BY <1>4, SkipTouchedType
<1>5. ASSUME NEW z \in Snapshot, PutObject(z) PROVE TypeOK'
  BY SMTT(40), <1>5, SizeAssumption, NameAssumption DEF PutObject, Uploading, Put, localVars,
                                              historyVars, TypeOK, Key, HeldInv, UploadHeld,
                                              SessionOf, AccessOf, RenameHeld, CollectionOf,
                                              Session, Times, Access, Collection, Absent
<1>6. ASSUME NEW z \in Snapshot, PutNoCache(z) PROVE TypeOK'
  BY <1>6, PutNoCacheType
<1>7. ASSUME NEW z \in Snapshot, InsertUploaded(z) PROVE TypeOK'
  BY <1>7, InsertUploadedType
<1>8. ASSUME NEW z \in Snapshot, ClearExpected(z) PROVE TypeOK'
  BY <1>8, ClearExpectedType
<1>9. ASSUME NEW z \in Snapshot, UploadFails(z) PROVE TypeOK'
  BY <1>9, UploadFailsType
<1>10. ASSUME NEW z \in Snapshot, FinishBackup(z) PROVE TypeOK'
  BY <1>10, FinishBackupType
<1>11. ASSUME NEW z \in Snapshot, AbortBackup(z) PROVE TypeOK'
  BY <1>11, AbortBackupType
<1>12. ASSUME NEW z \in Snapshot, Prune(z) PROVE TypeOK'
  BY <1>12, PruneType
<1>13. ASSUME NEW q \in Reader, NEW z \in Snapshot, NEW d \in Chunk, NEW locked \in BOOLEAN,
      OpenChunk(q, z, d, locked) PROVE TypeOK'
  BY <1>13, SizeAssumption, NameAssumption DEF OpenChunk, localVars, historyVars, TypeOK, Key,
                                               HeldInv, UploadHeld, SessionOf, AccessOf,
                                               RenameHeld, CollectionOf, Session, Times,
                                               Access, Collection, Absent
<1>14. ASSUME NEW q \in Reader, UseLocal(q) PROVE TypeOK'
  BY <1>14, SizeAssumption, NameAssumption DEF UseLocal, LruInsert, Dangling, IdleAccess,
                                               TypeOK, Key, HeldInv, UploadHeld, SessionOf,
                                               AccessOf, RenameHeld, CollectionOf, Session,
                                               Times, Access, Collection, Absent
<1>15. ASSUME NEW q \in Reader, FetchObject(q) PROVE TypeOK'
  BY SMTT(40), <1>15, SizeAssumption, NameAssumption DEF FetchObject, IdleAccess, localVars, historyVars,
                                               TypeOK, Key, HeldInv, UploadHeld, SessionOf,
                                               AccessOf, RenameHeld, CollectionOf, Session,
                                               Times, Access, Collection, Absent
<1>16. ASSUME NEW q \in Reader, InsertFetched(q) PROVE TypeOK'
  BY <1>16, SizeAssumption, NameAssumption DEF InsertFetched, CacheInsert, LruInsert, Dangling,
                                               IdleAccess, TypeOK, Key, HeldInv, UploadHeld,
                                               SessionOf, AccessOf, RenameHeld, CollectionOf,
                                               Session, Times, Access, Collection, Absent
<1>17. ASSUME NEW d \in Chunk, RenameLocal(d) PROVE TypeOK'
  BY <1>17, SizeAssumption, NameAssumption DEF RenameLocal, Event, CacheRemove, TypeOK, Key,
                                               HeldInv, UploadHeld, SessionOf, AccessOf,
                                               RenameHeld, CollectionOf, Session, Times,
                                               Access, Collection, Absent
<1>18. ASSUME CopyToBad PROVE TypeOK'
  BY <1>18 DEF CopyToBad, localVars, historyVars, TypeOK
<1>19. ASSUME DeleteCorrupt PROVE TypeOK'
  BY <1>19 DEF DeleteCorrupt, IdleVerifier, localVars, historyVars, TypeOK
<1>20. ASSUME RenameFails PROVE TypeOK'
  BY <1>20 DEF RenameFails, IdleVerifier, localVars, historyVars, TypeOK
<1>21. ASSUME GcStart PROVE TypeOK'
  BY <1>21, GcStartType
<1>22. ASSUME GcListSnapshots PROVE TypeOK'
  BY <1>22 DEF GcListSnapshots, localVars, historyVars, TypeOK, Collection
<1>23. ASSUME NEW z \in Snapshot, GcVisit(z) PROVE TypeOK'
  BY <1>23, GcVisitType
<1>24. ASSUME NEW d \in Chunk, GcTouch(d) PROVE TypeOK'
  BY <1>24, GcTouchType
<1>25. ASSUME NEW d \in Chunk, GcMiss(d) PROVE TypeOK'
  BY <1>25, GcMissType
<1>26. ASSUME GcExpect PROVE TypeOK'
  BY <1>26, GcExpectType
<1>27. ASSUME GcStartSweep PROVE TypeOK'
  BY ZenonT(60), <1>27 DEF GcStartSweep, localVars, historyVars, TypeOK, Collection
<1>28. ASSUME NEW k \in Key, GcListKey(k) PROVE TypeOK'
  BY <1>28, GcListKeyType
<1>29. ASSUME NEW k \in Key, GcSkipLocked(k) PROVE TypeOK'
  BY <1>29 DEF GcSkipLocked, InOrder, localVars, historyVars, TypeOK, Collection
<1>30. ASSUME NEW k \in Key, GcSweepOld(k) PROVE TypeOK'
  BY <1>30, GcSweepOldType
<1>31. ASSUME NEW k \in Key, GcKeep(k) PROVE TypeOK'
  BY <1>31 DEF GcKeep, InOrder, localVars, historyVars, TypeOK, Collection
<1>32. ASSUME NEW k \in Key, GcKeepExpected(k) PROVE TypeOK'
  BY <1>32, GcKeepExpectedType
<1>33. ASSUME NEW k \in Key, GcSweepUnknown(k) PROVE TypeOK'
  BY <1>33, GcSweepUnknownType
<1>34. ASSUME GcDelete PROVE TypeOK'
  BY <1>34 DEF GcDelete, Delete, Release, localVars, historyVars, TypeOK, Collection
<1>35. ASSUME NEW D \in SUBSET gc.dlist, GcDeleteFails(D) PROVE TypeOK'
  BY <1>35 DEF GcDeleteFails, Delete, Release, IdleCollection, localVars, historyVars, TypeOK,
               Collection
<1>36. ASSUME GcStartLocal PROVE TypeOK'
  BY <1>36 DEF GcStartLocal, localVars, historyVars, TypeOK, Collection
<1>37. ASSUME NEW d \in Chunk, GcLocal(d) PROVE TypeOK'
  BY <1>37, GcLocalType
<1>38. ASSUME GcFinish PROVE TypeOK'
  BY <1>38 DEF GcFinish, IdleCollection, localVars, historyVars, TypeOK, Collection
<1>39. ASSUME GcAbort PROVE TypeOK'
  BY <1>39 DEF GcAbort, Release, IdleCollection, localVars, historyVars, TypeOK, Collection
<1>40. ASSUME Tick PROVE TypeOK'
  BY <1>40, SizeAssumption, NameAssumption DEF Tick, localVars, historyVars, TypeOK, Key,
                                               HeldInv, UploadHeld, SessionOf, AccessOf,
                                               RenameHeld, CollectionOf, Session, Times,
                                               Access, Collection, Absent
<1>41. ASSUME NEW i \in Impl, Reconfigure(i) PROVE TypeOK'
  BY <1>41, SizeAssumption, NameAssumption DEF Reconfigure, Event, InUse, historyVars, TypeOK,
                                               Key, HeldInv, UploadHeld, SessionOf, AccessOf,
                                               RenameHeld, CollectionOf, Session, Times,
                                               Access, Collection, Absent
<1>42. ASSUME NEW i \in Impl, NEW d \in Chunk, Evict(i, d) PROVE TypeOK'
  BY <1>42 DEF Evict, Dangling, TypeOK
<1>43. ASSUME Crash PROVE TypeOK'
  BY <1>43, CrashType
<1>44. ASSUME RecreateCache PROVE TypeOK'
  BY <1>44, SizeAssumption, NameAssumption DEF RecreateCache, Event, historyVars, TypeOK, Key,
                                               HeldInv, UploadHeld, SessionOf, AccessOf,
                                               RenameHeld, CollectionOf, Session, Times,
                                               Access, Collection, Absent
<1>45. ASSUME NEW z \in Snapshot, SessionNext(z) PROVE TypeOK'
  BY <1>1, <1>2, <1>3, <1>4, <1>5, <1>6, <1>7, <1>8, <1>9, <1>10, <1>11, <1>12, <1>45
     DEF SessionNext
<1>46. ASSUME NEW q \in Reader, ReaderNext(q) PROVE TypeOK'
  BY <1>13, <1>14, <1>15, <1>16, <1>46 DEF ReaderNext
<1>47. ASSUME VerifierNext PROVE TypeOK'
  BY <1>17, <1>18, <1>19, <1>20, <1>47 DEF VerifierNext
<1>48. ASSUME GcNext PROVE TypeOK'
  BY <1>21, <1>22, <1>23, <1>24, <1>25, <1>26, <1>27, <1>28, <1>29, <1>30, <1>31, <1>32, <1>33,
     <1>34, <1>35, <1>36, <1>37, <1>38, <1>39, <1>48
     DEF GcNext
<1> QED
  BY <1>45, <1>46, <1>47, <1>48, <1>40, <1>41, <1>42, <1>43, <1>44 DEF Next

-----------------------------------------------------------------------------
(* Locks, accesses and the collection *)

(* The minimum of a new collection is no later than the start of any session. *)
LEMMA GcStartHeld ==
  ASSUME TypeOK, HeldInv, GcStart
  PROVE  HeldInv'
<1> USE NameAssumption DEF GcStart, IdleCollection, localVars, historyVars, TypeOK, HeldInv
<1>1. \A s \in Snapshot : UploadHeld(s)'
  BY DEF UploadHeld, Session, RenameHeld, DeletesHeld
<1>2. \A s \in Snapshot : UploadStored(s)'
  BY DEF UploadStored, UploadHeld, Session, SessionOf, RenameHeld, DeletesHeld, Times
<1>3. \A s \in Snapshot : SessionOf(s)'
  BY DEF SessionOf, Session, Times
<1>4. \A r \in Reader : AccessOf(r)'
  BY DEF AccessOf, Access
<1>5. RenameHeld'
  BY DEF RenameHeld, UploadHeld, DeletesHeld
<1>6. DeletesHeld'
  BY DEF DeletesHeld, UploadHeld, RenameHeld, CollectionOf, Collection, Key
<1>7. CollectionOf'
  <2>1. MinAtime \in Int /\ MinAtime <= time
    BY MinAtimeIs
  <2> QED
    BY <2>1 DEF CollectionOf
<1>8. MinBeforeSessions'
  <2>1. MinAtime \in Int /\ \A s \in Snapshot : sess[s].stage = "open" => MinAtime <= sess[s].start
    BY MinAtimeIs
  <2>2. gc'.min = MinAtime
    BY DEF IdleCollection
  <2> QED
    BY <2>1, <2>2 DEF MinBeforeSessions
<1> QED
  BY <1>1, <1>2, <1>3, <1>4, <1>5, <1>6, <1>7, <1>8 DEF HeldInv

(* A batch of deletes has no chunk that is being uploaded. *)
LEMMA GcDeleteHeld ==
  ASSUME TypeOK, HeldInv, GcDelete
  PROVE  HeldInv'
<1> USE NameAssumption DEF GcDelete, Delete, Release, localVars, historyVars, TypeOK, HeldInv
<1>1. \A s \in Snapshot : UploadHeld(s)'
  BY DEF UploadHeld, Session, RenameHeld, DeletesHeld
<1>2. \A s \in Snapshot : UploadStored(s)'
  <2> SUFFICES ASSUME NEW s \in Snapshot PROVE UploadStored(s)'
    OBVIOUS
  <2>1. sess[s].step # "idle" => sess[s].up \in Chunk /\ <<sess[s].up, "good">> \notin gc.dlist
    <3>1. sess[s].step # "idle" => sess[s].up \in Chunk /\ lock[sess[s].up] # Gc
      BY DEF UploadHeld
    <3>2. sess[s].up \in Chunk => (<<sess[s].up, "good">> \in gc.dlist => lock[sess[s].up] = Gc)
      BY DEF DeletesHeld
    <3> QED
      BY <3>1, <3>2
  <2> QED
    BY <2>1 DEF UploadStored
<1>3. \A s \in Snapshot : SessionOf(s)'
  BY DEF SessionOf, Session, Times
<1>4. \A r \in Reader : AccessOf(r)'
  BY DEF AccessOf, Access
<1>5. RenameHeld'
  BY DEF RenameHeld, UploadHeld, DeletesHeld
<1>6. DeletesHeld'
  BY DEF DeletesHeld, UploadHeld, RenameHeld, CollectionOf, Collection, Key
<1>7. CollectionOf'
  BY DEF CollectionOf, Collection, Times
<1>8. MinBeforeSessions'
  BY DEF MinBeforeSessions, SessionOf, CollectionOf, Collection, Session, Times
<1> QED
  BY <1>1, <1>2, <1>3, <1>4, <1>5, <1>6, <1>7, <1>8 DEF HeldInv

(* A part of a batch has no chunk that is being uploaded either. *)
LEMMA GcDeleteFailsHeld ==
  ASSUME TypeOK, HeldInv, NEW D \in SUBSET gc.dlist, GcDeleteFails(D)
  PROVE  HeldInv'
<1> USE NameAssumption DEF GcDeleteFails, Delete, Release, IdleCollection, localVars, historyVars,
                           TypeOK, HeldInv
<1>1. \A s \in Snapshot : UploadHeld(s)'
  BY DEF UploadHeld, Session, RenameHeld, DeletesHeld
<1>2. \A s \in Snapshot : UploadStored(s)'
  <2> SUFFICES ASSUME NEW s \in Snapshot PROVE UploadStored(s)'
    OBVIOUS
  <2>1. sess[s].step # "idle" => sess[s].up \in Chunk /\ <<sess[s].up, "good">> \notin gc.dlist
    <3>1. sess[s].step # "idle" => sess[s].up \in Chunk /\ lock[sess[s].up] # Gc
      BY DEF UploadHeld
    <3>2. sess[s].up \in Chunk => (<<sess[s].up, "good">> \in gc.dlist => lock[sess[s].up] = Gc)
      BY DEF DeletesHeld
    <3> QED
      BY <3>1, <3>2
  <2> QED
    BY <2>1 DEF UploadStored
<1>3. \A s \in Snapshot : SessionOf(s)'
  BY DEF SessionOf, Session, Times
<1>4. \A r \in Reader : AccessOf(r)'
  BY DEF AccessOf, Access
<1>5. RenameHeld'
  BY DEF RenameHeld, UploadHeld, DeletesHeld
<1>6. DeletesHeld'
  BY DEF DeletesHeld, UploadHeld, RenameHeld, CollectionOf, Collection, Key
<1>7. CollectionOf'
  BY DEF CollectionOf, Collection, Times
<1>8. MinBeforeSessions'
  BY DEF MinBeforeSessions, SessionOf, CollectionOf, Collection, Session, Times
<1> QED
  BY <1>1, <1>2, <1>3, <1>4, <1>5, <1>6, <1>7, <1>8 DEF HeldInv

(* The file of a chunk whose lock is taken is not swept. *)
LEMMA GcLocalHeld ==
  ASSUME TypeOK, HeldInv, NEW d \in Chunk, GcLocal(d)
  PROVE  HeldInv'
<1> USE NameAssumption DEF GcLocal, SweepOther, CacheRemove, TypeOK, HeldInv
<1>1. \A s \in Snapshot : UploadHeld(s)'
  BY DEF UploadHeld, Session, RenameHeld, DeletesHeld
<1>2. \A s \in Snapshot : UploadStored(s)'
  BY DEF UploadStored, UploadHeld, Session, SessionOf, RenameHeld, DeletesHeld, Times
<1>3. \A s \in Snapshot : SessionOf(s)'
  BY DEF SessionOf, Session, Times
<1>4. \A r \in Reader : AccessOf(r)'
  BY DEF AccessOf, Access
<1>5. RenameHeld'
  BY DEF RenameHeld, UploadHeld, DeletesHeld
<1>6. DeletesHeld'
  BY DEF DeletesHeld, UploadHeld, RenameHeld, CollectionOf, Collection, Key
<1>7. CollectionOf'
  BY DEF CollectionOf, Collection, Times
<1>8. MinBeforeSessions'
  BY DEF MinBeforeSessions, SessionOf, CollectionOf, Collection, Session, Times
<1> QED
  BY <1>1, <1>2, <1>3, <1>4, <1>5, <1>6, <1>7, <1>8 DEF HeldInv

(* Every step keeps what is known of locks, accesses and the collection. *)
LEMMA StepHeld == ASSUME TypeOK, HeldInv, Next PROVE HeldInv'
<1>1. ASSUME NEW z \in Snapshot, NEW nocache \in BOOLEAN, StartBackup(z, nocache) PROVE HeldInv'
  BY <1>1, NameAssumption DEF StartBackup, NewSession, localVars, historyVars, HeldInv,
                              UploadHeld, UploadStored, SessionOf, AccessOf, RenameHeld,
                              DeletesHeld, CollectionOf, MinBeforeSessions, TypeOK, Session,
                              Times
<1>2. ASSUME NEW z \in Snapshot, NEW d \in Chunk, LockChunk(z, d) PROVE HeldInv'
  BY <1>2, NameAssumption DEF LockChunk, localVars, historyVars, HeldInv, UploadHeld,
                              UploadStored, SessionOf, AccessOf, RenameHeld, DeletesHeld,
                              CollectionOf, MinBeforeSessions, TypeOK, Session, Times
<1>3. ASSUME NEW z \in Snapshot, SkipCached(z) PROVE HeldInv'
  BY <1>3, NameAssumption DEF SkipCached, Uploading, Accept, CachedExposure, localVars,
                              HeldInv, UploadHeld, UploadStored, SessionOf, AccessOf,
                              RenameHeld, DeletesHeld, CollectionOf, MinBeforeSessions, TypeOK,
                              Session, Times
<1>4. ASSUME NEW z \in Snapshot, SkipTouched(z) PROVE HeldInv'
  BY <1>4, NameAssumption DEF SkipTouched, Uploading, Accept, HeldInv, UploadHeld,
                              UploadStored, SessionOf, AccessOf, RenameHeld, DeletesHeld,
                              CollectionOf, MinBeforeSessions, TypeOK, Session, Times
<1>5. ASSUME NEW z \in Snapshot, PutObject(z) PROVE HeldInv'
  BY <1>5 DEF PutObject, Uploading, Put, localVars, historyVars, HeldInv, UploadHeld,
              UploadStored, SessionOf, AccessOf, RenameHeld, DeletesHeld, CollectionOf,
              MinBeforeSessions
<1>6. ASSUME NEW z \in Snapshot, PutNoCache(z) PROVE HeldInv'
  BY <1>6, NameAssumption DEF PutNoCache, Uploading, Put, Accept, localVars, HeldInv,
                              UploadHeld, UploadStored, SessionOf, AccessOf, RenameHeld,
                              DeletesHeld, CollectionOf, MinBeforeSessions, TypeOK, Session,
                              Times
<1>7. ASSUME NEW z \in Snapshot, InsertUploaded(z) PROVE HeldInv'
  BY <1>7, NameAssumption DEF InsertUploaded, CacheInsert, LruInsert, Dangling, HeldInv,
                              UploadHeld, UploadStored, SessionOf, AccessOf, RenameHeld,
                              DeletesHeld, CollectionOf, MinBeforeSessions, TypeOK, Session,
                              Times
<1>8. ASSUME NEW z \in Snapshot, ClearExpected(z) PROVE HeldInv'
  BY <1>8, NameAssumption DEF ClearExpected, Uploading, Accept, historyVars, HeldInv,
                              UploadHeld, UploadStored, SessionOf, AccessOf, RenameHeld,
                              DeletesHeld, CollectionOf, MinBeforeSessions, TypeOK, Session,
                              Times
<1>9. ASSUME NEW z \in Snapshot, UploadFails(z) PROVE HeldInv'
  BY <1>9, NameAssumption DEF UploadFails, localVars, historyVars, HeldInv, UploadHeld,
                              UploadStored, SessionOf, AccessOf, RenameHeld, DeletesHeld,
                              CollectionOf, MinBeforeSessions, TypeOK, Session, Times
<1>10. ASSUME NEW z \in Snapshot, FinishBackup(z) PROVE HeldInv'
  BY <1>10 DEF FinishBackup, Uploading, NewSession, localVars, historyVars, HeldInv,
               UploadHeld, UploadStored, SessionOf, AccessOf, RenameHeld, DeletesHeld,
               CollectionOf, MinBeforeSessions
<1>11. ASSUME NEW z \in Snapshot, AbortBackup(z) PROVE HeldInv'
  BY <1>11 DEF AbortBackup, Uploading, Gone, NewSession, localVars, historyVars, HeldInv,
               UploadHeld, UploadStored, SessionOf, AccessOf, RenameHeld, DeletesHeld,
               CollectionOf, MinBeforeSessions
<1>12. ASSUME NEW z \in Snapshot, Prune(z) PROVE HeldInv'
  BY <1>12 DEF Prune, Gone, NewSession, localVars, historyVars, HeldInv, UploadHeld,
               UploadStored, SessionOf, AccessOf, RenameHeld, DeletesHeld, CollectionOf,
               MinBeforeSessions
<1>13. ASSUME NEW q \in Reader, NEW z \in Snapshot, NEW d \in Chunk, NEW locked \in BOOLEAN,
      OpenChunk(q, z, d, locked) PROVE HeldInv'
  BY <1>13, NameAssumption DEF OpenChunk, localVars, historyVars, HeldInv, UploadHeld,
                               UploadStored, SessionOf, AccessOf, RenameHeld, DeletesHeld,
                               CollectionOf, MinBeforeSessions, TypeOK, Session, Times
<1>14. ASSUME NEW q \in Reader, UseLocal(q) PROVE HeldInv'
  BY <1>14 DEF UseLocal, LruInsert, Dangling, IdleAccess, HeldInv, UploadHeld, UploadStored,
               SessionOf, AccessOf, RenameHeld, DeletesHeld, CollectionOf, MinBeforeSessions
<1>15. ASSUME NEW q \in Reader, FetchObject(q) PROVE HeldInv'
  BY <1>15 DEF FetchObject, IdleAccess, localVars, historyVars, HeldInv, UploadHeld,
               UploadStored, SessionOf, AccessOf, RenameHeld, DeletesHeld, CollectionOf,
               MinBeforeSessions
<1>16. ASSUME NEW q \in Reader, InsertFetched(q) PROVE HeldInv'
  BY <1>16 DEF InsertFetched, CacheInsert, LruInsert, Dangling, IdleAccess, HeldInv,
               UploadHeld, UploadStored, SessionOf, AccessOf, RenameHeld, DeletesHeld,
               CollectionOf, MinBeforeSessions
<1>17. ASSUME NEW d \in Chunk, RenameLocal(d) PROVE HeldInv'
  BY <1>17, NameAssumption DEF RenameLocal, Event, CacheRemove, HeldInv, UploadHeld,
                               UploadStored, SessionOf, AccessOf, RenameHeld, DeletesHeld,
                               CollectionOf, MinBeforeSessions, TypeOK, Session, Times
<1>18. ASSUME CopyToBad PROVE HeldInv'
  BY <1>18 DEF CopyToBad, localVars, historyVars, HeldInv, UploadHeld, UploadStored, SessionOf,
               AccessOf, RenameHeld, DeletesHeld, CollectionOf, MinBeforeSessions
<1>19. ASSUME DeleteCorrupt PROVE HeldInv'
  BY <1>19, NameAssumption DEF DeleteCorrupt, IdleVerifier, localVars, historyVars, HeldInv,
                               UploadHeld, UploadStored, SessionOf, AccessOf, RenameHeld,
                               DeletesHeld, CollectionOf, MinBeforeSessions
<1>20. ASSUME RenameFails PROVE HeldInv'
  BY <1>20, NameAssumption DEF RenameFails, IdleVerifier, localVars, historyVars, HeldInv,
                               UploadHeld, UploadStored, SessionOf, AccessOf, RenameHeld,
                               DeletesHeld, CollectionOf, MinBeforeSessions
<1>21. ASSUME GcStart PROVE HeldInv'
  BY <1>21, GcStartHeld
<1>22. ASSUME GcListSnapshots PROVE HeldInv'
  BY <1>22 DEF GcListSnapshots, localVars, historyVars, HeldInv, UploadHeld, UploadStored,
               SessionOf, AccessOf, RenameHeld, DeletesHeld, CollectionOf, MinBeforeSessions
<1>23. ASSUME NEW z \in Snapshot, GcVisit(z) PROVE HeldInv'
  BY <1>23 DEF GcVisit, localVars, historyVars, HeldInv, UploadHeld, UploadStored, SessionOf,
               AccessOf, RenameHeld, DeletesHeld, CollectionOf, MinBeforeSessions
<1>24. ASSUME NEW d \in Chunk, GcTouch(d) PROVE HeldInv'
  BY <1>24 DEF GcTouch, historyVars, HeldInv, UploadHeld, UploadStored, SessionOf, AccessOf,
               RenameHeld, DeletesHeld, CollectionOf, MinBeforeSessions
<1>25. ASSUME NEW d \in Chunk, GcMiss(d) PROVE HeldInv'
  BY <1>25 DEF GcMiss, historyVars, HeldInv, UploadHeld, UploadStored, SessionOf, AccessOf,
               RenameHeld, DeletesHeld, CollectionOf, MinBeforeSessions
<1>26. ASSUME GcExpect PROVE HeldInv'
  BY <1>26 DEF GcExpect, historyVars, HeldInv, UploadHeld, UploadStored, SessionOf, AccessOf,
               RenameHeld, DeletesHeld, CollectionOf, MinBeforeSessions
<1>27. ASSUME GcStartSweep PROVE HeldInv'
  BY <1>27 DEF GcStartSweep, localVars, historyVars, HeldInv, UploadHeld, UploadStored,
               SessionOf, AccessOf, RenameHeld, DeletesHeld, CollectionOf, MinBeforeSessions
<1>28. ASSUME NEW k \in Key, GcListKey(k) PROVE HeldInv'
  BY <1>28 DEF GcListKey, InOrder, localVars, historyVars, HeldInv, UploadHeld, UploadStored,
               SessionOf, AccessOf, RenameHeld, DeletesHeld, CollectionOf, MinBeforeSessions
<1>29. ASSUME NEW k \in Key, GcSkipLocked(k) PROVE HeldInv'
  BY <1>29 DEF GcSkipLocked, InOrder, localVars, historyVars, HeldInv, UploadHeld,
               UploadStored, SessionOf, AccessOf, RenameHeld, DeletesHeld, CollectionOf,
               MinBeforeSessions
<1>30. ASSUME NEW k \in Key, GcSweepOld(k) PROVE HeldInv'
  BY <1>30, NameAssumption DEF GcSweepOld, InOrder, Present, AccessTime, CacheRemove, HeldInv,
                               UploadHeld, UploadStored, SessionOf, AccessOf, RenameHeld,
                               DeletesHeld, CollectionOf, MinBeforeSessions, TypeOK, Session,
                               Times
<1>31. ASSUME NEW k \in Key, GcKeep(k) PROVE HeldInv'
  BY <1>31 DEF GcKeep, InOrder, localVars, historyVars, HeldInv, UploadHeld, UploadStored,
               SessionOf, AccessOf, RenameHeld, DeletesHeld, CollectionOf, MinBeforeSessions
<1>32. ASSUME NEW k \in Key, GcKeepExpected(k) PROVE HeldInv'
  BY <1>32, NameAssumption DEF GcKeepExpected, InOrder, Present, HeldInv, UploadHeld,
                               UploadStored, SessionOf, AccessOf, RenameHeld, DeletesHeld,
                               CollectionOf, MinBeforeSessions
<1>33. ASSUME NEW k \in Key, GcSweepUnknown(k) PROVE HeldInv'
  BY <1>33, NameAssumption DEF GcSweepUnknown, InOrder, Present, localVars, historyVars,
                               HeldInv, UploadHeld, UploadStored, SessionOf, AccessOf,
                               RenameHeld, DeletesHeld, CollectionOf, MinBeforeSessions,
                               TypeOK, Session, Times
<1>34. ASSUME GcDelete PROVE HeldInv'
  BY <1>34, GcDeleteHeld
<1>35. ASSUME NEW D \in SUBSET gc.dlist, GcDeleteFails(D) PROVE HeldInv'
  BY <1>35, GcDeleteFailsHeld
<1>36. ASSUME GcStartLocal PROVE HeldInv'
  BY <1>36 DEF GcStartLocal, localVars, historyVars, HeldInv, UploadHeld, UploadStored,
               SessionOf, AccessOf, RenameHeld, DeletesHeld, CollectionOf, MinBeforeSessions
<1>37. ASSUME NEW d \in Chunk, GcLocal(d) PROVE HeldInv'
  BY <1>37, GcLocalHeld
<1>38. ASSUME GcFinish PROVE HeldInv'
  BY <1>38 DEF GcFinish, IdleCollection, localVars, historyVars, HeldInv, UploadHeld,
               UploadStored, SessionOf, AccessOf, RenameHeld, DeletesHeld, CollectionOf,
               MinBeforeSessions
<1>39. ASSUME GcAbort PROVE HeldInv'
  BY <1>39, NameAssumption DEF GcAbort, Release, IdleCollection, localVars, historyVars,
                               HeldInv, UploadHeld, UploadStored, SessionOf, AccessOf,
                               RenameHeld, DeletesHeld, CollectionOf, MinBeforeSessions,
                               TypeOK, Session, Times
<1>40. ASSUME Tick PROVE HeldInv'
  BY <1>40, NameAssumption DEF Tick, localVars, historyVars, HeldInv, UploadHeld, UploadStored,
                               SessionOf, AccessOf, RenameHeld, DeletesHeld, CollectionOf,
                               MinBeforeSessions, TypeOK, Session, Times, Access, Collection,
                               Key
<1>41. ASSUME NEW i \in Impl, Reconfigure(i) PROVE HeldInv'
  BY <1>41 DEF Reconfigure, Event, InUse, historyVars, HeldInv, UploadHeld, UploadStored,
               SessionOf, AccessOf, RenameHeld, DeletesHeld, CollectionOf, MinBeforeSessions
<1>42. ASSUME NEW i \in Impl, NEW d \in Chunk, Evict(i, d) PROVE HeldInv'
  BY <1>42 DEF Evict, Dangling, HeldInv, UploadHeld, UploadStored, SessionOf, AccessOf,
               RenameHeld, DeletesHeld, CollectionOf, MinBeforeSessions
<1>43. ASSUME Crash PROVE HeldInv'
  BY <1>43 DEF Crash, Event, Gone, NewSession, IdleAccess, IdleVerifier, IdleCollection,
               historyVars, HeldInv, UploadHeld, UploadStored, SessionOf, AccessOf, RenameHeld,
               DeletesHeld, CollectionOf, MinBeforeSessions
<1>44. ASSUME RecreateCache PROVE HeldInv'
  BY <1>44 DEF RecreateCache, Event, historyVars, HeldInv, UploadHeld, UploadStored, SessionOf,
               AccessOf, RenameHeld, DeletesHeld, CollectionOf, MinBeforeSessions
<1>45. ASSUME NEW z \in Snapshot, SessionNext(z) PROVE HeldInv'
  BY <1>1, <1>2, <1>3, <1>4, <1>5, <1>6, <1>7, <1>8, <1>9, <1>10, <1>11, <1>12, <1>45
     DEF SessionNext
<1>46. ASSUME NEW q \in Reader, ReaderNext(q) PROVE HeldInv'
  BY <1>13, <1>14, <1>15, <1>16, <1>46 DEF ReaderNext
<1>47. ASSUME VerifierNext PROVE HeldInv'
  BY <1>17, <1>18, <1>19, <1>20, <1>47 DEF VerifierNext
<1>48. ASSUME GcNext PROVE HeldInv'
  BY <1>21, <1>22, <1>23, <1>24, <1>25, <1>26, <1>27, <1>28, <1>29, <1>30, <1>31, <1>32, <1>33,
     <1>34, <1>35, <1>36, <1>37, <1>38, <1>39, <1>48
     DEF GcNext
<1> QED
  BY <1>45, <1>46, <1>47, <1>48, <1>40, <1>41, <1>42, <1>43, <1>44 DEF Next

-----------------------------------------------------------------------------
(* Accepted chunks *)

(* A session that is not exposed got a chunk with a file it need not touch. *)
LEMMA SkipCachedKept ==
  ASSUME TypeOK, HeldInv, KeptAll, NEW z \in Snapshot, SkipCached(z)
  PROVE  KeptAll'
<1> SUFFICES ASSUME NEW s \in Snapshot, NEW c \in Chunk, Kept(s, c)' PROVE KeptInv(s, c)'
  BY DEF KeptAll
<1> USE NameAssumption DEF SkipCached, Uploading, Accept, CachedExposure, localVars, TypeOK
<1>1. /\ sess[z].up \in Chunk /\ lock[sess[z].up] = z /\ sess[z].stage = "open"
      /\ sess[z].start \in Times /\ sess[z].start <= time /\ time \in Nat
      /\ gc.min \in Int /\ (gc.phase # "idle" => gc.min <= sess[z].start /\ gc.min <= time)
      /\ UNCHANGED <<gc, time, bad>>
  BY DEF HeldInv, UploadHeld, SessionOf, MinBeforeSessions, CollectionOf, Collection, Session, Times
<1>2. /\ sess'[s].stage = sess[s].stage /\ sess'[s].start = sess[s].start
      /\ sess'[s].got = sess[s].got \cup (IF s = z THEN {sess[z].up} ELSE {})
      /\ sess[s].start \in Nat /\ (sess[s].stage = "open" => sess[s].start <= time)
  BY DEF Session, HeldInv, SessionOf, Times
<1>3. CASE c # sess[z].up
  <2>1. Kept(s, c)
    BY <1>1, <1>2, <1>3 DEF Kept
  <2>2. KeptInv(s, c)
    BY <2>1 DEF KeptAll
  <2>3. /\ file'[c] = file[c] /\ atime'[c] = atime[c]
        /\ (c \in object' <=> c \in object) /\ (c \in expected' <=> c \in expected)
    BY <1>1, <1>3
  <2> HIDE DEF SkipCached, Uploading, Accept, CachedExposure, localVars, TypeOK
  <2> QED
    BY <1>1, <1>2, <2>2, <2>3 DEF KeptInv, KeptStored, KeptNotBad, KeptTouched, KeptMarked,
                                  KeptSwept, Reached, Covered, Fresh
<1>4. CASE c = sess[z].up /\ s # z
  <2>1. Kept(s, c)
    BY <1>1, <1>2, <1>4 DEF Kept
  <2>2. KeptInv(s, c)
    BY <2>1 DEF KeptAll
  <2>3. file'[c] = file[c] /\ atime'[c] = atime[c] /\ c \in object' /\ expected' = expected
    BY <1>1, <1>4, <2>2 DEF KeptInv, KeptStored, HeldInv, UploadStored, Times
  <2> HIDE DEF SkipCached, Uploading, Accept, CachedExposure, localVars, TypeOK
  <2> QED
    BY <1>1, <1>2, <2>2, <2>3 DEF KeptInv, KeptStored, KeptNotBad, KeptTouched, KeptMarked,
                                  KeptSwept, Reached, Covered, Fresh
<1>5. CASE c = sess[z].up /\ s = z
  <2>1. c \in object' /\ file'[c] # "none" /\ atime'[c] \in Nat /\ atime'[c] >= sess[z].start
    <3> HIDE DEF CachedExposure
    <3>1. exposed'[z] = {} /\ exposed'[z] = exposed[z] \cup CachedExposure(z)
      BY <1>5 DEF Kept
    <3>2. CachedExposure(z) = {}
      BY <3>1
    <3>3. c \in object /\ file[c] # "none" /\ ~(atime[c] < sess[z].start)
      BY <1>5, <3>2 DEF CachedExposure
    <3> QED
      BY <1>1, <3>3 DEF Times
  <2>2. <<c, "good">> \notin gc.dlist
    BY <1>1, <1>5 DEF HeldInv, DeletesHeld
  <2>3. KeptTouched(s, c)'
    BY <1>1, <1>2, <1>5, <2>1 DEF KeptTouched
  <2> HIDE DEF SkipCached, Uploading, Accept, CachedExposure, localVars, TypeOK
  <2> QED
    BY <1>1, <2>1, <2>2, <2>3 DEF KeptInv, KeptStored, KeptNotBad, KeptMarked, KeptSwept,
                                  Reached, Covered, Fresh, Times
<1> QED
  BY <1>3, <1>4, <1>5

(* A touched file is new enough for a collection that is running. *)
LEMMA SkipTouchedKept ==
  ASSUME TypeOK, HeldInv, KeptAll, NEW z \in Snapshot, SkipTouched(z)
  PROVE  KeptAll'
<1> SUFFICES ASSUME NEW s \in Snapshot, NEW c \in Chunk, Kept(s, c)' PROVE KeptInv(s, c)'
  BY DEF KeptAll
<1> USE NameAssumption DEF SkipTouched, Uploading, Accept, TypeOK
<1>1. /\ sess[z].up \in Chunk /\ lock[sess[z].up] = z /\ sess[z].stage = "open"
      /\ sess[z].start \in Times /\ sess[z].start <= time /\ time \in Nat
      /\ gc.min \in Int /\ (gc.phase # "idle" => gc.min <= sess[z].start /\ gc.min <= time)
      /\ UNCHANGED <<gc, time, bad>>
  BY DEF HeldInv, UploadHeld, SessionOf, MinBeforeSessions, CollectionOf, Collection, Session, Times
<1>2. /\ sess'[s].stage = sess[s].stage /\ sess'[s].start = sess[s].start
      /\ sess'[s].got = sess[s].got \cup (IF s = z THEN {sess[z].up} ELSE {})
      /\ sess[s].start \in Nat /\ (sess[s].stage = "open" => sess[s].start <= time)
  BY DEF Session, HeldInv, SessionOf, Times
<1>3. CASE c # sess[z].up
  <2>1. Kept(s, c)
    BY <1>1, <1>2, <1>3 DEF Kept
  <2>2. KeptInv(s, c)
    BY <2>1 DEF KeptAll
  <2>3. /\ file'[c] = file[c] /\ atime'[c] = atime[c]
        /\ (c \in object' <=> c \in object) /\ (c \in expected' <=> c \in expected)
    BY <1>1, <1>3
  <2> HIDE DEF SkipTouched, Uploading, Accept, TypeOK
  <2> QED
    BY <1>1, <1>2, <2>2, <2>3 DEF KeptInv, KeptStored, KeptNotBad, KeptTouched, KeptMarked,
                                  KeptSwept, Reached, Covered, Fresh
<1>4. CASE c = sess[z].up /\ s # z
  <2>1. Kept(s, c)
    BY <1>1, <1>2, <1>4 DEF Kept
  <2>2. KeptInv(s, c)
    BY <2>1 DEF KeptAll
  <2>3. file'[c] # "none" /\ atime'[c] = time /\ c \in object'
    BY <1>1, <1>4, <2>2 DEF KeptInv, KeptStored, HeldInv, UploadStored, Times
  <2> HIDE DEF SkipTouched, Uploading, Accept, TypeOK
  <2> QED
    BY <1>1, <1>2, <2>2, <2>3 DEF KeptInv, KeptStored, KeptNotBad, KeptTouched, KeptMarked,
                                  KeptSwept, Reached, Covered, Fresh
<1>5. CASE c = sess[z].up /\ s = z
  <2>1. c \in object' /\ file'[c] # "none" /\ atime'[c] \in Nat /\ atime'[c] >= sess[z].start
    BY ZenonT(60), <1>1, <1>2, <1>5 DEF Kept, HeldInv, UploadStored, Times
  <2>2. <<c, "good">> \notin gc.dlist
    BY <1>1, <1>5 DEF HeldInv, DeletesHeld
  <2>3. KeptTouched(s, c)'
    BY <1>1, <1>2, <1>5, <2>1 DEF KeptTouched
  <2> HIDE DEF SkipTouched, Uploading, Accept, TypeOK
  <2> QED
    BY <1>1, <2>1, <2>2, <2>3 DEF KeptInv, KeptStored, KeptNotBad, KeptMarked, KeptSwept,
                                  Reached, Covered, Fresh, Times
<1> QED
  BY <1>3, <1>4, <1>5

(* The session is exposed; the others had the chunk before. *)
LEMMA PutNoCacheKept ==
  ASSUME TypeOK, HeldInv, KeptAll, NEW z \in Snapshot, PutNoCache(z)
  PROVE  KeptAll'
<1> SUFFICES ASSUME NEW s \in Snapshot, NEW c \in Chunk, Kept(s, c)' PROVE KeptInv(s, c)'
  BY DEF KeptAll
<1> USE NameAssumption DEF PutNoCache, Uploading, Put, Accept, localVars, TypeOK
<1>1. /\ sess[z].up \in Chunk /\ lock[sess[z].up] = z /\ sess[z].stage = "open"
      /\ sess[z].start \in Times /\ sess[z].start <= time /\ time \in Nat
      /\ gc.min \in Int /\ (gc.phase # "idle" => gc.min <= sess[z].start /\ gc.min <= time)
      /\ UNCHANGED <<gc, time, bad>>
  BY DEF HeldInv, UploadHeld, SessionOf, MinBeforeSessions, CollectionOf, Collection, Session, Times
<1>2. /\ sess'[s].stage = sess[s].stage /\ sess'[s].start = sess[s].start
      /\ sess'[s].got = sess[s].got \cup (IF s = z THEN {sess[z].up} ELSE {})
      /\ sess[s].start \in Nat /\ (sess[s].stage = "open" => sess[s].start <= time)
  BY DEF Session, HeldInv, SessionOf, Times
<1>3. CASE c # sess[z].up
  <2>1. Kept(s, c)
    BY <1>1, <1>2, <1>3 DEF Kept
  <2>2. KeptInv(s, c)
    BY <2>1 DEF KeptAll
  <2>3. /\ file'[c] = file[c] /\ atime'[c] = atime[c]
        /\ (c \in object' <=> c \in object) /\ (c \in expected' <=> c \in expected)
    BY <1>1, <1>3
  <2> HIDE DEF PutNoCache, Uploading, Put, Accept, localVars, TypeOK
  <2> QED
    BY <1>1, <1>2, <2>2, <2>3 DEF KeptInv, KeptStored, KeptNotBad, KeptTouched, KeptMarked,
                                  KeptSwept, Reached, Covered, Fresh
<1>4. CASE c = sess[z].up /\ s # z
  <2>1. Kept(s, c)
    BY <1>1, <1>2, <1>4 DEF Kept
  <2>2. KeptInv(s, c)
    BY <2>1 DEF KeptAll
  <2>3. file'[c] = file[c] /\ atime'[c] = atime[c] /\ c \in object' /\ expected' = expected
    BY <1>1, <1>4, <2>2 DEF KeptInv, KeptStored, HeldInv, UploadStored, Times
  <2> HIDE DEF PutNoCache, Uploading, Put, Accept, localVars, TypeOK
  <2> QED
    BY <1>1, <1>2, <2>2, <2>3 DEF KeptInv, KeptStored, KeptNotBad, KeptTouched, KeptMarked,
                                  KeptSwept, Reached, Covered, Fresh
<1>5. s # z
  BY DEF Kept
<1> QED
  BY <1>3, <1>4, <1>5

(* The file of an uploaded chunk is new enough for everybody who has the chunk. *)
LEMMA InsertUploadedKept ==
  ASSUME TypeOK, HeldInv, KeptAll, NEW z \in Snapshot, InsertUploaded(z)
  PROVE  KeptAll'
<1> SUFFICES ASSUME NEW s \in Snapshot, NEW c \in Chunk, Kept(s, c)' PROVE KeptInv(s, c)'
  BY DEF KeptAll
<1> USE NameAssumption DEF InsertUploaded, CacheInsert, LruInsert, Dangling, TypeOK
<1>1. /\ sess[z].up \in Chunk /\ lock[sess[z].up] = z /\ sess[z].stage = "open"
      /\ sess[z].start \in Times /\ sess[z].start <= time /\ time \in Nat
      /\ gc.min \in Int /\ (gc.phase # "idle" => gc.min <= sess[z].start /\ gc.min <= time)
      /\ UNCHANGED <<gc, time, bad>>
  BY DEF HeldInv, UploadHeld, SessionOf, MinBeforeSessions, CollectionOf, Collection, Session, Times
<1>2. /\ sess'[s].stage = sess[s].stage /\ sess'[s].start = sess[s].start
      /\ sess'[s].got = sess[s].got
      /\ sess[s].start \in Nat /\ (sess[s].stage = "open" => sess[s].start <= time)
  BY DEF Session, HeldInv, SessionOf, Times
<1>3. CASE c # sess[z].up
  <2>1. Kept(s, c)
    BY <1>1, <1>2, <1>3 DEF Kept
  <2>2. KeptInv(s, c)
    BY <2>1 DEF KeptAll
  <2>3. /\ file'[c] = file[c] /\ atime'[c] = atime[c]
        /\ (c \in object' <=> c \in object) /\ (c \in expected' <=> c \in expected)
    BY <1>1, <1>3
  <2> HIDE DEF InsertUploaded, CacheInsert, LruInsert, Dangling, TypeOK
  <2> QED
    BY <1>1, <1>2, <2>2, <2>3 DEF KeptInv, KeptStored, KeptNotBad, KeptTouched, KeptMarked,
                                  KeptSwept, Reached, Covered, Fresh
<1>5. CASE c = sess[z].up
  <2>1. c \in object' /\ file'[c] # "none" /\ atime'[c] \in Nat /\ atime'[c] >= sess[z].start
    BY <1>1, <1>2, <1>5 DEF Kept, HeldInv, UploadStored, Times
  <2>2. <<c, "good">> \notin gc.dlist
    BY <1>1, <1>5 DEF HeldInv, DeletesHeld
  <2>3. KeptTouched(s, c)'
    BY <1>1, <1>2, <1>5, <2>1 DEF KeptTouched
  <2> HIDE DEF InsertUploaded, CacheInsert, LruInsert, Dangling, TypeOK
  <2> QED
    BY <1>1, <2>1, <2>2, <2>3 DEF KeptInv, KeptStored, KeptNotBad, KeptMarked, KeptSwept,
                                  Reached, Covered, Fresh, Times
<1> QED
  BY <1>3, <1>5

(* The chunk need not be expected any more, it has a file. *)
LEMMA ClearExpectedKept ==
  ASSUME TypeOK, HeldInv, KeptAll, NEW z \in Snapshot, ClearExpected(z)
  PROVE  KeptAll'
<1> SUFFICES ASSUME NEW s \in Snapshot, NEW c \in Chunk, Kept(s, c)' PROVE KeptInv(s, c)'
  BY DEF KeptAll
<1> USE NameAssumption DEF ClearExpected, Uploading, Accept, historyVars, TypeOK
<1>1. /\ sess[z].up \in Chunk /\ lock[sess[z].up] = z /\ sess[z].stage = "open"
      /\ sess[z].start \in Times /\ sess[z].start <= time /\ time \in Nat
      /\ gc.min \in Int /\ (gc.phase # "idle" => gc.min <= sess[z].start /\ gc.min <= time)
      /\ UNCHANGED <<gc, time, bad>>
  BY DEF HeldInv, UploadHeld, SessionOf, MinBeforeSessions, CollectionOf, Collection, Session, Times
<1>2. /\ sess'[s].stage = sess[s].stage /\ sess'[s].start = sess[s].start
      /\ sess'[s].got = sess[s].got \cup (IF s = z THEN {sess[z].up} ELSE {})
      /\ sess[s].start \in Nat /\ (sess[s].stage = "open" => sess[s].start <= time)
  BY DEF Session, HeldInv, SessionOf, Times
<1>3. CASE c # sess[z].up
  <2>1. Kept(s, c)
    BY <1>1, <1>2, <1>3 DEF Kept
  <2>2. KeptInv(s, c)
    BY <2>1 DEF KeptAll
  <2>3. /\ file'[c] = file[c] /\ atime'[c] = atime[c]
        /\ (c \in object' <=> c \in object) /\ (c \in expected' <=> c \in expected)
    BY <1>1, <1>3
  <2> HIDE DEF ClearExpected, Uploading, Accept, historyVars, TypeOK
  <2> QED
    BY <1>1, <1>2, <2>2, <2>3 DEF KeptInv, KeptStored, KeptNotBad, KeptTouched, KeptMarked,
                                  KeptSwept, Reached, Covered, Fresh
<1>4. CASE c = sess[z].up /\ s # z
  <2>1. Kept(s, c)
    BY <1>1, <1>2, <1>4 DEF Kept
  <2>2. KeptInv(s, c)
    BY <2>1 DEF KeptAll
  <2>3. file'[c] # "none" /\ atime'[c] = atime[c] /\ c \in object' /\ (gc.phase # "idle" => atime[c] >= gc.min)
    BY <1>1, <1>4, <2>2 DEF KeptInv, KeptStored, HeldInv, UploadStored, Times
  <2> HIDE DEF ClearExpected, Uploading, Accept, historyVars, TypeOK
  <2> QED
    BY <1>1, <1>2, <2>2, <2>3 DEF KeptInv, KeptStored, KeptNotBad, KeptTouched, KeptMarked,
                                  KeptSwept, Reached, Covered, Fresh
<1>5. CASE c = sess[z].up /\ s = z
  <2>1. c \in object' /\ file'[c] # "none" /\ atime'[c] \in Nat /\ atime'[c] >= sess[z].start
    BY <1>1, <1>2, <1>5 DEF Kept, HeldInv, UploadStored, Times
  <2>2. <<c, "good">> \notin gc.dlist
    BY <1>1, <1>5 DEF HeldInv, DeletesHeld
  <2>3. KeptTouched(s, c)'
    BY <1>1, <1>2, <1>5, <2>1 DEF KeptTouched
  <2> HIDE DEF ClearExpected, Uploading, Accept, historyVars, TypeOK
  <2> QED
    BY <1>1, <2>1, <2>2, <2>3 DEF KeptInv, KeptStored, KeptNotBad, KeptMarked, KeptSwept,
                                  Reached, Covered, Fresh, Times
<1> QED
  BY <1>3, <1>4, <1>5

(* A new collection has marked nothing and deletes nothing. *)
LEMMA GcStartKept ==
  ASSUME TypeOK, HeldInv, KeptAll, GcStart
  PROVE  KeptAll'
<1> SUFFICES ASSUME NEW s \in Snapshot, NEW c \in Chunk, Kept(s, c)' PROVE KeptInv(s, c)'
  BY DEF KeptAll
<1> USE NameAssumption DEF GcStart, IdleCollection, localVars, historyVars, TypeOK
<1>1. Kept(s, c) /\ KeptInv(s, c)
  <2>1. Kept(s, c)
    BY DEF Kept, Session
  <2> QED
    BY <2>1 DEF KeptAll
<1>2. KeptStored(s, c)'
  BY <1>1 DEF KeptStored, KeptInv, KeptSwept, Kept, HeldInv, RenameHeld, Covered, Fresh,
              CollectionOf, Collection, Key
<1>3. KeptNotBad(c)'
  BY <1>1 DEF KeptInv, KeptNotBad, KeptTouched, KeptSwept, Covered, Fresh, Kept, Times, Absent,
              Collection, HeldInv, CollectionOf, Key
<1>4. KeptTouched(s, c)'
  BY <1>1 DEF KeptInv, KeptTouched, Kept, Session, HeldInv, SessionOf, MinBeforeSessions,
              CollectionOf, Times, Collection, KeptSwept, Covered, Fresh
<1>5. KeptMarked(s, c)'
  BY <1>1 DEF KeptInv, KeptMarked, Reached, Covered, Fresh, Kept, HeldInv, CollectionOf,
              Collection, KeptNotBad, KeptTouched, MinBeforeSessions, Session, Times
<1>6. KeptSwept(c)'
  BY <1>1 DEF KeptInv, KeptSwept, KeptMarked, Reached, Covered, Fresh, Kept, HeldInv,
              CollectionOf, Collection, KeptStored, Times, MinBeforeSessions, Key
<1> QED
  BY <1>2, <1>3, <1>4, <1>5, <1>6 DEF KeptInv

(* A chunk without file is about to be expected: it has no .bad file. *)
LEMMA GcMissKept ==
  ASSUME TypeOK, HeldInv, KeptAll, NEW d \in Chunk, GcMiss(d)
  PROVE  KeptAll'
<1> SUFFICES ASSUME NEW s \in Snapshot, NEW c \in Chunk, Kept(s, c)' PROVE KeptInv(s, c)'
  BY DEF KeptAll
<1> USE NameAssumption DEF GcMiss, historyVars, TypeOK
<1>1. Kept(s, c) /\ KeptInv(s, c)
  <2>1. Kept(s, c)
    BY DEF Kept, Session
  <2> QED
    BY <2>1 DEF KeptAll
<1>2. KeptStored(s, c)'
  BY <1>1 DEF KeptStored, KeptInv, KeptSwept, Kept, HeldInv, RenameHeld, Covered, Fresh,
              CollectionOf, Collection, Key
<1>3. KeptNotBad(c)'
  BY <1>1 DEF KeptInv, KeptNotBad, KeptTouched, KeptSwept, Covered, Fresh, Kept, Times, Absent,
              Collection, HeldInv, CollectionOf, Key
<1>4. KeptTouched(s, c)'
  BY <1>1 DEF KeptInv, KeptTouched, Kept, Session, HeldInv, SessionOf, MinBeforeSessions,
              CollectionOf, Times, Collection, KeptSwept, Covered, Fresh
<1>5. KeptMarked(s, c)'
  BY ZenonT(60), <1>1 DEF KeptInv, KeptMarked, Reached, Covered, Fresh, Kept, HeldInv, CollectionOf,
              Collection, KeptNotBad, KeptTouched, MinBeforeSessions, Session, Times
<1>6. KeptSwept(c)'
  BY <1>1 DEF KeptInv, KeptSwept, KeptMarked, Reached, Covered, Fresh, Kept, HeldInv,
              CollectionOf, Collection, KeptStored, Times, MinBeforeSessions, Key
<1> QED
  BY <1>2, <1>3, <1>4, <1>5, <1>6 DEF KeptInv

(* Without a collection, only the sessions count. *)
LEMMA GcFinishKept ==
  ASSUME TypeOK, HeldInv, KeptAll, GcFinish
  PROVE  KeptAll'
<1> SUFFICES ASSUME NEW s \in Snapshot, NEW c \in Chunk, Kept(s, c)' PROVE KeptInv(s, c)'
  BY DEF KeptAll
<1> USE NameAssumption DEF GcFinish, IdleCollection, localVars, historyVars, TypeOK
<1>1. Kept(s, c) /\ KeptInv(s, c)
  <2>1. Kept(s, c)
    BY DEF Kept, Session
  <2> QED
    BY <2>1 DEF KeptAll
<1>2. KeptStored(s, c)'
  BY <1>1 DEF KeptStored, KeptInv, KeptSwept, Kept, HeldInv, RenameHeld, Covered, Fresh,
              CollectionOf, Collection, Key
<1>3. KeptNotBad(c)'
  BY <1>1 DEF KeptInv, KeptNotBad, KeptTouched, KeptSwept, Covered, Fresh, Kept, Times, Absent,
              Collection, HeldInv, CollectionOf, Key
<1>4. KeptTouched(s, c)'
  BY <1>1 DEF KeptInv, KeptTouched, Kept, Session, HeldInv, SessionOf, MinBeforeSessions,
              CollectionOf, Times, Collection, KeptSwept, Covered, Fresh
<1>5. KeptMarked(s, c)'
  BY <1>1 DEF KeptInv, KeptMarked, Reached, Covered, Fresh, Kept, HeldInv, CollectionOf,
              Collection, KeptNotBad, KeptTouched, MinBeforeSessions, Session, Times
<1>6. KeptSwept(c)'
  BY <1>1 DEF KeptInv, KeptSwept, KeptMarked, Reached, Covered, Fresh, Kept, HeldInv,
              CollectionOf, Collection, KeptStored, Times, MinBeforeSessions, Key
<1> QED
  BY <1>2, <1>3, <1>4, <1>5, <1>6 DEF KeptInv

(* Without a collection, only the sessions count. *)
LEMMA GcAbortKept ==
  ASSUME TypeOK, HeldInv, KeptAll, GcAbort
  PROVE  KeptAll'
<1> SUFFICES ASSUME NEW s \in Snapshot, NEW c \in Chunk, Kept(s, c)' PROVE KeptInv(s, c)'
  BY DEF KeptAll
<1> USE NameAssumption DEF GcAbort, Release, IdleCollection, localVars, historyVars, TypeOK
<1>1. Kept(s, c) /\ KeptInv(s, c)
  <2>1. Kept(s, c)
    BY DEF Kept, Session
  <2> QED
    BY <2>1 DEF KeptAll
<1>2. KeptStored(s, c)'
  BY <1>1 DEF KeptStored, KeptInv, KeptSwept, Kept, HeldInv, RenameHeld, Covered, Fresh,
              CollectionOf, Collection, Key
<1>3. KeptNotBad(c)'
  BY <1>1 DEF KeptInv, KeptNotBad, KeptTouched, KeptSwept, Covered, Fresh, Kept, Times, Absent,
              Collection, HeldInv, CollectionOf, Key
<1>4. KeptTouched(s, c)'
  BY <1>1 DEF KeptInv, KeptTouched, Kept, Session, HeldInv, SessionOf, MinBeforeSessions,
              CollectionOf, Times, Collection, KeptSwept, Covered, Fresh
<1>5. KeptMarked(s, c)'
  BY <1>1 DEF KeptInv, KeptMarked, Reached, Covered, Fresh, Kept, HeldInv, CollectionOf,
              Collection, KeptNotBad, KeptTouched, MinBeforeSessions, Session, Times
<1>6. KeptSwept(c)'
  BY <1>1 DEF KeptInv, KeptSwept, KeptMarked, Reached, Covered, Fresh, Kept, HeldInv,
              CollectionOf, Collection, KeptStored, Times, MinBeforeSessions, Key
<1> QED
  BY <1>2, <1>3, <1>4, <1>5, <1>6 DEF KeptInv

(* A crash leaves finished snapshots, objects and files. *)
LEMMA CrashKept ==
  ASSUME TypeOK, HeldInv, KeptAll, Crash
  PROVE  KeptAll'
<1> SUFFICES ASSUME NEW s \in Snapshot, NEW c \in Chunk, Kept(s, c)' PROVE KeptInv(s, c)'
  BY DEF KeptAll
<1> USE NameAssumption DEF Crash, Event, Gone, NewSession, IdleAccess, IdleVerifier,
                           IdleCollection, historyVars, TypeOK
<1>1. Kept(s, c) /\ KeptInv(s, c)
  <2>1. Kept(s, c)
    BY DEF Kept, Session
  <2> QED
    BY <2>1 DEF KeptAll
<1>2. KeptStored(s, c)'
  BY <1>1 DEF KeptStored, KeptInv, KeptSwept, Kept, HeldInv, RenameHeld, Covered, Fresh,
              CollectionOf, Collection, Key
<1>3. KeptNotBad(c)'
  BY <1>1 DEF KeptInv, KeptNotBad, KeptTouched, KeptSwept, Covered, Fresh, Kept, Times, Absent,
              Collection, HeldInv, CollectionOf, Key
<1>4. KeptTouched(s, c)'
  BY <1>1 DEF KeptInv, KeptTouched, Kept, Session, HeldInv, SessionOf, MinBeforeSessions,
              CollectionOf, Times, Collection, KeptSwept, Covered, Fresh
<1>5. KeptMarked(s, c)'
  BY <1>1 DEF KeptInv, KeptMarked, Reached, Covered, Fresh, Kept, HeldInv, CollectionOf,
              Collection, KeptNotBad, KeptTouched, MinBeforeSessions, Session, Times
<1>6. KeptSwept(c)'
  BY <1>1 DEF KeptInv, KeptSwept, KeptMarked, Reached, Covered, Fresh, Kept, HeldInv,
              CollectionOf, Collection, KeptStored, Times, MinBeforeSessions, Key
<1> QED
  BY <1>2, <1>3, <1>4, <1>5, <1>6 DEF KeptInv

(* Every step keeps the accepted chunks stored, and out of the reach of the *)
(* collection.                                                             *)
LEMMA StepKept == ASSUME TypeOK, HeldInv, KeptAll, Next PROVE KeptAll'
<1>1. ASSUME NEW z \in Snapshot, NEW nocache \in BOOLEAN, StartBackup(z, nocache) PROVE KeptAll'
  BY <1>1 DEF StartBackup, NewSession, localVars, historyVars, KeptAll, Kept, KeptInv,
              KeptStored, KeptNotBad, KeptTouched, KeptMarked, KeptSwept, Reached, Covered,
              Fresh
<1>2. ASSUME NEW z \in Snapshot, NEW d \in Chunk, LockChunk(z, d) PROVE KeptAll'
  BY <1>2 DEF LockChunk, localVars, historyVars, KeptAll, Kept, KeptInv, KeptStored,
              KeptNotBad, KeptTouched, KeptMarked, KeptSwept, Reached, Covered, Fresh
<1>3. ASSUME NEW z \in Snapshot, SkipCached(z) PROVE KeptAll'
  BY <1>3, SkipCachedKept
<1>4. ASSUME NEW z \in Snapshot, SkipTouched(z) PROVE KeptAll'
  BY <1>4, SkipTouchedKept
<1>5. ASSUME NEW z \in Snapshot, PutObject(z) PROVE KeptAll'
  BY <1>5 DEF PutObject, Uploading, Put, localVars, historyVars, KeptAll, Kept, KeptInv,
              KeptStored, KeptNotBad, KeptTouched, KeptMarked, KeptSwept, Reached, Covered,
              Fresh
<1>6. ASSUME NEW z \in Snapshot, PutNoCache(z) PROVE KeptAll'
  BY <1>6, PutNoCacheKept
<1>7. ASSUME NEW z \in Snapshot, InsertUploaded(z) PROVE KeptAll'
  BY <1>7, InsertUploadedKept
<1>8. ASSUME NEW z \in Snapshot, ClearExpected(z) PROVE KeptAll'
  BY <1>8, ClearExpectedKept
<1>9. ASSUME NEW z \in Snapshot, UploadFails(z) PROVE KeptAll'
  BY <1>9 DEF UploadFails, localVars, historyVars, KeptAll, Kept, KeptInv, KeptStored,
              KeptNotBad, KeptTouched, KeptMarked, KeptSwept, Reached, Covered, Fresh
<1>10. ASSUME NEW z \in Snapshot, FinishBackup(z) PROVE KeptAll'
  BY <1>10 DEF FinishBackup, Uploading, NewSession, localVars, historyVars, KeptAll, Kept,
               KeptInv, KeptStored, KeptNotBad, KeptTouched, KeptMarked, KeptSwept, Reached,
               Covered, Fresh
<1>11. ASSUME NEW z \in Snapshot, AbortBackup(z) PROVE KeptAll'
  BY <1>11 DEF AbortBackup, Uploading, Gone, NewSession, localVars, historyVars, KeptAll, Kept,
               KeptInv, KeptStored, KeptNotBad, KeptTouched, KeptMarked, KeptSwept, Reached,
               Covered, Fresh
<1>12. ASSUME NEW z \in Snapshot, Prune(z) PROVE KeptAll'
  BY <1>12 DEF Prune, Gone, NewSession, localVars, historyVars, KeptAll, Kept, KeptInv,
               KeptStored, KeptNotBad, KeptTouched, KeptMarked, KeptSwept, Reached, Covered,
               Fresh
<1>13. ASSUME NEW q \in Reader, NEW z \in Snapshot, NEW d \in Chunk, NEW locked \in BOOLEAN,
      OpenChunk(q, z, d, locked) PROVE KeptAll'
  BY <1>13 DEF OpenChunk, localVars, historyVars, KeptAll, Kept, KeptInv, KeptStored,
               KeptNotBad, KeptTouched, KeptMarked, KeptSwept, Reached, Covered, Fresh
<1>14. ASSUME NEW q \in Reader, UseLocal(q) PROVE KeptAll'
  BY <1>14 DEF UseLocal, LruInsert, Dangling, IdleAccess, KeptAll, Kept, KeptInv, KeptStored,
               KeptNotBad, KeptTouched, KeptMarked, KeptSwept, Reached, Covered, Fresh
<1>15. ASSUME NEW q \in Reader, FetchObject(q) PROVE KeptAll'
  BY <1>15 DEF FetchObject, IdleAccess, localVars, historyVars, KeptAll, Kept, KeptInv,
               KeptStored, KeptNotBad, KeptTouched, KeptMarked, KeptSwept, Reached, Covered,
               Fresh
<1>16. ASSUME NEW q \in Reader, InsertFetched(q) PROVE KeptAll'
  BY <1>16, NameAssumption DEF InsertFetched, CacheInsert, LruInsert, Dangling, IdleAccess,
                               KeptAll, Kept, KeptInv, KeptStored, KeptNotBad, KeptTouched,
                               KeptMarked, KeptSwept, Reached, Covered, Fresh, TypeOK, HeldInv,
                               RenameHeld, CollectionOf, Collection, Key, Times, Absent,
                               Session, SessionOf, MinBeforeSessions
<1>17. ASSUME NEW d \in Chunk, RenameLocal(d) PROVE KeptAll'
  BY <1>17 DEF RenameLocal, Event, CacheRemove, KeptAll, Kept, KeptInv, KeptStored, KeptNotBad,
               KeptTouched, KeptMarked, KeptSwept, Reached, Covered, Fresh
<1>18. ASSUME CopyToBad PROVE KeptAll'
  BY <1>18 DEF CopyToBad, localVars, historyVars, KeptAll, Kept, KeptInv, KeptStored,
               KeptNotBad, KeptTouched, KeptMarked, KeptSwept, Reached, Covered, Fresh
<1>19. ASSUME DeleteCorrupt PROVE KeptAll'
  BY <1>19, NameAssumption DEF DeleteCorrupt, IdleVerifier, localVars, historyVars, KeptAll,
                               Kept, KeptInv, KeptStored, KeptNotBad, KeptTouched, KeptMarked,
                               KeptSwept, Reached, Covered, Fresh, TypeOK, HeldInv, RenameHeld,
                               CollectionOf, Collection, Key, Times, Absent, Session,
                               SessionOf, MinBeforeSessions
<1>20. ASSUME RenameFails PROVE KeptAll'
  BY <1>20 DEF RenameFails, IdleVerifier, localVars, historyVars, KeptAll, Kept, KeptInv,
               KeptStored, KeptNotBad, KeptTouched, KeptMarked, KeptSwept, Reached, Covered,
               Fresh
<1>21. ASSUME GcStart PROVE KeptAll'
  BY <1>21, GcStartKept
<1>22. ASSUME GcListSnapshots PROVE KeptAll'
  BY <1>22, NameAssumption DEF GcListSnapshots, localVars, historyVars, KeptAll, Kept, KeptInv,
                               KeptStored, KeptNotBad, KeptTouched, KeptMarked, KeptSwept,
                               Reached, Covered, Fresh, TypeOK, HeldInv, RenameHeld,
                               CollectionOf, Collection, Key, Times, Absent, Session,
                               SessionOf, MinBeforeSessions
<1>23. ASSUME NEW z \in Snapshot, GcVisit(z) PROVE KeptAll'
  BY <1>23, NameAssumption DEF GcVisit, localVars, historyVars, KeptAll, Kept, KeptInv,
                               KeptStored, KeptNotBad, KeptTouched, KeptMarked, KeptSwept,
                               Reached, Covered, Fresh, TypeOK, HeldInv, RenameHeld,
                               CollectionOf, Collection, Key, Times, Absent, Session,
                               SessionOf, MinBeforeSessions
<1>24. ASSUME NEW d \in Chunk, GcTouch(d) PROVE KeptAll'
  BY <1>24, NameAssumption DEF GcTouch, historyVars, KeptAll, Kept, KeptInv, KeptStored,
                               KeptNotBad, KeptTouched, KeptMarked, KeptSwept, Reached,
                               Covered, Fresh, TypeOK, HeldInv, RenameHeld, CollectionOf,
                               Collection, Key, Times, Absent, Session, SessionOf,
                               MinBeforeSessions
<1>25. ASSUME NEW d \in Chunk, GcMiss(d) PROVE KeptAll'
  BY <1>25, GcMissKept
<1>26. ASSUME GcExpect PROVE KeptAll'
  BY <1>26, NameAssumption DEF GcExpect, historyVars, KeptAll, Kept, KeptInv, KeptStored,
                               KeptNotBad, KeptTouched, KeptMarked, KeptSwept, Reached,
                               Covered, Fresh, TypeOK, HeldInv, RenameHeld, CollectionOf,
                               Collection, Key, Times, Absent, Session, SessionOf,
                               MinBeforeSessions
<1>27. ASSUME GcStartSweep PROVE KeptAll'
  BY <1>27, NameAssumption DEF GcStartSweep, localVars, historyVars, KeptAll, Kept, KeptInv,
                               KeptStored, KeptNotBad, KeptTouched, KeptMarked, KeptSwept,
                               Reached, Covered, Fresh, TypeOK, Session
<1>28. ASSUME NEW k \in Key, GcListKey(k) PROVE KeptAll'
  BY <1>28 DEF GcListKey, InOrder, localVars, historyVars, KeptAll, Kept, KeptInv, KeptStored,
               KeptNotBad, KeptTouched, KeptMarked, KeptSwept, Reached, Covered, Fresh
<1>29. ASSUME NEW k \in Key, GcSkipLocked(k) PROVE KeptAll'
  BY <1>29 DEF GcSkipLocked, InOrder, localVars, historyVars, KeptAll, Kept, KeptInv,
               KeptStored, KeptNotBad, KeptTouched, KeptMarked, KeptSwept, Reached, Covered,
               Fresh
<1>30. ASSUME NEW k \in Key, GcSweepOld(k) PROVE KeptAll'
  BY <1>30, NameAssumption DEF GcSweepOld, InOrder, Present, AccessTime, CacheRemove, KeptAll,
                               Kept, KeptInv, KeptStored, KeptNotBad, KeptTouched, KeptMarked,
                               KeptSwept, Reached, Covered, Fresh, TypeOK, HeldInv, RenameHeld,
                               CollectionOf, Collection, Key, Times, Absent, Session,
                               SessionOf, MinBeforeSessions
<1>31. ASSUME NEW k \in Key, GcKeep(k) PROVE KeptAll'
  BY <1>31 DEF GcKeep, InOrder, localVars, historyVars, KeptAll, Kept, KeptInv, KeptStored,
               KeptNotBad, KeptTouched, KeptMarked, KeptSwept, Reached, Covered, Fresh
<1>32. ASSUME NEW k \in Key, GcKeepExpected(k) PROVE KeptAll'
  BY <1>32, NameAssumption DEF GcKeepExpected, InOrder, Present, KeptAll, Kept, KeptInv,
                               KeptStored, KeptNotBad, KeptTouched, KeptMarked, KeptSwept,
                               Reached, Covered, Fresh, TypeOK, HeldInv, RenameHeld,
                               CollectionOf, Collection, Key, Times, Absent, Session,
                               SessionOf, MinBeforeSessions
<1>33. ASSUME NEW k \in Key, GcSweepUnknown(k) PROVE KeptAll'
  BY <1>33, NameAssumption DEF GcSweepUnknown, InOrder, Present, localVars, historyVars,
                               KeptAll, Kept, KeptInv, KeptStored, KeptNotBad, KeptTouched,
                               KeptMarked, KeptSwept, Reached, Covered, Fresh, TypeOK,
                               Collection, Key, HeldInv, CollectionOf
<1>34. ASSUME GcDelete PROVE KeptAll'
  BY <1>34 DEF GcDelete, Delete, Release, localVars, historyVars, KeptAll, Kept, KeptInv,
               KeptStored, KeptNotBad, KeptTouched, KeptMarked, KeptSwept, Reached, Covered,
               Fresh
<1>35. ASSUME NEW D \in SUBSET gc.dlist, GcDeleteFails(D) PROVE KeptAll'
  BY <1>35 DEF GcDeleteFails, Delete, Release, IdleCollection, localVars, historyVars, KeptAll,
               Kept, KeptInv, KeptStored, KeptNotBad, KeptTouched, KeptMarked, KeptSwept,
               Reached, Covered, Fresh
<1>36. ASSUME GcStartLocal PROVE KeptAll'
  BY <1>36 DEF GcStartLocal, localVars, historyVars, KeptAll, Kept, KeptInv, KeptStored,
               KeptNotBad, KeptTouched, KeptMarked, KeptSwept, Reached, Covered, Fresh
<1>37. ASSUME NEW d \in Chunk, GcLocal(d) PROVE KeptAll'
  BY <1>37, NameAssumption DEF GcLocal, SweepOther, CacheRemove, KeptAll, Kept, KeptInv,
                               KeptStored, KeptNotBad, KeptTouched, KeptMarked, KeptSwept,
                               Reached, Covered, Fresh, TypeOK, HeldInv, RenameHeld,
                               CollectionOf, Collection, Key, Times, Absent, Session,
                               SessionOf, MinBeforeSessions
<1>38. ASSUME GcFinish PROVE KeptAll'
  BY <1>38, GcFinishKept
<1>39. ASSUME GcAbort PROVE KeptAll'
  BY <1>39, GcAbortKept
<1>40. ASSUME Tick PROVE KeptAll'
  BY <1>40 DEF Tick, localVars, historyVars, KeptAll, Kept, KeptInv, KeptStored, KeptNotBad,
               KeptTouched, KeptMarked, KeptSwept, Reached, Covered, Fresh
<1>41. ASSUME NEW i \in Impl, Reconfigure(i) PROVE KeptAll'
  BY <1>41 DEF Reconfigure, Event, InUse, historyVars, KeptAll, Kept, KeptInv, KeptStored,
               KeptNotBad, KeptTouched, KeptMarked, KeptSwept, Reached, Covered, Fresh
<1>42. ASSUME NEW i \in Impl, NEW d \in Chunk, Evict(i, d) PROVE KeptAll'
  BY <1>42, NameAssumption DEF Evict, Dangling, KeptAll, Kept, KeptInv, KeptStored, KeptNotBad,
                               KeptTouched, KeptMarked, KeptSwept, Reached, Covered, Fresh,
                               TypeOK, HeldInv, RenameHeld, CollectionOf, Collection, Key,
                               Times, Absent, Session, SessionOf, MinBeforeSessions
<1>43. ASSUME Crash PROVE KeptAll'
  BY <1>43, CrashKept
<1>44. ASSUME RecreateCache PROVE KeptAll'
  BY <1>44 DEF RecreateCache, Event, historyVars, KeptAll, Kept, KeptInv, KeptStored,
               KeptNotBad, KeptTouched, KeptMarked, KeptSwept, Reached, Covered, Fresh
<1>45. ASSUME NEW z \in Snapshot, SessionNext(z) PROVE KeptAll'
  BY <1>1, <1>2, <1>3, <1>4, <1>5, <1>6, <1>7, <1>8, <1>9, <1>10, <1>11, <1>12, <1>45
     DEF SessionNext
<1>46. ASSUME NEW q \in Reader, ReaderNext(q) PROVE KeptAll'
  BY <1>13, <1>14, <1>15, <1>16, <1>46 DEF ReaderNext
<1>47. ASSUME VerifierNext PROVE KeptAll'
  BY <1>17, <1>18, <1>19, <1>20, <1>47 DEF VerifierNext
<1>48. ASSUME GcNext PROVE KeptAll'
  BY <1>21, <1>22, <1>23, <1>24, <1>25, <1>26, <1>27, <1>28, <1>29, <1>30, <1>31, <1>32, <1>33,
     <1>34, <1>35, <1>36, <1>37, <1>38, <1>39, <1>48
     DEF GcNext
<1> QED
  BY <1>45, <1>46, <1>47, <1>48, <1>40, <1>41, <1>42, <1>43, <1>44 DEF Next

-----------------------------------------------------------------------------
(* The local cache *)

(* The sweep of the local files takes a chunk off the list with its file. *)
LEMMA GcLocalCache ==
  ASSUME TypeOK, HeldInv, MarkersTrue, ListedHasFile, NEW d \in Chunk, GcLocal(d)
  PROVE  MarkersTrue' /\ ListedHasFile'
<1> USE NameAssumption DEF GcLocal, SweepOther, CacheRemove, TypeOK
<1>1. MarkersTrue'
  BY DEF MarkersTrue, HeldInv, UploadStored, UploadHeld, RenameHeld, DeletesHeld, Key
<1>2. ListedHasFile'
  <2>1. CASE file[d] # "none" /\ atime[d] < gc.min /\ lock[d] = None
    BY <2>1 DEF ListedHasFile, HeldInv, CollectionOf
  <2>2. CASE ~(file[d] # "none" /\ atime[d] < gc.min /\ lock[d] = None)
    BY <2>2 DEF ListedHasFile
  <2> QED
    BY <2>1, <2>2
<1> QED
  BY <1>1, <1>2

(* Every step keeps the cache true. *)
LEMMA StepCached == ASSUME TypeOK, HeldInv, MarkersTrue, ListedHasFile, Next
                    PROVE  MarkersTrue' /\ ListedHasFile'
<1>1. ASSUME NEW z \in Snapshot, NEW nocache \in BOOLEAN, StartBackup(z,
      nocache) PROVE MarkersTrue' /\ ListedHasFile'
  BY <1>1 DEF StartBackup, NewSession, localVars, historyVars, MarkersTrue, ListedHasFile
<1>2. ASSUME NEW z \in Snapshot, NEW d \in Chunk, LockChunk(z,
      d) PROVE MarkersTrue' /\ ListedHasFile'
  BY <1>2 DEF LockChunk, localVars, historyVars, MarkersTrue, ListedHasFile
<1>3. ASSUME NEW z \in Snapshot, SkipCached(z) PROVE MarkersTrue' /\ ListedHasFile'
  BY <1>3 DEF SkipCached, Uploading, Accept, CachedExposure, localVars, MarkersTrue,
              ListedHasFile
<1>4. ASSUME NEW z \in Snapshot, SkipTouched(z) PROVE MarkersTrue' /\ ListedHasFile'
  BY <1>4 DEF SkipTouched, Uploading, Accept, MarkersTrue, ListedHasFile
<1>5. ASSUME NEW z \in Snapshot, PutObject(z) PROVE MarkersTrue' /\ ListedHasFile'
  BY <1>5 DEF PutObject, Uploading, Put, localVars, historyVars, MarkersTrue, ListedHasFile
<1>6. ASSUME NEW z \in Snapshot, PutNoCache(z) PROVE MarkersTrue' /\ ListedHasFile'
  BY <1>6 DEF PutNoCache, Uploading, Put, Accept, localVars, MarkersTrue, ListedHasFile
<1>7. ASSUME NEW z \in Snapshot, InsertUploaded(z) PROVE MarkersTrue' /\ ListedHasFile'
  BY <1>7 DEF InsertUploaded, CacheInsert, LruInsert, Dangling, MarkersTrue, ListedHasFile,
              TypeOK
<1>8. ASSUME NEW z \in Snapshot, ClearExpected(z) PROVE MarkersTrue' /\ ListedHasFile'
  BY <1>8 DEF ClearExpected, Uploading, Accept, historyVars, MarkersTrue, ListedHasFile
<1>9. ASSUME NEW z \in Snapshot, UploadFails(z) PROVE MarkersTrue' /\ ListedHasFile'
  BY <1>9 DEF UploadFails, localVars, historyVars, MarkersTrue, ListedHasFile
<1>10. ASSUME NEW z \in Snapshot, FinishBackup(z) PROVE MarkersTrue' /\ ListedHasFile'
  BY <1>10 DEF FinishBackup, Uploading, NewSession, localVars, historyVars, MarkersTrue,
               ListedHasFile
<1>11. ASSUME NEW z \in Snapshot, AbortBackup(z) PROVE MarkersTrue' /\ ListedHasFile'
  BY <1>11 DEF AbortBackup, Uploading, Gone, NewSession, localVars, historyVars, MarkersTrue,
               ListedHasFile
<1>12. ASSUME NEW z \in Snapshot, Prune(z) PROVE MarkersTrue' /\ ListedHasFile'
  BY <1>12 DEF Prune, Gone, NewSession, localVars, historyVars, MarkersTrue, ListedHasFile
<1>13. ASSUME NEW q \in Reader, NEW z \in Snapshot, NEW d \in Chunk, NEW locked \in BOOLEAN,
      OpenChunk(q, z, d, locked) PROVE MarkersTrue' /\ ListedHasFile'
  BY <1>13 DEF OpenChunk, localVars, historyVars, MarkersTrue, ListedHasFile
<1>14. ASSUME NEW q \in Reader, UseLocal(q) PROVE MarkersTrue' /\ ListedHasFile'
  BY <1>14 DEF UseLocal, LruInsert, Dangling, IdleAccess, MarkersTrue, ListedHasFile
<1>15. ASSUME NEW q \in Reader, FetchObject(q) PROVE MarkersTrue' /\ ListedHasFile'
  BY <1>15 DEF FetchObject, IdleAccess, localVars, historyVars, MarkersTrue, ListedHasFile
<1>16. ASSUME NEW q \in Reader, InsertFetched(q) PROVE MarkersTrue' /\ ListedHasFile'
  BY <1>16 DEF InsertFetched, CacheInsert, LruInsert, Dangling, IdleAccess, MarkersTrue,
               ListedHasFile, TypeOK
<1>17. ASSUME NEW d \in Chunk, RenameLocal(d) PROVE MarkersTrue' /\ ListedHasFile'
  BY <1>17 DEF RenameLocal, Event, CacheRemove, MarkersTrue, ListedHasFile, TypeOK
<1>18. ASSUME CopyToBad PROVE MarkersTrue' /\ ListedHasFile'
  BY <1>18 DEF CopyToBad, localVars, historyVars, MarkersTrue, ListedHasFile
<1>19. ASSUME DeleteCorrupt PROVE MarkersTrue' /\ ListedHasFile'
  BY <1>19, NameAssumption DEF DeleteCorrupt, IdleVerifier, localVars, historyVars,
                               MarkersTrue, ListedHasFile, TypeOK, HeldInv, DeletesHeld,
                               RenameHeld, CollectionOf, Collection, Key
<1>20. ASSUME RenameFails PROVE MarkersTrue' /\ ListedHasFile'
  BY <1>20 DEF RenameFails, IdleVerifier, localVars, historyVars, MarkersTrue, ListedHasFile
<1>21. ASSUME GcStart PROVE MarkersTrue' /\ ListedHasFile'
  BY <1>21 DEF GcStart, IdleCollection, localVars, historyVars, MarkersTrue, ListedHasFile
<1>22. ASSUME GcListSnapshots PROVE MarkersTrue' /\ ListedHasFile'
  BY <1>22 DEF GcListSnapshots, localVars, historyVars, MarkersTrue, ListedHasFile
<1>23. ASSUME NEW z \in Snapshot, GcVisit(z) PROVE MarkersTrue' /\ ListedHasFile'
  BY <1>23 DEF GcVisit, localVars, historyVars, MarkersTrue, ListedHasFile
<1>24. ASSUME NEW d \in Chunk, GcTouch(d) PROVE MarkersTrue' /\ ListedHasFile'
  BY <1>24 DEF GcTouch, historyVars, MarkersTrue, ListedHasFile
<1>25. ASSUME NEW d \in Chunk, GcMiss(d) PROVE MarkersTrue' /\ ListedHasFile'
  BY <1>25 DEF GcMiss, historyVars, MarkersTrue, ListedHasFile
<1>26. ASSUME GcExpect PROVE MarkersTrue' /\ ListedHasFile'
  BY <1>26 DEF GcExpect, historyVars, MarkersTrue, ListedHasFile
<1>27. ASSUME GcStartSweep PROVE MarkersTrue' /\ ListedHasFile'
  BY <1>27 DEF GcStartSweep, localVars, historyVars, MarkersTrue, ListedHasFile
<1>28. ASSUME NEW k \in Key, GcListKey(k) PROVE MarkersTrue' /\ ListedHasFile'
  BY <1>28 DEF GcListKey, InOrder, localVars, historyVars, MarkersTrue, ListedHasFile
<1>29. ASSUME NEW k \in Key, GcSkipLocked(k) PROVE MarkersTrue' /\ ListedHasFile'
  BY <1>29 DEF GcSkipLocked, InOrder, localVars, historyVars, MarkersTrue, ListedHasFile
<1>30. ASSUME NEW k \in Key, GcSweepOld(k) PROVE MarkersTrue' /\ ListedHasFile'
  BY <1>30 DEF GcSweepOld, InOrder, Present, AccessTime, CacheRemove, MarkersTrue,
               ListedHasFile, TypeOK
<1>31. ASSUME NEW k \in Key, GcKeep(k) PROVE MarkersTrue' /\ ListedHasFile'
  BY <1>31 DEF GcKeep, InOrder, localVars, historyVars, MarkersTrue, ListedHasFile
<1>32. ASSUME NEW k \in Key, GcKeepExpected(k) PROVE MarkersTrue' /\ ListedHasFile'
  BY <1>32 DEF GcKeepExpected, InOrder, Present, MarkersTrue, ListedHasFile
<1>33. ASSUME NEW k \in Key, GcSweepUnknown(k) PROVE MarkersTrue' /\ ListedHasFile'
  BY <1>33 DEF GcSweepUnknown, InOrder, Present, localVars, historyVars, MarkersTrue,
               ListedHasFile
<1>34. ASSUME GcDelete PROVE MarkersTrue' /\ ListedHasFile'
  BY <1>34, NameAssumption DEF GcDelete, Delete, Release, localVars, historyVars, MarkersTrue,
                               ListedHasFile, TypeOK, HeldInv, DeletesHeld, RenameHeld,
                               CollectionOf, Collection, Key
<1>35. ASSUME NEW D \in SUBSET gc.dlist, GcDeleteFails(D) PROVE MarkersTrue' /\ ListedHasFile'
  BY <1>35, NameAssumption DEF GcDeleteFails, Delete, Release, IdleCollection, localVars,
                               historyVars, MarkersTrue, ListedHasFile, TypeOK, HeldInv,
                               DeletesHeld, RenameHeld, CollectionOf, Collection, Key
<1>36. ASSUME GcStartLocal PROVE MarkersTrue' /\ ListedHasFile'
  BY <1>36 DEF GcStartLocal, localVars, historyVars, MarkersTrue, ListedHasFile
<1>37. ASSUME NEW d \in Chunk, GcLocal(d) PROVE MarkersTrue' /\ ListedHasFile'
  BY <1>37, GcLocalCache
<1>38. ASSUME GcFinish PROVE MarkersTrue' /\ ListedHasFile'
  BY <1>38 DEF GcFinish, IdleCollection, localVars, historyVars, MarkersTrue, ListedHasFile
<1>39. ASSUME GcAbort PROVE MarkersTrue' /\ ListedHasFile'
  BY <1>39 DEF GcAbort, Release, IdleCollection, localVars, historyVars, MarkersTrue,
               ListedHasFile
<1>40. ASSUME Tick PROVE MarkersTrue' /\ ListedHasFile'
  BY <1>40 DEF Tick, localVars, historyVars, MarkersTrue, ListedHasFile
<1>41. ASSUME NEW i \in Impl, Reconfigure(i) PROVE MarkersTrue' /\ ListedHasFile'
  BY <1>41 DEF Reconfigure, Event, InUse, historyVars, MarkersTrue, ListedHasFile, TypeOK
<1>42. ASSUME NEW i \in Impl, NEW d \in Chunk, Evict(i, d) PROVE MarkersTrue' /\ ListedHasFile'
  BY <1>42 DEF Evict, Dangling, MarkersTrue, ListedHasFile
<1>43. ASSUME Crash PROVE MarkersTrue' /\ ListedHasFile'
  BY <1>43 DEF Crash, Event, Gone, NewSession, IdleAccess, IdleVerifier, IdleCollection,
               historyVars, MarkersTrue, ListedHasFile, TypeOK
<1>44. ASSUME RecreateCache PROVE MarkersTrue' /\ ListedHasFile'
  BY <1>44 DEF RecreateCache, Event, historyVars, MarkersTrue, ListedHasFile, TypeOK
<1>45. ASSUME NEW z \in Snapshot, SessionNext(z) PROVE MarkersTrue' /\ ListedHasFile'
  BY <1>1, <1>2, <1>3, <1>4, <1>5, <1>6, <1>7, <1>8, <1>9, <1>10, <1>11, <1>12, <1>45
     DEF SessionNext
<1>46. ASSUME NEW q \in Reader, ReaderNext(q) PROVE MarkersTrue' /\ ListedHasFile'
  BY <1>13, <1>14, <1>15, <1>16, <1>46 DEF ReaderNext
<1>47. ASSUME VerifierNext PROVE MarkersTrue' /\ ListedHasFile'
  BY <1>17, <1>18, <1>19, <1>20, <1>47 DEF VerifierNext
<1>48. ASSUME GcNext PROVE MarkersTrue' /\ ListedHasFile'
  BY <1>21, <1>22, <1>23, <1>24, <1>25, <1>26, <1>27, <1>28, <1>29, <1>30, <1>31, <1>32, <1>33,
     <1>34, <1>35, <1>36, <1>37, <1>38, <1>39, <1>48
     DEF GcNext
<1> QED
  BY <1>45, <1>46, <1>47, <1>48, <1>40, <1>41, <1>42, <1>43, <1>44 DEF Next

-----------------------------------------------------------------------------
(* Theorems *)

(* The invariant holds at first. *)
LEMMA InitStoreInd == ASSUME Init PROVE StoreInd
<1> USE SizeAssumption, NameAssumption DEF Init
<1>1. 0 \in Times /\ 0 \in 0 .. MaxEvents
  BY DEF Times
<1>2. TypeOK
  BY <1>1, SessionRecords, IdleIsCollection DEF TypeOK, IdleAccess, Access, IdleVerifier
<1>3. HeldInv
  BY DEF HeldInv, UploadHeld, UploadStored, SessionOf, AccessOf, RenameHeld, DeletesHeld, CollectionOf,
         MinBeforeSessions, NewSession, IdleAccess, IdleVerifier, IdleCollection
<1>4. KeptAll
  BY DEF KeptAll, Kept, NewSession
<1>5. MarkersTrue /\ ListedHasFile
  BY DEF MarkersTrue, ListedHasFile
<1> QED
  BY <1>2, <1>3, <1>4, <1>5 DEF StoreInd

(* Every step keeps the invariant. *)
LEMMA NextStoreInd == ASSUME StoreInd, [Next]_vars PROVE StoreInd'
<1>1. CASE Next
  BY <1>1, StepTyped, StepHeld, StepKept, StepCached DEF StoreInd
<1>2. CASE UNCHANGED vars
  <2>1. TypeOK' /\ HeldInv'
    BY <1>2 DEF StoreInd, vars, TypeOK, HeldInv, UploadHeld, UploadStored, SessionOf, AccessOf, RenameHeld,
                DeletesHeld, CollectionOf, MinBeforeSessions
  <2>2. KeptAll'
    BY <1>2 DEF StoreInd, vars, KeptAll, Kept, KeptInv, KeptStored, KeptNotBad, KeptTouched, KeptMarked,
                KeptSwept, Reached, Covered, Fresh
  <2>3. MarkersTrue' /\ ListedHasFile'
    BY <1>2 DEF StoreInd, vars, MarkersTrue, ListedHasFile
  <2> QED
    BY <2>1, <2>2, <2>3 DEF StoreInd
<1> QED
  BY <1>1, <1>2

(* The inductive invariant holds in every state. *)
THEOREM StoreInvariance == Spec => []StoreInd
<1>1. Init => StoreInd
  BY InitStoreInd
<1>2. StoreInd /\ [Next]_vars => StoreInd'
  BY NextStoreInd
<1> QED
  BY <1>1, <1>2, PTL DEF Spec

(* The invariant says that accepted chunks are stored. *)
LEMMA StoreIndAccepted == ASSUME StoreInd PROVE AcceptedKept
<1> SUFFICES ASSUME NEW s \in Snapshot, sess[s].stage \in {"open", "done"}, exposed[s] = {},
                    NEW c \in sess[s].got, c \notin condemned
             PROVE  c \in object
  BY DEF AcceptedKept
<1>1. c \in Chunk
  BY DEF StoreInd, TypeOK, Session
<1> QED
  BY <1>1 DEF StoreInd, KeptAll, Kept, KeptInv, KeptStored

(* A chunk that a running or finished backup was told is stored stays in   *)
(* the bucket, whatever collections, readers, renames of corrupt chunks,   *)
(* crashes and changes of the configuration do meanwhile, unless it was    *)
(* found corrupt or the session was exposed (insert_chunk_cached,          *)
(* mark_used_chunks, sweep of the object store).                           *)
THEOREM AcceptedChunksKept == Spec => []AcceptedKept
<1>1. StoreInd => AcceptedKept
  BY StoreIndAccepted
<1> QED
  BY <1>1, StoreInvariance, PTL

(* What the local cache says of the bucket is true: a marker file stands   *)
(* for an object and an entry of the LRU list for a file, but for orphans. *)
THEOREM CacheStaysTrue == Spec => []CacheTrue
<1>1. StoreInd => CacheTrue
  BY DEF StoreInd, CacheTrue
<1> QED
  BY <1>1, StoreInvariance, PTL

-----------------------------------------------------------------------------
(* ObjectStoreGC implements Datastore *)

(* The protected snapshots, and what they refer to, stay as they are. *)
SameContents ==
    \A s \in Snapshot : /\ s \in Protected' <=> s \in Protected
                        /\ s \in Protected => sess'[s].got = sess[s].got

(* Finishing a backup and pruning are the only steps that change them. *)
LEMMA ContentsChange ==
  ASSUME TypeOK, HeldInv, Next
  PROVE  SameContents \/ \E z \in Snapshot : FinishBackup(z) \/ Prune(z)
<1> USE DEF SameContents, Protected
<1>1. ASSUME UNCHANGED <<sess, exposed>> PROVE SameContents
  BY <1>1
<1>2. ASSUME NEW z \in Snapshot, SessionNext(z), ~FinishBackup(z), ~Prune(z) PROVE SameContents
  <2>1. CASE \E nocache \in BOOLEAN : StartBackup(z, nocache)
    BY <2>1 DEF StartBackup, NewSession, TypeOK, historyVars
  <2>2. CASE \E c \in Chunk : LockChunk(z, c)
    BY <2>2 DEF LockChunk, TypeOK, Session, historyVars
  <2>3. CASE SkipCached(z)
    BY <2>3 DEF SkipCached, Uploading, Accept, TypeOK, Session
  <2>4. CASE SkipTouched(z)
    BY <2>4 DEF SkipTouched, Uploading, Accept, TypeOK, Session
  <2>5. CASE PutObject(z)
    BY <2>5 DEF PutObject, Uploading, TypeOK, Session, historyVars
  <2>6. CASE PutNoCache(z)
    BY <2>6 DEF PutNoCache, Uploading, Accept, TypeOK, Session
  <2>7. CASE InsertUploaded(z)
    BY <2>7 DEF InsertUploaded, TypeOK, Session
  <2>8. CASE ClearExpected(z)
    BY <2>8 DEF ClearExpected, Uploading, Accept, TypeOK, Session, historyVars
  <2>9. CASE UploadFails(z)
    BY <2>9 DEF UploadFails, TypeOK, Session, historyVars
  <2>10. CASE AbortBackup(z)
    BY <2>10 DEF AbortBackup, Uploading, Gone, NewSession, TypeOK, historyVars
  <2> QED
    BY <1>2, <2>1, <2>2, <2>3, <2>4, <2>5, <2>6, <2>7, <2>8, <2>9, <2>10 DEF SessionNext
<1>3. ASSUME NEW q \in Reader, ReaderNext(q) PROVE UNCHANGED <<sess, exposed>>
  BY <1>3 DEF ReaderNext, OpenChunk, UseLocal, FetchObject, InsertFetched, historyVars
<1>4. ASSUME VerifierNext PROVE UNCHANGED <<sess, exposed>>
  BY SMTT(40), <1>4 DEF VerifierNext, RenameLocal, CopyToBad, DeleteCorrupt, RenameFails, historyVars
<1>5. ASSUME GcNext PROVE UNCHANGED <<sess, exposed>>
  <2>1. ASSUME NEW k \in Key, GcListKey(k) \/ GcSkipLocked(k) \/ GcSweepOld(k) \/ GcKeep(k)
                              \/ GcKeepExpected(k) \/ GcSweepUnknown(k)
        PROVE  UNCHANGED <<sess, exposed>>
    BY <2>1 DEF GcListKey, GcSkipLocked, GcSweepOld, GcKeep, GcKeepExpected, GcSweepUnknown,
                historyVars
  <2> QED
    BY ZenonT(60), <1>5, <2>1 DEF GcNext, GcStart, GcListSnapshots, GcVisit, GcTouch, GcMiss, GcExpect, GcStartSweep,
       GcDelete, GcDeleteFails, GcStartLocal, GcLocal, SweepOther, GcFinish, GcAbort, historyVars
<1>6. ASSUME Tick \/ RecreateCache \/ \E i \in Impl : Reconfigure(i) \/ \E c \in Chunk : Evict(i, c)
      PROVE  UNCHANGED <<sess, exposed>>
  BY <1>6 DEF Tick, RecreateCache, Reconfigure, Evict, historyVars
<1>7. CASE Crash
  BY <1>7 DEF Crash, Gone, NewSession, TypeOK, historyVars
<1> QED
  BY <1>1, <1>2, <1>3, <1>4, <1>5, <1>6, <1>7 DEF Next

(* Every step is one of Datastore, or changes nothing there. *)
LEMMA AbstractStep ==
  ASSUME StoreInd, StoreInd', [Next]_vars
  PROVE  [Abstract!Next]_(Abstract!vars)
<1> DEFINE f == [s \in Protected |-> sess[s].got]
           g == [s \in Protected' |-> sess'[s].got]
           S == object \cup condemned
           T == (object \cup condemned)'
<1>1. CASE SameContents /\ Next
  <2>1. Protected' = Protected
    BY <1>1 DEF SameContents, Protected
  <2>2. g = f
    BY <1>1, <2>1 DEF SameContents, Protected
  <2>3. T \in SUBSET Chunk
    BY DEF StoreInd, TypeOK
  <2>4. UNION {f[s] : s \in DOMAIN f} \subseteq T
    <3> SUFFICES ASSUME NEW s \in Protected PROVE sess[s].got \subseteq T
      OBVIOUS
    <3>1. s \in Snapshot /\ s \in Protected' /\ sess'[s].got = sess[s].got
      BY <1>1 DEF SameContents, Protected
    <3>2. sess'[s].got \subseteq Chunk
      BY <3>1 DEF StoreInd, TypeOK, Session
    <3> QED
      BY <3>1, <3>2 DEF StoreInd, KeptAll, Kept, KeptInv, KeptStored, Protected
  <2>5. Abstract!ChangeStore
    BY <2>2, <2>3, <2>4 DEF Abstract!ChangeStore, Abstract!Needed
  <2> QED
    BY <2>5 DEF Abstract!Next
<1>2. CASE \E z \in Snapshot : FinishBackup(z)
  <2>1. PICK z \in Snapshot : FinishBackup(z)
    BY <1>2
  <2>2. /\ sess[z].stage = "open" /\ sess'[z].stage = "done" /\ sess'[z].got = sess[z].got
        /\ \A s \in Snapshot : s # z => sess'[s] = sess[s]
        /\ exposed' = exposed /\ T = S
    BY <2>1 DEF FinishBackup, Uploading, NewSession, historyVars, StoreInd, TypeOK
  <2>3. CASE exposed[z] = {}
    <3>1. Protected' = Protected \cup {z} /\ z \notin Protected
      BY <2>2, <2>3 DEF Protected
    <3>2. g = [s \in Protected \cup {z} |-> IF s = z THEN sess[z].got ELSE f[s]]
      BY <2>2, <3>1 DEF Protected
    <3>3. sess[z].got \subseteq S /\ sess[z].got \in SUBSET Chunk
      <4>1. sess[z].got \in SUBSET Chunk
        BY DEF StoreInd, TypeOK, Session
      <4> QED
        BY <2>2, <2>3, <4>1 DEF StoreInd, KeptAll, Kept, KeptInv, KeptStored
    <3>4. PICK C \in SUBSET Chunk : C = sess[z].got
      BY <3>3
    <3>5. Abstract!Commit(z, C)
      BY <2>2, <3>1, <3>2, <3>3, <3>4 DEF Abstract!Commit
    <3> QED
      BY <3>5 DEF Abstract!Next
  <2>4. CASE exposed[z] # {}
    <3>1. Protected' = Protected /\ z \notin Protected
      BY <2>2, <2>4 DEF Protected
    <3>2. g = f
      BY <2>2, <3>1 DEF Protected
    <3> QED
      BY <2>2, <3>2 DEF Abstract!vars
  <2> QED
    BY <2>3, <2>4
<1>3. CASE \E z \in Snapshot : Prune(z)
  <2>1. PICK z \in Snapshot : Prune(z)
    BY <1>3
  <2>2. /\ sess'[z].stage = "gone"
        /\ \A s \in Snapshot : s # z => sess'[s] = sess[s]
        /\ exposed' = exposed /\ T = S
    BY <2>1 DEF Prune, Gone, NewSession, historyVars, StoreInd, TypeOK
  <2>3. Protected' = Protected \ {z}
    BY <2>2 DEF Protected
  <2>4. g = [s \in Protected \ {z} |-> f[s]]
    BY <2>2, <2>3 DEF Protected
  <2>5. CASE z \in Protected
    <3>1. Abstract!Forget({z})
      BY <2>2, <2>4 DEF Abstract!Forget
    <3> QED
      BY <2>5, <3>1 DEF Abstract!Next
  <2>6. CASE z \notin Protected
    <3>1. g = f
      BY <2>4, <2>6
    <3> QED
      BY <2>2, <3>1 DEF Abstract!vars
  <2> QED
    BY <2>5, <2>6
<1>4. CASE UNCHANGED vars
  <2>1. g = f /\ T = S
    BY <1>4 DEF vars, Protected
  <2> QED
    BY <2>1 DEF Abstract!vars
<1> QED
  BY <1>1, <1>2, <1>3, <1>4, ContentsChange DEF StoreInd

(* A datastore in a bucket keeps the promise of Datastore: a backup that   *)
(* is finished and was not exposed appears with all its chunks in place,   *)
(* its contents do not change, and none of its chunks goes before it does  *)
(* (FinishBackup is Commit, Prune is Forget, uploads, deletes of a         *)
(* collection and renames of corrupt chunks are ChangeStore).              *)
THEOREM StoreImplementsDatastore == Spec => ImplementsDatastore
<1>1. Init => Abstract!Init
  <2> SUFFICES ASSUME Init PROVE Abstract!Init
    OBVIOUS
  <2>1. Protected = {} /\ object \cup condemned = {}
    BY DEF Init, Protected, NewSession
  <2> QED
    BY <2>1 DEF Abstract!Init
<1>2. StoreInd /\ StoreInd' /\ [Next]_vars => [Abstract!Next]_(Abstract!vars)
  BY AbstractStep
<1> QED
  BY <1>1, <1>2, StoreInvariance, PTL DEF Spec, ImplementsDatastore, Abstract!Spec
=============================================================================
