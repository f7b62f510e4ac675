----------------------------- MODULE SyncProofs -----------------------------
(* A sync job does not harm the target: in every configuration, each index   *)
(* under its final name has its chunks in the store.  When neither the key   *)
(* of the job changes nor the source uses a time twice, what came by a sync  *)
(* is the copy of its source, only what has vanished is removed, and a pull  *)
(* that resyncs corrupt snapshots repairs them.                              *)
EXTENDS Sync, WellFoundedInduction, TLAPS

-----------------------------------------------------------------------------
(* The inductive invariant *)

SourceRecord == [st : {"none", "running", "done"}, meta : {NoMeta} \cup Meta]
TargetRecord ==
    [dir : BOOLEAN, file : {NoMeta} \cup SUBSET Digest, meta : {NoMeta} \cup Meta,
     protected : BOOLEAN, own : BOOLEAN]
JobRecord ==
    [step : Steps, opt : Options, listed : BOOLEAN, theirs : SUBSET Time, seen : SUBSET Time,
     times : SUBSET Time, todo : SUBSET Time, corrupt : SUBSET Time, cur : 0 .. Times, new : BOOLEAN,
     meta : {NoMeta} \cup Meta, mode : {"regular", "decrypt", "encrypt"}, kept : BOOLEAN,
     known : [Digest -> {"none", "reusable", "touched"}], mapped : SUBSET Digest,
     work : SUBSET Digest, fetching : SUBSET Digest, out : SUBSET Digest, base : 0 .. Times,
     vanished : SUBSET Time, failed : BOOLEAN, young : SUBSET Digest, lost : SUBSET Digest]

SyncTypes ==
    /\ src \in [Time -> SourceRecord] /\ newest \in 0 .. Times
    /\ dst \in [Time -> TargetRecord]
    /\ chunks \in SUBSET Digest /\ damaged \in SUBSET Digest
    /\ sync \in JobRecord
    /\ runs \in Nat

(* A finished snapshot of the source has a manifest whose chunks are all     *)
(* encrypted or all not.                                                     *)
SourceInv ==
    \A t \in Time :
      /\ src[t].st = "done" <=> src[t].meta # NoMeta
      /\ src[t].st # "none" => t <= newest
      /\ src[t].meta # NoMeta => src[t].meta.idx \subseteq Chunk \X {src[t].meta.enc}

TargetInv ==
    \A t \in Time :
      /\ ~dst[t].dir => dst[t] = NoTarget
      /\ dst[t].meta # NoMeta => dst[t].file # NoMeta

(* What the steps of the job go with: the snapshot it has open, its base in  *)
(* a push, and transfers under way only while chunks are visited.            *)
Copying == sync.step \in {"chunks", "commit"}
StepInv ==
    /\ sync.cur # 0 <=> sync.step \in {"manifest", "chunks", "commit"}
    /\ sync.cur # 0 => dst[sync.cur].dir
    /\ sync.step = "commit" => dst[sync.cur].file # NoMeta
    /\ sync.base # 0 => /\ Copying /\ sync.opt.op = "push" /\ sync.base # sync.cur
                        /\ dst[sync.base].file # NoMeta
    /\ sync.new => sync.cur # 0
    /\ sync.step # "chunks" => sync.fetching = {}
    /\ ~Copying => sync.out = {} /\ sync.work = {}
    /\ sync.step \in {"collect", "manifest"} => sync.opt.op = "pull"
    /\ sync.mode = "decrypt" => sync.opt.op = "pull"
    /\ sync.mode = "encrypt" => sync.opt.op = "push"
    /\ Copying /\ sync.opt.op = "push" => dst[sync.cur].meta = NoMeta
    /\ sync.step \in {"group", "select", "collect"}
         => sync.known = NoKnown /\ sync.mapped = {} /\ sync.young = {}

(* What is copied is a finished snapshot of the source, which stays locked.  *)
CopyInv ==
    Copying => /\ src[sync.cur].st = "done" /\ sync.meta # NoMeta
               /\ sync.meta.idx = src[sync.cur].meta.idx /\ sync.meta.enc = src[sync.cur].meta.enc

(* Chunks the job counts on are written, on their way, or referenced by the  *)
(* base it has locked.                                                       *)
Plain(d) == <<d[1], FALSE>>
InBase(d) == sync.base # 0 /\ d \in dst[sync.base].file
Safe(d) == d \in sync.young \/ d \in sync.fetching \/ InBase(d)
YoungInv == sync.young \subseteq chunks \cup damaged
KnownInv ==
    /\ sync.opt.op = "pull" /\ sync.step # "groups"
         => \A d \in Digest : /\ sync.known[d] = "touched" => Safe(d)
                              /\ d \in sync.mapped => Safe(Plain(d))
    /\ sync.opt.op = "push" /\ sync.step = "chunks"
         => \A d \in Digest : sync.known[d] # "none" => Safe(d)
OutInv == \A d \in sync.out : Safe(d)

(* Holds for every configuration. *)
CompleteInd ==
    /\ SyncTypes /\ SourceInv /\ TargetInv /\ StepInv /\ CopyInv
    /\ YoungInv /\ KnownInv /\ OutInv /\ TargetComplete

(* Whether a copy of an archive is encrypted. *)
EncryptedCopy(enc) == IF sync.opt.op = "pull" THEN enc /\ ~sync.opt.key ELSE enc \/ sync.opt.key
CopyOf(m) == Sealed(m.idx, EncryptedCopy(m.enc))

(* A pull that has a key leaves nothing encrypted. *)
KeyInv ==
    /\ sync.opt.op = "pull" /\ sync.opt.key
         => /\ \A t \in Time : dst[t].meta # NoMeta => ~dst[t].meta.enc
            /\ \A d \in Digest : sync.known[d] = "touched" => ~d[2]
    /\ runs = 0 => /\ sync.step = "idle"
                   /\ \A t \in Time : /\ dst[t].meta # NoMeta => ~dst[t].meta.enc
                                      /\ dst[t].file # NoMeta => dst[t].own

(* The mode follows from the key, and what has been visited is in the index. *)
ModeInv ==
    /\ sync.kept => sync.step = "commit" /\ sync.opt.op = "pull"
    /\ Copying =>
         /\ sync.mode = IF EncryptedCopy(sync.meta.enc) = sync.meta.enc THEN "regular"
                        ELSE IF sync.meta.enc THEN "decrypt" ELSE "encrypt"
         /\ sync.kept => dst[sync.cur].file = sync.meta.idx
         /\ ~sync.kept => /\ sync.work \subseteq sync.meta.idx
                          /\ sync.out = Sealed(sync.meta.idx \ sync.work, EncryptedCopy(sync.meta.enc))
         /\ sync.step = "commit" /\ ~sync.kept => sync.work = {} /\ dst[sync.cur].file = sync.out

(* An index that came by a sync is the copy of the source's, as long as that *)
(* is there; its time is never used again.                                   *)
CopiedInv ==
    \A t \in Time : ~dst[t].own =>
      /\ dst[t].file # NoMeta => /\ t <= newest /\ src[t].st # "running"
                                 /\ src[t].st = "done" => dst[t].file = CopyOf(src[t].meta)
      /\ dst[t].meta # NoMeta => dst[t].file = dst[t].meta.idx

WholeInd == CompleteInd /\ KeyInv /\ ModeInv /\ CopiedInv

(* What a job has seen of the source, and the corrupt snapshots it is through *)
(* with.                                                                      *)
SeenInv ==
    /\ ~sync.opt.verifiedOnly /\ sync.step \notin {"idle", "group", "groups"} => sync.times = sync.seen
    /\ sync.step = "forget" => sync.vanished \cap sync.times = {}
    /\ sync.step \in {"forget", "groups"} => sync.todo = {}
    /\ ~sync.listed => sync.seen = {} /\ sync.step \in {"idle", "groups"}
Repaired(t) == src[t].st = "done" /\ dst[t].file # NoMeta => dst[t].file \subseteq chunks \cup sync.lost
CorruptWhen == sync.corrupt # {} => sync.opt.op = "pull" /\ Running /\ sync.step \notin {"group", "select"}
YoungLost == sync.young \subseteq chunks \cup sync.lost
TimesOld == \A t \in Time : t \in sync.times \cup sync.corrupt => t <= newest /\ src[t].st # "running"
CorruptAnew == Copying /\ sync.cur \in sync.corrupt => ~sync.kept
CorruptDone ==
    \A t \in sync.corrupt :
      sync.failed \/ sync.opt.verifiedOnly \/ t \in sync.todo \/ t = sync.cur \/ Repaired(t)
RepairInv == CorruptWhen /\ YoungLost /\ TimesOld /\ CorruptAnew /\ CorruptDone
HonestInd == WholeInd /\ SeenInv /\ RepairInv

(* The two outcomes of PullLoads. *)
PullLeaves ==
    /\ sync.opt.op = "pull" /\ sync.step = "manifest"
    /\ src[sync.cur].st = "done" /\ sync.cur \notin sync.corrupt
    /\ sync' = Leave(sync) /\ JobOnly
PullStarts(o, k) ==
    /\ sync.opt.op = "pull" /\ sync.step = "manifest" /\ src[sync.cur].st = "done"
    /\ o = PullOutcome(src[sync.cur].meta, IF sync.cur \in sync.corrupt THEN NoMeta ELSE dst[sync.cur].meta)
    /\ k <=> sync.cur \notin sync.corrupt /\ dst[sync.cur].file = src[sync.cur].meta.idx
    /\ sync' = [sync EXCEPT !.meta = src[sync.cur].meta, !.mode = o, !.kept = k,
                            !.step = IF k THEN "commit" ELSE "chunks",
                            !.work = IF k THEN {} ELSE src[sync.cur].meta.idx]
    /\ JobOnly

-----------------------------------------------------------------------------
(* Times *)

(* A set of times has a first and a last element. *)
LEMMA MinTimeIn ==
  ASSUME NEW S \in SUBSET Time, S # {}
  PROVE  MinTime(S) \in S /\ \A u \in S : MinTime(S) <= u
<1>1. S \subseteq Nat /\ S # {}
  BY SyncConstantAssumption DEF Time
<1>2. PICK m \in S : \A y \in S : <<y, m>> \notin OpToRel(<, Nat)
  BY <1>1, WFMin, NatLessThanWellFounded
<1>3. \A u \in S : ~(u < m)
  BY <1>1, <1>2 DEF OpToRel
<1>4. \A u \in S : m <= u
  BY <1>1, <1>3
<1> QED
  BY <1>4 DEF MinTime

LEMMA MaxTimeIn ==
  ASSUME NEW S \in SUBSET (0 .. Times)
  PROVE  /\ S = {} => MaxTime(S) = 0
         /\ S # {} => MaxTime(S) \in S
         /\ \A u \in S : u <= MaxTime(S)
         /\ MaxTime(S) \in 0 .. Times
<1>1. CASE S = {}
  BY <1>1, SyncConstantAssumption DEF MaxTime
<1>2. CASE S # {}
  <2> DEFINE D == {n \in Nat : \E u \in S : n = Times - u}
  <2>1. \A u \in S : Times - u \in D
    BY SyncConstantAssumption
  <2>2. D \subseteq Nat /\ D # {}
    BY <1>2, <2>1
  <2>3. PICK m \in D : \A y \in D : <<y, m>> \notin OpToRel(<, Nat)
    <3> HIDE DEF D
    <3> QED
      BY <2>2, WFMin, NatLessThanWellFounded
  <2>4. \A y \in D : ~(y < m)
    BY <2>2, <2>3 DEF OpToRel
  <2>5. PICK x \in S : m = Times - x
    OBVIOUS
  <2>6. \A u \in S : ~(Times - u < Times - x)
    BY <2>1, <2>4, <2>5
  <2>7. \A u \in S : u <= x
    BY <2>6, SyncConstantAssumption
  <2> QED
    BY <1>2, <2>7 DEF MaxTime
<1> QED
  BY <1>1, <1>2

-----------------------------------------------------------------------------
(* Types of the parts *)

LEMMA TimesSubset ==
  /\ SourceTimes \subseteq Time /\ TargetTimes \subseteq Time /\ Finished \subseteq Time
  /\ Listed \subseteq Time /\ Time \subseteq 0 .. Times
  BY SyncConstantAssumption DEF SourceTimes, TargetTimes, Finished, Listed, Time

LEMMA LastTime ==
  /\ Finished = {} => MaxTime(Finished) = 0
  /\ Finished # {} => MaxTime(Finished) \in Time /\ dst[MaxTime(Finished)].meta # NoMeta
  /\ MaxTime(Finished) # 0 => MaxTime(Finished) \in Time /\ dst[MaxTime(Finished)].meta # NoMeta
  /\ MaxTime(TargetTimes) \in 0 .. Times /\ MaxTime(SourceTimes) \in 0 .. Times
  /\ \A t \in TargetTimes : t <= MaxTime(TargetTimes)
  /\ \A t \in SourceTimes : t <= MaxTime(SourceTimes)
<1>1. /\ Finished \in SUBSET (0 .. Times) /\ TargetTimes \in SUBSET (0 .. Times)
      /\ SourceTimes \in SUBSET (0 .. Times)
  BY TimesSubset
<1> QED
  <2>1. /\ Finished = {} => MaxTime(Finished) = 0
        /\ Finished # {} => MaxTime(Finished) \in Finished
    BY <1>1, MaxTimeIn
  <2>2. /\ MaxTime(TargetTimes) \in 0 .. Times /\ \A t \in TargetTimes : t <= MaxTime(TargetTimes)
        /\ MaxTime(SourceTimes) \in 0 .. Times /\ \A t \in SourceTimes : t <= MaxTime(SourceTimes)
    BY <1>1, MaxTimeIn
  <2> QED
    BY <2>1, <2>2 DEF Finished

LEMMA SealedType ==
  ASSUME NEW idx \in SUBSET Digest, NEW e \in BOOLEAN
  PROVE  Sealed(idx, e) \subseteq Chunk \X {e} /\ Sealed(idx, e) \subseteq Digest
<1>1. SUFFICES ASSUME NEW x \in Sealed(idx, e)
               PROVE  x \in Chunk \X {e} /\ x \in Digest
  OBVIOUS
<1>2. PICK d \in idx : x = <<d[1], e>>
  BY DEF Sealed
<1>3. d[1] \in Chunk
  BY DEF Digest
<1> QED
  BY <1>2, <1>3 DEF Digest

LEMMA ReusableType ==
  ASSUME NEW idx
  PROVE  /\ MarkReusable(idx) \in [Digest -> {"none", "reusable", "touched"}]
         /\ \A d \in Digest : MarkReusable(idx)[d] # "touched"
         /\ \A d \in Digest : MarkReusable(idx)[d] # "none" => d \in idx
  BY DEF MarkReusable

LEMMA IdleType == Idle \in JobRecord
<1>1. (CHOOSE o \in Options : TRUE) \in Options
  BY SyncOptionAssumption
<1>2. NoKnown \in [Digest -> {"none", "reusable", "touched"}]
  BY DEF NoKnown
<1>3. 0 \in 0 .. Times
  BY SyncConstantAssumption
<1> QED
  BY <1>1, <1>2, <1>3 DEF Idle, JobRecord, Steps

LEMMA LeaveType ==
  ASSUME NEW s \in JobRecord
  PROVE  Leave(s) \in JobRecord
<1>1. 0 \in 0 .. Times
  BY SyncConstantAssumption
<1> QED
  BY ZenonT(60), <1>1 DEF Leave, JobRecord, Steps

(* What the steps change of the job. *)
LEMMA ListSourceFields ==
  ASSUME sync \in JobRecord, ListSource
  PROVE  /\ sync.step = "group" /\ sync'.step = "select" /\ sync'.times = Listed
         /\ sync'.seen = {t \in Time : src[t].st = "done"}
         /\ sync'.opt = sync.opt /\ sync'.listed = sync.listed /\ sync'.theirs = sync.theirs
         /\ sync'.todo = sync.todo /\ sync'.corrupt = sync.corrupt /\ sync'.cur = sync.cur
         /\ sync'.new = sync.new /\ sync'.meta = sync.meta /\ sync'.mode = sync.mode /\ sync'.kept = sync.kept
         /\ sync'.known = sync.known /\ sync'.mapped = sync.mapped /\ sync'.work = sync.work
         /\ sync'.fetching = sync.fetching /\ sync'.out = sync.out /\ sync'.base = sync.base
         /\ sync'.vanished = sync.vanished /\ sync'.failed = sync.failed /\ sync'.young = sync.young
         /\ sync'.lost = sync.lost
  BY DEF ListSource, JobRecord

LEMMA LeaveFields ==
  ASSUME sync \in JobRecord, sync' = Leave(sync)
  PROVE  /\ sync'.step = "next" /\ sync'.cur = 0 /\ sync'.kept = FALSE
         /\ sync'.opt = sync.opt /\ sync'.listed = sync.listed /\ sync'.theirs = sync.theirs
         /\ sync'.seen = sync.seen /\ sync'.times = sync.times /\ sync'.todo = sync.todo
         /\ sync'.corrupt = sync.corrupt /\ sync'.known = sync.known /\ sync'.mapped = sync.mapped
         /\ sync'.vanished = sync.vanished /\ sync'.failed = sync.failed /\ sync'.young = sync.young
         /\ sync'.lost = sync.lost
  BY DEF Leave, JobRecord

LEMMA PullVisitsFields ==
  ASSUME sync \in JobRecord, NEW d \in Digest, PullVisits(d)
  PROVE  /\ sync.opt.op = "pull" /\ sync.mode = "regular"
         /\ sync.step = "chunks" /\ d \in sync.work /\ sync'.work = sync.work \ {d}
         /\ sync'.out = sync.out \cup {d} /\ sync'.known = Touch(d)
         /\ sync'.young \subseteq sync.young \cup chunks
         /\ sync'.step = sync.step /\ sync'.opt = sync.opt /\ sync'.listed = sync.listed
         /\ sync'.theirs = sync.theirs /\ sync'.seen = sync.seen /\ sync'.times = sync.times
         /\ sync'.todo = sync.todo /\ sync'.corrupt = sync.corrupt /\ sync'.cur = sync.cur
         /\ sync'.new = sync.new /\ sync'.meta = sync.meta /\ sync'.mode = sync.mode /\ sync'.kept = sync.kept
         /\ sync'.mapped = sync.mapped /\ sync'.base = sync.base /\ sync'.vanished = sync.vanished
         /\ sync'.failed = sync.failed /\ sync'.lost = sync.lost
  BY DEF PullVisits, CondTouch, JobRecord

LEMMA PushVisitsFields ==
  ASSUME sync \in JobRecord, NEW d \in Digest, PushVisits(d)
  PROVE  /\ sync.opt.op = "push" /\ sync.step = "chunks" /\ d \in sync.work /\ sync'.work = sync.work \ {d}
         /\ sync'.out = sync.out \cup {<<d[1], d[2] \/ sync.mode = "encrypt">>}
         /\ sync'.known = Touch(<<d[1], d[2] \/ sync.mode = "encrypt">>)
         /\ sync'.step = sync.step /\ sync'.opt = sync.opt /\ sync'.listed = sync.listed
         /\ sync'.theirs = sync.theirs /\ sync'.seen = sync.seen /\ sync'.times = sync.times
         /\ sync'.todo = sync.todo /\ sync'.corrupt = sync.corrupt /\ sync'.cur = sync.cur
         /\ sync'.new = sync.new /\ sync'.meta = sync.meta /\ sync'.mode = sync.mode /\ sync'.kept = sync.kept
         /\ sync'.mapped = sync.mapped /\ sync'.base = sync.base /\ sync'.vanished = sync.vanished
         /\ sync'.failed = sync.failed /\ sync'.young = sync.young /\ sync'.lost = sync.lost
  BY DEF PushVisits, JobRecord

LEMMA ListVanishedFields ==
  ASSUME sync \in JobRecord, NEW have, ListVanished(have)
  PROVE  /\ sync.step = "next" /\ sync.todo = {}
         /\ sync'.step = IF sync.opt.removeVanished THEN "forget" ELSE "groups"
         /\ sync'.vanished = IF sync.opt.removeVanished THEN have \ sync.times ELSE {}
         /\ sync'.opt = sync.opt /\ sync'.listed = sync.listed /\ sync'.theirs = sync.theirs
         /\ sync'.seen = sync.seen /\ sync'.times = sync.times /\ sync'.todo = sync.todo
         /\ sync'.corrupt = sync.corrupt /\ sync'.cur = sync.cur /\ sync'.new = sync.new
         /\ sync'.meta = sync.meta /\ sync'.mode = sync.mode /\ sync'.kept = sync.kept
         /\ sync'.known = sync.known /\ sync'.mapped = sync.mapped /\ sync'.work = sync.work
         /\ sync'.fetching = sync.fetching /\ sync'.out = sync.out /\ sync'.base = sync.base
         /\ sync'.failed = sync.failed /\ sync'.young = sync.young /\ sync'.lost = sync.lost
  BY DEF ListVanished, JobRecord

LEMMA PullOpensFields ==
  ASSUME sync \in JobRecord, PullOpens
  PROVE  /\ sync.step = "next" /\ sync.todo # {} /\ sync'.step = "manifest"
         /\ sync'.cur = MinTime(sync.todo) /\ sync'.todo = sync.todo \ {MinTime(sync.todo)}
         /\ sync'.opt = sync.opt /\ sync'.listed = sync.listed /\ sync'.theirs = sync.theirs
         /\ sync'.seen = sync.seen /\ sync'.times = sync.times /\ sync'.corrupt = sync.corrupt
         /\ sync'.meta = sync.meta /\ sync'.mode = sync.mode /\ sync'.kept = sync.kept
         /\ sync'.known = sync.known /\ sync'.mapped = sync.mapped /\ sync'.work = sync.work
         /\ sync'.fetching = sync.fetching /\ sync'.out = sync.out /\ sync'.base = sync.base
         /\ sync'.vanished = sync.vanished /\ sync'.failed = sync.failed /\ sync'.young = sync.young
         /\ sync'.lost = sync.lost
  BY DEF PullOpens, JobRecord

LEMMA PushOpensFields ==
  ASSUME sync \in JobRecord, PushOpens
  PROVE  /\ sync.opt.op = "push" /\ sync.step = "next" /\ sync.todo # {} /\ sync'.step = "chunks"
         /\ sync'.cur = MinTime(sync.todo) /\ sync'.meta = src[MinTime(sync.todo)].meta
         /\ sync'.work = src[MinTime(sync.todo)].meta.idx /\ sync'.base = MaxTime(Finished)
         /\ sync'.mode = IF sync.opt.key /\ ~src[MinTime(sync.todo)].meta.enc THEN "encrypt" ELSE "regular"
         /\ sync'.known \in {NoKnown, MarkReusable(dst[MaxTime(Finished)].file)}
         /\ sync'.opt = sync.opt /\ sync'.listed = sync.listed /\ sync'.theirs = sync.theirs
         /\ sync'.seen = sync.seen /\ sync'.times = sync.times /\ sync'.corrupt = sync.corrupt
         /\ sync'.kept = sync.kept /\ sync'.fetching = sync.fetching /\ sync'.out = sync.out
         /\ sync'.vanished = sync.vanished /\ sync'.failed = sync.failed /\ sync'.young = sync.young
         /\ sync'.lost = sync.lost
  BY DEF PushOpens, JobRecord

LEMMA SyncFailsFields ==
  ASSUME sync \in JobRecord, SyncFails
  PROVE  /\ sync'.step = "groups" /\ sync'.failed = TRUE /\ sync'.todo = {} /\ sync'.kept = FALSE /\ sync'.cur = 0
         /\ sync'.opt = sync.opt /\ sync'.listed = sync.listed /\ sync'.theirs = sync.theirs
         /\ sync'.seen = sync.seen /\ sync'.times = sync.times /\ sync'.corrupt = sync.corrupt
         /\ sync'.known = sync.known /\ sync'.mapped = sync.mapped /\ sync'.vanished = sync.vanished
         /\ sync'.young = sync.young /\ sync'.lost = sync.lost
  BY DEF SyncFails, Leave, JobRecord

LEMMA CollectReusableFields ==
  ASSUME sync \in JobRecord, CollectReusable
  PROVE  /\ sync.step = "collect" /\ sync'.step = "next"
         /\ \E got : sync'.known = MarkReusable(got)
         /\ sync'.opt = sync.opt /\ sync'.listed = sync.listed /\ sync'.theirs = sync.theirs
         /\ sync'.seen = sync.seen /\ sync'.times = sync.times /\ sync'.todo = sync.todo
         /\ sync'.corrupt = sync.corrupt /\ sync'.cur = sync.cur /\ sync'.new = sync.new
         /\ sync'.meta = sync.meta /\ sync'.mode = sync.mode /\ sync'.kept = sync.kept
         /\ sync'.mapped = sync.mapped /\ sync'.work = sync.work /\ sync'.fetching = sync.fetching
         /\ sync'.out = sync.out /\ sync'.base = sync.base /\ sync'.vanished = sync.vanished
         /\ sync'.failed = sync.failed /\ sync'.young = sync.young /\ sync'.lost = sync.lost
  BY DEF CollectReusable, JobRecord

(* One field of one snapshot of the target changes. *)
LEMMA TargetFieldSet ==
  ASSUME dst \in [Time -> TargetRecord], TargetInv, NEW t \in Time, dst[t].dir,
         NEW v,
         \/ dst' = [dst EXCEPT ![t].protected = v]
         \/ dst' = [dst EXCEPT ![t].file = v] /\ v # NoMeta
         \/ dst' = [dst EXCEPT ![t].meta = v] /\ dst[t].file # NoMeta
  PROVE  TargetInv'
<1> SUFFICES ASSUME NEW u \in Time
             PROVE  /\ ~dst'[u].dir => dst'[u] = NoTarget
                    /\ dst'[u].meta # NoMeta => dst'[u].file # NoMeta
  BY DEF TargetInv
<1>1. dst[u] \in TargetRecord /\ dst[t] \in TargetRecord
  OBVIOUS
<1>2. (~dst[u].dir => dst[u] = NoTarget) /\ (dst[u].meta # NoMeta => dst[u].file # NoMeta)
  BY DEF TargetInv
<1>3. CASE u # t
  <2>1. dst'[u] = dst[u]
    BY <1>3
  <2> QED
    BY <2>1, <1>2
<1>4. CASE u = t
  <2>1. dst'[t].dir
    BY <1>1 DEF TargetRecord
  <2>2. dst'[t].meta # NoMeta => dst'[t].file # NoMeta
    BY <1>1, <1>2, <1>4 DEF TargetRecord
  <2> QED
    BY <1>4, <2>1, <2>2
<1> QED
  BY <1>3, <1>4

(* The snapshot that is open. *)
LEMMA CurrentTime ==
  ASSUME SyncTypes, StepInv
  PROVE  /\ sync.step \in {"manifest", "chunks", "commit"} => sync.cur \in Time
         /\ sync.base # 0 => sync.base \in Time
<1>1. sync.cur \in 0 .. Times /\ sync.base \in 0 .. Times
  BY DEF SyncTypes, JobRecord
<1> QED
  BY <1>1, SyncConstantAssumption DEF StepInv, Time

-----------------------------------------------------------------------------
(* Copies *)

LEMMA SealedSame ==
  ASSUME NEW e \in BOOLEAN, NEW idx \in SUBSET (Chunk \X {e})
  PROVE  Sealed(idx, e) = idx
<1>1. ASSUME NEW d \in idx
      PROVE  d = <<d[1], e>>
  OBVIOUS
<1> QED
  BY <1>1 DEF Sealed

LEMMA SealedOther ==
  ASSUME NEW idx \in SUBSET (Chunk \X {TRUE}), Sealed(idx, FALSE) = idx
  PROVE  idx = {}
<1>1. ASSUME NEW d \in idx
      PROVE  d[2] = TRUE /\ d \in Sealed(idx, FALSE)
  OBVIOUS
<1>2. \A x \in Sealed(idx, FALSE) : x[2] = FALSE
  BY DEF Sealed
<1> QED
  BY <1>1, <1>2

(* Whether the copy is encrypted is a Boolean. *)
LEMMA EncryptedCopyType ==
  ASSUME SyncTypes, NEW e \in BOOLEAN
  PROVE  EncryptedCopy(e) \in BOOLEAN /\ sync.opt.key \in BOOLEAN /\ sync.opt.op \in {"pull", "push"}
<1>1. sync.opt \in Option
  BY SyncOptionAssumption DEF SyncTypes, JobRecord
<1> QED
  BY <1>1 DEF EncryptedCopy, Option

(* What is copied. *)
LEMMA CopyType ==
  ASSUME CompleteInd, Copying
  PROVE  /\ sync.meta \in Meta /\ sync.meta.enc \in BOOLEAN /\ sync.meta.idx \in SUBSET Digest
         /\ sync.meta.idx \subseteq Chunk \X {sync.meta.enc}
         /\ EncryptedCopy(sync.meta.enc) \in BOOLEAN
         /\ sync.cur \in Time /\ src[sync.cur].st = "done"
         /\ src[sync.cur].meta.idx = sync.meta.idx /\ src[sync.cur].meta.enc = sync.meta.enc
<1>1. sync.meta \in Meta
  BY DEF CompleteInd, SyncTypes, JobRecord, CopyInv
<1>2. sync.meta.enc \in BOOLEAN /\ sync.meta.idx \in SUBSET Digest
  BY <1>1 DEF Meta
<1>3. sync.cur \in Time
  BY CurrentTime DEF CompleteInd, Copying
<1>4. /\ src[sync.cur].st = "done"
      /\ src[sync.cur].meta.idx = sync.meta.idx /\ src[sync.cur].meta.enc = sync.meta.enc
  BY DEF CompleteInd, CopyInv
<1>5. sync.meta.idx \subseteq Chunk \X {sync.meta.enc}
  BY <1>3, <1>4 DEF CompleteInd, SourceInv
<1> QED
  BY <1>1, <1>2, <1>3, <1>4, <1>5, EncryptedCopyType DEF CompleteInd

(* A step that changes no options, marks nothing and adds no manifest. *)
LEMMA KeyFrame ==
  ASSUME KeyInv, runs # 0, runs' = runs, sync'.opt = sync.opt,
         \A t \in Time : dst'[t].meta = NoMeta \/ dst'[t].meta = dst[t].meta,
         \A d \in Digest : sync'.known[d] = "touched" => sync.known[d] = "touched"
  PROVE  KeyInv'
  BY DEF KeyInv

(* A step that leaves the source and only removes from the target. *)
LEMMA CopiedFrame ==
  ASSUME CopiedInv, UNCHANGED <<src, newest>>, sync'.opt = sync.opt,
         \A t \in Time : \/ dst'[t].file = NoMeta /\ dst'[t].meta = NoMeta
                         \/ dst'[t].file = dst[t].file /\ dst'[t].meta = dst[t].meta /\ dst'[t].own = dst[t].own
  PROVE  CopiedInv'
<1> SUFFICES ASSUME NEW t \in Time, ~dst'[t].own
             PROVE  /\ dst'[t].file # NoMeta => /\ t <= newest /\ src[t].st # "running"
                                                /\ src[t].st = "done" => dst'[t].file = CopyOf(src[t].meta)'
                    /\ dst'[t].meta # NoMeta => dst'[t].file = dst'[t].meta.idx
  BY DEF CopiedInv
<1>1. CopyOf(src[t].meta)' = CopyOf(src[t].meta)
  BY DEF CopyOf, EncryptedCopy
<1> QED
  BY <1>1 DEF CopiedInv

(* A job that runs has been started. *)
LEMMA RunsPositive ==
  ASSUME KeyInv, sync.step # "idle"
  PROVE  runs # 0
  BY DEF KeyInv

(* What leaving a snapshot keeps. *)
LEMMA LeaveKeeps ==
  ASSUME NEW s \in JobRecord
  PROVE  /\ Leave(s).opt = s.opt /\ Leave(s).listed = s.listed /\ Leave(s).seen = s.seen
         /\ Leave(s).times = s.times /\ Leave(s).corrupt = s.corrupt /\ Leave(s).young = s.young
         /\ Leave(s).lost = s.lost /\ Leave(s).todo = s.todo /\ Leave(s).failed = s.failed
         /\ Leave(s).vanished = s.vanished
         /\ Leave(s).step = "next" /\ Leave(s).kept = FALSE /\ Leave(s).cur = 0
<1>1. Leave(s).opt = s.opt /\ Leave(s).listed = s.listed /\ Leave(s).seen = s.seen
  BY DEF Leave, JobRecord
<1>2. Leave(s).times = s.times /\ Leave(s).corrupt = s.corrupt /\ Leave(s).young = s.young
  BY DEF Leave, JobRecord
<1>3. Leave(s).lost = s.lost /\ Leave(s).todo = s.todo /\ Leave(s).failed = s.failed
  BY DEF Leave, JobRecord
<1>4. Leave(s).vanished = s.vanished /\ Leave(s).step = "next" /\ Leave(s).kept = FALSE /\ Leave(s).cur = 0
  BY DEF Leave, JobRecord
<1> QED
  BY <1>1, <1>2, <1>3, <1>4

-----------------------------------------------------------------------------
(* Every step keeps the part that holds in every configuration. *)

(* A backup starts at the source, under a time it has not used. *)
LEMMA SourceStartsComplete ==
  ASSUME CompleteInd, NEW t \in Time, SourceStarts(t)
  PROVE  CompleteInd'
<1> USE SyncConstantAssumption DEF SourceStarts, SourceOp, SourceUnchanged, SyncTypes, CompleteInd
<1>a. src[t].st = "none"
  <2>1. t \notin SourceTimes
    BY LastTime, TimesSubset DEF Time
  <2> QED
    BY <2>1 DEF SourceTimes
<1>b. newest \in Nat /\ newest' \in Nat /\ newest <= newest' /\ t <= newest'
  <2>1. {newest, t} \in SUBSET (0 .. Times)
    BY SyncConstantAssumption DEF Time
  <2>2. MaxTime({newest, t}) \in 0 .. Times /\ newest <= MaxTime({newest, t}) /\ t <= MaxTime({newest, t})
    BY <2>1, MaxTimeIn
  <2> QED
    BY <2>2
<1>1. SyncTypes'
  <2>1. src' \in [Time -> SourceRecord] /\ newest' \in 0 .. Times
    <3>1. src' \in [Time -> SourceRecord]
      BY DEF SourceRecord
    <3>2. {newest, t} \in SUBSET (0 .. Times) /\ {newest, t} # {}
      BY SyncConstantAssumption DEF Time
    <3> QED
      BY <3>1, <3>2, MaxTimeIn
  <2>2. dst' \in [Time -> TargetRecord]
    BY DEF TargetRecord, NoTarget
  <2>3. sync' \in JobRecord
    BY DEF JobRecord, Steps
  <2>4. chunks' \subseteq Digest /\ damaged' \subseteq Digest /\ runs' \in Nat
    OBVIOUS
  <2> QED
    BY <2>1, <2>2, <2>3, <2>4
<1>2. SourceInv'
  BY <1>a, <1>b DEF SourceInv, SourceRecord, Time
<1>3. TargetInv'
  BY DEF TargetInv, TargetRecord, NoTarget
<1>4. StepInv'
  BY DEF StepInv, Copying, TargetInv, NoTarget, TargetRecord, JobRecord, Time
<1>5. CopyInv'
  BY <1>a, CurrentTime DEF CopyInv, StepInv, Copying, SourceInv, Meta, SourceRecord, JobRecord, Time
<1>6. YoungInv'
  BY DEF YoungInv, JobRecord
<1>7. KnownInv'
  BY DEF KnownInv, Safe, InBase, StepInv, Copying, TargetRecord, JobRecord, Time
<1>8. OutInv'
  BY DEF OutInv, Safe, InBase, StepInv, KnownInv, Copying, TargetRecord, JobRecord, Time
<1>9. TargetComplete'
  BY DEF TargetComplete, OutInv, Safe, InBase, YoungInv, StepInv, Copying, Referenced, TargetRecord,
     JobRecord, Time
<1> QED
  BY <1>1, <1>2, <1>3, <1>4, <1>5, <1>6, <1>7, <1>8, <1>9

(* A backup of the source is finished. *)
LEMMA SourceFinishesComplete ==
  ASSUME CompleteInd, NEW t \in Time, NEW a \in Archives, SourceFinishes(t, a)
  PROVE  CompleteInd'
<1> USE SyncConstantAssumption DEF SourceFinishes, SourceUnchanged, SyncTypes, CompleteInd
<1>1. SyncTypes'
  <2>1. src' \in [Time -> SourceRecord] /\ newest' \in 0 .. Times
    <3>1. a.idx \in SUBSET Digest /\ a.enc \in BOOLEAN
      BY SyncOptionAssumption DEF Digest
    <3>2. Sealed(a.idx, a.enc) \in SUBSET Digest
      BY <3>1, SealedType
    <3>3. [idx |-> Sealed(a.idx, a.enc), enc |-> a.enc, verify |-> "none", sig |-> IF a.pushed THEN a.idx ELSE NoMeta] \in Meta
      BY <3>1, <3>2 DEF Meta, VerifyState
    <3> QED
      BY <3>3 DEF SourceRecord
  <2>2. dst' \in [Time -> TargetRecord]
    BY DEF TargetRecord, NoTarget
  <2>3. sync' \in JobRecord
    BY DEF JobRecord, Steps
  <2>4. chunks' \subseteq Digest /\ damaged' \subseteq Digest /\ runs' \in Nat
    OBVIOUS
  <2> QED
    BY <2>1, <2>2, <2>3, <2>4
<1>2. SourceInv'
  <2>1. a.idx \in SUBSET Digest /\ a.enc \in BOOLEAN
    BY SyncOptionAssumption DEF Digest
  <2>2. Sealed(a.idx, a.enc) \in SUBSET Digest /\ Sealed(a.idx, a.enc) \subseteq Chunk \X {a.enc}
    BY <2>1, SealedType
  <2> DEFINE m == [idx |-> Sealed(a.idx, a.enc), enc |-> a.enc, verify |-> "none",
                   sig |-> IF a.pushed THEN a.idx ELSE NoMeta]
  <2>3. m # NoMeta /\ m.idx \subseteq Chunk \X {m.enc}
    BY <2>1, <2>2 DEF Meta, VerifyState
  <2>4. src' = [src EXCEPT ![t] = [st |-> "done", meta |-> m]] /\ newest' = newest /\ src[t].st = "running"
    OBVIOUS
  <2> HIDE DEF SyncConstantAssumption, SourceFinishes, m
  <2> QED
    BY <2>3, <2>4 DEF SourceInv, SourceRecord
<1>3. TargetInv'
  BY DEF TargetInv, TargetRecord, NoTarget
<1>4. StepInv'
  BY DEF StepInv, Copying, TargetInv, NoTarget, TargetRecord, JobRecord, Time
<1>5. CopyInv'
  BY DEF CopyInv, StepInv, Copying, SourceInv, Meta, SourceRecord, JobRecord, Time
<1>6. YoungInv'
  BY DEF YoungInv, JobRecord
<1>7. KnownInv'
  BY DEF KnownInv, Safe, InBase, StepInv, Copying, TargetRecord, JobRecord, Time
<1>8. OutInv'
  BY DEF OutInv, Safe, InBase, StepInv, KnownInv, Copying, TargetRecord, JobRecord, Time
<1>9. TargetComplete'
  BY DEF TargetComplete, OutInv, Safe, InBase, YoungInv, StepInv, Copying, Referenced, TargetRecord,
     JobRecord, Time
<1> QED
  BY <1>1, <1>2, <1>3, <1>4, <1>5, <1>6, <1>7, <1>8, <1>9

(* The source removes a snapshot nobody reads. *)
LEMMA SourceRemovesComplete ==
  ASSUME CompleteInd, NEW t \in Time, SourceRemoves(t)
  PROVE  CompleteInd'
<1> USE SyncConstantAssumption DEF SourceRemoves, SourceOp, SourceUnchanged, SourceLocked, NoSource,
    SyncTypes, CompleteInd
<1>1. SyncTypes'
  <2>1. src' \in [Time -> SourceRecord] /\ newest' \in 0 .. Times
    BY DEF SourceRecord, NoSource
  <2>2. dst' \in [Time -> TargetRecord]
    BY DEF TargetRecord, NoTarget
  <2>3. sync' \in JobRecord
    BY DEF JobRecord, Steps
  <2>4. chunks' \subseteq Digest /\ damaged' \subseteq Digest /\ runs' \in Nat
    OBVIOUS
  <2> QED
    BY <2>1, <2>2, <2>3, <2>4
<1>2. SourceInv'
  BY DEF SourceInv, SourceRecord
<1>3. TargetInv'
  BY DEF TargetInv, TargetRecord, NoTarget
<1>4. StepInv'
  BY DEF StepInv, Copying, TargetInv, NoTarget, TargetRecord, JobRecord, Time
<1>5. CopyInv'
  BY DEF CopyInv, StepInv, Copying, SourceInv, Meta, SourceRecord, JobRecord, Time
<1>6. YoungInv'
  BY DEF YoungInv, JobRecord
<1>7. KnownInv'
  BY DEF KnownInv, Safe, InBase, StepInv, Copying, TargetRecord, JobRecord, Time
<1>8. OutInv'
  BY DEF OutInv, Safe, InBase, StepInv, KnownInv, Copying, TargetRecord, JobRecord, Time
<1>9. TargetComplete'
  BY DEF TargetComplete, OutInv, Safe, InBase, YoungInv, StepInv, Copying, Referenced, TargetRecord,
     JobRecord, Time
<1> QED
  BY <1>1, <1>2, <1>3, <1>4, <1>5, <1>6, <1>7, <1>8, <1>9

(* The source records a verification in the manifest. *)
LEMMA SourceVerifiesComplete ==
  ASSUME CompleteInd, NEW t \in Time, NEW v \in {"ok", "failed"}, SourceVerifies(t, v)
  PROVE  CompleteInd'
<1> USE SyncConstantAssumption DEF SourceVerifies, SourceOp, SourceUnchanged, SyncTypes, CompleteInd
<1>1. SyncTypes'
  <2>1. src' \in [Time -> SourceRecord] /\ newest' \in 0 .. Times
    <3>1. src[t].meta \in Meta
      BY DEF SourceInv, SourceRecord
    <3>2. [src[t].meta EXCEPT !.verify = v] \in Meta
      BY <3>1 DEF Meta, VerifyState
    <3> QED
      BY <3>2 DEF SourceRecord
  <2>2. dst' \in [Time -> TargetRecord]
    BY DEF TargetRecord, NoTarget
  <2>3. sync' \in JobRecord
    BY DEF JobRecord, Steps
  <2>4. chunks' \subseteq Digest /\ damaged' \subseteq Digest /\ runs' \in Nat
    OBVIOUS
  <2> QED
    BY <2>1, <2>2, <2>3, <2>4
<1>2. SourceInv'
  <2>1. src[t].meta \in Meta
    BY DEF SourceInv, SourceRecord
  <2>2. [src[t].meta EXCEPT !.verify = v] \in Meta
    BY <2>1 DEF Meta, VerifyState
  <2>3. /\ src[t].st = "done" /\ src'[t].st = "done" /\ src'[t].meta # NoMeta
        /\ src'[t].meta.idx = src[t].meta.idx /\ src'[t].meta.enc = src[t].meta.enc
    BY <2>1, <2>2 DEF Meta, SourceRecord
  <2>4. \A u \in Time \ {t} : src'[u] = src[u]
    BY DEF SourceRecord
  <2> HIDE DEF SourceVerifies
  <2>5. newest' = newest
    BY DEF SourceVerifies
  <2> QED
    BY <2>3, <2>4, <2>5 DEF SourceInv
<1>3. TargetInv'
  BY DEF TargetInv, TargetRecord, NoTarget
<1>4. StepInv'
  BY DEF StepInv, Copying, TargetInv, NoTarget, TargetRecord, JobRecord, Time
<1>5. CopyInv'
  BY DEF CopyInv, StepInv, Copying, SourceInv, Meta, SourceRecord, JobRecord, Time
<1>6. YoungInv'
  BY DEF YoungInv, JobRecord
<1>7. KnownInv'
  BY DEF KnownInv, Safe, InBase, StepInv, Copying, TargetRecord, JobRecord, Time
<1>8. OutInv'
  BY DEF OutInv, Safe, InBase, StepInv, KnownInv, Copying, TargetRecord, JobRecord, Time
<1>9. TargetComplete'
  BY DEF TargetComplete, OutInv, Safe, InBase, YoungInv, StepInv, Copying, Referenced, TargetRecord,
     JobRecord, Time
<1> QED
  BY <1>1, <1>2, <1>3, <1>4, <1>5, <1>6, <1>7, <1>8, <1>9

(* A backup is made to the target itself. *)
LEMMA TargetBackupComplete ==
  ASSUME CompleteInd, NEW t \in Time, NEW a \in Archives, ~a.enc, TargetBackup(t, a.idx)
  PROVE  CompleteInd'
<1> USE SyncConstantAssumption DEF TargetBackup, TargetOp, TargetUnchanged, SyncTypes, CompleteInd
<1>1. SyncTypes'
  <2>1. src' \in [Time -> SourceRecord] /\ newest' \in 0 .. Times
    BY DEF SourceRecord, NoSource
  <2>2. dst' \in [Time -> TargetRecord]
    <3>1. a.idx \in SUBSET Digest
      BY SyncOptionAssumption DEF Digest
    <3>2. [idx |-> a.idx, enc |-> FALSE, verify |-> "none", sig |-> NoMeta] \in Meta
      BY <3>1 DEF Meta, VerifyState
    <3> QED
      BY <3>1, <3>2 DEF TargetRecord
  <2>3. sync' \in JobRecord
    BY DEF JobRecord, Steps
  <2>4. chunks' \subseteq Digest /\ damaged' \subseteq Digest /\ runs' \in Nat
    <3>1. a.idx \in SUBSET Digest
      BY SyncOptionAssumption DEF Digest
    <3> QED
      BY <3>1
  <2> QED
    BY <2>1, <2>2, <2>3, <2>4
<1>2. SourceInv'
  BY DEF SourceInv, SourceRecord
<1>3. TargetInv'
  <2>1. a.idx # NoMeta
    BY SyncOptionAssumption DEF Digest
  <2> QED
    BY <2>1 DEF TargetInv, TargetRecord, NoTarget
<1>4. StepInv'
  BY DEF StepInv, Copying, TargetInv, NoTarget, TargetRecord, JobRecord, Time
<1>5. CopyInv'
  BY DEF CopyInv, StepInv, Copying, SourceInv, Meta, SourceRecord, JobRecord, Time
<1>6. YoungInv'
  BY DEF YoungInv, JobRecord
<1>7. KnownInv'
  BY DEF KnownInv, Safe, InBase, StepInv, Copying, TargetRecord, JobRecord, Time
<1>8. OutInv'
  BY DEF OutInv, Safe, InBase, StepInv, KnownInv, Copying, TargetRecord, JobRecord, Time
<1>9. TargetComplete'
  BY DEF TargetComplete, OutInv, Safe, InBase, YoungInv, StepInv, Copying, Referenced, TargetRecord,
     JobRecord, Time
<1> QED
  BY <1>1, <1>2, <1>3, <1>4, <1>5, <1>6, <1>7, <1>8, <1>9

(* The target removes a snapshot that is not locked. *)
LEMMA TargetPruneComplete ==
  ASSUME CompleteInd, NEW t \in Time, TargetPrune(t)
  PROVE  CompleteInd'
<1> USE SyncConstantAssumption DEF TargetPrune, TargetOp, TargetUnchanged, TargetLocked, TargetShared,
    NoTarget, SyncTypes, CompleteInd
<1>1. SyncTypes'
  <2>1. src' \in [Time -> SourceRecord] /\ newest' \in 0 .. Times
    BY DEF SourceRecord, NoSource
  <2>2. dst' \in [Time -> TargetRecord]
    BY DEF TargetRecord, NoTarget
  <2>3. sync' \in JobRecord
    BY DEF JobRecord, Steps
  <2>4. chunks' \subseteq Digest /\ damaged' \subseteq Digest /\ runs' \in Nat
    OBVIOUS
  <2> QED
    BY <2>1, <2>2, <2>3, <2>4
<1>2. SourceInv'
  BY DEF SourceInv, SourceRecord
<1>3. TargetInv'
  BY DEF TargetInv, TargetRecord, NoTarget
<1>4. StepInv'
  BY DEF StepInv, Copying, TargetInv, NoTarget, TargetRecord, JobRecord, Time
<1>5. CopyInv'
  BY DEF CopyInv, StepInv, Copying, SourceInv, Meta, SourceRecord, JobRecord, Time
<1>6. YoungInv'
  BY DEF YoungInv, JobRecord
<1>7. KnownInv'
  BY DEF KnownInv, Safe, InBase, StepInv, Copying, TargetRecord, JobRecord, Time
<1>8. OutInv'
  BY DEF OutInv, Safe, InBase, StepInv, KnownInv, Copying, TargetRecord, JobRecord, Time
<1>9. TargetComplete'
  BY DEF TargetComplete, OutInv, Safe, InBase, YoungInv, StepInv, Copying, Referenced, TargetRecord,
     JobRecord, Time
<1> QED
  BY <1>1, <1>2, <1>3, <1>4, <1>5, <1>6, <1>7, <1>8, <1>9

(* A snapshot of the target is protected. *)
LEMMA TargetProtectComplete ==
  ASSUME CompleteInd, NEW t \in Time, TargetProtect(t)
  PROVE  CompleteInd'
<1> USE SyncConstantAssumption DEF TargetProtect, TargetOp, TargetUnchanged, SyncTypes, CompleteInd
<1>1. SyncTypes'
  <2>1. src' \in [Time -> SourceRecord] /\ newest' \in 0 .. Times
    BY DEF SourceRecord, NoSource
  <2>2. dst' \in [Time -> TargetRecord]
    BY ZenonT(60) DEF TargetRecord, NoTarget
  <2>3. sync' \in JobRecord
    BY DEF JobRecord, Steps
  <2>4. chunks' \subseteq Digest /\ damaged' \subseteq Digest /\ runs' \in Nat
    OBVIOUS
  <2> QED
    BY <2>1, <2>2, <2>3, <2>4
<1>2. SourceInv'
  BY DEF SourceInv, SourceRecord
<1>3. TargetInv'
  <2>1. dst \in [Time -> TargetRecord] /\ TargetInv /\ dst[t].dir /\ dst' = [dst EXCEPT ![t].protected = TRUE]
    OBVIOUS
  <2> HIDE SyncConstantAssumption DEF TargetProtect, TargetOp, TargetUnchanged, SyncTypes, CompleteInd
  <2> QED
    BY <2>1, TargetFieldSet
<1>4. StepInv'
  BY DEF StepInv, Copying, TargetInv, NoTarget, TargetRecord, JobRecord, Time
<1>5. CopyInv'
  BY DEF CopyInv, StepInv, Copying, SourceInv, Meta, SourceRecord, JobRecord, Time
<1>6. YoungInv'
  BY DEF YoungInv, JobRecord
<1>7. KnownInv'
  BY DEF KnownInv, Safe, InBase, StepInv, Copying, TargetRecord, JobRecord, Time
<1>8. OutInv'
  BY DEF OutInv, Safe, InBase, StepInv, KnownInv, Copying, TargetRecord, JobRecord, Time
<1>9. TargetComplete'
  BY DEF TargetComplete, OutInv, Safe, InBase, YoungInv, StepInv, Copying, Referenced, TargetRecord,
     JobRecord, Time
<1> QED
  BY <1>1, <1>2, <1>3, <1>4, <1>5, <1>6, <1>7, <1>8, <1>9

(* A verification of the target renames a corrupt chunk. *)
LEMMA TargetVerifyComplete ==
  ASSUME CompleteInd, NEW t \in Time, NEW d \in Digest, TargetVerify(t, d)
  PROVE  CompleteInd'
<1> USE SyncConstantAssumption DEF TargetVerify, TargetOp, TargetLocked, SyncTypes, CompleteInd
<1>1. SyncTypes'
  <2>1. src' \in [Time -> SourceRecord] /\ newest' \in 0 .. Times
    BY DEF SourceRecord, NoSource
  <2>2. dst' \in [Time -> TargetRecord]
    <3>1. dst[t].meta \in Meta
      BY DEF TargetRecord
    <3>2. [dst[t].meta EXCEPT !.verify = "failed"] \in Meta
      BY <3>1 DEF Meta, VerifyState
    <3> QED
      BY SMTT(40), <3>2 DEF TargetRecord
  <2>3. sync' \in JobRecord
    BY SMTT(40) DEF JobRecord, Steps
  <2>4. chunks' \subseteq Digest /\ damaged' \subseteq Digest /\ runs' \in Nat
    OBVIOUS
  <2> QED
    BY <2>1, <2>2, <2>3, <2>4
<1>2. SourceInv'
  BY DEF SourceInv, SourceRecord
<1>3. TargetInv'
  <2>1. dst'[t].file = dst[t].file /\ dst'[t].dir = dst[t].dir
    BY DEF TargetRecord
  <2>2. \A u \in Time \ {t} : dst'[u] = dst[u]
    BY DEF TargetRecord
  <2>3. dst[t].dir /\ dst[t].file # NoMeta
    BY DEF TargetInv, NoTarget
  <2> HIDE DEF TargetVerify
  <2> QED
    BY <2>1, <2>2, <2>3 DEF TargetInv
<1>4. StepInv'
  BY DEF StepInv, Copying, TargetInv, NoTarget, TargetRecord, JobRecord, Time
<1>5. CopyInv'
  BY DEF CopyInv, StepInv, Copying, SourceInv, Meta, SourceRecord, JobRecord, Time
<1>6. YoungInv'
  BY DEF YoungInv, JobRecord
<1>7. KnownInv'
  BY DEF KnownInv, Safe, InBase, StepInv, Copying, TargetRecord, JobRecord, Time
<1>8. OutInv'
  BY DEF OutInv, Safe, InBase, StepInv, KnownInv, Copying, TargetRecord, JobRecord, Time
<1>9. TargetComplete'
  BY DEF TargetComplete, OutInv, Safe, InBase, YoungInv, StepInv, Copying, Referenced, TargetRecord,
     JobRecord, Time
<1> QED
  BY <1>1, <1>2, <1>3, <1>4, <1>5, <1>6, <1>7, <1>8, <1>9

(* A collection at the target takes what no index and no job counts on. *)
LEMMA TargetSweepsComplete ==
  ASSUME CompleteInd, NEW d \in Digest, TargetSweeps(d)
  PROVE  CompleteInd'
<1> USE SyncConstantAssumption DEF TargetSweeps, TargetUnchanged, SyncTypes, CompleteInd
<1>1. SyncTypes'
  <2>1. src' \in [Time -> SourceRecord] /\ newest' \in 0 .. Times
    BY DEF SourceRecord, NoSource
  <2>2. dst' \in [Time -> TargetRecord]
    BY DEF TargetRecord, NoTarget
  <2>3. sync' \in JobRecord
    BY DEF JobRecord, Steps
  <2>4. chunks' \subseteq Digest /\ damaged' \subseteq Digest /\ runs' \in Nat
    OBVIOUS
  <2> QED
    BY <2>1, <2>2, <2>3, <2>4
<1>2. SourceInv'
  BY DEF SourceInv, SourceRecord
<1>3. TargetInv'
  BY DEF TargetInv, TargetRecord, NoTarget
<1>4. StepInv'
  BY DEF StepInv, Copying, TargetInv, NoTarget, TargetRecord, JobRecord, Time
<1>5. CopyInv'
  BY DEF CopyInv, StepInv, Copying, SourceInv, Meta, SourceRecord, JobRecord, Time
<1>6. YoungInv'
  BY DEF YoungInv, JobRecord
<1>7. KnownInv'
  BY DEF KnownInv, Safe, InBase, StepInv, Copying, TargetRecord, JobRecord, Time
<1>8. OutInv'
  BY DEF OutInv, Safe, InBase, StepInv, KnownInv, Copying, TargetRecord, JobRecord, Time
<1>9. TargetComplete'
  BY SMTT(40) DEF TargetComplete, OutInv, Safe, InBase, YoungInv, StepInv, Copying, Referenced, TargetRecord,
     JobRecord, Time
<1> QED
  BY <1>1, <1>2, <1>3, <1>4, <1>5, <1>6, <1>7, <1>8, <1>9

(* A pull job starts. *)
LEMMA StartPullComplete ==
  ASSUME CompleteInd, NEW o \in Options, StartPull(o)
  PROVE  CompleteInd'
<1> USE SyncConstantAssumption DEF StartPull, FirstStep, StartJob, Idle, Running, JobUnchanged, SyncTypes, CompleteInd
<1>1. SyncTypes'
  <2>1. src' \in [Time -> SourceRecord] /\ newest' \in 0 .. Times
    BY DEF SourceRecord, NoSource
  <2>2. dst' \in [Time -> TargetRecord]
    BY DEF TargetRecord, NoTarget
  <2>3. sync' \in JobRecord
    <3>1. CASE SourceTimes # {}
      <4>1. sync' = [Idle EXCEPT !.opt = o, !.listed = TRUE, !.step = "group"]
        BY <3>1
      <4> HIDE DEF Idle, StartPull
      <4> QED
        BY ZenonT(60), <4>1, IdleType, TimesSubset DEF JobRecord, Steps
    <3>2. CASE SourceTimes = {}
      <4>1. sync' = [Idle EXCEPT !.opt = o, !.listed = FALSE, !.step = "groups"]
        BY <3>2
      <4> HIDE DEF Idle, StartPull
      <4> QED
        BY ZenonT(60), <4>1, IdleType, TimesSubset DEF JobRecord, Steps
    <3> QED
      BY <3>1, <3>2
  <2>4. chunks' \subseteq Digest /\ damaged' \subseteq Digest /\ runs' \in Nat
    OBVIOUS
  <2> QED
    BY <2>1, <2>2, <2>3, <2>4
<1>2. SourceInv'
  BY DEF SourceInv, SourceRecord
<1>3. TargetInv'
  BY DEF TargetInv, TargetRecord, NoTarget
<1>4. StepInv'
  BY DEF StepInv, Copying, TargetInv, NoTarget, TargetRecord, JobRecord, Time
<1>5. CopyInv'
  BY DEF CopyInv, StepInv, Copying, SourceInv, Meta, SourceRecord, JobRecord, Time
<1>6. YoungInv'
  BY DEF YoungInv, JobRecord
<1>7. KnownInv'
  <2>1. sync'.known = NoKnown /\ sync'.mapped = {} /\ sync'.step # "chunks"
    OBVIOUS
  <2>2. \A d \in Digest : NoKnown[d] # "touched"
    BY DEF NoKnown
  <2> QED
    BY <2>1, <2>2 DEF KnownInv
<1>8. OutInv'
  BY DEF OutInv, Safe, InBase, StepInv, KnownInv, Copying, TargetRecord, JobRecord, Time
<1>9. TargetComplete'
  BY DEF TargetComplete, OutInv, Safe, InBase, YoungInv, StepInv, Copying, Referenced, TargetRecord,
     JobRecord, Time
<1> QED
  BY <1>1, <1>2, <1>3, <1>4, <1>5, <1>6, <1>7, <1>8, <1>9

(* A push job starts. *)
LEMMA StartPushComplete ==
  ASSUME CompleteInd, NEW o \in Options, StartPush(o)
  PROVE  CompleteInd'
<1> USE SyncConstantAssumption DEF StartPush, FirstStep, StartJob, Idle, Running, JobUnchanged, SyncTypes, CompleteInd
<1>1. SyncTypes'
  <2>1. src' \in [Time -> SourceRecord] /\ newest' \in 0 .. Times
    BY DEF SourceRecord, NoSource
  <2>2. dst' \in [Time -> TargetRecord]
    BY DEF TargetRecord, NoTarget
  <2>3. sync' \in JobRecord
    <3>1. CASE SourceTimes # {}
      <4>1. sync' = [Idle EXCEPT !.opt = o, !.listed = TRUE, !.theirs = TargetTimes, !.step = "group"]
        BY <3>1
      <4> HIDE DEF Idle, StartPush
      <4> QED
        BY ZenonT(60), <4>1, IdleType, TimesSubset DEF JobRecord, Steps
    <3>2. CASE SourceTimes = {}
      <4>1. sync' = [Idle EXCEPT !.opt = o, !.listed = FALSE, !.theirs = TargetTimes, !.step = "groups"]
        BY <3>2
      <4> HIDE DEF Idle, StartPush
      <4> QED
        BY ZenonT(60), <4>1, IdleType, TimesSubset DEF JobRecord, Steps
    <3> QED
      BY <3>1, <3>2
  <2>4. chunks' \subseteq Digest /\ damaged' \subseteq Digest /\ runs' \in Nat
    OBVIOUS
  <2> QED
    BY <2>1, <2>2, <2>3, <2>4
<1>2. SourceInv'
  BY DEF SourceInv, SourceRecord
<1>3. TargetInv'
  BY DEF TargetInv, TargetRecord, NoTarget
<1>4. StepInv'
  BY DEF StepInv, Copying, TargetInv, NoTarget, TargetRecord, JobRecord, Time
<1>5. CopyInv'
  BY DEF CopyInv, StepInv, Copying, SourceInv, Meta, SourceRecord, JobRecord, Time
<1>6. YoungInv'
  BY DEF YoungInv, JobRecord
<1>7. KnownInv'
  BY DEF KnownInv, Safe, InBase, StepInv, Copying, TargetRecord, JobRecord, Time
<1>8. OutInv'
  BY DEF OutInv, Safe, InBase, StepInv, KnownInv, Copying, TargetRecord, JobRecord, Time
<1>9. TargetComplete'
  BY DEF TargetComplete, OutInv, Safe, InBase, YoungInv, StepInv, Copying, Referenced, TargetRecord,
     JobRecord, Time
<1> QED
  BY <1>1, <1>2, <1>3, <1>4, <1>5, <1>6, <1>7, <1>8, <1>9

(* The job lists the source. *)
LEMMA ListSourceComplete ==
  ASSUME CompleteInd, ListSource
  PROVE  CompleteInd'
<1> USE SyncConstantAssumption DEF ListSource, JobOnly, JobUnchanged, SyncTypes, CompleteInd
<1>1. SyncTypes'
  <2>1. src' \in [Time -> SourceRecord] /\ newest' \in 0 .. Times
    BY DEF SourceRecord, NoSource
  <2>2. dst' \in [Time -> TargetRecord]
    BY SMTT(40) DEF TargetRecord, NoTarget
  <2>3. sync' \in JobRecord
    BY ZenonT(60), TimesSubset DEF JobRecord, Steps
  <2>4. chunks' \subseteq Digest /\ damaged' \subseteq Digest /\ runs' \in Nat
    OBVIOUS
  <2> QED
    BY <2>1, <2>2, <2>3, <2>4
<1>2. SourceInv'
  BY DEF SourceInv, SourceRecord
<1>3. TargetInv'
  BY DEF TargetInv, TargetRecord, NoTarget
<1>4. StepInv'
  BY DEF StepInv, Copying, TargetInv, NoTarget, TargetRecord, JobRecord, Time
<1>5. CopyInv'
  BY DEF CopyInv, StepInv, Copying, SourceInv, Meta, SourceRecord, JobRecord, Time
<1>6. YoungInv'
  BY DEF YoungInv, JobRecord
<1>7. KnownInv'
  BY DEF KnownInv, Safe, InBase, StepInv, Copying, TargetRecord, JobRecord, Time
<1>8. OutInv'
  BY DEF OutInv, Safe, InBase, StepInv, KnownInv, Copying, TargetRecord, JobRecord, Time
<1>9. TargetComplete'
  BY DEF TargetComplete, OutInv, Safe, InBase, YoungInv, StepInv, Copying, Referenced, TargetRecord,
     JobRecord, Time
<1> QED
  BY <1>1, <1>2, <1>3, <1>4, <1>5, <1>6, <1>7, <1>8, <1>9

(* The job selects what to transfer. *)
LEMMA SelectComplete ==
  ASSUME CompleteInd, Select
  PROVE  CompleteInd'
<1> USE SyncConstantAssumption DEF Select, JobOnly, JobUnchanged, SyncTypes, CompleteInd
<1>1. SyncTypes'
  <2>1. src' \in [Time -> SourceRecord] /\ newest' \in 0 .. Times
    BY DEF SourceRecord, NoSource
  <2>2. dst' \in [Time -> TargetRecord]
    BY DEF TargetRecord, NoTarget
  <2>3. sync' \in JobRecord
    <3>1. PullTodo \in SUBSET Time /\ CorruptTimes \in SUBSET Time /\ PushTodo \in SUBSET Time
      BY DEF PullTodo, CorruptTimes, PushTodo, TransferLast, JobRecord
    <3> QED
      BY ZenonT(60), <3>1, TimesSubset DEF JobRecord, Steps
  <2>4. chunks' \subseteq Digest /\ damaged' \subseteq Digest /\ runs' \in Nat
    OBVIOUS
  <2> QED
    BY <2>1, <2>2, <2>3, <2>4
<1>2. SourceInv'
  BY DEF SourceInv, SourceRecord
<1>3. TargetInv'
  BY DEF TargetInv, TargetRecord, NoTarget
<1>4. StepInv'
  BY DEF StepInv, Copying, TargetInv, NoTarget, TargetRecord, JobRecord, Time
<1>5. CopyInv'
  BY DEF CopyInv, StepInv, Copying, SourceInv, Meta, SourceRecord, JobRecord, Time
<1>6. YoungInv'
  BY DEF YoungInv, JobRecord
<1>7. KnownInv'
  BY DEF KnownInv, Safe, InBase, StepInv, Copying, TargetRecord, JobRecord, Time
<1>8. OutInv'
  BY DEF OutInv, Safe, InBase, StepInv, KnownInv, Copying, TargetRecord, JobRecord, Time
<1>9. TargetComplete'
  BY DEF TargetComplete, OutInv, Safe, InBase, YoungInv, StepInv, Copying, Referenced, TargetRecord,
     JobRecord, Time
<1> QED
  BY <1>1, <1>2, <1>3, <1>4, <1>5, <1>6, <1>7, <1>8, <1>9

(* A pull reads the chunks of the last snapshot; none is touched yet. *)
LEMMA CollectReusableComplete ==
  ASSUME CompleteInd, CollectReusable
  PROVE  CompleteInd'
<1>0. PICK got : /\ sync.step = "collect" /\ JobOnly
                /\ sync' = [sync EXCEPT !.step = "next", !.known = MarkReusable(got)]
  BY DEF CollectReusable
<1> USE <1>0, SyncConstantAssumption DEF JobOnly, JobUnchanged, SyncTypes, CompleteInd
<1>1. SyncTypes'
  <2>1. src' \in [Time -> SourceRecord] /\ newest' \in 0 .. Times
    BY DEF SourceRecord, NoSource
  <2>2. dst' \in [Time -> TargetRecord]
    BY DEF TargetRecord, NoTarget
  <2>3. sync' \in JobRecord
    BY ZenonT(60), ReusableType DEF JobRecord, Steps
  <2>4. chunks' \subseteq Digest /\ damaged' \subseteq Digest /\ runs' \in Nat
    OBVIOUS
  <2> QED
    BY <2>1, <2>2, <2>3, <2>4
<1>2. SourceInv'
  BY DEF SourceInv, SourceRecord
<1>3. TargetInv'
  BY DEF TargetInv, TargetRecord, NoTarget
<1>4. StepInv'
  BY DEF StepInv, Copying, TargetInv, NoTarget, TargetRecord, JobRecord, Time
<1>5. CopyInv'
  BY DEF CopyInv, StepInv, Copying, SourceInv, Meta, SourceRecord, JobRecord, Time
<1>6. YoungInv'
  BY DEF YoungInv, JobRecord
<1>7. KnownInv'
  <2>1. sync'.mapped = {} /\ sync'.step # "chunks"
    BY DEF StepInv, JobRecord
  <2>2. \A d \in Digest : NoKnown[d] # "touched"
    BY DEF NoKnown
  <2>3. \A d \in Digest : sync'.known[d] # "touched"
    BY <2>2, ReusableType DEF StepInv, JobRecord
  <2> QED
    BY <2>1, <2>3 DEF KnownInv
<1>8. OutInv'
  BY DEF OutInv, Safe, InBase, StepInv, KnownInv, Copying, TargetRecord, JobRecord, Time
<1>9. TargetComplete'
  BY DEF TargetComplete, OutInv, Safe, InBase, YoungInv, StepInv, Copying, Referenced, TargetRecord,
     JobRecord, Time
<1> QED
  BY <1>1, <1>2, <1>3, <1>4, <1>5, <1>6, <1>7, <1>8, <1>9

(* A pull creates and locks the next snapshot. *)
LEMMA PullOpensComplete ==
  ASSUME CompleteInd, PullOpens
  PROVE  CompleteInd'
<1> USE SyncConstantAssumption DEF PullOpens, JobUnchanged, SyncTypes, CompleteInd
<1>1. SyncTypes'
  <2>1. src' \in [Time -> SourceRecord] /\ newest' \in 0 .. Times
    BY DEF SourceRecord, NoSource
  <2>2. dst' \in [Time -> TargetRecord]
    <3>1. sync.todo \in SUBSET Time /\ sync.todo # {}
      BY DEF JobRecord
    <3>2. MinTime(sync.todo) \in Time /\ MinTime(sync.todo) \in 0 .. Times
      BY <3>1, MinTimeIn, TimesSubset
    <3> QED
      BY ZenonT(60), <3>2 DEF TargetRecord
  <2>3. sync' \in JobRecord
    <3>1. sync.todo \in SUBSET Time /\ sync.todo # {}
      BY DEF JobRecord
    <3>2. MinTime(sync.todo) \in Time /\ MinTime(sync.todo) \in 0 .. Times
      BY <3>1, MinTimeIn, TimesSubset
    <3>3. dst[MinTime(sync.todo)].dir \in BOOLEAN
      BY <3>2 DEF TargetRecord
    <3> QED
      BY ZenonT(60), <3>2, <3>3 DEF JobRecord, Steps
  <2>4. chunks' \subseteq Digest /\ damaged' \subseteq Digest /\ runs' \in Nat
    OBVIOUS
  <2> QED
    BY <2>1, <2>2, <2>3, <2>4
<1>2. SourceInv'
  BY DEF SourceInv, SourceRecord
<1>3. TargetInv'
  BY DEF TargetInv, TargetRecord, NoTarget
<1>4. StepInv'
  <2>1. sync.todo \in SUBSET Time /\ sync.todo # {}
    BY DEF JobRecord
  <2>2. MinTime(sync.todo) \in Time
    BY <2>1, MinTimeIn
  <2>3. MinTime(sync.todo) # 0
    BY <2>2 DEF Time
  <2> QED
    BY <2>2, <2>3 DEF StepInv, Copying, TargetRecord, JobRecord
<1>5. CopyInv'
  BY DEF CopyInv, StepInv, Copying, SourceInv, Meta, SourceRecord, JobRecord, Time
<1>6. YoungInv'
  BY DEF YoungInv, JobRecord
<1>7. KnownInv'
  BY DEF KnownInv, Safe, InBase, StepInv, Copying, TargetRecord, JobRecord, Time
<1>8. OutInv'
  BY DEF OutInv, Safe, InBase, StepInv, KnownInv, Copying, TargetRecord, JobRecord, Time
<1>9. TargetComplete'
  BY DEF TargetComplete, OutInv, Safe, InBase, YoungInv, StepInv, Copying, Referenced, TargetRecord,
     JobRecord, Time
<1> QED
  BY <1>1, <1>2, <1>3, <1>4, <1>5, <1>6, <1>7, <1>8, <1>9

(* A pull leaves a snapshot out. *)
LEMMA PullSkipsComplete ==
  ASSUME CompleteInd, PullSkips
  PROVE  CompleteInd'
<1> USE SyncConstantAssumption DEF PullSkips, DropNew, Leave, NoTarget, JobUnchanged, SyncTypes, CompleteInd
<1>1. SyncTypes'
  <2>1. src' \in [Time -> SourceRecord] /\ newest' \in 0 .. Times
    BY DEF SourceRecord, NoSource
  <2>2. dst' \in [Time -> TargetRecord]
    BY DEF TargetRecord, NoTarget
  <2>3. sync' \in JobRecord
    BY LeaveType
  <2>4. chunks' \subseteq Digest /\ damaged' \subseteq Digest /\ runs' \in Nat
    OBVIOUS
  <2> QED
    BY <2>1, <2>2, <2>3, <2>4
<1>2. SourceInv'
  BY DEF SourceInv, SourceRecord
<1>3. TargetInv'
  BY DEF TargetInv, TargetRecord, NoTarget
<1>4. StepInv'
  BY DEF StepInv, Copying, TargetInv, NoTarget, TargetRecord, JobRecord, Time
<1>5. CopyInv'
  BY DEF CopyInv, StepInv, Copying, SourceInv, Meta, SourceRecord, JobRecord, Time
<1>6. YoungInv'
  BY DEF YoungInv, JobRecord
<1>7. KnownInv'
  BY DEF KnownInv, Safe, InBase, StepInv, Copying, TargetRecord, JobRecord, Time
<1>8. OutInv'
  BY DEF OutInv, Safe, InBase, StepInv, KnownInv, Copying, TargetRecord, JobRecord, Time
<1>9. TargetComplete'
  BY DEF TargetComplete, OutInv, Safe, InBase, YoungInv, StepInv, Copying, Referenced, TargetRecord,
     JobRecord, Time
<1> QED
  BY <1>1, <1>2, <1>3, <1>4, <1>5, <1>6, <1>7, <1>8, <1>9

(* A pull finds a snapshot unchanged. *)
LEMMA PullLeavesComplete ==
  ASSUME CompleteInd, PullLeaves
  PROVE  CompleteInd'
<1> USE SyncConstantAssumption DEF PullLeaves, Leave, JobOnly, JobUnchanged, SyncTypes, CompleteInd
<1>1. SyncTypes'
  <2>1. src' \in [Time -> SourceRecord] /\ newest' \in 0 .. Times
    BY DEF SourceRecord, NoSource
  <2>2. dst' \in [Time -> TargetRecord]
    BY DEF TargetRecord, NoTarget
  <2>3. sync' \in JobRecord
    BY LeaveType
  <2>4. chunks' \subseteq Digest /\ damaged' \subseteq Digest /\ runs' \in Nat
    OBVIOUS
  <2> QED
    BY <2>1, <2>2, <2>3, <2>4
<1>2. SourceInv'
  BY DEF SourceInv, SourceRecord
<1>3. TargetInv'
  BY DEF TargetInv, TargetRecord, NoTarget
<1>4. StepInv'
  BY DEF StepInv, Copying, TargetInv, NoTarget, TargetRecord, JobRecord, Time
<1>5. CopyInv'
  BY DEF CopyInv, StepInv, Copying, SourceInv, Meta, SourceRecord, JobRecord, Time
<1>6. YoungInv'
  BY DEF YoungInv, JobRecord
<1>7. KnownInv'
  BY DEF KnownInv, Safe, InBase, StepInv, Copying, TargetRecord, JobRecord, Time
<1>8. OutInv'
  BY DEF OutInv, Safe, InBase, StepInv, KnownInv, Copying, TargetRecord, JobRecord, Time
<1>9. TargetComplete'
  BY DEF TargetComplete, OutInv, Safe, InBase, YoungInv, StepInv, Copying, Referenced, TargetRecord,
     JobRecord, Time
<1> QED
  BY <1>1, <1>2, <1>3, <1>4, <1>5, <1>6, <1>7, <1>8, <1>9

(* A pull begins with the index, or keeps the one that is there. *)
LEMMA PullStartsComplete ==
  ASSUME CompleteInd, NEW o \in {"regular", "decrypt"}, NEW k \in BOOLEAN, PullStarts(o, k)
  PROVE  CompleteInd'
<1> USE SyncConstantAssumption DEF PullStarts, JobOnly, JobUnchanged, SyncTypes, CompleteInd
<1>a. sync.cur \in Time /\ src[sync.cur].meta \in Meta /\ src[sync.cur].meta.idx \in SUBSET Digest
  BY CurrentTime DEF SourceInv, SourceRecord, Meta
<1>b. sync.base = 0
  BY DEF StepInv, Copying
<1>1. SyncTypes'
  <2>1. src' \in [Time -> SourceRecord] /\ newest' \in 0 .. Times
    BY DEF SourceRecord, NoSource
  <2>2. dst' \in [Time -> TargetRecord]
    BY SMTT(40) DEF TargetRecord, NoTarget
  <2>3. sync' \in JobRecord
    <3>1. sync' = [sync EXCEPT !.meta = src[sync.cur].meta, !.mode = o, !.kept = k,
                               !.step = IF k THEN "commit" ELSE "chunks",
                               !.work = IF k THEN {} ELSE src[sync.cur].meta.idx]
      OBVIOUS
    <3> HIDE DEF PullStarts
    <3> QED
      BY ZenonT(60), <1>a, <3>1 DEF JobRecord, Steps
  <2>4. chunks' \subseteq Digest /\ damaged' \subseteq Digest /\ runs' \in Nat
    OBVIOUS
  <2> QED
    BY <2>1, <2>2, <2>3, <2>4
<1>2. SourceInv'
  BY DEF SourceInv, SourceRecord
<1>3. TargetInv'
  BY DEF TargetInv, TargetRecord, NoTarget
<1>4. StepInv'
  BY <1>a, <1>b DEF StepInv, Copying, TargetInv, NoTarget, TargetRecord, JobRecord, Time
<1>5. CopyInv'
  BY <1>a, <1>b DEF CopyInv, StepInv, Copying, SourceInv, Meta, SourceRecord, JobRecord, Time
<1>6. YoungInv'
  BY DEF YoungInv, JobRecord
<1>7. KnownInv'
  BY <1>a, <1>b DEF KnownInv, Safe, InBase, StepInv, Copying, TargetRecord, JobRecord, Time
<1>8. OutInv'
  BY <1>a, <1>b DEF OutInv, Safe, InBase, StepInv, KnownInv, Copying, TargetRecord, JobRecord, Time
<1>9. TargetComplete'
  BY DEF TargetComplete, OutInv, Safe, InBase, YoungInv, StepInv, Copying, Referenced, TargetRecord,
     JobRecord, Time
<1> QED
  BY <1>1, <1>2, <1>3, <1>4, <1>5, <1>6, <1>7, <1>8, <1>9

(* A push leaves a snapshot out. *)
LEMMA PushSkipsComplete ==
  ASSUME CompleteInd, PushSkips
  PROVE  CompleteInd'
<1> USE SyncConstantAssumption DEF PushSkips, JobOnly, JobUnchanged, SyncTypes, CompleteInd
<1>1. SyncTypes'
  <2>1. src' \in [Time -> SourceRecord] /\ newest' \in 0 .. Times
    BY DEF SourceRecord, NoSource
  <2>2. dst' \in [Time -> TargetRecord]
    BY DEF TargetRecord, NoTarget
  <2>3. sync' \in JobRecord
    BY DEF JobRecord, Steps
  <2>4. chunks' \subseteq Digest /\ damaged' \subseteq Digest /\ runs' \in Nat
    OBVIOUS
  <2> QED
    BY <2>1, <2>2, <2>3, <2>4
<1>2. SourceInv'
  BY DEF SourceInv, SourceRecord
<1>3. TargetInv'
  BY DEF TargetInv, TargetRecord, NoTarget
<1>4. StepInv'
  BY DEF StepInv, Copying, TargetInv, NoTarget, TargetRecord, JobRecord, Time
<1>5. CopyInv'
  BY DEF CopyInv, StepInv, Copying, SourceInv, Meta, SourceRecord, JobRecord, Time
<1>6. YoungInv'
  BY DEF YoungInv, JobRecord
<1>7. KnownInv'
  BY DEF KnownInv, Safe, InBase, StepInv, Copying, TargetRecord, JobRecord, Time
<1>8. OutInv'
  BY DEF OutInv, Safe, InBase, StepInv, KnownInv, Copying, TargetRecord, JobRecord, Time
<1>9. TargetComplete'
  BY DEF TargetComplete, OutInv, Safe, InBase, YoungInv, StepInv, Copying, Referenced, TargetRecord,
     JobRecord, Time
<1> QED
  BY <1>1, <1>2, <1>3, <1>4, <1>5, <1>6, <1>7, <1>8, <1>9

(* A push opens a session; what is known is in its base. *)
LEMMA PushOpensComplete ==
  ASSUME CompleteInd, PushOpens
  PROVE  CompleteInd'
<1> USE SyncConstantAssumption DEF PushOpens, JobUnchanged, SyncTypes, CompleteInd
<1>a. /\ MinTime(sync.todo) \in Time /\ MinTime(sync.todo) # 0
      /\ src[MinTime(sync.todo)].meta \in Meta /\ src[MinTime(sync.todo)].meta.idx \in SUBSET Digest
  <2>1. sync.todo \in SUBSET Time /\ sync.todo # {}
    BY DEF JobRecord
  <2>2. MinTime(sync.todo) \in Time
    BY <2>1, MinTimeIn
  <2> QED
    BY <2>2 DEF SourceInv, SourceRecord, Meta, Time
<1>b. ~dst[MinTime(sync.todo)].dir
  <2>1. MinTime(sync.todo) \notin TargetTimes
    BY <1>a, LastTime DEF Time
  <2> QED
    BY <1>a, <2>1 DEF TargetTimes
<1>c. /\ MaxTime(Finished) \in 0 .. Times
      /\ MaxTime(Finished) # 0 => MaxTime(Finished) \in Time /\ dst[MaxTime(Finished)].meta # NoMeta
  BY SMTT(40), LastTime, TimesSubset, SyncConstantAssumption
<1>d. PICK o \in {"regular", "encrypt"}, k \in [Digest -> {"none", "reusable", "touched"}] :
        /\ sync' = [sync EXCEPT !.step = "chunks", !.cur = MinTime(sync.todo), !.todo = @ \ {MinTime(sync.todo)},
                                !.new = TRUE, !.meta = src[MinTime(sync.todo)].meta,
                                !.work = src[MinTime(sync.todo)].meta.idx, !.mapped = {}, !.mode = o,
                                !.base = MaxTime(Finished), !.known = k]
        /\ \A d \in Digest : k[d] # "none" => MaxTime(Finished) # 0 /\ d \in dst[MaxTime(Finished)].file
  <2>1. NoKnown \in [Digest -> {"none", "reusable", "touched"}] /\ \A d \in Digest : NoKnown[d] = "none"
    BY SMTT(40) DEF NoKnown
  <2>2. PICK o \in {"regular", "encrypt"}, k \in {NoKnown, MarkReusable(dst[MaxTime(Finished)].file)} :
          /\ sync' = [sync EXCEPT !.step = "chunks", !.cur = MinTime(sync.todo), !.todo = @ \ {MinTime(sync.todo)},
                                  !.new = TRUE, !.meta = src[MinTime(sync.todo)].meta,
                                  !.work = src[MinTime(sync.todo)].meta.idx, !.mapped = {}, !.mode = o,
                                  !.base = MaxTime(Finished), !.known = k]
          /\ k = NoKnown \/ MaxTime(Finished) # 0
    OBVIOUS
  <2> HIDE DEF PushOpens
  <2> QED
    <3>1. CASE k = NoKnown
      BY <2>1, <2>2, <3>1
    <3>2. CASE k = MarkReusable(dst[MaxTime(Finished)].file) /\ MaxTime(Finished) # 0
      BY <2>2, <3>2, ReusableType
    <3> QED
      BY <2>2, <3>1, <3>2
<1>e. /\ sync.opt.op = "push" /\ sync.step = "next" /\ src[MinTime(sync.todo)].st = "done"
      /\ dst' = [dst EXCEPT ![MinTime(sync.todo)].dir = TRUE]
      /\ UNCHANGED <<src, newest, chunks, damaged, runs>>
  OBVIOUS
<1>f. MaxTime(Finished) # MinTime(sync.todo)
  BY <1>a, <1>b, <1>c DEF TargetInv, NoTarget
<1> HIDE DEF PushOpens
<1>1. SyncTypes'
  <2>1. src' \in [Time -> SourceRecord] /\ newest' \in 0 .. Times
    BY <1>e DEF SourceRecord, NoSource
  <2>2. dst' \in [Time -> TargetRecord]
    BY ZenonT(60), <1>a, <1>b, <1>c, <1>d, <1>e, <1>f DEF TargetRecord, NoTarget
  <2>3. sync' \in JobRecord
    BY ZenonT(60), <1>a, <1>c, <1>d, TimesSubset DEF JobRecord, Steps
  <2>4. chunks' \subseteq Digest /\ damaged' \subseteq Digest /\ runs' \in Nat
    BY <1>e
  <2> QED
    BY <2>1, <2>2, <2>3, <2>4
<1>2. SourceInv'
  BY <1>a, <1>b, <1>c, <1>d, <1>e, <1>f DEF SourceInv, SourceRecord
<1>3. TargetInv'
  BY <1>a, <1>b, <1>c, <1>d, <1>e, <1>f DEF TargetInv, TargetRecord, NoTarget
<1>4. StepInv'
  BY <1>a, <1>b, <1>c, <1>d, <1>e, <1>f DEF StepInv, Copying, TargetInv, NoTarget, TargetRecord,
     JobRecord, Time
<1>5. CopyInv'
  BY <1>a, <1>b, <1>c, <1>d, <1>e, <1>f DEF CopyInv, StepInv, Copying, SourceInv, Meta, SourceRecord,
     JobRecord, Time
<1>6. YoungInv'
  BY <1>a, <1>b, <1>c, <1>d, <1>e, <1>f DEF YoungInv, JobRecord
<1>7. KnownInv'
  BY <1>a, <1>b, <1>c, <1>d, <1>e, <1>f DEF KnownInv, Safe, InBase, StepInv, Copying, TargetRecord,
     JobRecord, Time
<1>8. OutInv'
  BY <1>a, <1>b, <1>c, <1>d, <1>e, <1>f DEF OutInv, Safe, InBase, StepInv, KnownInv, Copying,
     TargetRecord, JobRecord, Time
<1>9. TargetComplete'
  BY <1>a, <1>b, <1>c, <1>d, <1>e, <1>f DEF TargetComplete, OutInv, Safe, InBase, YoungInv, StepInv,
     Copying, Referenced, TargetRecord, JobRecord, Time
<1> QED
  BY <1>1, <1>2, <1>3, <1>4, <1>5, <1>6, <1>7, <1>8, <1>9

(* A pull marks a chunk, and touches it or sends for it. *)
LEMMA PullVisitsComplete ==
  ASSUME CompleteInd, NEW d \in Digest, PullVisits(d)
  PROVE  CompleteInd'
<1> USE SyncConstantAssumption DEF PullVisits, Touch, CondTouch, JobOnly, JobUnchanged, SyncTypes, CompleteInd
<1>1. SyncTypes'
  <2>1. src' \in [Time -> SourceRecord] /\ newest' \in 0 .. Times
    BY DEF SourceRecord, NoSource
  <2>2. dst' \in [Time -> TargetRecord]
    BY DEF TargetRecord, NoTarget
  <2>3. sync' \in JobRecord
    BY ZenonT(60) DEF JobRecord, Steps
  <2>4. chunks' \subseteq Digest /\ damaged' \subseteq Digest /\ runs' \in Nat
    OBVIOUS
  <2> QED
    BY <2>1, <2>2, <2>3, <2>4
<1>2. SourceInv'
  BY DEF SourceInv, SourceRecord
<1>3. TargetInv'
  BY DEF TargetInv, TargetRecord, NoTarget
<1>4. StepInv'
  BY DEF StepInv, Copying, TargetInv, NoTarget, TargetRecord, JobRecord, Time
<1>5. CopyInv'
  BY DEF CopyInv, StepInv, Copying, SourceInv, Meta, SourceRecord, JobRecord, Time
<1>6. YoungInv'
  BY DEF YoungInv, JobRecord
<1>7. KnownInv'
  BY DEF KnownInv, Safe, InBase, StepInv, Copying, TargetRecord, JobRecord, Time
<1>8. OutInv'
  BY DEF OutInv, Safe, InBase, StepInv, KnownInv, Copying, TargetRecord, JobRecord, Time
<1>9. TargetComplete'
  BY DEF TargetComplete, OutInv, Safe, InBase, YoungInv, StepInv, Copying, Referenced, TargetRecord,
     JobRecord, Time
<1> QED
  BY <1>1, <1>2, <1>3, <1>4, <1>5, <1>6, <1>7, <1>8, <1>9

(* A pull that decrypts sends for a chunk, or maps it. *)
LEMMA DecryptVisitsComplete ==
  ASSUME CompleteInd, NEW d \in Digest, DecryptVisits(d)
  PROVE  CompleteInd'
<1> USE SyncConstantAssumption DEF DecryptVisits, JobOnly, JobUnchanged, SyncTypes, CompleteInd
<1>a. sync.opt.op = "pull" /\ sync.step = "chunks" /\ d \in sync.work
  BY DEF StepInv
<1>f. Plain(d) \in Digest
  BY DEF Plain, Digest
<1> DEFINE K == [sync.known EXCEPT ![d] = IF sync.known[d] = "none" THEN "reusable" ELSE sync.known[d]]
           G == IF d \in sync.mapped THEN sync.fetching ELSE sync.fetching \cup {Plain(d)}
           Skipped == [sync EXCEPT !.work = @ \ {d}]
           Taken == [sync EXCEPT !.work = @ \ {d}, !.out = @ \cup {Plain(d)}, !.mapped = @ \cup {d},
                                 !.known = K, !.fetching = G]
<1>0. sync' = Skipped \/ sync' = Taken
  BY DEF Plain
<1>h. UNCHANGED <<src, newest, dst, chunks, damaged, runs>>
  OBVIOUS
<1>k. /\ K \in [Digest -> {"none", "reusable", "touched"}]
      /\ \A e \in Digest : K[e] = "touched" => sync.known[e] = "touched"
  BY DEF JobRecord
<1>l. G \in SUBSET Digest /\ sync.fetching \subseteq G /\ (d \notin sync.mapped => Plain(d) \in G)
  BY <1>f DEF JobRecord
<1> HIDE DEF DecryptVisits, K, G
<1>b. /\ sync'.opt = sync.opt /\ sync'.step = sync.step /\ sync'.base = sync.base /\ sync'.young = sync.young
      /\ sync'.cur = sync.cur /\ sync'.new = sync.new /\ sync'.meta = sync.meta /\ sync'.mode = sync.mode
      /\ sync.fetching \subseteq sync'.fetching
  BY ZenonT(60), <1>0, <1>l DEF JobRecord
<1>c. \A e \in Digest : Safe(e) => Safe(e)'
  BY <1>b, <1>h DEF Safe, InBase
<1>d. \/ sync'.mapped = sync.mapped /\ sync'.out = sync.out /\ sync'.known = sync.known
      \/ /\ sync'.mapped = sync.mapped \cup {d} /\ sync'.out = sync.out \cup {Plain(d)}
         /\ sync'.known = K /\ sync'.fetching = G
  BY ZenonT(60), <1>0 DEF JobRecord
<1>g. sync'.fetching = G => Safe(Plain(d))'
  <2>1. d \in sync.mapped => Safe(Plain(d))
    BY <1>a DEF KnownInv
  <2>2. sync'.fetching = G /\ d \notin sync.mapped => Plain(d) \in sync'.fetching
    BY <1>l
  <2>3. Plain(d) \in sync'.fetching => Safe(Plain(d))'
    BY DEF Safe, Plain
  <2> QED
    BY <1>c, <1>f, <2>1, <2>2, <2>3
<1>1. SyncTypes'
  <2>1. src' \in [Time -> SourceRecord] /\ newest' \in 0 .. Times
    BY <1>0, <1>h, <1>a DEF SourceRecord, NoSource
  <2>2. dst' \in [Time -> TargetRecord]
    BY <1>0, <1>h, <1>a DEF TargetRecord, NoTarget
  <2>3. sync' \in JobRecord
    <3>1. CASE sync' = Skipped
      BY SMTT(40), <3>1 DEF JobRecord
    <3>2. CASE sync' = Taken
      BY ZenonT(60), <1>f, <1>k, <1>l, <3>2 DEF JobRecord
    <3> QED
      BY <1>0, <3>1, <3>2
  <2>4. chunks' \subseteq Digest /\ damaged' \subseteq Digest /\ runs' \in Nat
    BY <1>h
  <2> QED
    BY <2>1, <2>2, <2>3, <2>4
<1>2. SourceInv'
  BY <1>0, <1>h, <1>a DEF SourceInv, SourceRecord
<1>3. TargetInv'
  BY <1>0, <1>h, <1>a DEF TargetInv, TargetRecord, NoTarget
<1>4. StepInv'
  BY <1>a, <1>b, <1>h DEF StepInv, Copying
<1>5. CopyInv'
  BY <1>a, <1>b, <1>h DEF CopyInv, Copying
<1>6. YoungInv'
  BY ZenonT(60), <1>0, <1>h, <1>a DEF YoungInv, JobRecord
<1>7. KnownInv'
  <2> SUFFICES ASSUME NEW e \in Digest
               PROVE  /\ sync'.known[e] = "touched" => Safe(e)'
                      /\ e \in sync'.mapped => Safe(Plain(e))'
    BY <1>a, <1>b DEF KnownInv
  <2>1. /\ sync.known[e] = "touched" => Safe(e)
        /\ e \in sync.mapped => Safe(Plain(e))
    BY <1>a DEF KnownInv
  <2>2. Plain(e) \in Digest
    BY DEF Plain, Digest
  <2>3. /\ sync'.known[e] = "touched" => sync.known[e] = "touched"
        /\ e \in sync'.mapped => e \in sync.mapped \/ (e = d /\ sync'.fetching = G)
    BY <1>d, <1>k
  <2> QED
    BY <1>c, <1>g, <2>1, <2>2, <2>3
<1>8. OutInv'
  <2> SUFFICES ASSUME NEW e \in sync'.out
               PROVE  Safe(e)'
    BY DEF OutInv
  <2>1. sync.out \subseteq Digest
    BY DEF JobRecord
  <2>2. CASE e \in sync.out
    BY <1>c, <2>1, <2>2 DEF OutInv
  <2>3. CASE e \notin sync.out
    BY <1>d, <1>g, <2>3
  <2> QED
    BY <2>2, <2>3
<1>9. TargetComplete'
  BY <1>0, <1>h, <1>a DEF TargetComplete, OutInv, Safe, InBase, YoungInv, StepInv, Copying, Referenced,
     TargetRecord, JobRecord, Time
<1> QED
  BY <1>1, <1>2, <1>3, <1>4, <1>5, <1>6, <1>7, <1>8, <1>9

(* A push takes a chunk as known, or sends it. *)
LEMMA PushVisitsComplete ==
  ASSUME CompleteInd, NEW d \in Digest, PushVisits(d)
  PROVE  CompleteInd'
<1> USE SyncConstantAssumption DEF PushVisits, Touch, JobOnly, JobUnchanged, SyncTypes, CompleteInd
<1> DEFINE p == <<d[1], d[2] \/ sync.mode = "encrypt">>
           G == IF sync.known[p] = "none" THEN sync.fetching \cup {p} ELSE sync.fetching
           K == [sync.known EXCEPT ![p] = "touched"]
<1>a. p \in Digest
  BY DEF Digest
<1>b. /\ sync' = [sync EXCEPT !.work = @ \ {d}, !.out = @ \cup {p}, !.known = K, !.fetching = G]
      /\ sync.opt.op = "push" /\ sync.step = "chunks" /\ d \in sync.work
  OBVIOUS
<1>h. UNCHANGED <<src, newest, dst, chunks, damaged, runs>>
  OBVIOUS
<1>k. K \in [Digest -> {"none", "reusable", "touched"}] /\ \A e \in Digest : e # p => K[e] = sync.known[e]
  BY <1>a DEF JobRecord
<1>l. G \in SUBSET Digest /\ sync.fetching \subseteq G /\ (sync.known[p] = "none" => p \in G)
  BY <1>a DEF JobRecord
<1> HIDE DEF PushVisits, Touch, p, K, G
<1>c. /\ sync'.opt = sync.opt /\ sync'.step = sync.step /\ sync'.base = sync.base /\ sync'.young = sync.young
      /\ sync'.fetching = G /\ sync'.known = K /\ sync'.out = sync.out \cup {p}
  BY <1>b DEF JobRecord
<1>d. \A e \in Digest : Safe(e) => Safe(e)'
  BY <1>c, <1>h, <1>l DEF Safe, InBase
<1>e. ASSUME NEW e \in Digest, e = p
      PROVE  Safe(e)'
  <2>1. sync.known[p] # "none" => Safe(e)
    BY <1>a, <1>b, <1>e DEF KnownInv
  <2>2. sync.known[p] = "none" => e \in sync'.fetching
    BY <1>c, <1>e, <1>l
  <2>3. e \in sync'.fetching => Safe(e)'
    BY DEF Safe
  <2> QED
    BY <1>d, <2>1, <2>2, <2>3
<1>1. SyncTypes'
  <2>1. src' \in [Time -> SourceRecord] /\ newest' \in 0 .. Times
    BY <1>b, <1>h DEF SourceRecord, NoSource
  <2>2. dst' \in [Time -> TargetRecord]
    BY <1>b, <1>h DEF TargetRecord, NoTarget
  <2>3. sync' \in JobRecord
    BY ZenonT(60), <1>a, <1>b, <1>k, <1>l DEF JobRecord
  <2>4. chunks' \subseteq Digest /\ damaged' \subseteq Digest /\ runs' \in Nat
    BY <1>h
  <2> QED
    BY <2>1, <2>2, <2>3, <2>4
<1>2. SourceInv'
  BY <1>b, <1>h DEF SourceInv, SourceRecord
<1>3. TargetInv'
  BY <1>b, <1>h DEF TargetInv, TargetRecord, NoTarget
<1>4. StepInv'
  BY <1>b, <1>h DEF StepInv, Copying, TargetInv, NoTarget, TargetRecord, JobRecord, Time
<1>5. CopyInv'
  BY <1>b, <1>h DEF CopyInv, StepInv, Copying, SourceInv, Meta, SourceRecord, JobRecord, Time
<1>6. YoungInv'
  BY <1>b, <1>h DEF YoungInv, JobRecord
<1>7. KnownInv'
  <2> SUFFICES ASSUME NEW e \in Digest
               PROVE  sync'.known[e] # "none" => Safe(e)'
    BY <1>b, <1>c DEF KnownInv
  <2>1. sync.known[e] # "none" => Safe(e)
    BY <1>b DEF KnownInv
  <2> QED
    BY <1>c, <1>d, <1>e, <1>k, <2>1
<1>8. OutInv'
  <2> SUFFICES ASSUME NEW e \in sync'.out
               PROVE  Safe(e)'
    BY DEF OutInv
  <2>1. sync.out \subseteq Digest
    BY DEF JobRecord
  <2> QED
    BY <1>a, <1>c, <1>d, <1>e, <2>1 DEF OutInv
<1>9. TargetComplete'
  BY <1>b, <1>h DEF TargetComplete, OutInv, Safe, InBase, YoungInv, StepInv, Copying, Referenced,
     TargetRecord, JobRecord, Time
<1> QED
  BY <1>1, <1>2, <1>3, <1>4, <1>5, <1>6, <1>7, <1>8, <1>9

(* A chunk is stored. *)
LEMMA ChunkArrivesComplete ==
  ASSUME CompleteInd, NEW d \in Digest, ChunkArrives(d)
  PROVE  CompleteInd'
<1> USE SyncConstantAssumption DEF ChunkArrives, JobUnchanged, SyncTypes, CompleteInd
<1>1. SyncTypes'
  <2>1. src' \in [Time -> SourceRecord] /\ newest' \in 0 .. Times
    BY DEF SourceRecord, NoSource
  <2>2. dst' \in [Time -> TargetRecord]
    BY DEF TargetRecord, NoTarget
  <2>3. sync' \in JobRecord
    BY ZenonT(60) DEF JobRecord, Steps
  <2>4. chunks' \subseteq Digest /\ damaged' \subseteq Digest /\ runs' \in Nat
    OBVIOUS
  <2> QED
    BY <2>1, <2>2, <2>3, <2>4
<1>2. SourceInv'
  BY DEF SourceInv, SourceRecord
<1>3. TargetInv'
  BY DEF TargetInv, TargetRecord, NoTarget
<1>4. StepInv'
  BY DEF StepInv, Copying, TargetInv, NoTarget, TargetRecord, JobRecord, Time
<1>5. CopyInv'
  BY DEF CopyInv, StepInv, Copying, SourceInv, Meta, SourceRecord, JobRecord, Time
<1>6. YoungInv'
  BY DEF YoungInv, JobRecord
<1>7. KnownInv'
  BY DEF KnownInv, Safe, InBase, StepInv, Copying, TargetRecord, JobRecord, Time
<1>8. OutInv'
  BY DEF OutInv, Safe, InBase, StepInv, KnownInv, Copying, TargetRecord, JobRecord, Time
<1>9. TargetComplete'
  BY DEF TargetComplete, OutInv, Safe, InBase, YoungInv, StepInv, Copying, Referenced, TargetRecord,
     JobRecord, Time
<1> QED
  BY <1>1, <1>2, <1>3, <1>4, <1>5, <1>6, <1>7, <1>8, <1>9

(* A pull renames the index. *)
LEMMA PullIndexDoneComplete ==
  ASSUME CompleteInd, PullIndexDone
  PROVE  CompleteInd'
<1> USE SyncConstantAssumption DEF PullIndexDone, IndexDone, JobUnchanged, SyncTypes, CompleteInd
<1>1. SyncTypes'
  <2>1. src' \in [Time -> SourceRecord] /\ newest' \in 0 .. Times
    BY DEF SourceRecord, NoSource
  <2>2. dst' \in [Time -> TargetRecord]
    <3>1. sync.cur \in Time /\ sync.out \in SUBSET Digest
      BY CurrentTime DEF JobRecord
    <3> QED
      BY <3>1 DEF TargetRecord
  <2>3. sync' \in JobRecord
    BY SMTT(40) DEF JobRecord, Steps
  <2>4. chunks' \subseteq Digest /\ damaged' \subseteq Digest /\ runs' \in Nat
    OBVIOUS
  <2> QED
    BY <2>1, <2>2, <2>3, <2>4
<1>2. SourceInv'
  BY DEF SourceInv, SourceRecord
<1>3. TargetInv'
  <2>1. sync.cur \in Time /\ dst[sync.cur].dir
    BY CurrentTime, SyncConstantAssumption DEF StepInv, Time
  <2>2. sync.out # NoMeta
    BY DEF JobRecord
  <2>3. dst \in [Time -> TargetRecord] /\ TargetInv /\ dst' = [dst EXCEPT ![sync.cur].file = sync.out]
    OBVIOUS
  <2> HIDE SyncConstantAssumption DEF PullIndexDone, IndexDone, JobUnchanged, SyncTypes, CompleteInd
  <2> QED
    BY <2>1, <2>2, <2>3, TargetFieldSet
<1>4. StepInv'
  BY DEF StepInv, Copying, TargetInv, NoTarget, TargetRecord, JobRecord, Time
<1>5. CopyInv'
  BY DEF CopyInv, StepInv, Copying, SourceInv, Meta, SourceRecord, JobRecord, Time
<1>6. YoungInv'
  BY DEF YoungInv, JobRecord
<1>7. KnownInv'
  BY DEF KnownInv, Safe, InBase, StepInv, Copying, TargetRecord, JobRecord, Time
<1>8. OutInv'
  BY DEF OutInv, Safe, InBase, StepInv, KnownInv, Copying, TargetRecord, JobRecord, Time
<1>9. TargetComplete'
  BY DEF TargetComplete, OutInv, Safe, InBase, YoungInv, StepInv, Copying, Referenced, TargetRecord,
     JobRecord, Time
<1> QED
  BY <1>1, <1>2, <1>3, <1>4, <1>5, <1>6, <1>7, <1>8, <1>9

(* A push closes the index. *)
LEMMA PushIndexDoneComplete ==
  ASSUME CompleteInd, PushIndexDone
  PROVE  CompleteInd'
<1> USE SyncConstantAssumption DEF PushIndexDone, IndexDone, JobUnchanged, SyncTypes, CompleteInd
<1>1. SyncTypes'
  <2>1. src' \in [Time -> SourceRecord] /\ newest' \in 0 .. Times
    BY DEF SourceRecord, NoSource
  <2>2. dst' \in [Time -> TargetRecord]
    <3>1. sync.cur \in Time /\ sync.out \in SUBSET Digest
      BY CurrentTime DEF JobRecord
    <3> QED
      BY <3>1 DEF TargetRecord
  <2>3. sync' \in JobRecord
    BY SMTT(40) DEF JobRecord, Steps
  <2>4. chunks' \subseteq Digest /\ damaged' \subseteq Digest /\ runs' \in Nat
    OBVIOUS
  <2> QED
    BY <2>1, <2>2, <2>3, <2>4
<1>2. SourceInv'
  BY DEF SourceInv, SourceRecord
<1>3. TargetInv'
  <2>1. sync.cur \in Time /\ dst[sync.cur].dir
    BY CurrentTime, SyncConstantAssumption DEF StepInv, Time
  <2>2. sync.out # NoMeta
    BY DEF JobRecord
  <2>3. dst \in [Time -> TargetRecord] /\ TargetInv /\ dst' = [dst EXCEPT ![sync.cur].file = sync.out]
    OBVIOUS
  <2> HIDE SyncConstantAssumption DEF PushIndexDone, IndexDone, JobUnchanged, SyncTypes, CompleteInd
  <2> QED
    BY <2>1, <2>2, <2>3, TargetFieldSet
<1>4. StepInv'
  BY DEF StepInv, Copying, TargetInv, NoTarget, TargetRecord, JobRecord, Time
<1>5. CopyInv'
  BY DEF CopyInv, StepInv, Copying, SourceInv, Meta, SourceRecord, JobRecord, Time
<1>6. YoungInv'
  BY DEF YoungInv, JobRecord
<1>7. KnownInv'
  BY DEF KnownInv, Safe, InBase, StepInv, Copying, TargetRecord, JobRecord, Time
<1>8. OutInv'
  BY DEF OutInv, Safe, InBase, StepInv, KnownInv, Copying, TargetRecord, JobRecord, Time
<1>9. TargetComplete'
  BY DEF TargetComplete, OutInv, Safe, InBase, YoungInv, StepInv, Copying, Referenced, TargetRecord,
     JobRecord, Time
<1> QED
  BY <1>1, <1>2, <1>3, <1>4, <1>5, <1>6, <1>7, <1>8, <1>9

(* A pull renames the manifest. *)
LEMMA PullCommitsComplete ==
  ASSUME CompleteInd, PullCommits
  PROVE  CompleteInd'
<1> USE SyncConstantAssumption DEF PullCommits, Commits, Leave, JobUnchanged, SyncTypes, CompleteInd
<1>1. SyncTypes'
  <2>1. src' \in [Time -> SourceRecord] /\ newest' \in 0 .. Times
    BY DEF SourceRecord, NoSource
  <2>2. dst' \in [Time -> TargetRecord]
    <3>1. /\ sync.cur \in Time /\ sync.out \in SUBSET Digest /\ sync.meta \in Meta
          /\ sync.mode \in {"regular", "decrypt", "encrypt"}
      BY CurrentTime DEF JobRecord, CopyInv, Copying
    <3>2. PICK w \in Meta : dst' = [dst EXCEPT ![sync.cur].meta = w]
      BY <3>1 DEF Meta, VerifyState
    <3> QED
      BY <3>1, <3>2 DEF TargetRecord
  <2>3. sync' \in JobRecord
    BY LeaveType
  <2>4. chunks' \subseteq Digest /\ damaged' \subseteq Digest /\ runs' \in Nat
    OBVIOUS
  <2> QED
    BY <2>1, <2>2, <2>3, <2>4
<1>2. SourceInv'
  BY DEF SourceInv, SourceRecord
<1>3. TargetInv'
  <2>1. sync.cur \in Time /\ dst[sync.cur].dir /\ dst[sync.cur].file # NoMeta
    BY CurrentTime, SyncConstantAssumption DEF StepInv, Time
  <2>2. PICK w \in Meta : dst' = [dst EXCEPT ![sync.cur].meta = w]
    <3>1. /\ sync.cur \in Time /\ sync.out \in SUBSET Digest /\ sync.meta \in Meta
          /\ sync.mode \in {"regular", "decrypt", "encrypt"}
      BY CurrentTime DEF JobRecord, CopyInv, Copying
    <3> QED
      BY <3>1 DEF Meta, VerifyState
  <2>3. dst \in [Time -> TargetRecord] /\ TargetInv
    OBVIOUS
  <2> HIDE SyncConstantAssumption DEF PullCommits, Commits, Leave, JobUnchanged, SyncTypes, CompleteInd
  <2> QED
    BY <2>1, <2>2, <2>3, TargetFieldSet
<1>4. StepInv'
  BY DEF StepInv, Copying, TargetInv, NoTarget, TargetRecord, JobRecord, Time
<1>5. CopyInv'
  BY DEF CopyInv, StepInv, Copying, SourceInv, Meta, SourceRecord, JobRecord, Time
<1>6. YoungInv'
  BY DEF YoungInv, JobRecord
<1>7. KnownInv'
  BY DEF KnownInv, Safe, InBase, StepInv, Copying, TargetRecord, JobRecord, Time
<1>8. OutInv'
  BY DEF OutInv, Safe, InBase, StepInv, KnownInv, Copying, TargetRecord, JobRecord, Time
<1>9. TargetComplete'
  BY DEF TargetComplete, OutInv, Safe, InBase, YoungInv, StepInv, Copying, Referenced, TargetRecord,
     JobRecord, Time
<1> QED
  BY <1>1, <1>2, <1>3, <1>4, <1>5, <1>6, <1>7, <1>8, <1>9

(* A push finishes its session. *)
LEMMA PushCommitsComplete ==
  ASSUME CompleteInd, PushCommits
  PROVE  CompleteInd'
<1> USE SyncConstantAssumption DEF PushCommits, Commits, Leave, JobUnchanged, SyncTypes, CompleteInd
<1>1. SyncTypes'
  <2>1. src' \in [Time -> SourceRecord] /\ newest' \in 0 .. Times
    BY DEF SourceRecord, NoSource
  <2>2. dst' \in [Time -> TargetRecord]
    <3>1. /\ sync.cur \in Time /\ sync.out \in SUBSET Digest /\ sync.meta \in Meta
          /\ sync.mode \in {"regular", "decrypt", "encrypt"}
      BY CurrentTime DEF JobRecord, CopyInv, Copying
    <3>2. PICK w \in Meta : dst' = [dst EXCEPT ![sync.cur].meta = w]
      BY <3>1 DEF Meta, VerifyState
    <3> QED
      BY SMTT(40), <3>1, <3>2 DEF TargetRecord
  <2>3. sync' \in JobRecord
    BY LeaveType
  <2>4. chunks' \subseteq Digest /\ damaged' \subseteq Digest /\ runs' \in Nat
    OBVIOUS
  <2> QED
    BY <2>1, <2>2, <2>3, <2>4
<1>2. SourceInv'
  BY DEF SourceInv, SourceRecord
<1>3. TargetInv'
  <2>1. sync.cur \in Time /\ dst[sync.cur].dir /\ dst[sync.cur].file # NoMeta
    BY CurrentTime, SyncConstantAssumption DEF StepInv, Time
  <2>2. PICK w \in Meta : dst' = [dst EXCEPT ![sync.cur].meta = w]
    <3>1. /\ sync.cur \in Time /\ sync.out \in SUBSET Digest /\ sync.meta \in Meta
          /\ sync.mode \in {"regular", "decrypt", "encrypt"}
      BY CurrentTime DEF JobRecord, CopyInv, Copying
    <3> QED
      BY <3>1 DEF Meta, VerifyState
  <2>3. dst \in [Time -> TargetRecord] /\ TargetInv
    OBVIOUS
  <2> HIDE SyncConstantAssumption DEF PushCommits, Commits, Leave, JobUnchanged, SyncTypes, CompleteInd
  <2> QED
    BY <2>1, <2>2, <2>3, TargetFieldSet
<1>4. StepInv'
  BY DEF StepInv, Copying, TargetInv, NoTarget, TargetRecord, JobRecord, Time
<1>5. CopyInv'
  BY DEF CopyInv, StepInv, Copying, SourceInv, Meta, SourceRecord, JobRecord, Time
<1>6. YoungInv'
  BY DEF YoungInv, JobRecord
<1>7. KnownInv'
  BY DEF KnownInv, Safe, InBase, StepInv, Copying, TargetRecord, JobRecord, Time
<1>8. OutInv'
  BY DEF OutInv, Safe, InBase, StepInv, KnownInv, Copying, TargetRecord, JobRecord, Time
<1>9. TargetComplete'
  BY DEF TargetComplete, OutInv, Safe, InBase, YoungInv, StepInv, Copying, Referenced, TargetRecord,
     JobRecord, Time
<1> QED
  BY <1>1, <1>2, <1>3, <1>4, <1>5, <1>6, <1>7, <1>8, <1>9

(* A pull looks for what has vanished. *)
LEMMA PullListsVanishedComplete ==
  ASSUME CompleteInd, PullListsVanished
  PROVE  CompleteInd'
<1> USE SyncConstantAssumption DEF PullListsVanished, ListVanished, TargetTimes, JobOnly, JobUnchanged,
    SyncTypes, CompleteInd
<1>1. SyncTypes'
  <2>1. src' \in [Time -> SourceRecord] /\ newest' \in 0 .. Times
    BY DEF SourceRecord, NoSource
  <2>2. dst' \in [Time -> TargetRecord]
    BY SMTT(40) DEF TargetRecord, NoTarget
  <2>3. sync' \in JobRecord
    BY ZenonT(60) DEF JobRecord, Steps
  <2>4. chunks' \subseteq Digest /\ damaged' \subseteq Digest /\ runs' \in Nat
    OBVIOUS
  <2> QED
    BY <2>1, <2>2, <2>3, <2>4
<1>2. SourceInv'
  BY DEF SourceInv, SourceRecord
<1>3. TargetInv'
  BY DEF TargetInv, TargetRecord, NoTarget
<1>4. StepInv'
  BY DEF StepInv, Copying, TargetInv, NoTarget, TargetRecord, JobRecord, Time
<1>5. CopyInv'
  BY DEF CopyInv, StepInv, Copying, SourceInv, Meta, SourceRecord, JobRecord, Time
<1>6. YoungInv'
  BY DEF YoungInv, JobRecord
<1>7. KnownInv'
  BY DEF KnownInv, Safe, InBase, StepInv, Copying, TargetRecord, JobRecord, Time
<1>8. OutInv'
  BY DEF OutInv, Safe, InBase, StepInv, KnownInv, Copying, TargetRecord, JobRecord, Time
<1>9. TargetComplete'
  BY DEF TargetComplete, OutInv, Safe, InBase, YoungInv, StepInv, Copying, Referenced, TargetRecord,
     JobRecord, Time
<1> QED
  BY <1>1, <1>2, <1>3, <1>4, <1>5, <1>6, <1>7, <1>8, <1>9

(* A push looks for what has vanished. *)
LEMMA PushListsVanishedComplete ==
  ASSUME CompleteInd, PushListsVanished
  PROVE  CompleteInd'
<1> USE SyncConstantAssumption DEF PushListsVanished, ListVanished, JobOnly, JobUnchanged, SyncTypes,
    CompleteInd
<1>1. SyncTypes'
  <2>1. src' \in [Time -> SourceRecord] /\ newest' \in 0 .. Times
    BY DEF SourceRecord, NoSource
  <2>2. dst' \in [Time -> TargetRecord]
    BY DEF TargetRecord, NoTarget
  <2>3. sync' \in JobRecord
    BY ZenonT(60) DEF JobRecord, Steps
  <2>4. chunks' \subseteq Digest /\ damaged' \subseteq Digest /\ runs' \in Nat
    OBVIOUS
  <2> QED
    BY <2>1, <2>2, <2>3, <2>4
<1>2. SourceInv'
  BY DEF SourceInv, SourceRecord
<1>3. TargetInv'
  BY DEF TargetInv, TargetRecord, NoTarget
<1>4. StepInv'
  BY DEF StepInv, Copying, TargetInv, NoTarget, TargetRecord, JobRecord, Time
<1>5. CopyInv'
  BY DEF CopyInv, StepInv, Copying, SourceInv, Meta, SourceRecord, JobRecord, Time
<1>6. YoungInv'
  BY DEF YoungInv, JobRecord
<1>7. KnownInv'
  BY DEF KnownInv, Safe, InBase, StepInv, Copying, TargetRecord, JobRecord, Time
<1>8. OutInv'
  BY DEF OutInv, Safe, InBase, StepInv, KnownInv, Copying, TargetRecord, JobRecord, Time
<1>9. TargetComplete'
  BY DEF TargetComplete, OutInv, Safe, InBase, YoungInv, StepInv, Copying, Referenced, TargetRecord,
     JobRecord, Time
<1> QED
  BY <1>1, <1>2, <1>3, <1>4, <1>5, <1>6, <1>7, <1>8, <1>9

(* What has vanished is gone. *)
LEMMA ForgottenComplete ==
  ASSUME CompleteInd, Forgotten
  PROVE  CompleteInd'
<1> USE SyncConstantAssumption DEF Forgotten, JobOnly, JobUnchanged, SyncTypes, CompleteInd
<1>1. SyncTypes'
  <2>1. src' \in [Time -> SourceRecord] /\ newest' \in 0 .. Times
    BY DEF SourceRecord, NoSource
  <2>2. dst' \in [Time -> TargetRecord]
    BY DEF TargetRecord, NoTarget
  <2>3. sync' \in JobRecord
    BY DEF JobRecord, Steps
  <2>4. chunks' \subseteq Digest /\ damaged' \subseteq Digest /\ runs' \in Nat
    OBVIOUS
  <2> QED
    BY <2>1, <2>2, <2>3, <2>4
<1>2. SourceInv'
  BY DEF SourceInv, SourceRecord
<1>3. TargetInv'
  BY DEF TargetInv, TargetRecord, NoTarget
<1>4. StepInv'
  BY DEF StepInv, Copying, TargetInv, NoTarget, TargetRecord, JobRecord, Time
<1>5. CopyInv'
  BY DEF CopyInv, StepInv, Copying, SourceInv, Meta, SourceRecord, JobRecord, Time
<1>6. YoungInv'
  BY DEF YoungInv, JobRecord
<1>7. KnownInv'
  BY DEF KnownInv, Safe, InBase, StepInv, Copying, TargetRecord, JobRecord, Time
<1>8. OutInv'
  BY DEF OutInv, Safe, InBase, StepInv, KnownInv, Copying, TargetRecord, JobRecord, Time
<1>9. TargetComplete'
  BY DEF TargetComplete, OutInv, Safe, InBase, YoungInv, StepInv, Copying, Referenced, TargetRecord,
     JobRecord, Time
<1> QED
  BY <1>1, <1>2, <1>3, <1>4, <1>5, <1>6, <1>7, <1>8, <1>9

(* The group is given up. *)
LEMMA SyncFailsComplete ==
  ASSUME CompleteInd, SyncFails
  PROVE  CompleteInd'
<1> USE SyncConstantAssumption DEF SyncFails, DropNew, Leave, NoTarget, Running, JobUnchanged, SyncTypes,
    CompleteInd
<1>1. SyncTypes'
  <2>1. src' \in [Time -> SourceRecord] /\ newest' \in 0 .. Times
    BY DEF SourceRecord, NoSource
  <2>2. dst' \in [Time -> TargetRecord]
    BY DEF TargetRecord, NoTarget
  <2>3. sync' \in JobRecord
    <3>1. Leave(sync) \in JobRecord
      BY LeaveType
    <3> HIDE DEF Leave
    <3> QED
      BY ZenonT(60), <3>1 DEF JobRecord, Steps
  <2>4. chunks' \subseteq Digest /\ damaged' \subseteq Digest /\ runs' \in Nat
    OBVIOUS
  <2> QED
    BY <2>1, <2>2, <2>3, <2>4
<1>2. SourceInv'
  BY DEF SourceInv, SourceRecord
<1>3. TargetInv'
  BY DEF TargetInv, TargetRecord, NoTarget
<1>4. StepInv'
  BY DEF StepInv, Copying, TargetInv, NoTarget, TargetRecord, JobRecord, Time
<1>5. CopyInv'
  BY DEF CopyInv, StepInv, Copying, SourceInv, Meta, SourceRecord, JobRecord, Time
<1>6. YoungInv'
  BY DEF YoungInv, JobRecord
<1>7. KnownInv'
  BY DEF KnownInv, Safe, InBase, StepInv, Copying, TargetRecord, JobRecord, Time
<1>8. OutInv'
  BY DEF OutInv, Safe, InBase, StepInv, KnownInv, Copying, TargetRecord, JobRecord, Time
<1>9. TargetComplete'
  BY DEF TargetComplete, OutInv, Safe, InBase, YoungInv, StepInv, Copying, Referenced, TargetRecord,
     JobRecord, Time
<1> QED
  BY <1>1, <1>2, <1>3, <1>4, <1>5, <1>6, <1>7, <1>8, <1>9

(* The job ends. *)
LEMMA SyncEndsComplete ==
  ASSUME CompleteInd, SyncEnds
  PROVE  CompleteInd'
<1> USE SyncConstantAssumption DEF SyncEnds, Idle, NoTarget, JobUnchanged, SyncTypes, CompleteInd
<1>1. SyncTypes'
  <2>1. src' \in [Time -> SourceRecord] /\ newest' \in 0 .. Times
    BY DEF SourceRecord, NoSource
  <2>2. dst' \in [Time -> TargetRecord]
    BY DEF TargetRecord, NoTarget
  <2>3. sync' \in JobRecord
    <3> HIDE DEF Idle
    <3> QED
      BY SMTT(40), IdleType, TimesSubset DEF JobRecord, Steps
  <2>4. chunks' \subseteq Digest /\ damaged' \subseteq Digest /\ runs' \in Nat
    OBVIOUS
  <2> QED
    BY <2>1, <2>2, <2>3, <2>4
<1>2. SourceInv'
  BY DEF SourceInv, SourceRecord
<1>3. TargetInv'
  BY DEF TargetInv, TargetRecord, NoTarget
<1>4. StepInv'
  BY DEF StepInv, Copying, TargetInv, NoTarget, TargetRecord, JobRecord, Time
<1>5. CopyInv'
  BY DEF CopyInv, StepInv, Copying, SourceInv, Meta, SourceRecord, JobRecord, Time
<1>6. YoungInv'
  BY DEF YoungInv, JobRecord
<1>7. KnownInv'
  <2>1. sync'.known = NoKnown /\ sync'.mapped = {} /\ sync'.step # "chunks"
    OBVIOUS
  <2>2. \A d \in Digest : NoKnown[d] # "touched"
    BY DEF NoKnown
  <2> QED
    BY <2>1, <2>2 DEF KnownInv
<1>8. OutInv'
  BY DEF OutInv, Safe, InBase, StepInv, KnownInv, Copying, TargetRecord, JobRecord, Time
<1>9. TargetComplete'
  BY DEF TargetComplete, OutInv, Safe, InBase, YoungInv, StepInv, Copying, Referenced, TargetRecord,
     JobRecord, Time
<1> QED
  BY <1>1, <1>2, <1>3, <1>4, <1>5, <1>6, <1>7, <1>8, <1>9

(* The process dies. *)
LEMMA SyncDiesComplete ==
  ASSUME CompleteInd, SyncDies
  PROVE  CompleteInd'
<1> USE SyncConstantAssumption DEF SyncDies, Idle, NoTarget, Running, JobUnchanged, SyncTypes, CompleteInd
<1>1. SyncTypes'
  <2>1. src' \in [Time -> SourceRecord] /\ newest' \in 0 .. Times
    BY DEF SourceRecord, NoSource
  <2>2. dst' \in [Time -> TargetRecord]
    BY DEF TargetRecord, NoTarget
  <2>3. sync' \in JobRecord
    <3> HIDE DEF Idle
    <3> QED
      BY SMTT(40), IdleType, TimesSubset DEF JobRecord, Steps
  <2>4. chunks' \subseteq Digest /\ damaged' \subseteq Digest /\ runs' \in Nat
    OBVIOUS
  <2> QED
    BY <2>1, <2>2, <2>3, <2>4
<1>2. SourceInv'
  BY DEF SourceInv, SourceRecord
<1>3. TargetInv'
  BY DEF TargetInv, TargetRecord, NoTarget
<1>4. StepInv'
  BY DEF StepInv, Copying, TargetInv, NoTarget, TargetRecord, JobRecord, Time
<1>5. CopyInv'
  BY DEF CopyInv, StepInv, Copying, SourceInv, Meta, SourceRecord, JobRecord, Time
<1>6. YoungInv'
  BY DEF YoungInv, JobRecord
<1>7. KnownInv'
  <2>1. sync'.known = NoKnown /\ sync'.mapped = {} /\ sync'.step # "chunks"
    OBVIOUS
  <2>2. \A d \in Digest : NoKnown[d] # "touched"
    BY DEF NoKnown
  <2> QED
    BY <2>1, <2>2 DEF KnownInv
<1>8. OutInv'
  BY DEF OutInv, Safe, InBase, StepInv, KnownInv, Copying, TargetRecord, JobRecord, Time
<1>9. TargetComplete'
  BY DEF TargetComplete, OutInv, Safe, InBase, YoungInv, StepInv, Copying, Referenced, TargetRecord,
     JobRecord, Time
<1> QED
  BY <1>1, <1>2, <1>3, <1>4, <1>5, <1>6, <1>7, <1>8, <1>9

(* A snapshot that has vanished is removed. *)
LEMMA ForgetComplete ==
  ASSUME CompleteInd, NEW t \in Time, Forget(t)
  PROVE  CompleteInd'
<1> USE SyncConstantAssumption DEF Forget, NoTarget, JobUnchanged, SyncTypes, CompleteInd
<1>1. SyncTypes'
  <2>1. src' \in [Time -> SourceRecord] /\ newest' \in 0 .. Times
    BY DEF SourceRecord, NoSource
  <2>2. dst' \in [Time -> TargetRecord]
    BY DEF TargetRecord, NoTarget
  <2>3. sync' \in JobRecord
    BY SMTT(40) DEF JobRecord, Steps
  <2>4. chunks' \subseteq Digest /\ damaged' \subseteq Digest /\ runs' \in Nat
    OBVIOUS
  <2> QED
    BY <2>1, <2>2, <2>3, <2>4
<1>2. SourceInv'
  BY DEF SourceInv, SourceRecord
<1>3. TargetInv'
  BY DEF TargetInv, TargetRecord, NoTarget
<1>4. StepInv'
  BY DEF StepInv, Copying, TargetInv, NoTarget, TargetRecord, JobRecord, Time
<1>5. CopyInv'
  BY DEF CopyInv, StepInv, Copying, SourceInv, Meta, SourceRecord, JobRecord, Time
<1>6. YoungInv'
  BY DEF YoungInv, JobRecord
<1>7. KnownInv'
  BY DEF KnownInv, Safe, InBase, StepInv, Copying, TargetRecord, JobRecord, Time
<1>8. OutInv'
  BY DEF OutInv, Safe, InBase, StepInv, KnownInv, Copying, TargetRecord, JobRecord, Time
<1>9. TargetComplete'
  BY DEF TargetComplete, OutInv, Safe, InBase, YoungInv, StepInv, Copying, Referenced, TargetRecord,
     JobRecord, Time
<1> QED
  BY <1>1, <1>2, <1>3, <1>4, <1>5, <1>6, <1>7, <1>8, <1>9

(* A pull that loads a manifest goes on in one of two ways. *)
LEMMA PullLoadsSplit ==
  ASSUME CompleteInd, PullLoads
  PROVE  PullLeaves \/ \E o \in {"regular", "decrypt"}, k \in BOOLEAN : PullStarts(o, k)
<1> DEFINE m == src[sync.cur].meta
           e == IF sync.cur \in sync.corrupt THEN NoMeta ELSE dst[sync.cur].meta
           keep == sync.cur \notin sync.corrupt /\ dst[sync.cur].file = m.idx
<1>1. m # NoMeta
  BY CurrentTime DEF CompleteInd, PullLoads, SourceInv
<1>2. CASE PullOutcome(m, e) = "unchanged" /\ sync' = Leave(sync)
  <2>1. sync.cur \notin sync.corrupt
    BY <1>1, <1>2 DEF PullOutcome, DecryptionKey
  <2> QED
    BY <1>2, <2>1 DEF PullLoads, PullLeaves
<1>3. CASE ~(PullOutcome(m, e) = "unchanged" /\ sync' = Leave(sync))
  <2>1. keep \in BOOLEAN /\ PullOutcome(m, e) \in {"regular", "decrypt"}
    BY <1>3 DEF PullLoads
  <2>2. PullStarts(PullOutcome(m, e), keep)
    BY <1>3 DEF PullLoads, PullStarts
  <2> QED
    BY <2>1, <2>2
<1> QED
  BY <1>2, <1>3

(* The steps of the specification, one by one. *)
LEMMA SyncSteps ==
  ASSUME SyncNext
  PROVE  \/ \E t \in Time : SourceStarts(t)
         \/ \E t \in Time, a \in Archives : SourceFinishes(t, a)
         \/ \E t \in Time : SourceRemoves(t)
         \/ \E t \in Time, v \in {"ok", "failed"} : SourceVerifies(t, v)
         \/ \E t \in Time, a \in Archives : ~a.enc /\ TargetBackup(t, a.idx)
         \/ \E t \in Time : TargetPrune(t)
         \/ \E t \in Time : TargetProtect(t)
         \/ \E t \in Time, d \in Digest : TargetVerify(t, d)
         \/ \E d \in Digest : TargetSweeps(d)
         \/ \E o \in Options : StartPull(o)
         \/ \E o \in Options : StartPush(o)
         \/ ListSource
         \/ Select
         \/ CollectReusable
         \/ PullOpens
         \/ PullSkips
         \/ PullLoads
         \/ PushSkips
         \/ PushOpens
         \/ \E d \in Digest : PullVisits(d)
         \/ \E d \in Digest : DecryptVisits(d)
         \/ \E d \in Digest : PushVisits(d)
         \/ \E d \in Digest : ChunkArrives(d)
         \/ PullIndexDone
         \/ PushIndexDone
         \/ PullCommits
         \/ PushCommits
         \/ PullListsVanished
         \/ PushListsVanished
         \/ Forgotten
         \/ SyncFails
         \/ SyncEnds
         \/ SyncDies
         \/ \E t \in Time : Forget(t)
  BY DEF SyncNext, SourceNext, TargetNext, SyncJobNext

(* The invariant holds at first. *)
LEMMA InitComplete == ASSUME SyncInit PROVE CompleteInd
<1> USE SyncConstantAssumption
<1>1. SyncTypes
  <2>1. sync \in JobRecord
    BY IdleType DEF SyncInit
  <2> QED
    BY <2>1 DEF SyncInit, SyncTypes, SourceRecord, TargetRecord, NoSource, NoTarget
<1>2. SourceInv /\ TargetInv
  BY DEF SyncInit, SourceInv, TargetInv, NoSource, NoTarget
<1>3. StepInv /\ CopyInv /\ YoungInv
  BY DEF SyncInit, StepInv, CopyInv, YoungInv, Copying, Idle
<1>4. KnownInv /\ OutInv
  <2>1. sync.known = NoKnown /\ sync.mapped = {} /\ sync.step = "idle" /\ sync.out = {}
    BY DEF SyncInit, Idle
  <2>2. \A d \in Digest : NoKnown[d] # "touched"
    BY DEF NoKnown
  <2> QED
    BY <2>1, <2>2 DEF KnownInv, OutInv
<1>5. TargetComplete
  BY DEF SyncInit, TargetComplete, NoTarget
<1> QED
  BY <1>1, <1>2, <1>3, <1>4, <1>5 DEF CompleteInd

(* Every step keeps the invariant. *)
LEMMA NextComplete ==
  ASSUME CompleteInd, [SyncNext]_syncVars
  PROVE  CompleteInd'
<1>1. CASE \E t \in Time : SourceStarts(t)
  BY <1>1, SourceStartsComplete
<1>2. CASE \E t \in Time, a \in Archives : SourceFinishes(t, a)
  BY <1>2, SourceFinishesComplete
<1>3. CASE \E t \in Time : SourceRemoves(t)
  BY <1>3, SourceRemovesComplete
<1>4. CASE \E t \in Time, v \in {"ok", "failed"} : SourceVerifies(t, v)
  BY <1>4, SourceVerifiesComplete
<1>5. CASE \E t \in Time, a \in Archives : ~a.enc /\ TargetBackup(t, a.idx)
  BY <1>5, TargetBackupComplete
<1>6. CASE \E t \in Time : TargetPrune(t)
  BY <1>6, TargetPruneComplete
<1>7. CASE \E t \in Time : TargetProtect(t)
  BY <1>7, TargetProtectComplete
<1>8. CASE \E t \in Time, d \in Digest : TargetVerify(t, d)
  BY <1>8, TargetVerifyComplete
<1>9. CASE \E d \in Digest : TargetSweeps(d)
  BY <1>9, TargetSweepsComplete
<1>10. CASE \E o \in Options : StartPull(o)
  BY <1>10, StartPullComplete
<1>11. CASE \E o \in Options : StartPush(o)
  BY <1>11, StartPushComplete
<1>12. CASE ListSource
  BY <1>12, ListSourceComplete
<1>13. CASE Select
  BY <1>13, SelectComplete
<1>14. CASE CollectReusable
  BY <1>14, CollectReusableComplete
<1>15. CASE PullOpens
  BY <1>15, PullOpensComplete
<1>16. CASE PullSkips
  BY <1>16, PullSkipsComplete
<1>17. CASE PullLoads
  BY <1>17, PullLoadsSplit, PullLeavesComplete, PullStartsComplete
<1>18. CASE PushSkips
  BY <1>18, PushSkipsComplete
<1>19. CASE PushOpens
  BY <1>19, PushOpensComplete
<1>20. CASE \E d \in Digest : PullVisits(d)
  BY <1>20, PullVisitsComplete
<1>21. CASE \E d \in Digest : DecryptVisits(d)
  BY <1>21, DecryptVisitsComplete
<1>22. CASE \E d \in Digest : PushVisits(d)
  BY <1>22, PushVisitsComplete
<1>23. CASE \E d \in Digest : ChunkArrives(d)
  BY <1>23, ChunkArrivesComplete
<1>24. CASE PullIndexDone
  BY <1>24, PullIndexDoneComplete
<1>25. CASE PushIndexDone
  BY <1>25, PushIndexDoneComplete
<1>26. CASE PullCommits
  BY <1>26, PullCommitsComplete
<1>27. CASE PushCommits
  BY <1>27, PushCommitsComplete
<1>28. CASE PullListsVanished
  BY <1>28, PullListsVanishedComplete
<1>29. CASE PushListsVanished
  BY <1>29, PushListsVanishedComplete
<1>30. CASE Forgotten
  BY <1>30, ForgottenComplete
<1>31. CASE SyncFails
  BY <1>31, SyncFailsComplete
<1>32. CASE SyncEnds
  BY <1>32, SyncEndsComplete
<1>33. CASE SyncDies
  BY <1>33, SyncDiesComplete
<1>34. CASE \E t \in Time : Forget(t)
  BY <1>34, ForgetComplete
<1>35. CASE UNCHANGED syncVars
  BY <1>35 DEF CompleteInd, syncVars, SyncTypes, SourceInv, TargetInv, StepInv, Copying, CopyInv,
     YoungInv, KnownInv, Safe, InBase, OutInv, TargetComplete
<1> QED
  BY <1>1, <1>2, <1>3, <1>4, <1>5, <1>6, <1>7, <1>8, <1>9, <1>10, <1>11, <1>12, <1>13, <1>14, <1>15,
     <1>16, <1>17, <1>18, <1>19, <1>20, <1>21, <1>22, <1>23, <1>24, <1>25, <1>26, <1>27, <1>28, <1>29,
     <1>30, <1>31, <1>32, <1>33, <1>34, <1>35, SyncSteps

(* The inductive invariant holds in every state. *)
THEOREM SyncInvariance == SyncSpec => []CompleteInd
<1>1. SyncInit => CompleteInd
  BY InitComplete
<1>2. CompleteInd /\ [SyncNext]_syncVars => CompleteInd'
  BY NextComplete
<1> QED
  BY <1>1, <1>2, PTL DEF SyncSpec

(* Every index under its final name, also one that a job has left behind,  *)
(* has its chunks in the store (or they were found corrupt and renamed),   *)
(* whatever keys and times are used: pull_index_chunks and push_index      *)
(* touch, fetch or take from a locked snapshot each of them before the     *)
(* index gets its name, and no collection takes them in between.           *)
THEOREM TargetStaysComplete == SyncSpec => [](SyncTypeOK /\ TargetComplete)
<1>1. CompleteInd => SyncTypeOK /\ TargetComplete
  <2> SUFFICES ASSUME CompleteInd PROVE SyncTypeOK /\ TargetComplete
    OBVIOUS
  <2>1. /\ \A t \in Time : src[t] \in SourceRecord /\ dst[t] \in TargetRecord
        /\ sync \in JobRecord /\ newest \in 0 .. Times /\ chunks \subseteq Digest /\ damaged \subseteq Digest
    BY DEF CompleteInd, SyncTypes
  <2>2. \A t \in Time : dst[t].meta # NoMeta => dst[t].dir
    BY DEF CompleteInd, TargetInv, NoTarget
  <2>3. SyncTypeOK
    BY <2>1, <2>2 DEF SyncTypeOK, SourceRecord, TargetRecord, JobRecord
  <2> QED
    BY <2>3 DEF CompleteInd
<1> QED
  BY <1>1, SyncInvariance, PTL

-----------------------------------------------------------------------------
(* Every step keeps copies equal to their source. *)

(* A backup starts at the source, under a time it has not used. *)
LEMMA SourceStartsWhole ==
  ASSUME ~ChangeKey, ~ReuseTimes, WholeInd, CompleteInd', NEW t \in Time, SourceStarts(t)
  PROVE  WholeInd'
<1> USE SyncConstantAssumption DEF SourceStarts, SourceOp, SourceUnchanged, SyncTypes, CompleteInd, WholeInd
<1>b. newest \in Nat /\ newest' \in Nat /\ newest <= newest' /\ t <= newest'
  <2>1. {newest, t} \in SUBSET (0 .. Times)
    BY SyncConstantAssumption DEF Time
  <2>2. MaxTime({newest, t}) \in 0 .. Times /\ newest <= MaxTime({newest, t}) /\ t <= MaxTime({newest, t})
    BY <2>1, MaxTimeIn
  <2> QED
    BY <2>2
<1>c. t > newest /\ newest \in Nat /\ Time \subseteq Nat
  BY DEF Time
<1>1. KeyInv'
  BY DEF KeyInv, ModeInv, EncryptedCopy, StepInv, Copying, TargetRecord, JobRecord, Time
<1>2. ModeInv'
  BY DEF ModeInv, EncryptedCopy, KeyInv, StepInv, Copying, CopyInv, Sealed, SourceRecord, TargetRecord,
     JobRecord, Time
<1>3. CopiedInv'
  <2> SUFFICES ASSUME NEW u \in Time, ~dst[u].own
               PROVE  /\ dst[u].file # NoMeta => /\ u <= newest' /\ src'[u].st # "running"
                                                 /\ src'[u].st = "done" => dst[u].file = CopyOf(src'[u].meta)
                      /\ dst[u].meta # NoMeta => dst[u].file = dst[u].meta.idx
    BY ZenonT(60) DEF CopiedInv, CopyOf, EncryptedCopy
  <2>1. dst[u].file # NoMeta => u <= newest /\ u # t
    BY <1>c DEF CopiedInv
  <2>2. u # t => src'[u] = src[u]
    OBVIOUS
  <2> QED
    BY <1>b, <1>c, <2>1, <2>2 DEF CopiedInv
<1> QED
  BY <1>1, <1>2, <1>3

(* A backup of the source is finished. *)
LEMMA SourceFinishesWhole ==
  ASSUME ~ChangeKey, ~ReuseTimes, WholeInd, CompleteInd', NEW t \in Time, NEW a \in Archives,
      SourceFinishes(t, a)
  PROVE  WholeInd'
<1> USE SyncConstantAssumption DEF SourceFinishes, SourceUnchanged, SyncTypes, CompleteInd, WholeInd
<1>1. KeyInv'
  BY DEF KeyInv, ModeInv, EncryptedCopy, StepInv, Copying, TargetRecord, JobRecord, Time
<1>2. ModeInv'
  BY DEF ModeInv, EncryptedCopy, KeyInv, StepInv, Copying, CopyInv, Sealed, SourceRecord, TargetRecord,
     JobRecord, Time
<1>3. CopiedInv'
  BY DEF CopiedInv, CopyOf, EncryptedCopy, ModeInv, KeyInv, SourceInv, TargetInv, StepInv, Copying,
     CopyInv, SourceRecord, TargetRecord, JobRecord, Time
<1> QED
  BY <1>1, <1>2, <1>3

(* The source removes a snapshot nobody reads. *)
LEMMA SourceRemovesWhole ==
  ASSUME ~ChangeKey, ~ReuseTimes, WholeInd, CompleteInd', NEW t \in Time, SourceRemoves(t)
  PROVE  WholeInd'
<1> USE SyncConstantAssumption DEF SourceRemoves, SourceOp, SourceUnchanged, SourceLocked, NoSource,
    SyncTypes, CompleteInd, WholeInd
<1>1. KeyInv'
  BY DEF KeyInv, ModeInv, EncryptedCopy, StepInv, Copying, TargetRecord, JobRecord, Time
<1>2. ModeInv'
  BY DEF ModeInv, EncryptedCopy, KeyInv, StepInv, Copying, CopyInv, Sealed, SourceRecord, TargetRecord,
     JobRecord, Time
<1>3. CopiedInv'
  BY DEF CopiedInv, CopyOf, EncryptedCopy, ModeInv, KeyInv, SourceInv, TargetInv, StepInv, Copying,
     CopyInv, SourceRecord, TargetRecord, JobRecord, Time
<1> QED
  BY <1>1, <1>2, <1>3

(* The source records a verification in the manifest. *)
LEMMA SourceVerifiesWhole ==
  ASSUME ~ChangeKey, ~ReuseTimes, WholeInd, CompleteInd', NEW t \in Time, NEW v \in {"ok", "failed"},
      SourceVerifies(t, v)
  PROVE  WholeInd'
<1> USE SyncConstantAssumption DEF SourceVerifies, SourceOp, SourceUnchanged, SyncTypes, CompleteInd, WholeInd
<1>1. KeyInv'
  BY DEF KeyInv, ModeInv, EncryptedCopy, StepInv, Copying, TargetRecord, JobRecord, Time
<1>2. ModeInv'
  BY SMTT(40) DEF ModeInv, EncryptedCopy, KeyInv, StepInv, Copying, CopyInv, Sealed, SourceRecord, TargetRecord,
     JobRecord, Time
<1>3. CopiedInv'
  BY SMTT(40) DEF CopiedInv, CopyOf, EncryptedCopy, ModeInv, KeyInv, SourceInv, TargetInv, StepInv, Copying,
     CopyInv, SourceRecord, TargetRecord, JobRecord, Time
<1> QED
  BY <1>1, <1>2, <1>3

(* A backup is made to the target itself. *)
LEMMA TargetBackupWhole ==
  ASSUME ~ChangeKey, ~ReuseTimes, WholeInd, CompleteInd', NEW t \in Time, NEW a \in Archives, ~a.enc,
      TargetBackup(t, a.idx)
  PROVE  WholeInd'
<1> USE SyncConstantAssumption DEF TargetBackup, TargetOp, TargetUnchanged, SyncTypes, CompleteInd, WholeInd
<1>1. KeyInv'
  BY DEF KeyInv, ModeInv, EncryptedCopy, StepInv, Copying, TargetRecord, JobRecord, Time
<1>2. ModeInv'
  BY SMTT(40) DEF ModeInv, EncryptedCopy, KeyInv, StepInv, Copying, CopyInv, Sealed, SourceRecord, TargetRecord,
     JobRecord, Time
<1>3. CopiedInv'
  BY DEF CopiedInv, CopyOf, EncryptedCopy, ModeInv, KeyInv, SourceInv, TargetInv, StepInv, Copying,
     CopyInv, SourceRecord, TargetRecord, JobRecord, Time
<1> QED
  BY <1>1, <1>2, <1>3

(* The target removes a snapshot that is not locked. *)
LEMMA TargetPruneWhole ==
  ASSUME ~ChangeKey, ~ReuseTimes, WholeInd, CompleteInd', NEW t \in Time, TargetPrune(t)
  PROVE  WholeInd'
<1> USE SyncConstantAssumption DEF TargetPrune, TargetOp, TargetUnchanged, TargetLocked, TargetShared,
    NoTarget, SyncTypes, CompleteInd, WholeInd
<1>1. KeyInv'
  BY DEF KeyInv, ModeInv, EncryptedCopy, StepInv, Copying, TargetRecord, JobRecord, Time
<1>2. ModeInv'
  BY DEF ModeInv, EncryptedCopy, KeyInv, StepInv, Copying, CopyInv, Sealed, SourceRecord, TargetRecord,
     JobRecord, Time
<1>3. CopiedInv'
  BY SMTT(40) DEF CopiedInv, CopyOf, EncryptedCopy, ModeInv, KeyInv, SourceInv, TargetInv, StepInv, Copying,
     CopyInv, SourceRecord, TargetRecord, JobRecord, Time
<1> QED
  BY <1>1, <1>2, <1>3

(* A snapshot of the target is protected. *)
LEMMA TargetProtectWhole ==
  ASSUME ~ChangeKey, ~ReuseTimes, WholeInd, CompleteInd', NEW t \in Time, TargetProtect(t)
  PROVE  WholeInd'
<1> USE SyncConstantAssumption DEF TargetProtect, TargetOp, TargetUnchanged, SyncTypes, CompleteInd, WholeInd
<1>1. KeyInv'
  BY DEF KeyInv, ModeInv, EncryptedCopy, StepInv, Copying, TargetRecord, JobRecord, Time
<1>2. ModeInv'
  BY DEF ModeInv, EncryptedCopy, KeyInv, StepInv, Copying, CopyInv, Sealed, SourceRecord, TargetRecord,
     JobRecord, Time
<1>3. CopiedInv'
  BY SMTT(40) DEF CopiedInv, CopyOf, EncryptedCopy, ModeInv, KeyInv, SourceInv, TargetInv, StepInv, Copying,
     CopyInv, SourceRecord, TargetRecord, JobRecord, Time
<1> QED
  BY <1>1, <1>2, <1>3

(* A verification of the target renames a corrupt chunk. *)
LEMMA TargetVerifyWhole ==
  ASSUME ~ChangeKey, ~ReuseTimes, WholeInd, CompleteInd', NEW t \in Time, NEW d \in Digest, TargetVerify(t, d)
  PROVE  WholeInd'
<1> USE SyncConstantAssumption DEF TargetVerify, TargetOp, TargetLocked, SyncTypes, CompleteInd, WholeInd
<1>1. KeyInv'
  BY SMTT(40) DEF KeyInv, ModeInv, EncryptedCopy, StepInv, Copying, TargetRecord, JobRecord, Time
<1>2. ModeInv'
  BY SMTT(40) DEF ModeInv, EncryptedCopy, KeyInv, StepInv, Copying, CopyInv, Sealed, SourceRecord, TargetRecord,
     JobRecord, Time
<1>3. CopiedInv'
  BY DEF CopiedInv, CopyOf, EncryptedCopy, ModeInv, KeyInv, SourceInv, TargetInv, StepInv, Copying,
     CopyInv, SourceRecord, TargetRecord, JobRecord, Time
<1> QED
  BY <1>1, <1>2, <1>3

(* A collection at the target takes what no index and no job counts on. *)
LEMMA TargetSweepsWhole ==
  ASSUME ~ChangeKey, ~ReuseTimes, WholeInd, CompleteInd', NEW d \in Digest, TargetSweeps(d)
  PROVE  WholeInd'
<1> USE SyncConstantAssumption DEF TargetSweeps, TargetUnchanged, SyncTypes, CompleteInd, WholeInd
<1>1. KeyInv'
  BY DEF KeyInv, ModeInv, EncryptedCopy, StepInv, Copying, TargetRecord, JobRecord, Time
<1>2. ModeInv'
  BY DEF ModeInv, EncryptedCopy, KeyInv, StepInv, Copying, CopyInv, Sealed, SourceRecord, TargetRecord,
     JobRecord, Time
<1>3. CopiedInv'
  BY DEF CopiedInv, CopyOf, EncryptedCopy, ModeInv, KeyInv, SourceInv, TargetInv, StepInv, Copying,
     CopyInv, SourceRecord, TargetRecord, JobRecord, Time
<1> QED
  BY <1>1, <1>2, <1>3

(* A pull job starts. *)
LEMMA StartPullWhole ==
  ASSUME ~ChangeKey, ~ReuseTimes, WholeInd, CompleteInd', NEW o \in Options, StartPull(o)
  PROVE  WholeInd'
<1> USE SyncConstantAssumption DEF StartPull, FirstStep, StartJob, Idle, Running, JobUnchanged, SyncTypes,
    CompleteInd, WholeInd
<1>a. sync'.opt = o /\ sync'.known = NoKnown /\ sync'.step \in {"group", "groups"} /\ sync'.kept = FALSE
  OBVIOUS
<1>b. /\ runs > 0 => o.op = sync.opt.op /\ o.key = sync.opt.key
      /\ runs \in Nat /\ runs' = runs + 1 /\ UNCHANGED <<src, newest, dst>>
  OBVIOUS
<1>c. \A d \in Digest : NoKnown[d] # "touched"
  BY DEF NoKnown
<1> HIDE DEF StartPull, StartJob, Idle
<1>1. KeyInv'
  BY <1>a, <1>b, <1>c DEF KeyInv
<1>2. ModeInv'
  BY <1>a DEF ModeInv, Copying
<1>3. CopiedInv'
  <2>1. CASE runs = 0
    BY <1>b, <2>1 DEF CopiedInv, KeyInv, TargetInv
  <2>2. CASE runs # 0
    <3>1. \A t \in Time : CopyOf(src[t].meta)' = CopyOf(src[t].meta)
      BY <1>a, <1>b, <2>2 DEF CopyOf, EncryptedCopy
    <3> QED
      BY <1>b, <3>1 DEF CopiedInv
  <2> QED
    BY <2>1, <2>2
<1> QED
  BY <1>1, <1>2, <1>3

(* A push job starts. *)
LEMMA StartPushWhole ==
  ASSUME ~ChangeKey, ~ReuseTimes, WholeInd, CompleteInd', NEW o \in Options, StartPush(o)
  PROVE  WholeInd'
<1> USE SyncConstantAssumption DEF StartPush, FirstStep, StartJob, Idle, Running, JobUnchanged, SyncTypes,
    CompleteInd, WholeInd
<1>a. sync'.opt = o /\ sync'.known = NoKnown /\ sync'.step \in {"group", "groups"} /\ sync'.kept = FALSE
  OBVIOUS
<1>b. /\ runs > 0 => o.op = sync.opt.op /\ o.key = sync.opt.key
      /\ runs \in Nat /\ runs' = runs + 1 /\ UNCHANGED <<src, newest, dst>>
  OBVIOUS
<1>c. \A d \in Digest : NoKnown[d] # "touched"
  BY DEF NoKnown
<1> HIDE DEF StartPush, StartJob, Idle
<1>1. KeyInv'
  BY <1>a, <1>b, <1>c DEF KeyInv
<1>2. ModeInv'
  BY <1>a DEF ModeInv, Copying
<1>3. CopiedInv'
  <2>1. CASE runs = 0
    BY <1>b, <2>1 DEF CopiedInv, KeyInv, TargetInv
  <2>2. CASE runs # 0
    <3>1. \A t \in Time : CopyOf(src[t].meta)' = CopyOf(src[t].meta)
      BY <1>a, <1>b, <2>2 DEF CopyOf, EncryptedCopy
    <3> QED
      BY <1>b, <3>1 DEF CopiedInv
  <2> QED
    BY <2>1, <2>2
<1> QED
  BY <1>1, <1>2, <1>3

(* The job lists the source. *)
LEMMA ListSourceWhole ==
  ASSUME ~ChangeKey, ~ReuseTimes, WholeInd, CompleteInd', ListSource
  PROVE  WholeInd'
<1>t. sync \in JobRecord /\ dst \in [Time -> TargetRecord] /\ KeyInv /\ ModeInv /\ CopiedInv
  BY DEF WholeInd, CompleteInd, SyncTypes
<1>a. sync'.opt = sync.opt /\ sync'.known = sync.known
  BY <1>t, ListSourceFields
<1>b. sync'.step = "select" /\ sync'.kept = sync.kept /\ ~sync.kept /\ sync.step # "idle"
  BY <1>t, ListSourceFields DEF ModeInv
<1>c. runs' = runs /\ UNCHANGED <<src, newest>>
  BY DEF ListSource, JobOnly, JobUnchanged
<1>d. \A u \in Time : \/ dst'[u].file = NoMeta /\ dst'[u].meta = NoMeta
                      \/ dst'[u].file = dst[u].file /\ dst'[u].meta = dst[u].meta /\ dst'[u].own = dst[u].own
  BY DEF ListSource, JobOnly
<1>1. KeyInv'
  BY <1>t, <1>a, <1>b, <1>c, <1>d, RunsPositive, KeyFrame
<1>2. ModeInv'
  BY <1>b DEF ModeInv, Copying
<1>3. CopiedInv'
  BY <1>t, <1>a, <1>c, <1>d, CopiedFrame
<1> QED
  BY <1>1, <1>2, <1>3 DEF WholeInd

(* The copies are right while neither side nor the options change. *)
LEMMA CopiedSame ==
  ASSUME CopiedInv, UNCHANGED <<src, newest, dst>>, sync'.opt = sync.opt
  PROVE  CopiedInv'
  BY DEF CopiedInv, CopyOf, EncryptedCopy

(* The job selects what to transfer. *)
LEMMA SelectWhole ==
  ASSUME ~ChangeKey, ~ReuseTimes, WholeInd, CompleteInd', Select
  PROVE  WholeInd'
<1> USE SyncConstantAssumption DEF Select, JobOnly, JobUnchanged, SyncTypes, CompleteInd, WholeInd
<1>1. KeyInv'
  BY DEF KeyInv, ModeInv, EncryptedCopy, StepInv, Copying, TargetRecord, JobRecord, Time
<1>2. ModeInv'
  BY DEF ModeInv, EncryptedCopy, KeyInv, StepInv, Copying, CopyInv, Sealed, SourceRecord, TargetRecord,
     JobRecord, Time
<1>3. CopiedInv'
  <2>1. CopiedInv /\ UNCHANGED <<src, newest, dst>> /\ sync'.opt = sync.opt
    BY DEF JobRecord
  <2> HIDE SyncConstantAssumption DEF Select, JobOnly, JobUnchanged, SyncTypes, CompleteInd, WholeInd
  <2> QED
    BY <2>1, CopiedSame
<1> QED
  BY <1>1, <1>2, <1>3

(* A pull reads the chunks of the last snapshot; none is touched yet. *)
LEMMA CollectReusableWhole ==
  ASSUME ~ChangeKey, ~ReuseTimes, WholeInd, CompleteInd', CollectReusable
  PROVE  WholeInd'
<1>0. PICK got : /\ sync.step = "collect" /\ JobOnly
                /\ sync' = [sync EXCEPT !.step = "next", !.known = MarkReusable(got)]
  BY DEF CollectReusable
<1> USE <1>0, SyncConstantAssumption DEF JobOnly, JobUnchanged, SyncTypes, CompleteInd, WholeInd
<1>a. sync'.opt = sync.opt /\ runs' = runs /\ UNCHANGED <<src, newest>>
  BY DEF JobRecord
<1>b. \A u \in Time : \/ dst'[u].file = NoMeta /\ dst'[u].meta = NoMeta
                      \/ dst'[u].file = dst[u].file /\ dst'[u].meta = dst[u].meta /\ dst'[u].own = dst[u].own
  BY DEF TargetRecord
<1>1. KeyInv'
  <2>1. \A e \in Digest : sync'.known[e] = "touched" => sync.known[e] = "touched"
    BY ReusableType DEF JobRecord
  <2>2. \A u \in Time : dst'[u].meta = NoMeta \/ dst'[u].meta = dst[u].meta
    BY <1>b
  <2>3. runs # 0
    BY SMTT(40), RunsPositive
  <2> QED
    BY SMTT(40), <1>a, <2>1, <2>2, <2>3, KeyFrame
<1>2. ModeInv'
  BY DEF ModeInv, EncryptedCopy, KeyInv, StepInv, Copying, CopyInv, Sealed, SourceRecord, TargetRecord,
     JobRecord, Time
<1>3. CopiedInv'
  BY <1>a, <1>b, CopiedFrame
<1> QED
  BY <1>1, <1>2, <1>3

(* A pull creates and locks the next snapshot. *)
LEMMA PullOpensWhole ==
  ASSUME ~ChangeKey, ~ReuseTimes, WholeInd, CompleteInd', PullOpens
  PROVE  WholeInd'
<1>t. sync \in JobRecord /\ dst \in [Time -> TargetRecord] /\ KeyInv /\ ModeInv /\ CopiedInv
  BY DEF WholeInd, CompleteInd, SyncTypes
<1>a. /\ sync.step = "next" /\ sync'.step = "manifest" /\ sync'.opt = sync.opt /\ sync'.known = sync.known
      /\ sync'.kept = sync.kept /\ runs' = runs /\ UNCHANGED <<src, newest>>
  BY <1>t DEF PullOpens, JobUnchanged, JobRecord
<1>b. \A u \in Time : dst'[u].file = dst[u].file /\ dst'[u].meta = dst[u].meta /\ dst'[u].own = dst[u].own
  BY <1>t DEF PullOpens, TargetRecord
<1>1. KeyInv'
  <2>1. runs # 0
    BY <1>t, <1>a, RunsPositive
  <2> QED
    BY <1>t, <1>a, <1>b, <2>1, KeyFrame
<1>2. ModeInv'
  BY <1>t, <1>a DEF ModeInv, Copying
<1>3. CopiedInv'
  BY <1>t, <1>a, <1>b, CopiedFrame
<1> QED
  BY <1>1, <1>2, <1>3 DEF WholeInd

(* A pull leaves a snapshot out. *)
LEMMA PullSkipsWhole ==
  ASSUME ~ChangeKey, ~ReuseTimes, WholeInd, CompleteInd', PullSkips
  PROVE  WholeInd'
<1>t. sync \in JobRecord /\ dst \in [Time -> TargetRecord] /\ KeyInv /\ ModeInv /\ CopiedInv
  BY DEF WholeInd, CompleteInd, SyncTypes
<1>a. sync'.opt = sync.opt /\ sync'.known = sync.known
  BY <1>t, LeaveFields DEF PullSkips
<1>b. sync'.step = "next" /\ sync'.kept = FALSE /\ sync.step # "idle"
  BY <1>t, LeaveFields DEF PullSkips
<1>c. runs' = runs /\ UNCHANGED <<src, newest>>
  BY DEF PullSkips, JobUnchanged
<1>d. \A u \in Time : \/ dst'[u].file = NoMeta /\ dst'[u].meta = NoMeta
                      \/ dst'[u].file = dst[u].file /\ dst'[u].meta = dst[u].meta /\ dst'[u].own = dst[u].own
  <2>1. sync.step \in {"manifest", "chunks", "commit"} => sync.cur \in Time
    BY CurrentTime DEF WholeInd, CompleteInd
  <2>2. sync.new => sync.step \in {"manifest", "chunks", "commit"}
    BY DEF WholeInd, CompleteInd, StepInv
  <2>3. dst' = IF sync.new THEN [dst EXCEPT ![sync.cur] = NoTarget] ELSE dst
    BY DEF PullSkips, DropNew
  <2> QED
    BY <1>t, <2>1, <2>2, <2>3 DEF TargetRecord, NoTarget
<1>1. KeyInv'
  BY <1>t, <1>a, <1>b, <1>c, <1>d, RunsPositive, KeyFrame
<1>2. ModeInv'
  BY <1>b DEF ModeInv, Copying
<1>3. CopiedInv'
  BY <1>t, <1>a, <1>c, <1>d, CopiedFrame
<1> QED
  BY <1>1, <1>2, <1>3 DEF WholeInd

(* A pull finds a snapshot unchanged. *)
LEMMA PullLeavesWhole ==
  ASSUME ~ChangeKey, ~ReuseTimes, WholeInd, CompleteInd', PullLeaves
  PROVE  WholeInd'
<1>t. sync \in JobRecord /\ dst \in [Time -> TargetRecord] /\ KeyInv /\ ModeInv /\ CopiedInv
  BY DEF WholeInd, CompleteInd, SyncTypes
<1>a. sync'.opt = sync.opt /\ sync'.known = sync.known
  BY <1>t, LeaveFields DEF PullLeaves
<1>b. sync'.step = "next" /\ sync'.kept = FALSE /\ sync.step # "idle"
  BY <1>t, LeaveFields DEF PullLeaves
<1>c. runs' = runs /\ UNCHANGED <<src, newest>>
  BY DEF PullLeaves, JobOnly, JobUnchanged
<1>d. \A u \in Time : \/ dst'[u].file = NoMeta /\ dst'[u].meta = NoMeta
                      \/ dst'[u].file = dst[u].file /\ dst'[u].meta = dst[u].meta /\ dst'[u].own = dst[u].own
  BY DEF PullLeaves, JobOnly
<1>1. KeyInv'
  BY <1>t, <1>a, <1>b, <1>c, <1>d, RunsPositive, KeyFrame
<1>2. ModeInv'
  BY <1>b DEF ModeInv, Copying
<1>3. CopiedInv'
  BY <1>t, <1>a, <1>c, <1>d, CopiedFrame
<1> QED
  BY <1>1, <1>2, <1>3 DEF WholeInd

(* A pull begins with the index, or keeps the one that is there. *)
LEMMA PullStartsWhole ==
  ASSUME ~ChangeKey, ~ReuseTimes, WholeInd, CompleteInd', NEW o \in {"regular", "decrypt"},
      NEW k \in BOOLEAN, PullStarts(o, k)
  PROVE  WholeInd'
<1> USE SyncConstantAssumption DEF PullStarts, JobOnly, JobUnchanged, SyncTypes, CompleteInd, WholeInd
<1> DEFINE m == src[sync.cur].meta
           e == IF sync.cur \in sync.corrupt THEN NoMeta ELSE dst[sync.cur].meta
<1>0. /\ sync.opt.op = "pull" /\ sync.step = "manifest" /\ src[sync.cur].st = "done"
      /\ o = PullOutcome(m, e)
      /\ k => dst[sync.cur].file = m.idx
      /\ sync' = [sync EXCEPT !.meta = m, !.mode = o, !.kept = k,
                              !.step = IF k THEN "commit" ELSE "chunks",
                              !.work = IF k THEN {} ELSE m.idx]
      /\ UNCHANGED <<src, newest, dst, runs>>
  OBVIOUS
<1>c. sync.cur \in Time /\ m \in Meta /\ m.idx \in SUBSET Digest /\ m.enc \in BOOLEAN
  BY CurrentTime DEF SourceInv, SourceRecord, Meta
<1>d. dst[sync.cur].meta # NoMeta => dst[sync.cur].meta.enc \in BOOLEAN
  BY <1>c DEF TargetRecord, Meta
<1> HIDE DEF PullStarts, m, e
<1>a. /\ sync'.opt = sync.opt /\ sync'.known = sync.known /\ sync'.meta = m /\ sync'.mode = o /\ sync'.kept = k
      /\ sync'.step = (IF k THEN "commit" ELSE "chunks") /\ sync'.work = (IF k THEN {} ELSE m.idx)
      /\ sync'.out = sync.out /\ sync'.cur = sync.cur
  BY <1>0 DEF JobRecord
<1>1. KeyInv'
  BY <1>0, <1>a, RunsPositive, KeyFrame
<1>2. ModeInv'
  <2> DEFINE E == m.enc /\ ~sync.opt.key
  <2>1. e # NoMeta /\ e.enc => ~sync.opt.key
    BY <1>0, <1>c DEF KeyInv, e
  <2>2. EncryptedCopy(sync.meta.enc)' = E
    BY <1>0, <1>a DEF EncryptedCopy
  <2>3. sync.opt.key \in BOOLEAN /\ (e # NoMeta => e.enc \in BOOLEAN)
    BY <1>c, <1>d, EncryptedCopyType DEF e
  <2>4. o = IF E = m.enc THEN "regular" ELSE IF m.enc THEN "decrypt" ELSE "encrypt"
    BY <1>0, <1>c, <2>1, <2>3 DEF PullOutcome, DecryptionKey
  <2>5. sync.out = {} /\ Sealed(m.idx \ m.idx, E) = {}
    BY <1>0 DEF StepInv, Copying, Sealed
  <2> HIDE DEF E
  <2> QED
    BY <1>0, <1>a, <2>2, <2>4, <2>5 DEF ModeInv, Copying
<1>3. CopiedInv'
  BY <1>0, <1>a, CopiedFrame
<1> QED
  BY <1>1, <1>2, <1>3

(* A push leaves a snapshot out. *)
LEMMA PushSkipsWhole ==
  ASSUME ~ChangeKey, ~ReuseTimes, WholeInd, CompleteInd', PushSkips
  PROVE  WholeInd'
<1> USE SyncConstantAssumption DEF PushSkips, JobOnly, JobUnchanged, SyncTypes, CompleteInd, WholeInd
<1>1. KeyInv'
  BY DEF KeyInv, ModeInv, EncryptedCopy, StepInv, Copying, TargetRecord, JobRecord, Time
<1>2. ModeInv'
  BY DEF ModeInv, EncryptedCopy, KeyInv, StepInv, Copying, CopyInv, Sealed, SourceRecord, TargetRecord,
     JobRecord, Time
<1>3. CopiedInv'
  BY DEF CopiedInv, CopyOf, EncryptedCopy, ModeInv, KeyInv, SourceInv, TargetInv, StepInv, Copying,
     CopyInv, SourceRecord, TargetRecord, JobRecord, Time
<1> QED
  BY <1>1, <1>2, <1>3

(* A push opens a session; what is known is in its base. *)
LEMMA PushOpensWhole ==
  ASSUME ~ChangeKey, ~ReuseTimes, WholeInd, CompleteInd', PushOpens
  PROVE  WholeInd'
<1> USE SyncConstantAssumption DEF PushOpens, JobUnchanged, SyncTypes, CompleteInd, WholeInd
<1> DEFINE t == MinTime(sync.todo)
           m == src[t].meta
           w == IF sync.opt.key /\ ~m.enc THEN "encrypt" ELSE "regular"
<1>a. /\ sync.opt.op = "push" /\ sync.step = "next" /\ sync.todo # {} /\ src[t].st = "done"
      /\ dst' = [dst EXCEPT ![t].dir = TRUE] /\ UNCHANGED <<src, newest, runs>>
  OBVIOUS
<1>c. t \in Time
  <2>1. sync \in JobRecord
    OBVIOUS
  <2> HIDE DEF PushOpens, SyncTypes, CompleteInd, WholeInd
  <2>2. sync.todo \in SUBSET Time
    BY SMTT(40), <2>1 DEF JobRecord
  <2> QED
    BY <1>a, <2>2, MinTimeIn
<1>d. m \in Meta /\ m.idx \in SUBSET Digest /\ m.enc \in BOOLEAN
  BY <1>a, <1>c DEF SourceInv, SourceRecord, Meta
<1>e. /\ sync'.opt = sync.opt /\ sync'.step = "chunks" /\ sync'.cur = t /\ sync'.meta = m
      /\ sync'.work = m.idx /\ sync'.out = sync.out /\ sync'.kept = sync.kept
      /\ sync'.mode = w
  <2>1. sync \in JobRecord
    OBVIOUS
  <2> HIDE DEF PushOpens, SyncTypes, CompleteInd, WholeInd
  <2> QED
    BY <2>1, PushOpensFields
<1>1. KeyInv'
  <2>1. KeyInv
    OBVIOUS
  <2> HIDE DEF PushOpens, SyncTypes, CompleteInd, WholeInd
  <2> QED
    BY <1>a, <1>e, <2>1, RunsPositive DEF KeyInv
<1>2. ModeInv'
  <2> HIDE DEF PushOpens, m, t
  <2> DEFINE E == m.enc \/ sync.opt.key
  <2>1. sync.opt.key \in BOOLEAN
    BY <1>d, EncryptedCopyType
  <2>2. sync.out = {} /\ sync.kept = FALSE /\ Sealed(m.idx \ m.idx, E) = {}
    BY <1>a, <1>e DEF StepInv, Copying, Sealed, ModeInv, JobRecord
  <2>3. sync'.mode = IF E = m.enc THEN "regular" ELSE IF m.enc THEN "decrypt" ELSE "encrypt"
    BY <1>a, <1>d, <1>e, <2>1
  <2>4. EncryptedCopy(sync.meta.enc)' = E
    BY SMTT(40), <1>a, <1>e DEF EncryptedCopy
  <2> HIDE DEF E
  <2> QED
    BY <1>a, <1>e, <2>2, <2>3, <2>4 DEF ModeInv, Copying
<1>3. CopiedInv'
  <2>1. \A u \in Time : dst'[u].file = dst[u].file /\ dst'[u].meta = dst[u].meta /\ dst'[u].own = dst[u].own
    BY <1>a, <1>e DEF TargetRecord
  <2> QED
    BY <1>a, <1>e, <2>1, CopiedFrame
<1> QED
  BY <1>1, <1>2, <1>3

(* A pull marks a chunk, and touches it or sends for it. *)
LEMMA PullVisitsWhole ==
  ASSUME ~ChangeKey, ~ReuseTimes, WholeInd, CompleteInd', NEW d \in Digest, PullVisits(d)
  PROVE  WholeInd'
<1>t. sync \in JobRecord /\ SyncTypes /\ CompleteInd /\ KeyInv /\ ModeInv /\ CopiedInv
  BY DEF WholeInd, CompleteInd, SyncTypes
<1>a. /\ sync'.opt = sync.opt /\ sync'.step = sync.step /\ sync'.cur = sync.cur /\ sync'.meta = sync.meta
      /\ sync'.mode = sync.mode /\ sync'.kept = sync.kept /\ sync.step = "chunks" /\ d \in sync.work
      /\ sync'.work = sync.work \ {d} /\ UNCHANGED <<src, newest, dst, runs>>
  <2>1. UNCHANGED <<src, newest, dst, runs>>
    BY DEF PullVisits, JobOnly, JobUnchanged
  <2> QED
    BY <1>t, <2>1, PullVisitsFields
<1>b. Copying
  BY <1>a DEF Copying
<1>c. /\ ~sync.kept /\ sync.work \subseteq sync.meta.idx /\ d \in sync.meta.idx
      /\ d[2] = sync.meta.enc /\ d = <<d[1], sync.meta.enc>>
  BY <1>t, <1>a, <1>b, CopyType DEF ModeInv
<1>d. sync.opt.key \in BOOLEAN /\ sync.opt.op \in {"pull", "push"}
  BY <1>t, <1>b, CopyType, EncryptedCopyType
<1>e. Sealed(sync.meta.idx \ (sync.work \ {d}), EncryptedCopy(sync.meta.enc))
        = sync.out \cup {<<d[1], EncryptedCopy(sync.meta.enc)>>}
  <2>1. sync.out = Sealed(sync.meta.idx \ sync.work, EncryptedCopy(sync.meta.enc))
    BY <1>t, <1>b, <1>c DEF ModeInv
  <2>2. /\ sync.meta.idx \in SUBSET Digest /\ sync.work \in SUBSET sync.meta.idx
        /\ EncryptedCopy(sync.meta.enc) \in BOOLEAN
    BY <1>t, <1>b, <1>c, CopyType
  <2>3. d \in sync.work
    BY <1>a
  <2>4. Sealed(sync.meta.idx \ (sync.work \ {d}), EncryptedCopy(sync.meta.enc))
          = Sealed(sync.meta.idx \ sync.work, EncryptedCopy(sync.meta.enc)) \cup {<<d[1], EncryptedCopy(sync.meta.enc)>>}
    BY <2>2, <2>3 DEF Sealed
  <2> QED
    BY <2>1, <2>4
<1>f. EncryptedCopy(sync.meta.enc)' = EncryptedCopy(sync.meta.enc)
  BY <1>a DEF EncryptedCopy
<1>1. KeyInv'
  <2>1. sync.opt.key => ~d[2]
    <3>1. sync.opt.op = "pull" /\ sync.mode = "regular"
      BY <1>t, PullVisitsFields
    <3>2. EncryptedCopy(sync.meta.enc) = (sync.meta.enc /\ ~sync.opt.key)
      BY <3>1 DEF EncryptedCopy
    <3>3. EncryptedCopy(sync.meta.enc) = sync.meta.enc
      BY <1>t, <1>b, <3>1, CopyType DEF ModeInv
    <3> QED
      BY <1>c, <1>d, <3>2, <3>3
  <2>2. \A x \in Digest : sync'.known[x] = "touched" => sync.known[x] = "touched" \/ x = d
    <3>1. sync.known \in [Digest -> {"none", "reusable", "touched"}]
      BY <1>t DEF JobRecord
    <3>2. sync'.known = [sync.known EXCEPT ![d] = "touched"]
      BY <1>t, PullVisitsFields DEF Touch
    <3> QED
      BY <3>1, <3>2
  <2>3. runs # 0
    BY <1>t, <1>a, RunsPositive
  <2> QED
    BY <1>t, <1>a, <2>1, <2>2, <2>3 DEF KeyInv
<1>2. ModeInv'
  <2>1. EncryptedCopy(sync.meta.enc) = sync.meta.enc
    BY <1>t, <1>b, PullVisitsFields, CopyType DEF ModeInv
  <2>2. sync'.out = sync.out \cup {d}
    BY <1>t, PullVisitsFields
  <2>3. sync'.out = sync.out \cup {<<d[1], EncryptedCopy(sync.meta.enc)>>}
    BY <1>c, <2>1, <2>2
  <2> QED
    BY <1>t, <1>a, <1>b, <1>c, <1>e, <1>f, <2>3 DEF ModeInv, Copying
<1>3. CopiedInv'
  BY <1>t, <1>a, CopiedFrame
<1> QED
  BY <1>1, <1>2, <1>3 DEF WholeInd

(* A pull that decrypts sends for a chunk, or maps it. *)
LEMMA DecryptVisitsWhole ==
  ASSUME ~ChangeKey, ~ReuseTimes, WholeInd, CompleteInd', NEW d \in Digest, DecryptVisits(d)
  PROVE  WholeInd'
<1> USE SyncConstantAssumption DEF DecryptVisits, JobOnly, JobUnchanged, SyncTypes, CompleteInd, WholeInd
<1>a. /\ sync'.opt = sync.opt /\ sync'.step = sync.step /\ sync'.cur = sync.cur /\ sync'.meta = sync.meta
      /\ sync'.mode = sync.mode /\ sync'.kept = sync.kept /\ sync.step = "chunks" /\ d \in sync.work
      /\ sync'.work = sync.work \ {d} /\ UNCHANGED <<src, newest, dst, runs>>
  BY DEF JobRecord, StepInv
<1>b. Copying
  BY <1>a DEF Copying
<1>c. /\ ~sync.kept /\ sync.work \subseteq sync.meta.idx /\ d \in sync.meta.idx
      /\ d[2] = sync.meta.enc /\ d = <<d[1], sync.meta.enc>>
  BY <1>a, <1>b, CopyType DEF ModeInv
<1>d. sync.opt.key \in BOOLEAN /\ sync.opt.op \in {"pull", "push"}
  BY <1>b, CopyType, EncryptedCopyType
<1>e. Sealed(sync.meta.idx \ (sync.work \ {d}), EncryptedCopy(sync.meta.enc))
        = sync.out \cup {<<d[1], EncryptedCopy(sync.meta.enc)>>}
  <2>1. sync.out = Sealed(sync.meta.idx \ sync.work, EncryptedCopy(sync.meta.enc))
    BY <1>b, <1>c DEF ModeInv
  <2>2. /\ sync.meta.idx \in SUBSET Digest /\ sync.work \in SUBSET sync.meta.idx
        /\ EncryptedCopy(sync.meta.enc) \in BOOLEAN
    BY <1>b, <1>c, CopyType
  <2>3. d \in sync.work
    BY <1>a
  <2> HIDE DEF DecryptVisits, SyncTypes, CompleteInd, WholeInd
  <2>4. Sealed(sync.meta.idx \ (sync.work \ {d}), EncryptedCopy(sync.meta.enc))
          = Sealed(sync.meta.idx \ sync.work, EncryptedCopy(sync.meta.enc)) \cup {<<d[1], EncryptedCopy(sync.meta.enc)>>}
    BY <2>2, <2>3 DEF Sealed
  <2> QED
    BY <2>1, <2>4
<1>f. EncryptedCopy(sync.meta.enc)' = EncryptedCopy(sync.meta.enc)
  BY SMTT(40), <1>a DEF EncryptedCopy
<1>1. KeyInv'
  BY DEF KeyInv, ModeInv, EncryptedCopy, StepInv, Copying, TargetRecord, JobRecord, Time
<1>2. ModeInv'
  <2>1. sync.meta.enc = TRUE /\ EncryptedCopy(sync.meta.enc) = FALSE
    BY <1>b, <1>d, CopyType DEF ModeInv
  <2>2. sync.opt.op = "pull" /\ sync.opt.key
    BY <1>d, <2>1 DEF StepInv, EncryptedCopy
  <2>3. sync.known[d] # "touched"
    BY SMTT(40), <1>c, <2>1, <2>2 DEF KeyInv
  <2>4. sync'.out = sync.out \cup {<<d[1], FALSE>>}
    BY <2>3 DEF JobRecord
  <2>5. sync'.out = sync.out \cup {<<d[1], EncryptedCopy(sync.meta.enc)>>}
    BY <2>1, <2>4
  <2> HIDE DEF DecryptVisits
  <2> QED
    BY <1>a, <1>b, <1>c, <1>e, <1>f, <2>5 DEF ModeInv, Copying
<1>3. CopiedInv'
  <2>1. CopiedInv /\ UNCHANGED <<src, newest, dst>> /\ sync'.opt = sync.opt
    BY DEF JobRecord
  <2> HIDE SyncConstantAssumption DEF DecryptVisits, JobOnly, JobUnchanged, SyncTypes, CompleteInd, WholeInd
  <2> QED
    BY <2>1, CopiedSame
<1> QED
  BY <1>1, <1>2, <1>3

(* A push takes a chunk as known, or sends it. *)
LEMMA PushVisitsWhole ==
  ASSUME ~ChangeKey, ~ReuseTimes, WholeInd, CompleteInd', NEW d \in Digest, PushVisits(d)
  PROVE  WholeInd'
<1>t. sync \in JobRecord /\ SyncTypes /\ CompleteInd /\ KeyInv /\ ModeInv /\ CopiedInv
  BY DEF WholeInd, CompleteInd, SyncTypes
<1>a. /\ sync'.opt = sync.opt /\ sync'.step = sync.step /\ sync'.cur = sync.cur /\ sync'.meta = sync.meta
      /\ sync'.mode = sync.mode /\ sync'.kept = sync.kept /\ sync.step = "chunks" /\ d \in sync.work
      /\ sync'.work = sync.work \ {d} /\ UNCHANGED <<src, newest, dst, runs>>
  <2>1. UNCHANGED <<src, newest, dst, runs>>
    BY DEF PushVisits, JobOnly, JobUnchanged
  <2> QED
    BY <1>t, <2>1, PushVisitsFields
<1>b. Copying
  BY <1>a DEF Copying
<1>c. /\ ~sync.kept /\ sync.work \subseteq sync.meta.idx /\ d \in sync.meta.idx
      /\ d[2] = sync.meta.enc /\ d = <<d[1], sync.meta.enc>>
  BY <1>t, <1>a, <1>b, CopyType DEF ModeInv
<1>d. sync.opt.key \in BOOLEAN /\ sync.opt.op \in {"pull", "push"}
  BY <1>t, <1>b, CopyType, EncryptedCopyType
<1>e. Sealed(sync.meta.idx \ (sync.work \ {d}), EncryptedCopy(sync.meta.enc))
        = sync.out \cup {<<d[1], EncryptedCopy(sync.meta.enc)>>}
  <2>1. sync.out = Sealed(sync.meta.idx \ sync.work, EncryptedCopy(sync.meta.enc))
    BY <1>t, <1>b, <1>c DEF ModeInv
  <2>2. /\ sync.meta.idx \in SUBSET Digest /\ sync.work \in SUBSET sync.meta.idx
        /\ EncryptedCopy(sync.meta.enc) \in BOOLEAN
    BY <1>t, <1>b, <1>c, CopyType
  <2>3. d \in sync.work
    BY <1>a
  <2>4. Sealed(sync.meta.idx \ (sync.work \ {d}), EncryptedCopy(sync.meta.enc))
          = Sealed(sync.meta.idx \ sync.work, EncryptedCopy(sync.meta.enc)) \cup {<<d[1], EncryptedCopy(sync.meta.enc)>>}
    BY <2>2, <2>3 DEF Sealed
  <2> QED
    BY <2>1, <2>4
<1>f. EncryptedCopy(sync.meta.enc)' = EncryptedCopy(sync.meta.enc)
  BY <1>a DEF EncryptedCopy
<1>1. KeyInv'
  BY <1>t, <1>a, RunsPositive, PushVisitsFields DEF KeyInv
<1>2. ModeInv'
  <2>1. EncryptedCopy(sync.meta.enc) = (sync.meta.enc \/ sync.opt.key)
    BY <1>t, PushVisitsFields DEF EncryptedCopy
  <2>2. (d[2] \/ sync.mode = "encrypt") = EncryptedCopy(sync.meta.enc)
    BY <1>t, <1>b, <1>c, <1>d, <2>1, CopyType DEF ModeInv
  <2>3. sync'.out = sync.out \cup {<<d[1], d[2] \/ sync.mode = "encrypt">>}
    BY <1>t, PushVisitsFields
  <2>4. sync'.out = sync.out \cup {<<d[1], EncryptedCopy(sync.meta.enc)>>}
    BY <2>2, <2>3
  <2> QED
    BY <1>t, <1>a, <1>b, <1>c, <1>e, <1>f, <2>4 DEF ModeInv, Copying
<1>3. CopiedInv'
  BY <1>t, <1>a, CopiedFrame
<1> QED
  BY <1>1, <1>2, <1>3 DEF WholeInd

(* A chunk is stored. *)
LEMMA ChunkArrivesWhole ==
  ASSUME ~ChangeKey, ~ReuseTimes, WholeInd, CompleteInd', NEW d \in Digest, ChunkArrives(d)
  PROVE  WholeInd'
<1> USE SyncConstantAssumption DEF ChunkArrives, JobUnchanged, SyncTypes, CompleteInd, WholeInd
<1>1. KeyInv'
  BY DEF KeyInv, ModeInv, EncryptedCopy, StepInv, Copying, TargetRecord, JobRecord, Time
<1>2. ModeInv'
  BY SMTT(40) DEF ModeInv, EncryptedCopy, KeyInv, StepInv, Copying, CopyInv, Sealed, SourceRecord, TargetRecord,
     JobRecord, Time
<1>3. CopiedInv'
  <2>1. CopiedInv /\ UNCHANGED <<src, newest, dst>> /\ sync'.opt = sync.opt
    BY DEF JobRecord
  <2> HIDE SyncConstantAssumption DEF ChunkArrives, JobUnchanged, SyncTypes, CompleteInd, WholeInd
  <2> QED
    BY <2>1, CopiedSame
<1> QED
  BY <1>1, <1>2, <1>3

(* A pull renames the index. *)
LEMMA PullIndexDoneWhole ==
  ASSUME ~ChangeKey, ~ReuseTimes, WholeInd, CompleteInd', PullIndexDone
  PROVE  WholeInd'
<1> USE SyncConstantAssumption DEF PullIndexDone, IndexDone, JobUnchanged, SyncTypes, CompleteInd, WholeInd
<1>1. KeyInv'
  BY DEF KeyInv, ModeInv, EncryptedCopy, StepInv, Copying, TargetRecord, JobRecord, Time
<1>2. ModeInv'
  BY SMTT(40) DEF ModeInv, EncryptedCopy, KeyInv, StepInv, Copying, CopyInv, Sealed, SourceRecord, TargetRecord,
     JobRecord, Time
<1>3. CopiedInv'
  BY SMTT(40) DEF CopiedInv, CopyOf, EncryptedCopy, ModeInv, KeyInv, SourceInv, TargetInv, StepInv, Copying,
     CopyInv, SourceRecord, TargetRecord, JobRecord, Time
<1> QED
  BY <1>1, <1>2, <1>3

(* A push closes the index. *)
LEMMA PushIndexDoneWhole ==
  ASSUME ~ChangeKey, ~ReuseTimes, WholeInd, CompleteInd', PushIndexDone
  PROVE  WholeInd'
<1> USE SyncConstantAssumption DEF PushIndexDone, IndexDone, JobUnchanged, SyncTypes, CompleteInd, WholeInd
<1>1. KeyInv'
  BY SMTT(40) DEF KeyInv, ModeInv, EncryptedCopy, StepInv, Copying, TargetRecord, JobRecord, Time
<1>2. ModeInv'
  BY SMTT(40) DEF ModeInv, EncryptedCopy, KeyInv, StepInv, Copying, CopyInv, Sealed, SourceRecord, TargetRecord,
     JobRecord, Time
<1>3. CopiedInv'
  BY DEF CopiedInv, CopyOf, EncryptedCopy, ModeInv, KeyInv, SourceInv, TargetInv, StepInv, Copying,
     CopyInv, SourceRecord, TargetRecord, JobRecord, Time
<1> QED
  BY <1>1, <1>2, <1>3

(* A pull renames the manifest. *)
LEMMA PullCommitsWhole ==
  ASSUME ~ChangeKey, ~ReuseTimes, WholeInd, CompleteInd', PullCommits
  PROVE  WholeInd'
<1> USE SyncConstantAssumption DEF PullCommits, Commits, Leave, JobUnchanged, SyncTypes, CompleteInd, WholeInd
<1> DEFINE w == IF sync.mode = "regular" THEN sync.meta
                ELSE [idx |-> IF sync.kept THEN {} ELSE sync.out, enc |-> FALSE, verify |-> "none",
                      sig |-> sync.meta.idx]
<1>0. /\ sync.step = "commit" /\ sync.opt.op = "pull" /\ dst' = [dst EXCEPT ![sync.cur].meta = w]
      /\ sync'.opt = sync.opt /\ sync'.known = sync.known /\ UNCHANGED <<src, newest, runs>>
      /\ sync'.step = "next" /\ sync'.kept = FALSE
  <2>1. sync \in JobRecord
    OBVIOUS
  <2>2. sync.step = "commit" /\ sync.opt.op = "pull" /\ dst' = [dst EXCEPT ![sync.cur].meta = w]
    OBVIOUS
  <2>3. sync' = Leave(sync) /\ UNCHANGED <<src, newest, runs>>
    OBVIOUS
  <2> HIDE DEF PullCommits, Commits, Leave, w, SyncTypes, CompleteInd, WholeInd
  <2> QED
    BY <2>1, <2>2, <2>3, LeaveFields
<1>a. Copying
  BY <1>0 DEF Copying
<1>b. sync.opt.key \in BOOLEAN
  BY <1>a, CopyType, EncryptedCopyType
<1> HIDE DEF PullCommits, Commits, Leave, w
<1>c. dst'[sync.cur].meta = w /\ dst'[sync.cur].file = dst[sync.cur].file /\ dst'[sync.cur].own = dst[sync.cur].own
  BY <1>0, <1>a, CopyType DEF TargetRecord
<1>d. \A t \in Time \ {sync.cur} : dst'[t] = dst[t]
  BY <1>0 DEF TargetRecord
<1>1. KeyInv'
  <2>1. sync.opt.key => w.enc = FALSE
    BY <1>0, <1>a, <1>b, CopyType DEF ModeInv, EncryptedCopy, w
  <2>2. runs # 0
    BY <1>0, RunsPositive
  <2> QED
    BY <1>0, <1>c, <1>d, <2>1, <2>2 DEF KeyInv
<1>2. ModeInv'
  BY <1>0 DEF ModeInv, Copying
<1>3. CopiedInv'
  <2>1. dst[sync.cur].own \/ dst[sync.cur].file = w.idx
    <3>1. CASE sync.mode = "regular"
      <4>1. EncryptedCopy(sync.meta.enc) = sync.meta.enc
        BY <1>a, <3>1 DEF ModeInv
      <4>2. ~sync.kept => dst[sync.cur].file = Sealed(sync.meta.idx, sync.meta.enc)
        BY <1>0, <1>a, <4>1 DEF ModeInv
      <4>3. Sealed(sync.meta.idx, sync.meta.enc) = sync.meta.idx
        BY <1>a, CopyType, SealedSame
      <4> QED
        BY <1>a, <3>1, <4>2, <4>3 DEF ModeInv, w
    <3>2. CASE sync.mode # "regular"
      <4>1. CASE ~sync.kept
        BY <1>0, <1>a, <3>2, <4>1 DEF ModeInv, w
      <4>2. CASE sync.kept /\ ~dst[sync.cur].own
        <5>1. sync.meta.enc = TRUE /\ EncryptedCopy(sync.meta.enc) = FALSE
          BY <1>0, <1>a, <1>b, <3>2, CopyType DEF ModeInv, EncryptedCopy
        <5>2. dst[sync.cur].file = sync.meta.idx /\ dst[sync.cur].file # NoMeta
          BY <1>0, <1>a, <4>2 DEF ModeInv, StepInv
        <5>3. dst[sync.cur].file = CopyOf(src[sync.cur].meta)
          BY <1>a, <4>2, <5>2, CopyType DEF CopiedInv
        <5>4. sync.meta.idx = Sealed(sync.meta.idx, FALSE)
          BY <1>a, <5>1, <5>2, <5>3, CopyType DEF CopyOf
        <5>5. sync.meta.idx = {}
          BY <1>a, <5>1, <5>4, CopyType, SealedOther
        <5> QED
          BY <3>2, <4>2, <5>2, <5>5 DEF w
      <4> QED
        BY <4>1, <4>2
    <3> QED
      BY <3>1, <3>2
  <2>2. \A t \in Time : CopyOf(src[t].meta)' = CopyOf(src[t].meta)
    BY <1>0 DEF CopyOf, EncryptedCopy
  <2> SUFFICES ASSUME NEW t \in Time, ~dst'[t].own
               PROVE  /\ dst'[t].file # NoMeta => /\ t <= newest /\ src[t].st # "running"
                                                  /\ src[t].st = "done" => dst'[t].file = CopyOf(src[t].meta)'
                      /\ dst'[t].meta # NoMeta => dst'[t].file = dst'[t].meta.idx
    BY <1>0 DEF CopiedInv
  <2>3. CASE t = sync.cur
    BY <1>c, <2>1, <2>2, <2>3 DEF CopiedInv
  <2>4. CASE t # sync.cur
    BY <1>d, <2>2, <2>4 DEF CopiedInv
  <2> QED
    BY <2>3, <2>4
<1> QED
  BY <1>1, <1>2, <1>3

(* A push finishes its session. *)
LEMMA PushCommitsWhole ==
  ASSUME ~ChangeKey, ~ReuseTimes, WholeInd, CompleteInd', PushCommits
  PROVE  WholeInd'
<1> USE SyncConstantAssumption DEF PushCommits, Commits, Leave, JobUnchanged, SyncTypes, CompleteInd, WholeInd
<1> DEFINE w == IF sync.mode = "regular" THEN sync.meta
                ELSE [sync.meta EXCEPT !.idx = sync.out, !.enc = TRUE, !.sig = sync.meta.idx]
<1>0. /\ sync.step = "commit" /\ sync.opt.op = "push" /\ dst' = [dst EXCEPT ![sync.cur].meta = w]
      /\ sync'.opt = sync.opt /\ sync'.known = sync.known /\ UNCHANGED <<src, newest, runs>>
      /\ sync'.step = "next" /\ sync'.kept = FALSE
  <2>1. sync \in JobRecord
    OBVIOUS
  <2>2. sync.step = "commit" /\ sync.opt.op = "push" /\ dst' = [dst EXCEPT ![sync.cur].meta = w]
    OBVIOUS
  <2>3. sync' = Leave(sync) /\ UNCHANGED <<src, newest, runs>>
    OBVIOUS
  <2> HIDE DEF PushCommits, Commits, Leave, w, SyncTypes, CompleteInd, WholeInd
  <2> QED
    BY <2>1, <2>2, <2>3, LeaveFields
<1>a. Copying
  BY <1>0 DEF Copying
<1>b. sync.opt.key \in BOOLEAN
  BY <1>a, CopyType, EncryptedCopyType
<1> HIDE DEF PushCommits, Commits, Leave, w
<1>c. dst'[sync.cur].meta = w /\ dst'[sync.cur].file = dst[sync.cur].file /\ dst'[sync.cur].own = dst[sync.cur].own
  BY <1>0, <1>a, CopyType DEF TargetRecord
<1>d. \A t \in Time \ {sync.cur} : dst'[t] = dst[t]
  BY <1>0 DEF TargetRecord
<1>1. KeyInv'
  <2>1. runs # 0
    BY <1>0, RunsPositive
  <2> QED
    BY <1>0, <2>1 DEF KeyInv
<1>2. ModeInv'
  BY <1>0 DEF ModeInv, Copying
<1>3. CopiedInv'
  <2>1. dst[sync.cur].own \/ dst[sync.cur].file = w.idx
    <3>1. CASE sync.mode = "regular"
      <4>1. EncryptedCopy(sync.meta.enc) = sync.meta.enc
        BY <1>a, <3>1 DEF ModeInv
      <4>2. ~sync.kept => dst[sync.cur].file = Sealed(sync.meta.idx, sync.meta.enc)
        BY <1>0, <1>a, <4>1 DEF ModeInv
      <4>3. Sealed(sync.meta.idx, sync.meta.enc) = sync.meta.idx
        BY <1>a, CopyType, SealedSame
      <4> QED
        BY <1>a, <3>1, <4>2, <4>3 DEF ModeInv, w
    <3>2. CASE sync.mode # "regular"
      <4>1. ~sync.kept /\ dst[sync.cur].file = sync.out
        BY <1>0, <1>a DEF ModeInv
      <4>2. w.idx = sync.out
        BY <1>a, <3>2, CopyType DEF w, Meta
      <4> QED
        BY <4>1, <4>2
    <3> QED
      BY <3>1, <3>2
  <2>2. \A t \in Time : CopyOf(src[t].meta)' = CopyOf(src[t].meta)
    BY <1>0 DEF CopyOf, EncryptedCopy
  <2> SUFFICES ASSUME NEW t \in Time, ~dst'[t].own
               PROVE  /\ dst'[t].file # NoMeta => /\ t <= newest /\ src[t].st # "running"
                                                  /\ src[t].st = "done" => dst'[t].file = CopyOf(src[t].meta)'
                      /\ dst'[t].meta # NoMeta => dst'[t].file = dst'[t].meta.idx
    BY <1>0 DEF CopiedInv
  <2>3. CASE t = sync.cur
    BY <1>c, <2>1, <2>2, <2>3 DEF CopiedInv
  <2>4. CASE t # sync.cur
    BY <1>d, <2>2, <2>4 DEF CopiedInv
  <2> QED
    BY <2>3, <2>4
<1> QED
  BY <1>1, <1>2, <1>3

(* A pull looks for what has vanished. *)
LEMMA PullListsVanishedWhole ==
  ASSUME ~ChangeKey, ~ReuseTimes, WholeInd, CompleteInd', PullListsVanished
  PROVE  WholeInd'
<1>t. sync \in JobRecord /\ dst \in [Time -> TargetRecord] /\ KeyInv /\ ModeInv /\ CopiedInv
  BY DEF WholeInd, CompleteInd, SyncTypes
<1>a. sync'.opt = sync.opt /\ sync'.known = sync.known
  BY <1>t, ListVanishedFields DEF PullListsVanished
<1>b. sync'.step \in {"forget", "groups"} /\ sync'.kept = sync.kept /\ ~sync.kept /\ sync.step # "idle"
  BY <1>t, ListVanishedFields DEF PullListsVanished, ModeInv
<1>c. runs' = runs /\ UNCHANGED <<src, newest>>
  BY DEF PullListsVanished, ListVanished, JobOnly, JobUnchanged
<1>d. \A u \in Time : \/ dst'[u].file = NoMeta /\ dst'[u].meta = NoMeta
                      \/ dst'[u].file = dst[u].file /\ dst'[u].meta = dst[u].meta /\ dst'[u].own = dst[u].own
  BY DEF PullListsVanished, ListVanished, JobOnly
<1>1. KeyInv'
  BY <1>t, <1>a, <1>b, <1>c, <1>d, RunsPositive, KeyFrame
<1>2. ModeInv'
  BY <1>b DEF ModeInv, Copying
<1>3. CopiedInv'
  BY <1>t, <1>a, <1>c, <1>d, CopiedFrame
<1> QED
  BY <1>1, <1>2, <1>3 DEF WholeInd

(* A push looks for what has vanished. *)
LEMMA PushListsVanishedWhole ==
  ASSUME ~ChangeKey, ~ReuseTimes, WholeInd, CompleteInd', PushListsVanished
  PROVE  WholeInd'
<1> USE SyncConstantAssumption DEF PushListsVanished, ListVanished, JobOnly, JobUnchanged, SyncTypes,
    CompleteInd, WholeInd
<1>1. KeyInv'
  BY DEF KeyInv, ModeInv, EncryptedCopy, StepInv, Copying, TargetRecord, JobRecord, Time
<1>2. ModeInv'
  BY SMTT(40) DEF ModeInv, EncryptedCopy, KeyInv, StepInv, Copying, CopyInv, Sealed, SourceRecord, TargetRecord,
     JobRecord, Time
<1>3. CopiedInv'
  BY DEF CopiedInv, CopyOf, EncryptedCopy, ModeInv, KeyInv, SourceInv, TargetInv, StepInv, Copying,
     CopyInv, SourceRecord, TargetRecord, JobRecord, Time
<1> QED
  BY <1>1, <1>2, <1>3

(* What has vanished is gone. *)
LEMMA ForgottenWhole ==
  ASSUME ~ChangeKey, ~ReuseTimes, WholeInd, CompleteInd', Forgotten
  PROVE  WholeInd'
<1> USE SyncConstantAssumption DEF Forgotten, JobOnly, JobUnchanged, SyncTypes, CompleteInd, WholeInd
<1>1. KeyInv'
  BY DEF KeyInv, ModeInv, EncryptedCopy, StepInv, Copying, TargetRecord, JobRecord, Time
<1>2. ModeInv'
  BY DEF ModeInv, EncryptedCopy, KeyInv, StepInv, Copying, CopyInv, Sealed, SourceRecord, TargetRecord,
     JobRecord, Time
<1>3. CopiedInv'
  BY DEF CopiedInv, CopyOf, EncryptedCopy, ModeInv, KeyInv, SourceInv, TargetInv, StepInv, Copying,
     CopyInv, SourceRecord, TargetRecord, JobRecord, Time
<1> QED
  BY <1>1, <1>2, <1>3

(* The group is given up. *)
LEMMA SyncFailsWhole ==
  ASSUME ~ChangeKey, ~ReuseTimes, WholeInd, CompleteInd', SyncFails
  PROVE  WholeInd'
<1>t. sync \in JobRecord /\ dst \in [Time -> TargetRecord] /\ KeyInv /\ ModeInv /\ CopiedInv
  BY DEF WholeInd, CompleteInd, SyncTypes
<1>a. sync'.opt = sync.opt /\ sync'.known = sync.known
  BY <1>t, SyncFailsFields
<1>b. sync'.step = "groups" /\ sync'.kept = FALSE /\ sync.step # "idle"
  BY <1>t, SyncFailsFields DEF SyncFails, Running
<1>c. runs' = runs /\ UNCHANGED <<src, newest>>
  BY DEF SyncFails, JobUnchanged
<1>d. \A u \in Time : \/ dst'[u].file = NoMeta /\ dst'[u].meta = NoMeta
                      \/ dst'[u].file = dst[u].file /\ dst'[u].meta = dst[u].meta /\ dst'[u].own = dst[u].own
  <2>1. sync.step \in {"manifest", "chunks", "commit"} => sync.cur \in Time
    BY CurrentTime DEF WholeInd, CompleteInd
  <2>2. sync.new => sync.step \in {"manifest", "chunks", "commit"}
    BY DEF WholeInd, CompleteInd, StepInv
  <2>3. dst' = IF sync.new THEN [dst EXCEPT ![sync.cur] = NoTarget] ELSE dst
    BY DEF SyncFails, DropNew
  <2> QED
    BY <1>t, <2>1, <2>2, <2>3 DEF TargetRecord, NoTarget
<1>1. KeyInv'
  BY <1>t, <1>a, <1>b, <1>c, <1>d, RunsPositive, KeyFrame
<1>2. ModeInv'
  BY <1>b DEF ModeInv, Copying
<1>3. CopiedInv'
  BY <1>t, <1>a, <1>c, <1>d, CopiedFrame
<1> QED
  BY <1>1, <1>2, <1>3 DEF WholeInd

(* The job ends. *)
LEMMA SyncEndsWhole ==
  ASSUME ~ChangeKey, ~ReuseTimes, WholeInd, CompleteInd', SyncEnds
  PROVE  WholeInd'
<1> USE SyncConstantAssumption DEF SyncEnds, Idle, NoTarget, JobUnchanged, SyncTypes, CompleteInd, WholeInd
<1>a. sync'.opt = sync.opt /\ runs' = runs /\ UNCHANGED <<src, newest>>
  BY DEF JobRecord
<1>b. \A u \in Time : \/ dst'[u].file = NoMeta /\ dst'[u].meta = NoMeta
                      \/ dst'[u].file = dst[u].file /\ dst'[u].meta = dst[u].meta /\ dst'[u].own = dst[u].own
  BY DEF TargetRecord
<1>1. KeyInv'
  <2>1. \A e \in Digest : sync'.known[e] = "touched" => sync.known[e] = "touched"
    BY DEF JobRecord, NoKnown
  <2>2. \A u \in Time : dst'[u].meta = NoMeta \/ dst'[u].meta = dst[u].meta
    BY <1>b
  <2>3. runs # 0
    BY RunsPositive
  <2> QED
    BY <1>a, <2>1, <2>2, <2>3, KeyFrame
<1>2. ModeInv'
  BY DEF ModeInv, EncryptedCopy, KeyInv, StepInv, Copying, CopyInv, Sealed, SourceRecord, TargetRecord,
     JobRecord, Time
<1>3. CopiedInv'
  BY <1>a, <1>b, CopiedFrame
<1> QED
  BY <1>1, <1>2, <1>3

(* The process dies. *)
LEMMA SyncDiesWhole ==
  ASSUME ~ChangeKey, ~ReuseTimes, WholeInd, CompleteInd', SyncDies
  PROVE  WholeInd'
<1> USE SyncConstantAssumption DEF SyncDies, Idle, NoTarget, Running, JobUnchanged, SyncTypes,
    CompleteInd, WholeInd
<1>a. sync'.opt = sync.opt /\ runs' = runs /\ UNCHANGED <<src, newest>>
  BY DEF JobRecord
<1>b. \A u \in Time : \/ dst'[u].file = NoMeta /\ dst'[u].meta = NoMeta
                      \/ dst'[u].file = dst[u].file /\ dst'[u].meta = dst[u].meta /\ dst'[u].own = dst[u].own
  BY CurrentTime DEF TargetRecord
<1>1. KeyInv'
  <2>1. \A e \in Digest : sync'.known[e] = "touched" => sync.known[e] = "touched"
    BY DEF JobRecord, NoKnown
  <2>2. \A u \in Time : dst'[u].meta = NoMeta \/ dst'[u].meta = dst[u].meta
    BY <1>b
  <2>3. runs # 0
    BY RunsPositive
  <2> QED
    BY <1>a, <2>1, <2>2, <2>3, KeyFrame
<1>2. ModeInv'
  BY DEF ModeInv, EncryptedCopy, KeyInv, StepInv, Copying, CopyInv, Sealed, SourceRecord, TargetRecord,
     JobRecord, Time
<1>3. CopiedInv'
  BY <1>a, <1>b, CopiedFrame
<1> QED
  BY <1>1, <1>2, <1>3

(* A snapshot that has vanished is removed. *)
LEMMA ForgetWhole ==
  ASSUME ~ChangeKey, ~ReuseTimes, WholeInd, CompleteInd', NEW t \in Time, Forget(t)
  PROVE  WholeInd'
<1> USE SyncConstantAssumption DEF Forget, NoTarget, JobUnchanged, SyncTypes, CompleteInd, WholeInd
<1>1. KeyInv'
  BY DEF KeyInv, ModeInv, EncryptedCopy, StepInv, Copying, TargetRecord, JobRecord, Time
<1>2. ModeInv'
  BY SMTT(40) DEF ModeInv, EncryptedCopy, KeyInv, StepInv, Copying, CopyInv, Sealed, SourceRecord, TargetRecord,
     JobRecord, Time
<1>3. CopiedInv'
  BY DEF CopiedInv, CopyOf, EncryptedCopy, ModeInv, KeyInv, SourceInv, TargetInv, StepInv, Copying,
     CopyInv, SourceRecord, TargetRecord, JobRecord, Time
<1> QED
  BY <1>1, <1>2, <1>3

(* The invariant holds at first. *)
LEMMA InitWhole == ASSUME SyncInit PROVE WholeInd
<1>1. KeyInv
  <2>1. sync.known = NoKnown /\ sync.step = "idle" /\ \A t \in Time : dst[t].meta = NoMeta /\ dst[t].file = NoMeta
    BY DEF SyncInit, Idle, NoTarget
  <2>2. \A d \in Digest : NoKnown[d] # "touched"
    BY DEF NoKnown
  <2> QED
    BY <2>1, <2>2 DEF KeyInv
<1>2. ModeInv
  BY DEF SyncInit, Idle, ModeInv, Copying
<1>3. CopiedInv
  BY DEF SyncInit, CopiedInv, NoTarget
<1> QED
  BY <1>1, <1>2, <1>3, InitComplete DEF WholeInd

(* Every step keeps the invariant. *)
LEMMA NextWhole ==
  ASSUME ~ChangeKey, ~ReuseTimes, WholeInd, CompleteInd', [SyncNext]_syncVars
  PROVE  WholeInd'
<1>0. CompleteInd
  BY DEF WholeInd
<1>1. CASE \E t \in Time : SourceStarts(t)
  BY <1>1, SourceStartsWhole
<1>2. CASE \E t \in Time, a \in Archives : SourceFinishes(t, a)
  BY <1>2, SourceFinishesWhole
<1>3. CASE \E t \in Time : SourceRemoves(t)
  BY <1>3, SourceRemovesWhole
<1>4. CASE \E t \in Time, v \in {"ok", "failed"} : SourceVerifies(t, v)
  BY <1>4, SourceVerifiesWhole
<1>5. CASE \E t \in Time, a \in Archives : ~a.enc /\ TargetBackup(t, a.idx)
  BY <1>5, TargetBackupWhole
<1>6. CASE \E t \in Time : TargetPrune(t)
  BY <1>6, TargetPruneWhole
<1>7. CASE \E t \in Time : TargetProtect(t)
  BY <1>7, TargetProtectWhole
<1>8. CASE \E t \in Time, d \in Digest : TargetVerify(t, d)
  BY <1>8, TargetVerifyWhole
<1>9. CASE \E d \in Digest : TargetSweeps(d)
  BY <1>9, TargetSweepsWhole
<1>10. CASE \E o \in Options : StartPull(o)
  BY <1>10, StartPullWhole
<1>11. CASE \E o \in Options : StartPush(o)
  BY <1>11, StartPushWhole
<1>12. CASE ListSource
  BY <1>12, ListSourceWhole
<1>13. CASE Select
  BY <1>13, SelectWhole
<1>14. CASE CollectReusable
  BY <1>14, CollectReusableWhole
<1>15. CASE PullOpens
  BY <1>15, PullOpensWhole
<1>16. CASE PullSkips
  BY <1>16, PullSkipsWhole
<1>17. CASE PullLoads
  BY <1>0, <1>17, PullLoadsSplit, PullLeavesWhole, PullStartsWhole
<1>18. CASE PushSkips
  BY <1>18, PushSkipsWhole
<1>19. CASE PushOpens
  BY <1>19, PushOpensWhole
<1>20. CASE \E d \in Digest : PullVisits(d)
  BY <1>20, PullVisitsWhole
<1>21. CASE \E d \in Digest : DecryptVisits(d)
  BY <1>21, DecryptVisitsWhole
<1>22. CASE \E d \in Digest : PushVisits(d)
  BY <1>22, PushVisitsWhole
<1>23. CASE \E d \in Digest : ChunkArrives(d)
  BY <1>23, ChunkArrivesWhole
<1>24. CASE PullIndexDone
  BY <1>24, PullIndexDoneWhole
<1>25. CASE PushIndexDone
  BY <1>25, PushIndexDoneWhole
<1>26. CASE PullCommits
  BY <1>26, PullCommitsWhole
<1>27. CASE PushCommits
  BY <1>27, PushCommitsWhole
<1>28. CASE PullListsVanished
  BY <1>28, PullListsVanishedWhole
<1>29. CASE PushListsVanished
  BY <1>29, PushListsVanishedWhole
<1>30. CASE Forgotten
  BY <1>30, ForgottenWhole
<1>31. CASE SyncFails
  BY <1>31, SyncFailsWhole
<1>32. CASE SyncEnds
  BY <1>32, SyncEndsWhole
<1>33. CASE SyncDies
  BY <1>33, SyncDiesWhole
<1>34. CASE \E t \in Time : Forget(t)
  BY <1>34, ForgetWhole
<1>35. CASE UNCHANGED syncVars
  BY <1>35 DEF WholeInd, syncVars, KeyInv, ModeInv, Copying, EncryptedCopy, CopiedInv, CopyOf
<1> QED
  BY <1>1, <1>2, <1>3, <1>4, <1>5, <1>6, <1>7, <1>8, <1>9, <1>10, <1>11, <1>12, <1>13, <1>14, <1>15,
     <1>16, <1>17, <1>18, <1>19, <1>20, <1>21, <1>22, <1>23, <1>24, <1>25, <1>26, <1>27, <1>28, <1>29,
     <1>30, <1>31, <1>32, <1>33, <1>34, <1>35, SyncSteps

(* What came by a sync is a copy. *)
LEMMA CopiesWhole == ASSUME WholeInd PROVE SyncedWhole
<1> SUFFICES ASSUME NEW t \in Time, dst[t].meta # NoMeta, ~dst[t].own
             PROVE  /\ dst[t].file = dst[t].meta.idx
                    /\ src[t].st = "done" => Contents(dst[t].file) = Contents(src[t].meta.idx)
  BY DEF SyncedWhole
<1>1. dst[t].file # NoMeta /\ dst[t].file = dst[t].meta.idx
  BY DEF WholeInd, CompleteInd, TargetInv, CopiedInv
<1>2. src[t].st = "done" => dst[t].file = CopyOf(src[t].meta)
  BY <1>1 DEF WholeInd, CopiedInv
<1>3. ASSUME NEW S, NEW e
      PROVE  Contents(Sealed(S, e)) = Contents(S)
  <2>1. ASSUME NEW x \in Contents(Sealed(S, e))
        PROVE  x \in Contents(S)
    <3>1. PICK y \in Sealed(S, e) : x = y[1]
      BY <2>1 DEF Contents
    <3>2. PICK d \in S : y = <<d[1], e>>
      BY <3>1 DEF Sealed
    <3> QED
      BY <3>1, <3>2 DEF Contents
  <2>2. ASSUME NEW x \in Contents(S)
        PROVE  x \in Contents(Sealed(S, e))
    <3>1. PICK d \in S : x = d[1]
      BY <2>2 DEF Contents
    <3>2. <<d[1], e>> \in Sealed(S, e) /\ <<d[1], e>>[1] = d[1]
      BY DEF Sealed
    <3> QED
      BY <3>1, <3>2 DEF Contents
  <2> QED
    BY <2>1, <2>2
<1> QED
  BY <1>1, <1>2, <1>3 DEF CopyOf

(* With one key and times the source does not use twice, every snapshot    *)
(* that came by a sync has an index that fits its manifest and the         *)
(* contents of the source's snapshot of that time, and its chunks are      *)
(* stored, through errors, crashes, prunes and collections on both sides   *)
(* (pull_snapshot, push_snapshot, DecryptionKey).                          *)
THEOREM SyncedSnapshotsComplete ==
  ASSUME ~ChangeKey, ~ReuseTimes
  PROVE  SyncSpec => []SyncedComplete
<1>1. SyncInit => WholeInd
  BY InitWhole
<1>2. WholeInd /\ [SyncNext]_syncVars => WholeInd'
  BY NextComplete, NextWhole DEF WholeInd
<1>3. WholeInd => SyncedWhole
  BY CopiesWhole
<1>4. SyncSpec => []WholeInd
  BY <1>1, <1>2, PTL DEF SyncSpec
<1>5. SyncSpec => [](SyncTypeOK /\ TargetComplete)
  BY TargetStaysComplete
<1>6. SyncTypeOK /\ TargetComplete /\ SyncedWhole => SyncedComplete
  BY DEF SyncedComplete
<1> QED
  BY <1>3, <1>4, <1>5, <1>6, PTL

-----------------------------------------------------------------------------
(* Every step keeps what is known of the job's lists. *)

(* A backup starts at the source, under a time it has not used. *)
LEMMA SourceStartsHonest ==
  ASSUME ~ReuseTimes, HonestInd, WholeInd', NEW t \in Time, SourceStarts(t)
  PROVE  HonestInd'
<1> USE SyncConstantAssumption DEF SourceStarts, SourceOp, SourceUnchanged, SyncTypes, CompleteInd,
    WholeInd, HonestInd, RepairInv
<1>b. newest \in Nat /\ newest' \in Nat /\ newest <= newest' /\ t <= newest'
  <2>1. {newest, t} \in SUBSET (0 .. Times)
    BY SyncConstantAssumption DEF Time
  <2>2. MaxTime({newest, t}) \in 0 .. Times /\ newest <= MaxTime({newest, t}) /\ t <= MaxTime({newest, t})
    BY <2>1, MaxTimeIn
  <2> QED
    BY <2>2
<1>c. t > newest /\ newest \in Nat /\ Time \subseteq Nat
  BY DEF Time
<1>1. SeenInv'
  BY DEF SeenInv, StepInv, Copying, JobRecord
<1>2. CorruptWhen'
  BY DEF CorruptWhen, Running, JobRecord
<1>3. YoungLost'
  BY DEF YoungLost, JobRecord
<1>4. TimesOld'
  <2> SUFFICES ASSUME NEW u \in Time, u \in sync.times \cup sync.corrupt
               PROVE  u <= newest' /\ src'[u].st # "running"
    BY DEF TimesOld
  <2>1. u <= newest /\ src[u].st # "running"
    BY DEF TimesOld
  <2>2. u # t
    BY <1>c, <2>1
  <2>3. src'[u] = src[u]
    BY <2>2
  <2> QED
    BY <1>b, <1>c, <2>1, <2>3
<1>5. CorruptAnew'
  BY DEF CorruptAnew, CorruptWhen, Copying, StepInv, ModeInv, JobRecord
<1>6. CorruptDone'
  BY DEF CorruptDone, CorruptWhen, YoungLost, Repaired, TargetInv, StepInv, Copying, SourceRecord,
     TargetRecord, JobRecord, Time
<1> QED
  BY <1>1, <1>2, <1>3, <1>4, <1>5, <1>6

(* A backup of the source is finished. *)
LEMMA SourceFinishesHonest ==
  ASSUME ~ReuseTimes, HonestInd, WholeInd', NEW t \in Time, NEW a \in Archives, SourceFinishes(t, a)
  PROVE  HonestInd'
<1> USE SyncConstantAssumption DEF SourceFinishes, SourceUnchanged, SyncTypes, CompleteInd, WholeInd,
    HonestInd, RepairInv
<1>1. SeenInv'
  BY DEF SeenInv, StepInv, Copying, JobRecord
<1>2. CorruptWhen'
  BY DEF CorruptWhen, Running, JobRecord
<1>3. YoungLost'
  BY DEF YoungLost, JobRecord
<1>4. TimesOld'
  BY DEF TimesOld, CorruptWhen, Running, JobRecord, SourceRecord, Time
<1>5. CorruptAnew'
  BY DEF CorruptAnew, CorruptWhen, Copying, StepInv, ModeInv, JobRecord
<1>6. CorruptDone'
  <2>1. t \notin sync.corrupt
    BY DEF TimesOld
  <2>2. \A u \in Time : u # t => src'[u] = src[u]
    BY DEF SourceRecord
  <2>3. sync.corrupt \subseteq Time
    BY DEF JobRecord
  <2> QED
    BY <2>1, <2>2, <2>3 DEF CorruptDone, Repaired
<1> QED
  BY <1>1, <1>2, <1>3, <1>4, <1>5, <1>6

(* The source removes a snapshot nobody reads. *)
LEMMA SourceRemovesHonest ==
  ASSUME ~ReuseTimes, HonestInd, WholeInd', NEW t \in Time, SourceRemoves(t)
  PROVE  HonestInd'
<1> USE SyncConstantAssumption DEF SourceRemoves, SourceOp, SourceUnchanged, SourceLocked, NoSource,
    SyncTypes, CompleteInd, WholeInd, HonestInd, RepairInv
<1>1. SeenInv'
  BY DEF SeenInv, StepInv, Copying, JobRecord
<1>2. CorruptWhen'
  BY DEF CorruptWhen, Running, JobRecord
<1>3. YoungLost'
  BY DEF YoungLost, JobRecord
<1>4. TimesOld'
  BY DEF TimesOld, CorruptWhen, Running, JobRecord, SourceRecord, Time
<1>5. CorruptAnew'
  BY DEF CorruptAnew, CorruptWhen, Copying, StepInv, ModeInv, JobRecord
<1>6. CorruptDone'
  BY DEF CorruptDone, CorruptWhen, YoungLost, Repaired, TargetInv, StepInv, Copying, SourceRecord,
     TargetRecord, JobRecord, Time
<1> QED
  BY <1>1, <1>2, <1>3, <1>4, <1>5, <1>6

(* The source records a verification in the manifest. *)
LEMMA SourceVerifiesHonest ==
  ASSUME ~ReuseTimes, HonestInd, WholeInd', NEW t \in Time, NEW v \in {"ok", "failed"}, SourceVerifies(t, v)
  PROVE  HonestInd'
<1> USE SyncConstantAssumption DEF SourceVerifies, SourceOp, SourceUnchanged, SyncTypes, CompleteInd,
    WholeInd, HonestInd, RepairInv
<1>1. SeenInv'
  BY DEF SeenInv, StepInv, Copying, JobRecord
<1>2. CorruptWhen'
  BY DEF CorruptWhen, Running, JobRecord
<1>3. YoungLost'
  BY DEF YoungLost, JobRecord
<1>4. TimesOld'
  BY DEF TimesOld, CorruptWhen, Running, JobRecord, SourceRecord, Time
<1>5. CorruptAnew'
  BY DEF CorruptAnew, CorruptWhen, Copying, StepInv, ModeInv, JobRecord
<1>6. CorruptDone'
  BY DEF CorruptDone, CorruptWhen, YoungLost, Repaired, TargetInv, StepInv, Copying, SourceRecord,
     TargetRecord, JobRecord, Time
<1> QED
  BY <1>1, <1>2, <1>3, <1>4, <1>5, <1>6

(* A backup is made to the target itself. *)
LEMMA TargetBackupHonest ==
  ASSUME ~ReuseTimes, HonestInd, WholeInd', NEW t \in Time, NEW a \in Archives, ~a.enc, TargetBackup(t, a.idx)
  PROVE  HonestInd'
<1> USE SyncConstantAssumption DEF TargetBackup, TargetOp, TargetUnchanged, SyncTypes, CompleteInd,
    WholeInd, HonestInd, RepairInv
<1>1. SeenInv'
  BY DEF SeenInv, StepInv, Copying, JobRecord
<1>2. CorruptWhen'
  BY DEF CorruptWhen, Running, JobRecord
<1>3. YoungLost'
  BY DEF YoungLost, JobRecord
<1>4. TimesOld'
  BY DEF TimesOld, CorruptWhen, Running, JobRecord, SourceRecord, Time
<1>5. CorruptAnew'
  BY DEF CorruptAnew, CorruptWhen, Copying, StepInv, ModeInv, JobRecord
<1>6. CorruptDone'
  BY DEF CorruptDone, CorruptWhen, YoungLost, Repaired, TargetInv, StepInv, Copying, SourceRecord,
     TargetRecord, JobRecord, Time
<1> QED
  BY <1>1, <1>2, <1>3, <1>4, <1>5, <1>6

(* The target removes a snapshot that is not locked. *)
LEMMA TargetPruneHonest ==
  ASSUME ~ReuseTimes, HonestInd, WholeInd', NEW t \in Time, TargetPrune(t)
  PROVE  HonestInd'
<1> USE SyncConstantAssumption DEF TargetPrune, TargetOp, TargetUnchanged, TargetLocked, TargetShared,
    NoTarget, SyncTypes, CompleteInd, WholeInd, HonestInd, RepairInv
<1>1. SeenInv'
  BY DEF SeenInv, StepInv, Copying, JobRecord
<1>2. CorruptWhen'
  BY DEF CorruptWhen, Running, JobRecord
<1>3. YoungLost'
  BY DEF YoungLost, JobRecord
<1>4. TimesOld'
  BY DEF TimesOld, CorruptWhen, Running, JobRecord, SourceRecord, Time
<1>5. CorruptAnew'
  BY DEF CorruptAnew, CorruptWhen, Copying, StepInv, ModeInv, JobRecord
<1>6. CorruptDone'
  BY DEF CorruptDone, CorruptWhen, YoungLost, Repaired, TargetInv, StepInv, Copying, SourceRecord,
     TargetRecord, JobRecord, Time
<1> QED
  BY <1>1, <1>2, <1>3, <1>4, <1>5, <1>6

(* A snapshot of the target is protected. *)
LEMMA TargetProtectHonest ==
  ASSUME ~ReuseTimes, HonestInd, WholeInd', NEW t \in Time, TargetProtect(t)
  PROVE  HonestInd'
<1> USE SyncConstantAssumption DEF TargetProtect, TargetOp, TargetUnchanged, SyncTypes, CompleteInd,
    WholeInd, HonestInd, RepairInv
<1>1. SeenInv'
  BY DEF SeenInv, StepInv, Copying, JobRecord
<1>2. CorruptWhen'
  BY DEF CorruptWhen, Running, JobRecord
<1>3. YoungLost'
  BY DEF YoungLost, JobRecord
<1>4. TimesOld'
  BY DEF TimesOld, CorruptWhen, Running, JobRecord, SourceRecord, Time
<1>5. CorruptAnew'
  BY DEF CorruptAnew, CorruptWhen, Copying, StepInv, ModeInv, JobRecord
<1>6. CorruptDone'
  BY DEF CorruptDone, CorruptWhen, YoungLost, Repaired, TargetInv, StepInv, Copying, SourceRecord,
     TargetRecord, JobRecord, Time
<1> QED
  BY <1>1, <1>2, <1>3, <1>4, <1>5, <1>6

(* A verification of the target renames a corrupt chunk. *)
LEMMA TargetVerifyHonest ==
  ASSUME ~ReuseTimes, HonestInd, WholeInd', NEW t \in Time, NEW d \in Digest, TargetVerify(t, d)
  PROVE  HonestInd'
<1> USE SyncConstantAssumption DEF TargetVerify, TargetOp, TargetLocked, SyncTypes, CompleteInd,
    WholeInd, HonestInd, RepairInv
<1>1. SeenInv'
  BY DEF SeenInv, StepInv, Copying, JobRecord
<1>2. CorruptWhen'
  BY DEF CorruptWhen, Running, JobRecord
<1>3. YoungLost'
  BY DEF YoungLost, JobRecord
<1>4. TimesOld'
  BY DEF TimesOld, CorruptWhen, Running, JobRecord, SourceRecord, Time
<1>5. CorruptAnew'
  BY DEF CorruptAnew, CorruptWhen, Copying, StepInv, ModeInv, JobRecord
<1>6. CorruptDone'
  BY DEF CorruptDone, CorruptWhen, YoungLost, Repaired, TargetInv, StepInv, Copying, SourceRecord,
     TargetRecord, JobRecord, Time
<1> QED
  BY <1>1, <1>2, <1>3, <1>4, <1>5, <1>6

(* A collection at the target takes what no index and no job counts on. *)
LEMMA TargetSweepsHonest ==
  ASSUME ~ReuseTimes, HonestInd, WholeInd', NEW d \in Digest, TargetSweeps(d)
  PROVE  HonestInd'
<1> USE SyncConstantAssumption DEF TargetSweeps, TargetUnchanged, SyncTypes, CompleteInd, WholeInd,
    HonestInd, RepairInv
<1>1. SeenInv'
  BY DEF SeenInv, StepInv, Copying, JobRecord
<1>2. CorruptWhen'
  BY DEF CorruptWhen, Running, JobRecord
<1>3. YoungLost'
  BY DEF YoungLost, JobRecord
<1>4. TimesOld'
  BY DEF TimesOld, CorruptWhen, Running, JobRecord, SourceRecord, Time
<1>5. CorruptAnew'
  BY DEF CorruptAnew, CorruptWhen, Copying, StepInv, ModeInv, JobRecord
<1>6. CorruptDone'
  <2>1. \A t \in Time : dst[t].file # NoMeta => d \notin dst[t].file
    BY DEF Referenced
  <2>2. sync.corrupt \subseteq Time
    BY DEF JobRecord
  <2> QED
    BY <2>1, <2>2 DEF CorruptDone, Repaired
<1> QED
  BY <1>1, <1>2, <1>3, <1>4, <1>5, <1>6

(* A pull job starts. *)
LEMMA StartPullHonest ==
  ASSUME ~ReuseTimes, HonestInd, WholeInd', NEW o \in Options, StartPull(o)
  PROVE  HonestInd'
<1> USE SyncConstantAssumption DEF StartPull, FirstStep, StartJob, Idle, Running, JobUnchanged, SyncTypes,
    CompleteInd, WholeInd, HonestInd, RepairInv
<1>a. /\ sync'.seen = {} /\ sync'.times = {} /\ sync'.corrupt = {} /\ sync'.young = {}
      /\ sync'.step \in {"group", "groups"} /\ (sync'.step = "group" => sync'.listed) /\ sync'.todo = {}
  OBVIOUS
<1> HIDE DEF StartPull, StartJob, Idle
<1>1. SeenInv'
  BY <1>a DEF SeenInv
<1>2. CorruptWhen'
  BY <1>a DEF CorruptWhen
<1>3. YoungLost'
  BY <1>a DEF YoungLost
<1>4. TimesOld'
  BY <1>a DEF TimesOld
<1>5. CorruptAnew'
  BY <1>a DEF CorruptAnew
<1>6. CorruptDone'
  BY <1>a DEF CorruptDone
<1> QED
  BY <1>1, <1>2, <1>3, <1>4, <1>5, <1>6

(* A push job starts. *)
LEMMA StartPushHonest ==
  ASSUME ~ReuseTimes, HonestInd, WholeInd', NEW o \in Options, StartPush(o)
  PROVE  HonestInd'
<1> USE SyncConstantAssumption DEF StartPush, FirstStep, StartJob, Idle, Running, JobUnchanged, SyncTypes,
    CompleteInd, WholeInd, HonestInd, RepairInv
<1>a. /\ sync'.seen = {} /\ sync'.times = {} /\ sync'.corrupt = {} /\ sync'.young = {}
      /\ sync'.step \in {"group", "groups"} /\ (sync'.step = "group" => sync'.listed) /\ sync'.todo = {}
  OBVIOUS
<1> HIDE DEF StartPush, StartJob, Idle
<1>1. SeenInv'
  BY <1>a DEF SeenInv
<1>2. CorruptWhen'
  BY <1>a DEF CorruptWhen
<1>3. YoungLost'
  BY <1>a DEF YoungLost
<1>4. TimesOld'
  BY <1>a DEF TimesOld
<1>5. CorruptAnew'
  BY <1>a DEF CorruptAnew
<1>6. CorruptDone'
  BY <1>a DEF CorruptDone
<1> QED
  BY <1>1, <1>2, <1>3, <1>4, <1>5, <1>6

(* The job lists the source. *)
LEMMA ListSourceHonest ==
  ASSUME ~ReuseTimes, HonestInd, WholeInd', ListSource
  PROVE  HonestInd'
<1>t. /\ sync \in JobRecord /\ SeenInv /\ CorruptWhen /\ YoungLost /\ TimesOld /\ CorruptAnew /\ CorruptDone
      /\ SourceInv /\ TargetInv /\ StepInv /\ ModeInv /\ dst \in [Time -> TargetRecord]
  BY DEF HonestInd, RepairInv, WholeInd, CompleteInd, SyncTypes
<1>a. /\ sync'.opt = sync.opt /\ sync'.listed = sync.listed /\ sync'.corrupt = sync.corrupt /\ sync'.young = sync.young
      /\ sync'.lost = sync.lost /\ sync'.failed = sync.failed
      /\ sync'.todo = sync.todo /\ sync'.cur = sync.cur /\ sync'.kept = sync.kept
      /\ sync.step = "group" /\ sync'.step = "select" /\ sync'.times = Listed
      /\ sync'.seen = {t \in Time : src[t].st = "done"}
  BY <1>t, ListSourceFields
<1>b. UNCHANGED <<src, newest, dst, chunks>>
  BY DEF ListSource, JobOnly, JobUnchanged
<1>c. sync.corrupt = {}
  BY <1>t, <1>a DEF CorruptWhen
<1>1. SeenInv'
  <2>1. ~sync.opt.verifiedOnly => Listed = {t \in Time : src[t].st = "done"}
    BY DEF Listed, Excluded
  <2> QED
    BY <1>t, <1>a, <2>1 DEF SeenInv
<1>2. CorruptWhen'
  BY <1>a, <1>c DEF CorruptWhen
<1>3. YoungLost'
  BY <1>t, <1>a, <1>b DEF YoungLost
<1>4. TimesOld'
  <2>1. \A t \in Listed : t \in Time /\ t <= newest /\ src[t].st # "running"
    BY <1>t DEF Listed, SourceInv
  <2> QED
    BY <1>a, <1>b, <1>c, <2>1 DEF TimesOld
<1>5. CorruptAnew'
  BY <1>a DEF CorruptAnew, Copying
<1>6. CorruptDone'
  BY <1>a, <1>c DEF CorruptDone
<1> QED
  BY <1>1, <1>2, <1>3, <1>4, <1>5, <1>6 DEF HonestInd, RepairInv

(* The job selects what to transfer. *)
LEMMA SelectHonest ==
  ASSUME ~ReuseTimes, HonestInd, WholeInd', Select
  PROVE  HonestInd'
<1> USE SyncConstantAssumption DEF Select, JobOnly, JobUnchanged, SyncTypes, CompleteInd, WholeInd,
    HonestInd, RepairInv
<1>a. CorruptTimes \subseteq sync.times /\ CorruptTimes \subseteq PullTodo
  BY DEF CorruptTimes, PullTodo
<1>b. \/ /\ sync'.lost = {} /\ sync'.corrupt = CorruptTimes /\ sync'.todo = PullTodo /\ sync'.times = sync.times
         /\ sync'.young = sync.young /\ sync'.step = "collect"
      \/ /\ sync'.lost = sync.lost /\ sync'.corrupt = sync.corrupt /\ sync'.times = sync.times
         /\ sync'.young = sync.young /\ sync.opt.op # "pull"
  BY DEF JobRecord
<1>c. UNCHANGED <<src, newest, chunks>> /\ sync.young = {} /\ sync.corrupt = {}
  BY DEF StepInv, CorruptWhen
<1>1. SeenInv'
  BY DEF SeenInv, StepInv, Copying, JobRecord
<1>2. CorruptWhen'
  BY DEF CorruptWhen, Running, JobRecord
<1>3. YoungLost'
  BY <1>b, <1>c DEF YoungLost
<1>4. TimesOld'
  <2> HIDE DEF Select
  <2>1. sync'.times \cup sync'.corrupt \subseteq sync.times
    BY <1>a, <1>b, <1>c
  <2> QED
    BY <1>c, <2>1 DEF TimesOld
<1>5. CorruptAnew'
  BY DEF CorruptAnew, CorruptWhen, Copying, StepInv, ModeInv, JobRecord
<1>6. CorruptDone'
  <2> HIDE DEF Select
  <2>1. sync'.corrupt = {} \/ sync'.corrupt \subseteq sync'.todo
    BY <1>a, <1>b, <1>c
  <2> QED
    BY <2>1 DEF CorruptDone
<1> QED
  BY <1>1, <1>2, <1>3, <1>4, <1>5, <1>6

(* A pull reads the chunks of the last snapshot; none is touched yet. *)
LEMMA CollectReusableHonest ==
  ASSUME ~ReuseTimes, HonestInd, WholeInd', CollectReusable
  PROVE  HonestInd'
<1>t. /\ sync \in JobRecord /\ SeenInv /\ CorruptWhen /\ YoungLost /\ TimesOld /\ CorruptAnew /\ CorruptDone
      /\ SourceInv /\ TargetInv /\ StepInv /\ ModeInv /\ dst \in [Time -> TargetRecord]
  BY DEF HonestInd, RepairInv, WholeInd, CompleteInd, SyncTypes
<1>a. /\ sync'.opt = sync.opt /\ sync'.listed = sync.listed /\ sync'.corrupt = sync.corrupt /\ sync'.young = sync.young
      /\ sync'.lost = sync.lost /\ sync'.failed = sync.failed
      /\ sync'.todo = sync.todo /\ sync'.cur = sync.cur /\ sync'.kept = sync.kept /\ sync'.seen = sync.seen
      /\ sync'.times = sync.times /\ sync.step = "collect" /\ sync'.step = "next"
  BY <1>t, CollectReusableFields
<1>b. UNCHANGED <<src, newest, dst, chunks>>
  BY DEF CollectReusable, JobOnly, JobUnchanged
<1>1. SeenInv'
  BY <1>t, <1>a DEF SeenInv
<1>2. CorruptWhen'
  BY <1>t, <1>a DEF CorruptWhen, Running
<1>3. YoungLost'
  BY <1>t, <1>a, <1>b DEF YoungLost
<1>4. TimesOld'
  BY <1>t, <1>a, <1>b DEF TimesOld
<1>5. CorruptAnew'
  BY <1>a DEF CorruptAnew, Copying
<1>6. CorruptDone'
  BY <1>t, <1>a, <1>b DEF CorruptDone, Repaired
<1> QED
  BY <1>1, <1>2, <1>3, <1>4, <1>5, <1>6 DEF HonestInd, RepairInv

(* A pull creates and locks the next snapshot. *)
LEMMA PullOpensHonest ==
  ASSUME ~ReuseTimes, HonestInd, WholeInd', PullOpens
  PROVE  HonestInd'
<1>t. /\ sync \in JobRecord /\ SeenInv /\ CorruptWhen /\ YoungLost /\ TimesOld /\ CorruptAnew /\ CorruptDone
      /\ SourceInv /\ TargetInv /\ StepInv /\ ModeInv /\ dst \in [Time -> TargetRecord]
  BY DEF HonestInd, RepairInv, WholeInd, CompleteInd, SyncTypes
<1>a. /\ sync'.opt = sync.opt /\ sync'.listed = sync.listed /\ sync'.corrupt = sync.corrupt /\ sync'.young = sync.young
      /\ sync'.lost = sync.lost /\ sync'.failed = sync.failed
      /\ sync'.seen = sync.seen /\ sync'.times = sync.times /\ sync.step = "next" /\ sync'.step = "manifest"
      /\ sync'.todo = sync.todo \ {MinTime(sync.todo)} /\ sync'.cur = MinTime(sync.todo)
  BY <1>t, PullOpensFields
<1>b. UNCHANGED <<src, newest, chunks>>
  BY DEF PullOpens, JobUnchanged
<1>1. SeenInv'
  BY <1>t, <1>a DEF SeenInv
<1>2. CorruptWhen'
  BY <1>t, <1>a DEF CorruptWhen, Running
<1>3. YoungLost'
  BY <1>t, <1>a, <1>b DEF YoungLost
<1>4. TimesOld'
  BY <1>t, <1>a, <1>b DEF TimesOld
<1>5. CorruptAnew'
  BY <1>a DEF CorruptAnew, Copying
<1>6. CorruptDone'
  <2>1. \A t \in Time : dst'[t].file = dst[t].file
    BY <1>t DEF PullOpens, TargetRecord
  <2>2. sync.corrupt \subseteq Time
    BY <1>t DEF JobRecord
  <2>3. sync.cur = 0 /\ 0 \notin Time
    BY <1>t, <1>a DEF StepInv, Time
  <2> QED
    BY <1>t, <1>a, <1>b, <2>1, <2>2, <2>3 DEF CorruptDone, Repaired
<1> QED
  BY <1>1, <1>2, <1>3, <1>4, <1>5, <1>6 DEF HonestInd, RepairInv

(* A pull leaves a snapshot out. *)
LEMMA PullSkipsHonest ==
  ASSUME ~ReuseTimes, HonestInd, WholeInd', PullSkips
  PROVE  HonestInd'
<1> USE SyncConstantAssumption DEF PullSkips, DropNew, Leave, NoTarget, JobUnchanged, SyncTypes,
    CompleteInd, WholeInd, HonestInd, RepairInv
<1>a. /\ sync'.opt = sync.opt /\ sync'.listed = sync.listed /\ sync'.seen = sync.seen /\ sync'.times = sync.times
      /\ sync'.corrupt = sync.corrupt /\ sync'.young = sync.young /\ sync'.lost = sync.lost /\ sync'.todo = sync.todo
      /\ sync'.failed = sync.failed /\ sync'.vanished = sync.vanished
      /\ sync'.step = "next" /\ sync'.kept = FALSE /\ sync'.cur = 0
  <2>1. sync \in JobRecord /\ sync' = Leave(sync)
    OBVIOUS
  <2> HIDE DEF Leave
  <2> QED
    BY ZenonT(60), <2>1, LeaveKeeps
<1>b. UNCHANGED <<src, newest, chunks>>
  OBVIOUS
<1>1. SeenInv'
  BY <1>a DEF SeenInv
<1>2. CorruptWhen'
  BY <1>a DEF CorruptWhen, Running
<1>3. YoungLost'
  BY <1>a, <1>b DEF YoungLost
<1>4. TimesOld'
  BY <1>a, <1>b DEF TimesOld
<1>5. CorruptAnew'
  BY <1>a DEF CorruptAnew, Copying
<1>6. CorruptDone'
  <2>1. src[sync.cur].st # "done" \/ sync.opt.verifiedOnly
    BY DEF PullOutcome, DecryptionKey, Excluded
  <2>2. \A t \in Time : dst'[t] = dst[t] \/ dst'[t].file = NoMeta
    BY DEF TargetRecord
  <2>3. sync.corrupt \subseteq Time
    BY DEF JobRecord
  <2> HIDE DEF PullSkips, DropNew, Leave
  <2> QED
    BY <1>a, <1>b, <2>1, <2>2, <2>3 DEF CorruptDone, Repaired
<1> QED
  BY <1>1, <1>2, <1>3, <1>4, <1>5, <1>6

(* A pull finds a snapshot unchanged. *)
LEMMA PullLeavesHonest ==
  ASSUME ~ReuseTimes, HonestInd, WholeInd', PullLeaves
  PROVE  HonestInd'
<1> USE SyncConstantAssumption DEF PullLeaves, Leave, JobOnly, JobUnchanged, SyncTypes, CompleteInd,
    WholeInd, HonestInd, RepairInv
<1>a. /\ sync'.opt = sync.opt /\ sync'.listed = sync.listed /\ sync'.seen = sync.seen /\ sync'.times = sync.times
      /\ sync'.corrupt = sync.corrupt /\ sync'.young = sync.young /\ sync'.lost = sync.lost /\ sync'.todo = sync.todo
      /\ sync'.failed = sync.failed /\ sync'.vanished = sync.vanished
      /\ sync'.step = "next" /\ sync'.kept = FALSE /\ sync'.cur = 0
  <2>1. sync \in JobRecord /\ sync' = Leave(sync)
    OBVIOUS
  <2> HIDE DEF Leave
  <2> QED
    BY ZenonT(60), <2>1, LeaveKeeps
<1>b. UNCHANGED <<src, newest, chunks>>
  OBVIOUS
<1>1. SeenInv'
  BY <1>a DEF SeenInv
<1>2. CorruptWhen'
  BY <1>a DEF CorruptWhen, Running
<1>3. YoungLost'
  BY <1>a, <1>b DEF YoungLost
<1>4. TimesOld'
  BY <1>a, <1>b DEF TimesOld
<1>5. CorruptAnew'
  BY <1>a DEF CorruptAnew, Copying
<1>6. CorruptDone'
  BY <1>a, <1>b DEF CorruptDone, Repaired
<1> QED
  BY <1>1, <1>2, <1>3, <1>4, <1>5, <1>6

(* A pull begins with the index, or keeps the one that is there. *)
LEMMA PullStartsHonest ==
  ASSUME ~ReuseTimes, HonestInd, WholeInd', NEW o \in {"regular", "decrypt"}, NEW k \in BOOLEAN,
      PullStarts(o, k)
  PROVE  HonestInd'
<1> USE SyncConstantAssumption DEF PullStarts, JobOnly, JobUnchanged, SyncTypes, CompleteInd, WholeInd,
    HonestInd, RepairInv
<1> DEFINE m == src[sync.cur].meta
<1>0. /\ sync.opt.op = "pull" /\ sync.step = "manifest"
      /\ k => sync.cur \notin sync.corrupt
      /\ sync' = [sync EXCEPT !.meta = m, !.mode = o, !.kept = k,
                              !.step = IF k THEN "commit" ELSE "chunks",
                              !.work = IF k THEN {} ELSE m.idx]
      /\ UNCHANGED <<src, newest, dst, chunks>>
  OBVIOUS
<1> HIDE DEF PullStarts, m
<1>a. /\ sync'.opt = sync.opt /\ sync'.listed = sync.listed /\ sync'.seen = sync.seen /\ sync'.times = sync.times
      /\ sync'.corrupt = sync.corrupt /\ sync'.young = sync.young /\ sync'.lost = sync.lost /\ sync'.todo = sync.todo
      /\ sync'.failed = sync.failed /\ sync'.vanished = sync.vanished /\ sync'.cur = sync.cur
      /\ sync'.step \in {"chunks", "commit"} /\ sync'.kept = k
  BY <1>0 DEF JobRecord
<1>1. SeenInv'
  BY <1>0, <1>a DEF SeenInv
<1>2. CorruptWhen'
  BY <1>0, <1>a DEF CorruptWhen, Running
<1>3. YoungLost'
  BY <1>0, <1>a DEF YoungLost
<1>4. TimesOld'
  BY <1>0, <1>a DEF TimesOld
<1>5. CorruptAnew'
  BY <1>0, <1>a DEF CorruptAnew
<1>6. CorruptDone'
  BY <1>0, <1>a DEF CorruptDone, Repaired
<1> QED
  BY <1>1, <1>2, <1>3, <1>4, <1>5, <1>6

(* A push leaves a snapshot out. *)
LEMMA PushSkipsHonest ==
  ASSUME ~ReuseTimes, HonestInd, WholeInd', PushSkips
  PROVE  HonestInd'
<1> USE SyncConstantAssumption DEF PushSkips, JobOnly, JobUnchanged, SyncTypes, CompleteInd, WholeInd,
    HonestInd, RepairInv
<1>1. SeenInv'
  BY DEF SeenInv, StepInv, Copying, JobRecord
<1>2. CorruptWhen'
  BY DEF CorruptWhen, Running, JobRecord
<1>3. YoungLost'
  BY DEF YoungLost, JobRecord
<1>4. TimesOld'
  BY DEF TimesOld, CorruptWhen, Running, JobRecord, SourceRecord, Time
<1>5. CorruptAnew'
  BY DEF CorruptAnew, CorruptWhen, Copying, StepInv, ModeInv, JobRecord
<1>6. CorruptDone'
  BY DEF CorruptDone, CorruptWhen, YoungLost, Repaired, TargetInv, StepInv, Copying, SourceRecord,
     TargetRecord, JobRecord, Time
<1> QED
  BY <1>1, <1>2, <1>3, <1>4, <1>5, <1>6

(* A push opens a session; what is known is in its base. *)
LEMMA PushOpensHonest ==
  ASSUME ~ReuseTimes, HonestInd, WholeInd', PushOpens
  PROVE  HonestInd'
<1>t. /\ sync \in JobRecord /\ SeenInv /\ CorruptWhen /\ YoungLost /\ TimesOld /\ CorruptAnew /\ CorruptDone
      /\ SourceInv /\ TargetInv /\ StepInv /\ ModeInv /\ dst \in [Time -> TargetRecord]
  BY DEF HonestInd, RepairInv, WholeInd, CompleteInd, SyncTypes
<1>a. /\ sync'.opt = sync.opt /\ sync'.listed = sync.listed /\ sync'.corrupt = sync.corrupt /\ sync'.young = sync.young
      /\ sync'.lost = sync.lost /\ sync'.failed = sync.failed
      /\ sync'.kept = sync.kept /\ sync'.seen = sync.seen /\ sync'.times = sync.times
      /\ sync.opt.op = "push" /\ sync.step = "next" /\ sync'.step = "chunks"
  BY <1>t, PushOpensFields
<1>b. UNCHANGED <<src, newest, chunks>>
  BY DEF PushOpens, JobUnchanged
<1>c. sync.corrupt = {}
  BY <1>t, <1>a DEF CorruptWhen
<1>1. SeenInv'
  BY <1>t, <1>a DEF SeenInv
<1>2. CorruptWhen'
  BY <1>a, <1>c DEF CorruptWhen
<1>3. YoungLost'
  BY <1>t, <1>a, <1>b DEF YoungLost
<1>4. TimesOld'
  BY <1>t, <1>a, <1>b DEF TimesOld
<1>5. CorruptAnew'
  BY <1>a, <1>c DEF CorruptAnew
<1>6. CorruptDone'
  BY <1>a, <1>c DEF CorruptDone
<1> QED
  BY <1>1, <1>2, <1>3, <1>4, <1>5, <1>6 DEF HonestInd, RepairInv

(* A pull marks a chunk, and touches it or sends for it. *)
LEMMA PullVisitsHonest ==
  ASSUME ~ReuseTimes, HonestInd, WholeInd', NEW d \in Digest, PullVisits(d)
  PROVE  HonestInd'
<1>t. /\ sync \in JobRecord /\ SeenInv /\ CorruptWhen /\ YoungLost /\ TimesOld /\ CorruptAnew /\ CorruptDone
      /\ SourceInv /\ TargetInv /\ StepInv /\ ModeInv /\ dst \in [Time -> TargetRecord]
  BY DEF HonestInd, RepairInv, WholeInd, CompleteInd, SyncTypes
<1>a. /\ sync'.opt = sync.opt /\ sync'.listed = sync.listed /\ sync'.corrupt = sync.corrupt
      /\ sync'.lost = sync.lost /\ sync'.failed = sync.failed /\ sync'.vanished = sync.vanished
      /\ sync'.todo = sync.todo /\ sync'.cur = sync.cur /\ sync'.kept = sync.kept /\ sync'.seen = sync.seen
      /\ sync'.times = sync.times /\ sync'.step = sync.step /\ sync'.young \subseteq sync.young \cup chunks
  BY <1>t, PullVisitsFields
<1>b. UNCHANGED <<src, newest, dst, chunks>>
  BY DEF PullVisits, JobOnly, JobUnchanged
<1>1. SeenInv'
  BY <1>t, <1>a DEF SeenInv
<1>2. CorruptWhen'
  BY <1>t, <1>a DEF CorruptWhen, Running
<1>3. YoungLost'
  BY <1>t, <1>a, <1>b DEF YoungLost
<1>4. TimesOld'
  BY <1>t, <1>a, <1>b DEF TimesOld
<1>5. CorruptAnew'
  BY <1>t, <1>a DEF CorruptAnew, Copying
<1>6. CorruptDone'
  BY <1>t, <1>a, <1>b DEF CorruptDone, Repaired
<1> QED
  BY <1>1, <1>2, <1>3, <1>4, <1>5, <1>6 DEF HonestInd, RepairInv

(* A pull that decrypts sends for a chunk, or maps it. *)
LEMMA DecryptVisitsHonest ==
  ASSUME ~ReuseTimes, HonestInd, WholeInd', NEW d \in Digest, DecryptVisits(d)
  PROVE  HonestInd'
<1> USE SyncConstantAssumption DEF DecryptVisits, JobOnly, JobUnchanged, SyncTypes, CompleteInd,
    WholeInd, HonestInd, RepairInv
<1>1. SeenInv'
  BY DEF SeenInv, StepInv, Copying, JobRecord
<1>2. CorruptWhen'
  BY DEF CorruptWhen, Running, JobRecord
<1>3. YoungLost'
  BY DEF YoungLost, JobRecord
<1>4. TimesOld'
  BY SMTT(40) DEF TimesOld, CorruptWhen, Running, JobRecord, SourceRecord, Time
<1>5. CorruptAnew'
  BY SMTT(40) DEF CorruptAnew, CorruptWhen, Copying, StepInv, ModeInv, JobRecord
<1>6. CorruptDone'
  BY DEF CorruptDone, CorruptWhen, YoungLost, Repaired, TargetInv, StepInv, Copying, SourceRecord,
     TargetRecord, JobRecord, Time
<1> QED
  BY SMTT(40), <1>1, <1>2, <1>3, <1>4, <1>5, <1>6

(* A push takes a chunk as known, or sends it. *)
LEMMA PushVisitsHonest ==
  ASSUME ~ReuseTimes, HonestInd, WholeInd', NEW d \in Digest, PushVisits(d)
  PROVE  HonestInd'
<1>t. sync \in JobRecord /\ SeenInv /\ CorruptWhen /\ YoungLost /\ TimesOld /\ CorruptAnew /\ CorruptDone
  BY DEF HonestInd, RepairInv, WholeInd, CompleteInd, SyncTypes
<1>a. /\ sync'.opt = sync.opt /\ sync'.listed = sync.listed /\ sync'.seen = sync.seen /\ sync'.times = sync.times
      /\ sync'.corrupt = sync.corrupt /\ sync'.young = sync.young /\ sync'.lost = sync.lost /\ sync'.todo = sync.todo
      /\ sync'.failed = sync.failed /\ sync'.vanished = sync.vanished /\ sync'.cur = sync.cur /\ sync'.kept = sync.kept
      /\ sync'.step = sync.step /\ sync'.meta = sync.meta /\ sync'.mode = sync.mode
  BY <1>t DEF PushVisits, JobRecord
<1>b. UNCHANGED <<src, newest, dst, chunks>>
  BY DEF PushVisits, JobOnly, JobUnchanged
<1>1. SeenInv'
  BY <1>t, <1>a, <1>b DEF SeenInv, Copying
<1>2. CorruptWhen'
  BY <1>t, <1>a, <1>b DEF CorruptWhen, Running
<1>3. YoungLost'
  BY <1>t, <1>a, <1>b DEF YoungLost
<1>4. TimesOld'
  BY <1>t, <1>a, <1>b DEF TimesOld
<1>5. CorruptAnew'
  BY <1>t, <1>a, <1>b DEF CorruptAnew, Copying
<1>6. CorruptDone'
  BY <1>t, <1>a, <1>b DEF CorruptDone, Repaired
<1> QED
  BY <1>1, <1>2, <1>3, <1>4, <1>5, <1>6 DEF HonestInd, RepairInv

(* A chunk is stored. *)
LEMMA ChunkArrivesHonest ==
  ASSUME ~ReuseTimes, HonestInd, WholeInd', NEW d \in Digest, ChunkArrives(d)
  PROVE  HonestInd'
<1> USE SyncConstantAssumption DEF ChunkArrives, JobUnchanged, SyncTypes, CompleteInd, WholeInd,
    HonestInd, RepairInv
<1>1. SeenInv'
  BY DEF SeenInv, StepInv, Copying, JobRecord
<1>2. CorruptWhen'
  BY DEF CorruptWhen, Running, JobRecord
<1>3. YoungLost'
  BY DEF YoungLost, JobRecord
<1>4. TimesOld'
  BY DEF TimesOld, CorruptWhen, Running, JobRecord, SourceRecord, Time
<1>5. CorruptAnew'
  BY DEF CorruptAnew, CorruptWhen, Copying, StepInv, ModeInv, JobRecord
<1>6. CorruptDone'
  BY DEF CorruptDone, CorruptWhen, YoungLost, Repaired, TargetInv, StepInv, Copying, SourceRecord,
     TargetRecord, JobRecord, Time
<1> QED
  BY <1>1, <1>2, <1>3, <1>4, <1>5, <1>6

(* A pull renames the index. *)
LEMMA PullIndexDoneHonest ==
  ASSUME ~ReuseTimes, HonestInd, WholeInd', PullIndexDone
  PROVE  HonestInd'
<1> USE SyncConstantAssumption DEF PullIndexDone, IndexDone, JobUnchanged, SyncTypes, CompleteInd,
    WholeInd, HonestInd, RepairInv
<1>1. SeenInv'
  BY DEF SeenInv, StepInv, Copying, JobRecord
<1>2. CorruptWhen'
  BY DEF CorruptWhen, Running, JobRecord
<1>3. YoungLost'
  BY DEF YoungLost, JobRecord
<1>4. TimesOld'
  BY DEF TimesOld, CorruptWhen, Running, JobRecord, SourceRecord, Time
<1>5. CorruptAnew'
  BY DEF CorruptAnew, CorruptWhen, Copying, StepInv, ModeInv, JobRecord
<1>6. CorruptDone'
  BY DEF CorruptDone, CorruptWhen, YoungLost, Repaired, TargetInv, StepInv, Copying, SourceRecord,
     TargetRecord, JobRecord, Time
<1> QED
  BY <1>1, <1>2, <1>3, <1>4, <1>5, <1>6

(* A push closes the index. *)
LEMMA PushIndexDoneHonest ==
  ASSUME ~ReuseTimes, HonestInd, WholeInd', PushIndexDone
  PROVE  HonestInd'
<1> USE SyncConstantAssumption DEF PushIndexDone, IndexDone, JobUnchanged, SyncTypes, CompleteInd,
    WholeInd, HonestInd, RepairInv
<1>1. SeenInv'
  BY DEF SeenInv, StepInv, Copying, JobRecord
<1>2. CorruptWhen'
  BY DEF CorruptWhen, Running, JobRecord
<1>3. YoungLost'
  BY DEF YoungLost, JobRecord
<1>4. TimesOld'
  BY DEF TimesOld, CorruptWhen, Running, JobRecord, SourceRecord, Time
<1>5. CorruptAnew'
  BY DEF CorruptAnew, CorruptWhen, Copying, StepInv, ModeInv, JobRecord
<1>6. CorruptDone'
  BY DEF CorruptDone, CorruptWhen, YoungLost, Repaired, TargetInv, StepInv, Copying, SourceRecord,
     TargetRecord, JobRecord, Time
<1> QED
  BY <1>1, <1>2, <1>3, <1>4, <1>5, <1>6

(* A pull renames the manifest. *)
LEMMA PullCommitsHonest ==
  ASSUME ~ReuseTimes, HonestInd, WholeInd', PullCommits
  PROVE  HonestInd'
<1> USE SyncConstantAssumption DEF PullCommits, Commits, Leave, JobUnchanged, SyncTypes, CompleteInd,
    WholeInd, HonestInd, RepairInv
<1>a. /\ sync'.opt = sync.opt /\ sync'.listed = sync.listed /\ sync'.seen = sync.seen /\ sync'.times = sync.times
      /\ sync'.corrupt = sync.corrupt /\ sync'.young = sync.young /\ sync'.lost = sync.lost /\ sync'.todo = sync.todo
      /\ sync'.failed = sync.failed /\ sync'.vanished = sync.vanished
      /\ sync'.step = "next" /\ sync'.kept = FALSE /\ sync'.cur = 0
  <2>1. sync \in JobRecord /\ sync' = Leave(sync)
    OBVIOUS
  <2> HIDE DEF Leave
  <2> QED
    BY ZenonT(60), <2>1, LeaveKeeps
<1>b. UNCHANGED <<src, newest, chunks>>
  OBVIOUS
<1>1. SeenInv'
  BY <1>a DEF SeenInv
<1>2. CorruptWhen'
  BY <1>a DEF CorruptWhen, Running
<1>3. YoungLost'
  BY <1>a, <1>b DEF YoungLost
<1>4. TimesOld'
  BY <1>a, <1>b DEF TimesOld
<1>5. CorruptAnew'
  BY <1>a DEF CorruptAnew, Copying
<1>6. CorruptDone'
  <2>1. \A t \in Time : dst'[t].file = dst[t].file
    BY DEF TargetRecord
  <2>2. sync.corrupt \subseteq Time
    BY DEF JobRecord
  <2>3. sync.cur \in sync.corrupt => Repaired(sync.cur)
    <3> SUFFICES ASSUME sync.cur \in sync.corrupt, NEW x \in dst[sync.cur].file, dst[sync.cur].file # NoMeta
                 PROVE  x \in chunks \cup sync.lost
      BY DEF Repaired
    <3>1. ~sync.kept /\ dst[sync.cur].file = sync.out
      BY DEF CorruptAnew, ModeInv, Copying
    <3>2. sync.fetching = {} /\ sync.base = 0
      BY DEF StepInv
    <3>3. x \in sync.young
      BY <3>1, <3>2 DEF OutInv, Safe, InBase
    <3> QED
      BY <3>3 DEF YoungLost
  <2> HIDE DEF PullCommits, Commits, Leave
  <2> QED
    BY <1>a, <1>b, <2>1, <2>2, <2>3 DEF CorruptDone, Repaired
<1> QED
  BY <1>1, <1>2, <1>3, <1>4, <1>5, <1>6

(* A push finishes its session. *)
LEMMA PushCommitsHonest ==
  ASSUME ~ReuseTimes, HonestInd, WholeInd', PushCommits
  PROVE  HonestInd'
<1> USE SyncConstantAssumption DEF PushCommits, Commits, Leave, JobUnchanged, SyncTypes, CompleteInd,
    WholeInd, HonestInd, RepairInv
<1>a. /\ sync'.opt = sync.opt /\ sync'.listed = sync.listed /\ sync'.seen = sync.seen /\ sync'.times = sync.times
      /\ sync'.corrupt = sync.corrupt /\ sync'.young = sync.young /\ sync'.lost = sync.lost /\ sync'.todo = sync.todo
      /\ sync'.failed = sync.failed /\ sync'.vanished = sync.vanished
      /\ sync'.step = "next" /\ sync'.kept = FALSE /\ sync'.cur = 0
  <2>1. sync \in JobRecord /\ sync' = Leave(sync)
    OBVIOUS
  <2> HIDE DEF Leave
  <2> QED
    BY ZenonT(60), <2>1, LeaveKeeps
<1>b. UNCHANGED <<src, newest, chunks>>
  OBVIOUS
<1>1. SeenInv'
  BY <1>a DEF SeenInv
<1>2. CorruptWhen'
  BY <1>a DEF CorruptWhen, Running
<1>3. YoungLost'
  BY <1>a, <1>b DEF YoungLost
<1>4. TimesOld'
  BY <1>a, <1>b DEF TimesOld
<1>5. CorruptAnew'
  BY <1>a DEF CorruptAnew, Copying
<1>6. CorruptDone'
  <2>1. sync'.corrupt = {}
    BY <1>a DEF CorruptWhen
  <2> QED
    BY <2>1 DEF CorruptDone
<1> QED
  BY <1>1, <1>2, <1>3, <1>4, <1>5, <1>6

(* A pull looks for what has vanished. *)
LEMMA PullListsVanishedHonest ==
  ASSUME ~ReuseTimes, HonestInd, WholeInd', PullListsVanished
  PROVE  HonestInd'
<1>t. /\ sync \in JobRecord /\ SeenInv /\ CorruptWhen /\ YoungLost /\ TimesOld /\ CorruptAnew /\ CorruptDone
      /\ SourceInv /\ TargetInv /\ StepInv /\ ModeInv /\ dst \in [Time -> TargetRecord]
  BY DEF HonestInd, RepairInv, WholeInd, CompleteInd, SyncTypes
<1>a. /\ sync'.opt = sync.opt /\ sync'.listed = sync.listed /\ sync'.corrupt = sync.corrupt /\ sync'.young = sync.young
      /\ sync'.lost = sync.lost /\ sync'.failed = sync.failed
      /\ sync'.todo = sync.todo /\ sync'.cur = sync.cur /\ sync'.kept = sync.kept /\ sync'.seen = sync.seen
      /\ sync'.times = sync.times /\ sync.step = "next" /\ sync'.step \in {"forget", "groups"} /\ sync.todo = {}
      /\ sync'.step = "forget" => sync'.vanished \cap sync.times = {}
  BY <1>t, ListVanishedFields DEF PullListsVanished
<1>b. UNCHANGED <<src, newest, dst, chunks>>
  BY DEF PullListsVanished, ListVanished, JobOnly, JobUnchanged
<1>1. SeenInv'
  BY <1>t, <1>a DEF SeenInv
<1>2. CorruptWhen'
  BY <1>t, <1>a DEF CorruptWhen, Running
<1>3. YoungLost'
  BY <1>t, <1>a, <1>b DEF YoungLost
<1>4. TimesOld'
  BY <1>t, <1>a, <1>b DEF TimesOld
<1>5. CorruptAnew'
  BY <1>a DEF CorruptAnew, Copying
<1>6. CorruptDone'
  BY <1>t, <1>a, <1>b DEF CorruptDone, Repaired
<1> QED
  BY <1>1, <1>2, <1>3, <1>4, <1>5, <1>6 DEF HonestInd, RepairInv

(* A push looks for what has vanished. *)
LEMMA PushListsVanishedHonest ==
  ASSUME ~ReuseTimes, HonestInd, WholeInd', PushListsVanished
  PROVE  HonestInd'
<1> USE SyncConstantAssumption DEF PushListsVanished, ListVanished, JobOnly, JobUnchanged, SyncTypes,
    CompleteInd, WholeInd, HonestInd, RepairInv
<1>1. SeenInv'
  BY DEF SeenInv, StepInv, Copying, JobRecord
<1>2. CorruptWhen'
  BY DEF CorruptWhen, Running, JobRecord
<1>3. YoungLost'
  BY DEF YoungLost, JobRecord
<1>4. TimesOld'
  BY SMTT(40) DEF TimesOld, CorruptWhen, Running, JobRecord, SourceRecord, Time
<1>5. CorruptAnew'
  BY SMTT(40) DEF CorruptAnew, CorruptWhen, Copying, StepInv, ModeInv, JobRecord
<1>6. CorruptDone'
  BY DEF CorruptDone, CorruptWhen, YoungLost, Repaired, TargetInv, StepInv, Copying, SourceRecord,
     TargetRecord, JobRecord, Time
<1> QED
  BY <1>1, <1>2, <1>3, <1>4, <1>5, <1>6

(* What has vanished is gone. *)
LEMMA ForgottenHonest ==
  ASSUME ~ReuseTimes, HonestInd, WholeInd', Forgotten
  PROVE  HonestInd'
<1> USE SyncConstantAssumption DEF Forgotten, JobOnly, JobUnchanged, SyncTypes, CompleteInd, WholeInd,
    HonestInd, RepairInv
<1>1. SeenInv'
  BY DEF SeenInv, StepInv, Copying, JobRecord
<1>2. CorruptWhen'
  BY DEF CorruptWhen, Running, JobRecord
<1>3. YoungLost'
  BY DEF YoungLost, JobRecord
<1>4. TimesOld'
  BY DEF TimesOld, CorruptWhen, Running, JobRecord, SourceRecord, Time
<1>5. CorruptAnew'
  BY DEF CorruptAnew, CorruptWhen, Copying, StepInv, ModeInv, JobRecord
<1>6. CorruptDone'
  BY DEF CorruptDone, CorruptWhen, YoungLost, Repaired, TargetInv, StepInv, Copying, SourceRecord,
     TargetRecord, JobRecord, Time
<1> QED
  BY <1>1, <1>2, <1>3, <1>4, <1>5, <1>6

(* The group is given up. *)
LEMMA SyncFailsHonest ==
  ASSUME ~ReuseTimes, HonestInd, WholeInd', SyncFails
  PROVE  HonestInd'
<1> USE SyncConstantAssumption DEF SyncFails, DropNew, Leave, NoTarget, Running, JobUnchanged, SyncTypes,
    CompleteInd, WholeInd, HonestInd, RepairInv
<1>a. /\ sync'.opt = sync.opt /\ sync'.listed = sync.listed /\ sync'.seen = sync.seen /\ sync'.times = sync.times
      /\ sync'.corrupt = sync.corrupt /\ sync'.young = sync.young /\ sync'.lost = sync.lost /\ sync'.vanished = sync.vanished
      /\ sync'.step = "groups" /\ sync'.failed = TRUE /\ sync'.kept = FALSE /\ sync'.todo = {}
  <2>1. sync \in JobRecord /\ sync' = [Leave(sync) EXCEPT !.step = "groups", !.failed = TRUE, !.todo = {}]
    OBVIOUS
  <2>2. Leave(sync) \in JobRecord
    BY LeaveType
  <2> HIDE DEF Leave, SyncFails
  <2>3. sync'.opt = Leave(sync).opt /\ sync'.listed = Leave(sync).listed /\ sync'.seen = Leave(sync).seen
    BY <2>1, <2>2 DEF JobRecord
  <2>4. sync'.times = Leave(sync).times /\ sync'.corrupt = Leave(sync).corrupt /\ sync'.young = Leave(sync).young
    BY <2>1, <2>2 DEF JobRecord
  <2>5. sync'.lost = Leave(sync).lost /\ sync'.vanished = Leave(sync).vanished /\ sync'.kept = Leave(sync).kept
    BY <2>1, <2>2 DEF JobRecord
  <2>6. sync'.step = "groups" /\ sync'.failed = TRUE /\ sync'.todo = {}
    BY <2>1, <2>2 DEF JobRecord
  <2> QED
    BY <2>1, <2>3, <2>4, <2>5, <2>6, LeaveKeeps
<1>b. UNCHANGED <<src, newest, chunks>>
  OBVIOUS
<1> HIDE DEF SyncFails, Leave, DropNew
<1>1. SeenInv'
  BY <1>a DEF SeenInv
<1>2. CorruptWhen'
  BY <1>a DEF CorruptWhen, Running
<1>3. YoungLost'
  BY <1>a, <1>b DEF YoungLost
<1>4. TimesOld'
  BY <1>a, <1>b DEF TimesOld
<1>5. CorruptAnew'
  BY <1>a DEF CorruptAnew, Copying
<1>6. CorruptDone'
  BY <1>a DEF CorruptDone
<1> QED
  BY <1>1, <1>2, <1>3, <1>4, <1>5, <1>6

(* The job ends. *)
LEMMA SyncEndsHonest ==
  ASSUME ~ReuseTimes, HonestInd, WholeInd', SyncEnds
  PROVE  HonestInd'
<1> USE SyncConstantAssumption DEF SyncEnds, Idle, NoTarget, JobUnchanged, SyncTypes, CompleteInd,
    WholeInd, HonestInd, RepairInv
<1>1. SeenInv'
  BY DEF SeenInv, StepInv, Copying, JobRecord
<1>2. CorruptWhen'
  BY DEF CorruptWhen, Running, JobRecord
<1>3. YoungLost'
  BY DEF YoungLost, JobRecord
<1>4. TimesOld'
  BY DEF TimesOld, CorruptWhen, Running, JobRecord, SourceRecord, Time
<1>5. CorruptAnew'
  BY SMTT(40) DEF CorruptAnew, CorruptWhen, Copying, StepInv, ModeInv, JobRecord
<1>6. CorruptDone'
  BY DEF CorruptDone, CorruptWhen, YoungLost, Repaired, TargetInv, StepInv, Copying, SourceRecord,
     TargetRecord, JobRecord, Time
<1> QED
  BY <1>1, <1>2, <1>3, <1>4, <1>5, <1>6

(* The process dies. *)
LEMMA SyncDiesHonest ==
  ASSUME ~ReuseTimes, HonestInd, WholeInd', SyncDies
  PROVE  HonestInd'
<1> USE SyncConstantAssumption DEF SyncDies, Idle, NoTarget, Running, JobUnchanged, SyncTypes,
    CompleteInd, WholeInd, HonestInd, RepairInv
<1>1. SeenInv'
  BY DEF SeenInv, StepInv, Copying, JobRecord
<1>2. CorruptWhen'
  BY DEF CorruptWhen, Running, JobRecord
<1>3. YoungLost'
  BY DEF YoungLost, JobRecord
<1>4. TimesOld'
  BY SMTT(40) DEF TimesOld, CorruptWhen, Running, JobRecord, SourceRecord, Time
<1>5. CorruptAnew'
  BY SMTT(40) DEF CorruptAnew, CorruptWhen, Copying, StepInv, ModeInv, JobRecord
<1>6. CorruptDone'
  BY DEF CorruptDone, CorruptWhen, YoungLost, Repaired, TargetInv, StepInv, Copying, SourceRecord,
     TargetRecord, JobRecord, Time
<1> QED
  BY SMTT(40), <1>1, <1>2, <1>3, <1>4, <1>5, <1>6

(* A snapshot that has vanished is removed. *)
LEMMA ForgetHonest ==
  ASSUME ~ReuseTimes, HonestInd, WholeInd', NEW t \in Time, Forget(t)
  PROVE  HonestInd'
<1> USE SyncConstantAssumption DEF Forget, NoTarget, JobUnchanged, SyncTypes, CompleteInd, WholeInd,
    HonestInd, RepairInv
<1>1. SeenInv'
  BY DEF SeenInv, StepInv, Copying, JobRecord
<1>2. CorruptWhen'
  BY DEF CorruptWhen, Running, JobRecord
<1>3. YoungLost'
  BY DEF YoungLost, JobRecord
<1>4. TimesOld'
  BY SMTT(40) DEF TimesOld, CorruptWhen, Running, JobRecord, SourceRecord, Time
<1>5. CorruptAnew'
  BY SMTT(40) DEF CorruptAnew, CorruptWhen, Copying, StepInv, ModeInv, JobRecord
<1>6. CorruptDone'
  BY DEF CorruptDone, CorruptWhen, YoungLost, Repaired, TargetInv, StepInv, Copying, SourceRecord,
     TargetRecord, JobRecord, Time
<1> QED
  BY SMTT(40), <1>1, <1>2, <1>3, <1>4, <1>5, <1>6

(* The invariant holds at first. *)
LEMMA InitHonest == ASSUME SyncInit PROVE HonestInd
<1>1. SeenInv /\ RepairInv
  BY DEF SyncInit, Idle, SeenInv, RepairInv, CorruptWhen, YoungLost, TimesOld, CorruptAnew, CorruptDone
<1> QED
  BY <1>1, InitWhole DEF HonestInd

(* Every step keeps the invariant. *)
LEMMA NextHonest ==
  ASSUME ~ReuseTimes, HonestInd, WholeInd', [SyncNext]_syncVars
  PROVE  HonestInd'
<1>0. CompleteInd
  BY DEF WholeInd, HonestInd
<1>1. CASE \E t \in Time : SourceStarts(t)
  BY <1>1, SourceStartsHonest
<1>2. CASE \E t \in Time, a \in Archives : SourceFinishes(t, a)
  BY <1>2, SourceFinishesHonest
<1>3. CASE \E t \in Time : SourceRemoves(t)
  BY <1>3, SourceRemovesHonest
<1>4. CASE \E t \in Time, v \in {"ok", "failed"} : SourceVerifies(t, v)
  BY <1>4, SourceVerifiesHonest
<1>5. CASE \E t \in Time, a \in Archives : ~a.enc /\ TargetBackup(t, a.idx)
  BY <1>5, TargetBackupHonest
<1>6. CASE \E t \in Time : TargetPrune(t)
  BY <1>6, TargetPruneHonest
<1>7. CASE \E t \in Time : TargetProtect(t)
  BY <1>7, TargetProtectHonest
<1>8. CASE \E t \in Time, d \in Digest : TargetVerify(t, d)
  BY <1>8, TargetVerifyHonest
<1>9. CASE \E d \in Digest : TargetSweeps(d)
  BY <1>9, TargetSweepsHonest
<1>10. CASE \E o \in Options : StartPull(o)
  BY <1>10, StartPullHonest
<1>11. CASE \E o \in Options : StartPush(o)
  BY <1>11, StartPushHonest
<1>12. CASE ListSource
  BY <1>12, ListSourceHonest
<1>13. CASE Select
  BY <1>13, SelectHonest
<1>14. CASE CollectReusable
  BY <1>14, CollectReusableHonest
<1>15. CASE PullOpens
  BY <1>15, PullOpensHonest
<1>16. CASE PullSkips
  BY <1>16, PullSkipsHonest
<1>17. CASE PullLoads
  BY <1>0, <1>17, PullLoadsSplit, PullLeavesHonest, PullStartsHonest
<1>18. CASE PushSkips
  BY <1>18, PushSkipsHonest
<1>19. CASE PushOpens
  BY <1>19, PushOpensHonest
<1>20. CASE \E d \in Digest : PullVisits(d)
  BY <1>20, PullVisitsHonest
<1>21. CASE \E d \in Digest : DecryptVisits(d)
  BY <1>21, DecryptVisitsHonest
<1>22. CASE \E d \in Digest : PushVisits(d)
  BY <1>22, PushVisitsHonest
<1>23. CASE \E d \in Digest : ChunkArrives(d)
  BY <1>23, ChunkArrivesHonest
<1>24. CASE PullIndexDone
  BY <1>24, PullIndexDoneHonest
<1>25. CASE PushIndexDone
  BY <1>25, PushIndexDoneHonest
<1>26. CASE PullCommits
  BY <1>26, PullCommitsHonest
<1>27. CASE PushCommits
  BY <1>27, PushCommitsHonest
<1>28. CASE PullListsVanished
  BY <1>28, PullListsVanishedHonest
<1>29. CASE PushListsVanished
  BY <1>29, PushListsVanishedHonest
<1>30. CASE Forgotten
  BY <1>30, ForgottenHonest
<1>31. CASE SyncFails
  BY <1>31, SyncFailsHonest
<1>32. CASE SyncEnds
  BY <1>32, SyncEndsHonest
<1>33. CASE SyncDies
  BY <1>33, SyncDiesHonest
<1>34. CASE \E t \in Time : Forget(t)
  BY <1>34, ForgetHonest
<1>35. CASE UNCHANGED syncVars
  BY <1>35 DEF HonestInd, syncVars, SeenInv, RepairInv, CorruptWhen, Running, YoungLost, TimesOld,
     CorruptAnew, Copying, CorruptDone, Repaired
<1> QED
  BY <1>1, <1>2, <1>3, <1>4, <1>5, <1>6, <1>7, <1>8, <1>9, <1>10, <1>11, <1>12, <1>13, <1>14, <1>15,
     <1>16, <1>17, <1>18, <1>19, <1>20, <1>21, <1>22, <1>23, <1>24, <1>25, <1>26, <1>27, <1>28, <1>29,
     <1>30, <1>31, <1>32, <1>33, <1>34, <1>35, SyncSteps

(* What a step may do to the target besides adding to it. *)
LEMMA StepHonest ==
  ASSUME HonestInd, [SyncNext]_syncVars
  PROVE  /\ [\A t \in Time : Vanishes(t) => sync.opt.verifiedOnly \/ t \notin sync.seen]_syncVars
         /\ [SyncEnds /\ ~sync.failed /\ ~sync.opt.verifiedOnly
               => \A t \in sync.corrupt :
                    src[t].st = "done" /\ dst[t].file # NoMeta
                      => dst[t].file \subseteq chunks \cup sync.lost]_syncVars
<1>1. ASSUME NEW t \in Time, Vanishes(t), ~sync.opt.verifiedOnly
      PROVE  t \notin sync.seen
  <2>1. CASE Forget(t)
    <3>1. sync.step = "forget" /\ t \in sync.vanished
      BY <2>1 DEF Forget
    <3> QED
      BY <1>1, <3>1 DEF HonestInd, SeenInv
  <2>2. CASE SyncEnds
    <3>1. dst' # dst
      BY <1>1 DEF Vanishes
    <3>2. ~sync.listed
      BY <2>2, <3>1 DEF SyncEnds, PullGroupVanished, PushGroupVanished
    <3> QED
      BY <3>2 DEF HonestInd, SeenInv
  <2> QED
    BY <1>1, <2>1, <2>2 DEF Vanishes
<1>2. ASSUME SyncEnds, ~sync.failed, ~sync.opt.verifiedOnly, NEW t \in sync.corrupt,
             src[t].st = "done", dst[t].file # NoMeta
      PROVE  dst[t].file \subseteq chunks \cup sync.lost
  <2>1. t \in Time /\ sync.cur = 0 /\ 0 \notin Time
    BY <1>2 DEF HonestInd, WholeInd, CompleteInd, SyncTypes, JobRecord, StepInv, SyncEnds, Time
  <2>2. sync.todo = {}
    BY <1>2 DEF HonestInd, SeenInv, SyncEnds
  <2> QED
    BY <1>2, <2>1, <2>2 DEF HonestInd, RepairInv, CorruptDone, Repaired
<1> QED
  BY <1>1, <1>2

(* A job without filter removes only what the source did not have when it  *)
(* was listed, and a pull with resync_corrupt that ends without error has  *)
(* repaired every snapshot it found corrupt that is still at the source,   *)
(* but for chunks found corrupt in the meantime (pull_group, push_group:   *)
(* remove_vanished, resync_corrupt).                                       *)
THEOREM SyncIsHonest ==
  ASSUME ~ChangeKey, ~ReuseTimes
  PROVE  SyncSpec => SyncHonest
<1>1. SyncInit => HonestInd
  BY InitHonest
<1>2. HonestInd /\ [SyncNext]_syncVars => HonestInd'
  BY NextComplete, NextWhole, NextHonest DEF HonestInd, WholeInd
<1>3. HonestInd /\ [SyncNext]_syncVars
        => /\ [\A t \in Time : Vanishes(t) => sync.opt.verifiedOnly \/ t \notin sync.seen]_syncVars
           /\ [SyncEnds /\ ~sync.failed /\ ~sync.opt.verifiedOnly
                 => \A t \in sync.corrupt :
                      src[t].st = "done" /\ dst[t].file # NoMeta
                        => dst[t].file \subseteq chunks \cup sync.lost]_syncVars
  BY StepHonest
<1> QED
  BY <1>1, <1>2, <1>3, PTL DEF SyncSpec, SyncHonest, VanishedMeansGone, ResyncRepairs
=============================================================================
