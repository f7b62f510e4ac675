-------------------------------- MODULE Sync --------------------------------
(***************************************************************************)
(* A sync job for one backup group, in pull and in push direction.  Both   *)
(* list the source, select what is newer than the last snapshot of the     *)
(* target, transfer one snapshot after the other (index chunk by chunk,    *)
(* then the manifest) and remove what has vanished.  Backups, prunes and   *)
(* verifications go on at the source and at the target meanwhile, the      *)
(* process can die, and any request can fail.                              *)
(*                                                                         *)
(* A snapshot has one archive.  Its index is the set of the digests, and a *)
(* digest is a chunk's contents with the mark of the (single) encryption   *)
(* key.  Blobs, the client log, owners and privileges are left out, and so *)
(* are signed, partly encrypted and differently keyed snapshots.           *)
(***************************************************************************)
EXTENDS Integers, FiniteSets

CONSTANTS
    Chunk,          \* contents of chunks
    Times,          \* bound on backup times: 1 .. Times
    Archives,       \* what is backed up: contents, whether they are encrypted, and by a push
    Options,        \* parameters of the job; each run takes one of them
    ChangeKey,      \* a decryption key may be added or taken away between runs
    ReuseTimes,     \* the source may take a backup again under its old time
    MaxSourceOps,   \* bound on what happens at the source
    MaxTargetOps,   \* bound on what happens at the target
    MaxRuns,        \* bound on runs of the job
    NoMeta

VARIABLES
    src,         \* snapshots of the source
    newest,      \* the last time the source has used
    dst,         \* snapshots of the target
    chunks,      \* digests in the target's chunk store
    damaged,     \* digests found corrupt at the target: renamed to .bad
    sync,        \* the job
    sourceOps, targetOps, runs

syncVars == <<src, newest, dst, chunks, damaged, sync, sourceOps, targetOps, runs>>

-----------------------------------------------------------------------------

Time == 1 .. Times
Digest == Chunk \X BOOLEAN
Sealed(idx, enc) == {<<d[1], enc>> : d \in idx}
Contents(idx) == {d[1] : d \in idx}

VerifyState == {"none", "ok", "failed"}

(* sig is the sync-source-signature, an HMAC of the source's manifest. *)
Meta == [idx : SUBSET Digest, enc : BOOLEAN, verify : VerifyState,
         sig : {NoMeta} \cup SUBSET Digest]

NoSource == [st |-> "none", meta |-> NoMeta]

(* own marks, for the properties, a snapshot that did not come by a sync. *)
NoTarget == [dir |-> FALSE, file |-> NoMeta, meta |-> NoMeta, protected |-> FALSE, own |-> FALSE]

Option == [op : {"pull", "push"}, removeVanished : BOOLEAN, verifiedOnly : BOOLEAN,
           resyncCorrupt : BOOLEAN, last : Nat, key : BOOLEAN]

ASSUME SyncConstantAssumption ==
    /\ Times \in Nat /\ MaxRuns \in Nat /\ ChangeKey \in BOOLEAN /\ ReuseTimes \in BOOLEAN
    /\ \A m \in Meta : m # NoMeta
    /\ \A S \in SUBSET Digest : S # NoMeta

ASSUME SyncOptionAssumption ==
    /\ Options \subseteq Option /\ Options # {}
    /\ Archives \subseteq [idx : SUBSET (Chunk \X {FALSE}), enc : BOOLEAN, pushed : BOOLEAN]

Steps == {"idle", "group", "select", "collect", "next", "manifest", "chunks", "commit", "vanish",
          "forget", "groups"}

NoKnown == [d \in Digest |-> "none"]

Idle ==
    [step |-> "idle", opt |-> CHOOSE o \in Options : TRUE, listed |-> FALSE, theirs |-> {},
     seen |-> {}, times |-> {}, todo |-> {}, corrupt |-> {}, cur |-> 0, new |-> FALSE,
     meta |-> NoMeta, mode |-> "regular", kept |-> FALSE, known |-> NoKnown, mapped |-> {},
     work |-> {}, fetching |-> {}, out |-> {}, base |-> 0, vanished |-> {}, failed |-> FALSE,
     young |-> {}, lost |-> {}]

MaxTime(S) == IF S = {} THEN 0 ELSE CHOOSE t \in S : \A u \in S : u <= t
MinTime(S) == CHOOSE t \in S : \A u \in S : t <= u

SourceTimes == {t \in Time : src[t].st # "none"}
TargetTimes == {t \in Time : dst[t].dir}
Finished == {t \in Time : dst[t].meta # NoMeta}

Running == sync.step # "idle"
Pulling == Running /\ sync.opt.op = "pull"

(* The reader's shared lock at the source, the exclusive lock of           *)
(* create_locked_backup_dir or of the backup session at the target, and    *)
(* the session's shared lock on the previous snapshot.                     *)
SourceLocked(t) == sync.cur = t
TargetLocked(t) == sync.cur = t
TargetShared(t) == sync.base = t

SyncInit ==
    /\ src = [t \in Time |-> NoSource]
    /\ newest = 0
    /\ dst = [t \in Time |-> NoTarget]
    /\ chunks = {}
    /\ damaged = {}
    /\ sync = Idle
    /\ sourceOps = 0 /\ targetOps = 0 /\ runs = 0

-----------------------------------------------------------------------------
(* The source. *)

SourceOp == sourceOps < MaxSourceOps /\ sourceOps' = sourceOps + 1
SourceUnchanged == UNCHANGED <<dst, chunks, damaged, sync, targetOps, runs>>

(* A session starts: its time is later than that of the last backup. *)
SourceStarts(t) ==
    /\ SourceOp
    /\ t > MaxTime(SourceTimes)
    /\ ReuseTimes \/ t > newest
    /\ src' = [src EXCEPT ![t].st = "running"]
    /\ newest' = MaxTime({newest, t})
    /\ SourceUnchanged

(* A snapshot that was pushed here has the signature of what was pushed. *)
SourceFinishes(t, a) ==
    /\ src[t].st = "running"
    /\ src' = [src EXCEPT ![t] = [st |-> "done", meta |->
           [idx |-> Sealed(a.idx, a.enc), enc |-> a.enc, verify |-> "none",
            sig |-> IF a.pushed THEN a.idx ELSE NoMeta]]]
    /\ UNCHANGED <<newest, sourceOps>> /\ SourceUnchanged

SourceRemoves(t) ==
    /\ SourceOp
    /\ src[t].st = "done" /\ ~SourceLocked(t)
    /\ src' = [src EXCEPT ![t] = NoSource]
    /\ UNCHANGED newest /\ SourceUnchanged

SourceVerifies(t, v) ==
    /\ SourceOp
    /\ src[t].st = "done" /\ src[t].meta.verify # v
    /\ src' = [src EXCEPT ![t].meta.verify = v]
    /\ UNCHANGED newest /\ SourceUnchanged

-----------------------------------------------------------------------------
(* The target. *)

TargetOp == targetOps < MaxTargetOps /\ targetOps' = targetOps + 1
TargetUnchanged == UNCHANGED <<src, newest, sync, sourceOps, runs>>

(* Somebody backs up to the group directly; a pull has the group's lock. *)
TargetBackup(t, idx) ==
    /\ TargetOp
    /\ ~Pulling /\ sync.cur = 0
    /\ t > MaxTime(TargetTimes)
    /\ chunks' = chunks \cup idx
    /\ dst' = [dst EXCEPT ![t] = [dir |-> TRUE, file |-> idx, protected |-> FALSE, own |-> TRUE,
                                  meta |-> [idx |-> idx, enc |-> FALSE, verify |-> "none",
                                            sig |-> NoMeta]]]
    /\ damaged' = damaged \ idx
    /\ TargetUnchanged

TargetPrune(t) ==
    /\ TargetOp
    /\ dst[t].dir /\ ~dst[t].protected /\ ~TargetLocked(t) /\ ~TargetShared(t)
    /\ dst' = [dst EXCEPT ![t] = NoTarget]
    /\ UNCHANGED <<chunks, damaged>> /\ TargetUnchanged

TargetProtect(t) ==
    /\ TargetOp
    /\ dst[t].dir /\ ~dst[t].protected
    /\ dst' = [dst EXCEPT ![t].protected = TRUE]
    /\ UNCHANGED <<chunks, damaged>> /\ TargetUnchanged

(* A verification finds a chunk corrupt, renames it and records it. *)
TargetVerify(t, d) ==
    /\ TargetOp
    /\ dst[t].meta # NoMeta /\ ~TargetLocked(t)
    /\ d \in dst[t].file \cap chunks
    /\ chunks' = chunks \ {d}
    /\ damaged' = damaged \cup {d}
    /\ dst' = [dst EXCEPT ![t].meta.verify = "failed"]
    /\ sync' = [sync EXCEPT !.lost = @ \cup {d}]
    /\ UNCHANGED <<src, newest, sourceOps, runs>>

Referenced == UNION {dst[t].file : t \in {u \in Time : dst[u].file # NoMeta}}

(* Chunks that the job has touched or written are younger than the cutoff  *)
(* of a garbage collection: the job has the shared lock all the time.      *)
TargetSweeps(d) ==
    /\ d \in chunks \ (Referenced \cup sync.young)
    /\ chunks' = chunks \ {d}
    /\ UNCHANGED <<dst, damaged, targetOps>> /\ TargetUnchanged

-----------------------------------------------------------------------------
(* The job: lists and selection. *)

JobUnchanged == UNCHANGED <<src, newest, sourceOps, targetOps>>
JobOnly == JobUnchanged /\ UNCHANGED <<dst, chunks, damaged, runs>>

(* do_sync_job *)
StartJob(o) ==
    /\ ~Running /\ runs < MaxRuns
    /\ runs > 0 => o.op = sync.opt.op /\ (ChangeKey \/ o.key = sync.opt.key)
    /\ runs' = runs + 1
    /\ JobUnchanged /\ UNCHANGED <<dst, chunks, damaged>>

(* pull_ns, push_namespace: the group, if the source lists it. *)
FirstStep == IF SourceTimes # {} THEN "group" ELSE "groups"

(* pull_store *)
StartPull(o) ==
    /\ o.op = "pull" /\ StartJob(o)
    /\ sync' = [Idle EXCEPT !.opt = o, !.listed = SourceTimes # {}, !.step = FirstStep]

(* push_store: the groups of the target are listed too. *)
StartPush(o) ==
    /\ o.op = "push" /\ StartJob(o)
    /\ sync' = [Idle EXCEPT !.opt = o, !.listed = SourceTimes # {}, !.theirs = TargetTimes,
                            !.step = FirstStep]

(* exclude_not_verified_or_encrypted, ignore_not_verified_or_encrypted *)
Excluded(m) == sync.opt.verifiedOnly /\ m.verify # "ok"

Listed == {t \in Time : src[t].st = "done" /\ ~Excluded(src[t].meta)}

(* list_backup_snapshots of the source, running backups filtered out.      *)
(* seen, the finished ones, is for the properties.                         *)
ListSource ==
    /\ sync.step = "group"
    /\ sync' = [sync EXCEPT !.step = "select", !.times = Listed,
                            !.seen = {t \in Time : src[t].st = "done"}]
    /\ JobOnly

(* The last ones of the list, when transfer_last is set. *)
TransferLast == {t \in sync.times :
                   sync.opt.last = 0 \/ Cardinality({u \in sync.times : u > t}) < sync.opt.last}

(* Snapshots of the target whose verification has failed, or that have no  *)
(* manifest.                                                               *)
CorruptTimes ==
    {t \in sync.times : sync.opt.resyncCorrupt /\ dst[t].dir
                          /\ (dst[t].meta = NoMeta \/ dst[t].meta.verify = "failed")}

PullTodo ==
    LET last == MaxTime(Finished)
    IN  {t \in sync.times : t \in CorruptTimes
                              \/ (t >= last /\ (t \in TransferLast \/ t = last))}

PushTodo == {t \in TransferLast : t > MaxTime(TargetTimes)}

(* lost is for the properties: what is damaged from here on. *)
Select ==
    /\ sync.step = "select"
    /\ sync' = IF sync.opt.op = "pull"
               THEN [sync EXCEPT !.step = "collect", !.todo = PullTodo, !.corrupt = CorruptTimes,
                                 !.lost = {}]
               ELSE [sync EXCEPT !.step = "next", !.todo = PushTodo, !.theirs = TargetTimes]
    /\ JobOnly

(* Mutated form: they count as touched. *)
MarkReusableTouched(idx) == [d \in Digest |-> IF d \in idx THEN "touched" ELSE "none"]

(* pull_group: the chunks of the last local snapshot can be reused; they   *)
(* have not been touched yet.                                              *)
MarkReusable(idx) == [d \in Digest |-> IF d \in idx THEN "reusable" ELSE "none"]

(* What could be read of them: "Failed to collect reusable chunk". *)
CollectReusable ==
    /\ sync.step = "collect"
    /\ LET last == MaxTime(Finished)
           have == IF last = 0 \/ dst[last].meta.verify = "failed" THEN {} ELSE dst[last].file
       IN  \E got \in SUBSET have : sync' = [sync EXCEPT !.step = "next", !.known = MarkReusable(got)]
    /\ JobOnly

-----------------------------------------------------------------------------
(* The job: a snapshot. *)

Leave(s) == [s EXCEPT !.step = "next", !.cur = 0, !.base = 0, !.new = FALSE, !.meta = NoMeta,
                      !.mode = "regular", !.kept = FALSE, !.work = {}, !.fetching = {}, !.out = {}]

(* reader() and create_locked_backup_dir *)
PullOpens ==
    /\ sync.opt.op = "pull"
    /\ sync.step = "next" /\ sync.todo # {}
    /\ LET t == MinTime(sync.todo)
       IN  /\ sync' = [sync EXCEPT !.step = "manifest", !.cur = t, !.todo = @ \ {t},
                                   !.new = ~dst[t].dir]
           /\ dst' = [dst EXCEPT ![t].dir = TRUE]
    /\ JobUnchanged /\ UNCHANGED <<chunks, damaged, runs>>

(* optionally_use_decryption_key: m is the source's manifest, e that of    *)
(* the target or NoMeta.  A target that was decrypted is left alone if it  *)
(* is what was encrypted into m, by m's own sync-source-signature, or was  *)
(* made of m, by the target's.                                             *)
DecryptionKey(m, e, key) ==
    IF ~m.enc
    THEN IF e # NoMeta /\ (e.enc \/ e.idx # m.idx) THEN "refuse" ELSE "regular"
    ELSE CASE e # NoMeta /\ e.enc -> "regular"
           [] e # NoMeta /\ ~e.enc -> IF key /\ (m.sig = e.idx \/ e.sig = m.idx) THEN "unchanged" ELSE "refuse"
           [] OTHER -> IF key THEN "decrypt" ELSE "regular"

(* The outcome of pull_snapshot up to its loop over the files. *)
PullOutcome(m, e) ==
    CASE e = m -> "unchanged"
      [] Excluded(m) -> "skip"
      [] OTHER -> DecryptionKey(m, e, sync.opt.key)

(* A snapshot that was skipped goes again if it was new. *)
DropNew == dst' = IF sync.new THEN [dst EXCEPT ![sync.cur] = NoTarget] ELSE dst

PullSkips ==
    /\ sync.opt.op = "pull" /\ sync.step = "manifest"
    /\ LET s == src[sync.cur]
           e == IF sync.cur \in sync.corrupt THEN NoMeta ELSE dst[sync.cur].meta
       IN  \/ s.st # "done"   \* "skipped because vanished since start of sync"
           \/ s.st = "done" /\ PullOutcome(s.meta, e) = "skip"
    /\ DropNew
    /\ sync' = Leave(sync)
    /\ JobUnchanged /\ UNCHANGED <<chunks, damaged, runs>>

(* Mutated form: the index of a corrupt snapshot is kept too. *)
PullLoadsKeeps ==
    /\ sync.opt.op = "pull" /\ sync.step = "manifest"
    /\ src[sync.cur].st = "done"
    /\ LET m == src[sync.cur].meta
           bad == sync.cur \in sync.corrupt
           outcome == PullOutcome(m, IF bad THEN NoMeta ELSE dst[sync.cur].meta)
           keep == dst[sync.cur].file = m.idx
       IN  \/ outcome = "unchanged" /\ sync' = Leave(sync)
           \/ /\ outcome \in {"regular", "decrypt"}
              /\ sync' = [sync EXCEPT !.meta = m, !.mode = outcome, !.kept = keep,
                                      !.step = IF keep THEN "commit" ELSE "chunks",
                                      !.work = IF keep THEN {} ELSE m.idx]
    /\ JobOnly

(* An index that is there and has the checksum of the source's manifest is *)
(* kept.                                                                   *)
PullLoads ==
    /\ sync.opt.op = "pull" /\ sync.step = "manifest"
    /\ src[sync.cur].st = "done"
    /\ LET m == src[sync.cur].meta
           bad == sync.cur \in sync.corrupt
           outcome == PullOutcome(m, IF bad THEN NoMeta ELSE dst[sync.cur].meta)
           keep == ~bad /\ dst[sync.cur].file = m.idx
       IN  \/ outcome = "unchanged" /\ sync' = Leave(sync)
           \/ /\ outcome \in {"regular", "decrypt"}
              /\ sync' = [sync EXCEPT !.meta = m, !.mode = outcome, !.kept = keep,
                                      !.step = IF keep THEN "commit" ELSE "chunks",
                                      !.work = IF keep THEN {} ELSE m.idx]
    /\ JobOnly

(* push_snapshot: a source snapshot without manifest, or excluded, is left *)
(* out.  The session takes the previous snapshot's chunks as known if the  *)
(* archives have the same mode of encryption.                              *)
PushSkips ==
    /\ sync.opt.op = "push"
    /\ sync.step = "next" /\ sync.todo # {}
    /\ LET t == MinTime(sync.todo)
       IN  /\ src[t].st = "done" => Excluded(src[t].meta)
           /\ sync' = [sync EXCEPT !.todo = @ \ {t}]
    /\ JobOnly

PushOpens ==
    /\ sync.opt.op = "push"
    /\ sync.step = "next" /\ sync.todo # {}
    /\ LET t == MinTime(sync.todo)
           m == src[t].meta
           encrypt == sync.opt.key /\ ~m.enc
           last == MaxTime(Finished)
           reuse == last # 0 /\ dst[last].meta.enc = (m.enc \/ encrypt)
       IN  /\ src[t].st = "done" /\ ~Excluded(m)
           /\ t > MaxTime(TargetTimes)
           /\ sync' = [sync EXCEPT !.step = "chunks", !.cur = t, !.todo = @ \ {t}, !.new = TRUE,
                                   !.meta = m, !.work = m.idx, !.mapped = {},
                                   !.mode = IF encrypt THEN "encrypt" ELSE "regular",
                                   !.base = last,
                                   !.known = IF reuse THEN MarkReusable(dst[last].file) ELSE NoKnown]
           /\ dst' = [dst EXCEPT ![t].dir = TRUE]
    /\ JobUnchanged /\ UNCHANGED <<chunks, damaged, runs>>

-----------------------------------------------------------------------------
(* The job: chunks. *)

CondTouch(d) == sync.known[d] = "reusable" /\ d \in chunks
Touch(d) == [sync.known EXCEPT ![d] = "touched"]

(* pull_index_chunks without decryption: a chunk is marked before it is    *)
(* downloaded, so that this happens only once.                             *)
PullVisits(d) ==
    /\ sync.opt.op = "pull" /\ sync.mode = "regular"
    /\ sync.step = "chunks" /\ d \in sync.work
    /\ sync' = [sync EXCEPT !.work = @ \ {d}, !.out = @ \cup {d}, !.known = Touch(d),
                            !.young = IF CondTouch(d) THEN @ \cup {d} ELSE @,
                            !.fetching = IF sync.known[d] = "touched" \/ CondTouch(d) THEN @
                                         ELSE @ \cup {d}]
    /\ JobOnly

(* With decryption.  A chunk that was touched before and has no decrypted  *)
(* digest is filtered out of the stream.                                   *)
DecryptVisits(d) ==
    /\ sync.mode = "decrypt"
    /\ sync.step = "chunks" /\ d \in sync.work
    /\ LET p == <<d[1], FALSE>>
       IN  sync' = IF sync.known[d] = "touched" /\ d \notin sync.mapped
                   THEN [sync EXCEPT !.work = @ \ {d}]
                   ELSE [sync EXCEPT !.work = @ \ {d}, !.out = @ \cup {p},
                                     !.mapped = @ \cup {d},
                                     !.known = [@ EXCEPT ![d] = IF sync.known[d] = "none" THEN "reusable"
                                                                ELSE sync.known[d]],
                                     !.fetching = IF d \in sync.mapped THEN @ ELSE @ \cup {p}]
    /\ JobOnly

(* push_index: chunks of the previous snapshot and those sent before are   *)
(* appended to the index without an upload.                                *)
PushVisits(d) ==
    /\ sync.opt.op = "push"
    /\ sync.step = "chunks" /\ d \in sync.work
    /\ LET p == <<d[1], d[2] \/ sync.mode = "encrypt">>
       IN  sync' = [sync EXCEPT !.work = @ \ {d}, !.out = @ \cup {p}, !.known = Touch(p),
                                !.fetching = IF sync.known[p] = "none" THEN @ \cup {p} ELSE @]
    /\ JobOnly

(* The verify pool inserts a chunk; the server stores an upload. *)
ChunkArrives(d) ==
    /\ d \in sync.fetching
    /\ sync' = [sync EXCEPT !.fetching = @ \ {d}, !.young = @ \cup {d}]
    /\ chunks' = chunks \cup {d}
    /\ damaged' = damaged \ {d}
    /\ JobUnchanged /\ UNCHANGED <<dst, runs>>

(* The stream and the pool are through: the index gets its name. *)
IndexDone ==
    /\ sync.step = "chunks" /\ sync.work = {} /\ sync.fetching = {}
    /\ sync' = [sync EXCEPT !.step = "commit"]
    /\ dst' = [dst EXCEPT ![sync.cur].file = sync.out]
    /\ JobUnchanged /\ UNCHANGED <<chunks, damaged, runs>>

(* pull_single_archive renames the file, the server closes the writer. *)
PullIndexDone == sync.opt.op = "pull" /\ IndexDone
PushIndexDone == sync.opt.op = "push" /\ IndexDone

Commits(manifest) ==
    /\ sync.step = "commit"
    /\ dst' = [dst EXCEPT ![sync.cur].meta = manifest]
    /\ sync' = Leave(sync)
    /\ JobUnchanged /\ UNCHANGED <<chunks, damaged, runs>>

(* The manifest is a copy, or a new one with the files that were decrypted *)
(* and the signature of the source; it is renamed.                         *)
PullCommits ==
    LET m == sync.meta IN
    /\ sync.opt.op = "pull"
    /\ Commits(IF sync.mode = "regular" THEN m
               ELSE [idx |-> IF sync.kept THEN {} ELSE sync.out, enc |-> FALSE,
                     verify |-> "none", sig |-> m.idx])

(* The manifest is uploaded and the session finished. *)
PushCommits ==
    LET m == sync.meta IN
    /\ sync.opt.op = "push"
    /\ Commits(IF sync.mode = "regular" THEN m
               ELSE [m EXCEPT !.idx = sync.out, !.enc = TRUE, !.sig = m.idx])

-----------------------------------------------------------------------------
(* The job: vanished snapshots, errors, the end. *)

ListVanished(have) ==
    /\ sync.step = "next" /\ sync.todo = {}
    /\ sync' = [sync EXCEPT
                  !.step = IF sync.opt.removeVanished THEN "forget" ELSE "groups",
                  !.vanished = IF sync.opt.removeVanished THEN have \ sync.times ELSE {}]
    /\ JobOnly

(* A pull lists the target again, a push has its list from the start. *)
PullListsVanished == sync.opt.op = "pull" /\ ListVanished(TargetTimes)
PushListsVanished == sync.opt.op = "push" /\ ListVanished(sync.theirs)

(* Protected snapshots stay; the target's server checks it again. *)
Forget(t) ==
    /\ sync.step = "forget" /\ t \in sync.vanished
    /\ sync' = [sync EXCEPT !.vanished = @ \ {t}]
    /\ dst' = IF dst[t].protected THEN dst ELSE [dst EXCEPT ![t] = NoTarget]
    /\ JobUnchanged /\ UNCHANGED <<chunks, damaged, runs>>

Forgotten ==
    /\ sync.step = "forget" /\ sync.vanished = {}
    /\ sync' = [sync EXCEPT !.step = "groups"]
    /\ JobOnly

(* "stop on error": the group is given up, a new snapshot removed. *)
SyncFails ==
    /\ Running /\ sync.step # "groups"
    /\ DropNew
    /\ sync' = [Leave(sync) EXCEPT !.step = "groups", !.failed = TRUE, !.todo = {}]
    /\ JobUnchanged /\ UNCHANGED <<chunks, damaged, runs>>

(* pull_ns, push_namespace: the group is removed if the source has not     *)
(* listed it (a push: and the target had it).                              *)
PullGroupVanished == sync.opt.op = "pull" /\ sync.opt.removeVanished /\ ~sync.listed
PushGroupVanished == sync.opt.op = "push" /\ sync.opt.removeVanished /\ ~sync.listed /\ sync.theirs # {}

SyncEnds ==
    /\ sync.step = "groups"
    /\ dst' = IF PullGroupVanished \/ PushGroupVanished
              THEN [t \in Time |-> IF dst[t].protected THEN dst[t] ELSE NoTarget]
              ELSE dst
    /\ sync' = [Idle EXCEPT !.opt = sync.opt]
    /\ JobUnchanged /\ UNCHANGED <<chunks, damaged, runs>>

(* The process dies.  A pull leaves the snapshot as it is; the server of   *)
(* the target ends the session of a push and removes its snapshot.         *)
SyncDies ==
    /\ Running
    /\ dst' = IF sync.opt.op = "push" /\ sync.new THEN [dst EXCEPT ![sync.cur] = NoTarget] ELSE dst
    /\ sync' = [Idle EXCEPT !.opt = sync.opt]
    /\ JobUnchanged /\ UNCHANGED <<chunks, damaged, runs>>

-----------------------------------------------------------------------------

SourceNext ==
    \E t \in Time :
      \/ SourceStarts(t)
      \/ \E a \in Archives : SourceFinishes(t, a)
      \/ SourceRemoves(t)
      \/ \E v \in {"ok", "failed"} : SourceVerifies(t, v)

TargetNext ==
    \/ \E t \in Time :
         \/ \E a \in {b \in Archives : ~b.enc} : TargetBackup(t, a.idx)
         \/ TargetPrune(t)
         \/ TargetProtect(t)
         \/ \E d \in Digest : TargetVerify(t, d)
    \/ \E d \in Digest : TargetSweeps(d)

SyncJobNext ==
    \/ \E o \in Options : StartPull(o) \/ StartPush(o)
    \/ ListSource \/ Select \/ CollectReusable
    \/ PullOpens \/ PullSkips \/ PullLoads \/ PushSkips \/ PushOpens
    \/ \E d \in Digest : PullVisits(d) \/ DecryptVisits(d) \/ PushVisits(d) \/ ChunkArrives(d)
    \/ PullIndexDone \/ PushIndexDone \/ PullCommits \/ PushCommits
    \/ PullListsVanished \/ PushListsVanished \/ Forgotten \/ SyncFails \/ SyncEnds \/ SyncDies
    \/ \E t \in Time : Forget(t)

SyncNext == SourceNext \/ TargetNext \/ SyncJobNext

SyncSpec == SyncInit /\ [][SyncNext]_syncVars

-----------------------------------------------------------------------------

SyncTypeOK ==
    /\ \A t \in Time : src[t].st \in {"none", "running", "done"}
    /\ \A t \in Time : src[t].meta \in {NoMeta} \cup Meta
    /\ newest \in 0 .. Times
    /\ \A t \in Time : /\ dst[t].dir \in BOOLEAN /\ dst[t].protected \in BOOLEAN
                       /\ dst[t].file \in {NoMeta} \cup SUBSET Digest
                       /\ dst[t].meta \in {NoMeta} \cup Meta
                       /\ dst[t].meta # NoMeta => dst[t].dir
    /\ chunks \subseteq Digest /\ damaged \subseteq Digest
    /\ sync.step \in Steps /\ sync.opt \in Options /\ sync.cur \in 0 .. Times

(* Every index under its final name, also one that a dead pull has left,   *)
(* has its chunks in the target's store: pull_index_chunks touches or      *)
(* downloads each before the rename, although the snapshot whose chunks it *)
(* wanted to reuse is pruned and swept meanwhile.                          *)
TargetComplete ==
    \A t \in Time : dst[t].file # NoMeta => dst[t].file \subseteq chunks \cup damaged

(* A snapshot that came by a sync has an index that fits its manifest and  *)
(* the contents of the source's snapshot of that time.                     *)
SyncedWhole ==
    \A t \in Time :
      dst[t].meta # NoMeta /\ ~dst[t].own
        => /\ dst[t].file = dst[t].meta.idx
           /\ src[t].st = "done" => Contents(dst[t].file) = Contents(src[t].meta.idx)

(* Nothing in the target is incomplete or different from its source. *)
SyncedComplete == SyncTypeOK /\ TargetComplete /\ SyncedWhole

Vanishes(t) == dst[t].dir /\ ~dst'[t].dir /\ (Forget(t) \/ SyncEnds)

(* A job without filter removes only snapshots that the source did not     *)
(* have when it was listed, whatever is selected for the transfer.         *)
VanishedMeansGone ==
    [][\A t \in Time : Vanishes(t) => sync.opt.verifiedOnly \/ t \notin sync.seen]_syncVars

(* A pull with resync_corrupt that ends without error leaves none of the   *)
(* snapshots it found corrupt without its chunks, except for chunks that   *)
(* were found corrupt while it ran and for snapshots that the source has   *)
(* removed since.  With verified_only one may also be skipped because the  *)
(* source has found it bad in the meantime.                                *)
ResyncRepairs ==
    [][SyncEnds /\ ~sync.failed /\ ~sync.opt.verifiedOnly
         => \A t \in sync.corrupt :
              src[t].st = "done" /\ dst[t].file # NoMeta
                => dst[t].file \subseteq chunks \cup sync.lost]_syncVars
(* Both, of what a job does to the target besides adding to it. *)
SyncHonest == VanishedMeansGone /\ ResyncRepairs

=============================================================================
