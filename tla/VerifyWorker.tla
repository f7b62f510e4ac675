---------------------------- MODULE VerifyWorker ----------------------------
(***************************************************************************)
(* Verification of snapshots: one worker goes through a list of snapshots  *)
(* and, per index file, feeds the referenced chunks through a pool of      *)
(* reader threads into a pool of decoder threads.  What has been verified  *)
(* or found corrupt is remembered for the worker's later snapshots.        *)
(*                                                                         *)
(* Each snapshot has one index file.  A position of the index is sent at   *)
(* most once, so the two queues, and the threads that hold a chunk, are    *)
(* given by the stage each position is in; the queues' order is left open. *)
(***************************************************************************)
EXTENDS Integers, FiniteSets

CONSTANTS
    Snapshot,       \* the snapshots of the job
    Pos,            \* positions of an index file
    Chunk,
    Content,        \* the chunk at a position of a snapshot's index
    ReadThreads,
    VerifyThreads,
    NoSnapshot

ASSUME ContentAssumption == Content \in [Snapshot -> [Pos -> Chunk]]
ASSUME ThreadAssumption == ReadThreads \in Nat \ {0} /\ VerifyThreads \in Nat \ {0}
ASSUME NoSnapshotAssumption == NoSnapshot \notin Snapshot

VARIABLES
    pc,        \* where the worker is
    todo,      \* snapshots not looked at yet
    cur,       \* the snapshot being verified
    stage,     \* where each position of its index is
    load,      \* what a reader has found at a position
    errors,    \* IndexVerifyState.errors is not zero
    verified,  \* verified_chunks
    corrupt,   \* corrupt_chunks
    ok,        \* verify_index_chunks returns Ok
    aborted,   \* the task was aborted or the daemon shuts down
    disk,      \* the chunk files
    result,    \* verify_state in the manifest
    damaged,   \* snapshots with a file that does not match the manifest
    seen,      \* history: what this worker has read of each chunk
    late       \* history: snapshots whose outcome was fixed before all chunks were checked

vars == <<pc, todo, cur, stage, load, errors, verified, corrupt, ok, aborted,
          disk, result, seen, late, damaged>>
pipeline == <<stage, load, errors, verified, corrupt>>

(* foreign: intact, but not of the crypt mode the manifest gives the index. *)
Condition == {"good", "foreign", "corrupt", "gone"}
Intact == {"good", "foreign"}
(* unread: a request to the object store failed. *)
Finding == Condition \cup {"unread"}

(* todo: not sent; rq, dq: in a queue; reading, loaded: with a reader;     *)
(* decoding, rename: with a decoder.                                       *)
Stage == {"todo", "rq", "reading", "loaded", "dq", "decoding", "rename", "done"}

At(S) == {i \in Pos : stage[i] \in S}
ChunkAt(i) == Content[cur][i]
Move(i, st) == stage' = [stage EXCEPT ![i] = st]

Init ==
    /\ pc = "pick"
    /\ todo = Snapshot
    /\ cur = NoSnapshot
    /\ stage = [i \in Pos |-> "done"]
    /\ load = [i \in Pos |-> "good"]
    /\ errors = FALSE
    /\ verified = {}
    /\ corrupt = {}
    /\ ok = TRUE
    /\ aborted = FALSE
    /\ disk \in [Chunk -> Condition]
    /\ result = [s \in Snapshot |-> "none"]
    /\ seen = [c \in Chunk |-> {}]
    /\ late = {}
    /\ damaged \in SUBSET Snapshot

-----------------------------------------------------------------------------
(* The worker *)

(* A vanished, locked, unreadable or recently verified snapshot is passed  *)
(* over.                                                                   *)
SkipSnapshot(s) ==
    /\ pc = "pick"
    /\ s \in todo
    /\ todo' = todo \ {s}
    /\ UNCHANGED <<pc, cur, pipeline, ok, aborted, disk, result, seen, late, damaged>>

(* skip_chunk: known to be good, or known to be corrupt and an error. *)
KnownGood(c) == c \in verified
(* Mutated form: a chunk known to be corrupt is skipped without an error. *)
KnownBadForgotten(c) == FALSE
KnownBad(c) == c \notin verified /\ c \in corrupt

(* The state of the index is new; get_chunks_in_order leaves out the       *)
(* chunks that are known already.                                          *)
StartIndex(s) ==
    LET Skipped(i) == Content[s][i] \in verified \cup corrupt IN
    /\ pc = "pick"
    /\ s \in todo \ damaged
    /\ todo' = todo \ {s}
    /\ cur' = s
    /\ stage' = [i \in Pos |-> IF Skipped(i) THEN "done" ELSE "todo"]
    /\ errors' = (\E i \in Pos : KnownBad(Content[s][i]))
    /\ pc' = "send"
    /\ UNCHANGED <<load, verified, corrupt, ok, aborted, disk, result, seen, late, damaged>>

(* The size or the checksum of the index, or of a blob, is wrong. *)
RejectIndex(s) ==
    /\ pc = "pick"
    /\ s \in todo \cap damaged
    /\ todo' = todo \ {s}
    /\ cur' = s
    /\ ok' = FALSE
    /\ pc' = "drop"
    /\ UNCHANGED <<pipeline, aborted, disk, result, seen, late, damaged>>

(* The send loop checks every chunk again: the threads go on meanwhile. *)
SendChunk(i) ==
    /\ pc = "send"
    /\ ~aborted
    /\ stage[i] = "todo"
    /\ \/ KnownGood(ChunkAt(i)) /\ Move(i, "done") /\ UNCHANGED errors
       \/ KnownBad(ChunkAt(i)) /\ Move(i, "done") /\ errors' = TRUE
       \/ /\ ~KnownGood(ChunkAt(i)) /\ ~KnownBad(ChunkAt(i))
          /\ Cardinality(At({"rq"})) < ReadThreads
          /\ Move(i, "rq")
          /\ UNCHANGED errors
    /\ UNCHANGED <<pc, todo, cur, load, verified, corrupt, ok, aborted, disk, result, seen, late, damaged>>

(* reader_pool.complete() *)
ReadersDone ==
    /\ pc = "send"
    /\ At({"todo", "rq", "reading", "loaded"}) = {}
    /\ pc' = "result"
    /\ UNCHANGED <<todo, cur, pipeline, ok, aborted, disk, result, seen, late, damaged>>

(* check_abort and fail_on_shutdown in the send loop: the pools are dropped. *)
StopSending ==
    /\ pc = "send"
    /\ aborted
    /\ At({"todo"}) # {}
    /\ stage' = [i \in Pos |-> IF stage[i] = "todo" THEN "done" ELSE stage[i]]
    /\ ok' = FALSE
    /\ pc' = "drop"
    /\ UNCHANGED <<todo, cur, load, errors, verified, corrupt, aborted, disk, result, seen, late, damaged>>

TakeResult ==
    /\ pc = "result"
    /\ ok' = ~errors
    /\ late' = IF At({"dq", "decoding"}) # {} THEN late \cup {cur} ELSE late
    /\ pc' = "drop"
    /\ UNCHANGED <<todo, cur, pipeline, aborted, disk, result, seen, damaged>>

(* Mutated form: a result that cannot be written is tried for ever. *)
RecordResultRetried ==
    /\ pc = "drop"
    /\ \A i \in Pos : stage[i] = "done"
    /\ IF aborted
         THEN pc' = "aborted" /\ UNCHANGED <<result, todo>>
         ELSE /\ pc' = "pick"
              /\ \/ result' = [result EXCEPT ![cur] = IF ok THEN "ok" ELSE "failed"] /\ UNCHANGED todo
                 \/ todo' = todo \cup {cur} /\ UNCHANGED result
    /\ UNCHANGED <<cur, pipeline, ok, aborted, disk, seen, late, damaged>>

(* Leaving verify_index_chunks drops the pools, which joins their threads; *)
(* the manifest is updated unless the task was aborted, or the manifest    *)
(* cannot be locked or written.                                            *)
RecordResult ==
    /\ pc = "drop"
    /\ \A i \in Pos : stage[i] = "done"
    /\ IF aborted
         THEN pc' = "aborted" /\ UNCHANGED result
         ELSE /\ pc' = "pick"
              /\ \/ result' = [result EXCEPT ![cur] = IF ok THEN "ok" ELSE "failed"]
                 \/ UNCHANGED result
    /\ UNCHANGED <<todo, cur, pipeline, ok, aborted, disk, seen, late, damaged>>

Finish ==
    /\ pc = "pick"
    /\ todo = {}
    /\ pc' = "end"
    /\ UNCHANGED <<todo, cur, pipeline, ok, aborted, disk, result, seen, late, damaged>>

-----------------------------------------------------------------------------
(* The threads *)

ReaderTake(i) ==
    /\ stage[i] = "rq"
    /\ Cardinality(At({"reading", "loaded"})) < ReadThreads
    /\ Move(i, "reading")
    /\ UNCHANGED <<pc, todo, cur, load, errors, verified, corrupt, ok, aborted,
                   disk, result, seen, late, damaged>>

(* load_chunk *)
ReaderLoad(i) ==
    /\ stage[i] = "reading"
    /\ Move(i, "loaded")
    /\ load' = [load EXCEPT ![i] = disk[ChunkAt(i)]]
    /\ seen' = [seen EXCEPT ![ChunkAt(i)] = @ \cup {disk[ChunkAt(i)]}]
    /\ UNCHANGED <<pc, todo, cur, errors, verified, corrupt, ok, aborted, disk, result, late, damaged>>

(* A request to the object store fails: an error, and nothing to remember. *)
ReaderFail(i) ==
    /\ stage[i] = "reading"
    /\ Move(i, "done")
    /\ errors' = TRUE
    /\ seen' = [seen EXCEPT ![ChunkAt(i)] = @ \cup {"unread"}]
    /\ UNCHANGED <<pc, todo, cur, load, verified, corrupt, ok, aborted, disk, result, late, damaged>>

(* decoder_pool.send blocks while the queue is full. *)
ReaderPass(i) ==
    /\ stage[i] = "loaded"
    /\ load[i] # "gone"
    /\ Cardinality(At({"dq"})) < VerifyThreads
    /\ Move(i, "dq")
    /\ UNCHANGED <<pc, todo, cur, load, errors, verified, corrupt, ok, aborted,
                   disk, result, seen, late, damaged>>

(* rename_corrupt_chunk: whatever has the chunk's name now becomes .bad. *)
Rename(c) == disk' = [disk EXCEPT ![c] = "gone"]

(* add_corrupt_chunk: the chunk could not be loaded, or not be parsed. *)
ReaderReport(i) ==
    /\ stage[i] = "loaded"
    /\ load[i] \notin Intact
    /\ Move(i, "done")
    /\ corrupt' = corrupt \cup {ChunkAt(i)}
    /\ errors' = TRUE
    /\ Rename(ChunkAt(i))
    /\ UNCHANGED <<pc, todo, cur, load, verified, ok, aborted, result, seen, late, damaged>>

DecoderTake(i) ==
    /\ stage[i] = "dq"
    /\ Cardinality(At({"decoding", "rename"})) < VerifyThreads
    /\ Move(i, "decoding")
    /\ UNCHANGED <<pc, todo, cur, load, errors, verified, corrupt, ok, aborted,
                   disk, result, seen, late, damaged>>

(* Mutated form: the check is left out. *)
DecoderCheckNothing(i) ==
    /\ stage[i] = "decoding"
    /\ Move(i, "done")
    /\ verified' = verified \cup {ChunkAt(i)}
    /\ UNCHANGED <<pc, todo, cur, load, errors, corrupt, ok, aborted, disk, result, seen, late, damaged>>

(* The crypt mode, then verify_unencrypted.  A chunk of the wrong mode is   *)
(* an error of this index, and counts as verified.  The mode itself is     *)
(* known: from_raw has refused every other magic number.                   *)
DecoderCheck(i) ==
    /\ stage[i] = "decoding"
    /\ \/ /\ load[i] \in Intact
          /\ verified' = verified \cup {ChunkAt(i)}
          /\ errors' = (errors \/ load[i] = "foreign")
          /\ Move(i, "done")
          /\ UNCHANGED corrupt
       \/ /\ load[i] \notin Intact
          /\ corrupt' = corrupt \cup {ChunkAt(i)}
          /\ errors' = TRUE
          /\ Move(i, "rename")
          /\ UNCHANGED verified
    /\ UNCHANGED <<pc, todo, cur, load, ok, aborted, disk, result, seen, late, damaged>>

DecoderRename(i) ==
    /\ stage[i] = "rename"
    /\ Rename(ChunkAt(i))
    /\ Move(i, "done")
    /\ UNCHANGED <<pc, todo, cur, load, errors, verified, corrupt, ok, aborted,
                   result, seen, late, damaged>>

-----------------------------------------------------------------------------
(* Environment *)

(* A backup uploads the chunk: a missing file is written, an empty or a    *)
(* bigger one is replaced, any other is kept as it is.                     *)
Upload(c) ==
    /\ disk[c] \notin Intact
    /\ disk' = [disk EXCEPT ![c] = "good"]
    /\ UNCHANGED <<pc, todo, cur, pipeline, ok, aborted, result, seen, late, damaged>>

Abort ==
    /\ ~aborted
    /\ aborted' = TRUE
    /\ UNCHANGED <<pc, todo, cur, pipeline, ok, disk, result, seen, late, damaged>>

Ended == pc \in {"end", "aborted"} /\ UNCHANGED vars

-----------------------------------------------------------------------------
Worker ==
    \/ \E s \in Snapshot : SkipSnapshot(s) \/ StartIndex(s) \/ RejectIndex(s)
    \/ \E i \in Pos : SendChunk(i)
    \/ ReadersDone
    \/ StopSending
    \/ TakeResult
    \/ RecordResult
    \/ Finish

Reader ==
    \E i \in Pos :
        ReaderTake(i) \/ ReaderLoad(i) \/ ReaderFail(i) \/ ReaderPass(i) \/ ReaderReport(i)

Decoder == \E i \in Pos : DecoderTake(i) \/ DecoderCheck(i) \/ DecoderRename(i)

Next ==
    \/ Worker
    \/ Reader
    \/ Decoder
    \/ \E c \in Chunk : Upload(c)
    \/ Abort
    \/ Ended

Spec == Init /\ [][Next]_vars

(* The worker and the threads of the two pools run. *)
FairSpec == Spec /\ WF_vars(Worker) /\ WF_vars(Reader) /\ WF_vars(Decoder)

-----------------------------------------------------------------------------
(* Properties *)

(* The type invariant; while an index is verified there is a snapshot it   *)
(* belongs to (VerifyWorker, IndexVerifyState).                            *)
TypeOK ==
    /\ pc \in {"pick", "send", "result", "drop", "end", "aborted"}
    /\ todo \subseteq Snapshot
    /\ cur \in Snapshot \cup {NoSnapshot}
    /\ pc \in {"send", "result", "drop"} => cur \in Snapshot
    /\ stage \in [Pos -> Stage]
    /\ load \in [Pos -> Condition]
    /\ errors \in BOOLEAN /\ ok \in BOOLEAN /\ aborted \in BOOLEAN
    /\ verified \subseteq Chunk
    /\ corrupt \subseteq Chunk
    /\ disk \in [Chunk -> Condition]
    /\ result \in [Snapshot -> {"none", "ok", "failed"}]
    /\ seen \in [Chunk -> SUBSET Finding]
    /\ late \subseteq Snapshot
    /\ damaged \subseteq Snapshot

ReadIntact(s) == \A i \in Pos : seen[Content[s][i]] \cap Intact # {}

(* A snapshot is recorded as good only if this worker has read every one   *)
(* of its chunks intact, for this snapshot or an earlier one, and its      *)
(* files match the manifest, provided no chunk was with the decoders when  *)
(* the outcome was fixed.                                                  *)
OkMeansRead == \A s \in Snapshot \ late : result[s] = "ok" => ReadIntact(s) /\ s \notin damaged

FoundBad(s) ==
    s \in damaged \/ \E i \in Pos : \E k \in Finding \ {"good"} : k \in seen[Content[s][i]]

(* A snapshot is recorded as failed only if this worker has found one of   *)
(* its chunks missing, corrupt, of the wrong mode or unreadable, or a file *)
(* that does not match the manifest: an aborted verification records       *)
(* nothing.                                                                *)
FailedMeansBad == \A s \in Snapshot : result[s] = "failed" => FoundBad(s)

(* A verification ends: readers blocked on a full decoder queue go on.     *)
VerifyEnds == <>(pc \in {"end", "aborted"})

-----------------------------------------------------------------------------
(* The inductive invariant behind OkMeansRead and FailedMeansBad *)

(* What the worker remembers of chunks it has read. *)
MemoryInv ==
    /\ \A c \in verified : seen[c] \cap Intact # {}
    /\ \A c \in corrupt : seen[c] \ Intact # {}

Checking == pc \in {"send", "result", "drop"}

PipelineInv ==
    /\ ~Checking => \A i \in Pos : stage[i] = "done"
    /\ pc = "result" => At({"todo", "rq", "reading", "loaded"}) = {}
    /\ \A i \in At({"loaded", "dq", "decoding", "rename"}) : load[i] \in seen[ChunkAt(i)]

(* A position that is through the pipeline has been verified, or is an     *)
(* error; an error has a cause.                                            *)
OutcomeInv ==
    /\ pc \in {"send", "result"} /\ ~errors =>
          /\ \A i \in At({"done"}) : ChunkAt(i) \in verified
          /\ At({"rename"}) = {}
    /\ pc \in {"send", "result"} /\ errors => FoundBad(cur)
    /\ pc = "drop" /\ ok /\ cur \notin late => ReadIntact(cur) /\ cur \notin damaged
    /\ pc \in {"send", "result"} => cur \notin damaged
    /\ pc = "drop" /\ ~ok => aborted \/ FoundBad(cur)

(* What verify_index_chunks has counted and remembered agrees with what    *)
(* its threads have read, at every step of the two pools.                  *)
VerifyInv ==
    /\ TypeOK
    /\ MemoryInv
    /\ PipelineInv
    /\ OutcomeInv
    /\ OkMeansRead
    /\ FailedMeansBad

-----------------------------------------------------------------------------
(* What comments in the code say, and the code does not do *)

(* verify_backup_dir returns "Ok(true) if verify is successful" and        *)
(* "Ok(false) if there were verification errors".                          *)
OkMeansIntact == \A s \in Snapshot : result[s] = "ok" => ReadIntact(s)

=============================================================================
