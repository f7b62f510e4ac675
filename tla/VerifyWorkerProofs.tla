------------------------- MODULE VerifyWorkerProofs -------------------------
(* What a verification records: the proof that VerifyInv is inductive. *)
EXTENDS VerifyWorker, TLAPS

-----------------------------------------------------------------------------
(* Types *)

LEMMA InitTypeOK == Init => TypeOK
<1> SUFFICES ASSUME Init PROVE TypeOK
  OBVIOUS
<1>1. seen \in [Chunk -> SUBSET Finding]
  BY DEF Init
<1>2. /\ stage \in [Pos -> Stage] /\ load \in [Pos -> Condition]
      /\ result \in [Snapshot -> {"none", "ok", "failed"}]
  BY DEF Init, Stage, Condition
<1> QED BY <1>1, <1>2 DEF Init, TypeOK

LEMMA NextTypeOK ==
    ASSUME VerifyInv, [Next]_vars
    PROVE  TypeOK'
<1> USE DEF VerifyInv
<1>0. ASSUME Checking PROVE \A i \in Pos : ChunkAt(i) \in Chunk
  BY <1>0, ContentAssumption DEF ChunkAt, Checking, TypeOK
<1>1. ASSUME NEW i \in Pos, stage[i] # "done" PROVE Checking /\ ChunkAt(i) \in Chunk
  BY <1>0, <1>1 DEF PipelineInv
<1>2. ASSUME NEW i \in Pos, NEW st \in Stage, Move(i, st)
      PROVE  stage' \in [Pos -> Stage]
  BY <1>2 DEF Move, TypeOK
<1>3. {"todo", "rq", "reading", "loaded", "dq", "decoding", "rename", "done"} \subseteq Stage
  BY DEF Stage
<1>4. ASSUME NEW s \in Snapshot, SkipSnapshot(s) \/ RejectIndex(s) PROVE TypeOK'
  BY <1>4 DEF SkipSnapshot, RejectIndex, TypeOK, pipeline
<1>5. ASSUME NEW s \in Snapshot, StartIndex(s) PROVE TypeOK'
  BY <1>3, <1>5 DEF StartIndex, TypeOK
<1>6. ASSUME NEW i \in Pos, SendChunk(i) PROVE TypeOK'
  BY <1>2, <1>3, <1>6 DEF SendChunk, TypeOK
<1>7. CASE ReadersDone \/ TakeResult
  BY <1>7 DEF ReadersDone, TakeResult, TypeOK, pipeline
<1>8. CASE StopSending
  BY <1>3, <1>8 DEF StopSending, TypeOK
<1>9. CASE RecordResult \/ Finish
  BY <1>9 DEF RecordResult, Finish, TypeOK, pipeline
<1>10. ASSUME NEW i \in Pos, ReaderTake(i) \/ ReaderPass(i) \/ DecoderTake(i) PROVE TypeOK'
  BY <1>2, <1>3, <1>10 DEF ReaderTake, ReaderPass, DecoderTake, TypeOK
<1>11. ASSUME NEW i \in Pos, ReaderLoad(i) \/ ReaderFail(i) PROVE TypeOK'
  <2>1. Condition \subseteq Finding /\ "unread" \in Finding
    BY DEF Finding
  <2>2. seen' \in [Chunk -> SUBSET Finding]
    BY <1>1, <1>11, <2>1 DEF ReaderLoad, ReaderFail, TypeOK
  <2>3. load' \in [Pos -> Condition]
    BY <1>1, <1>11 DEF ReaderLoad, ReaderFail, TypeOK
  <2> QED BY <1>2, <1>3, <1>11, <2>2, <2>3 DEF ReaderLoad, ReaderFail, TypeOK
<1>12. ASSUME NEW i \in Pos, ReaderReport(i) PROVE TypeOK'
  BY <1>1, <1>2, <1>3, <1>12 DEF ReaderReport, Rename, TypeOK, Condition
<1>13. ASSUME NEW i \in Pos, DecoderCheck(i) PROVE TypeOK'
  BY <1>1, <1>2, <1>3, <1>13 DEF DecoderCheck, TypeOK
<1>14. ASSUME NEW i \in Pos, DecoderRename(i) PROVE TypeOK'
  BY <1>1, <1>2, <1>3, <1>14 DEF DecoderRename, Rename, TypeOK, Condition
<1>15. ASSUME NEW c \in Chunk, Upload(c) PROVE TypeOK'
  BY <1>15 DEF Upload, TypeOK, Condition, pipeline
<1>16. CASE Abort
  BY <1>16 DEF Abort, TypeOK, pipeline
<1>17. CASE Ended \/ UNCHANGED vars
  BY <1>17 DEF Ended, vars, TypeOK
<1> QED BY <1>4, <1>5, <1>6, <1>7, <1>8, <1>9, <1>10, <1>11, <1>12, <1>13, <1>14, <1>15, <1>16, <1>17
        DEF Next, Worker, Reader, Decoder

-----------------------------------------------------------------------------
(* Steps *)

(* What has been seen stays seen. *)
LEMMA SeenGrows ==
    ASSUME VerifyInv, TypeOK', UNCHANGED damaged, \A c \in Chunk : seen[c] \subseteq seen'[c]
    PROVE  /\ \A s \in Snapshot : ReadIntact(s) => ReadIntact(s)'
           /\ \A s \in Snapshot : FoundBad(s) => FoundBad(s)'
<1>1. \A s \in Snapshot, i \in Pos : Content[s][i] \in Chunk
  BY ContentAssumption
<1> QED BY <1>1 DEF ReadIntact, FoundBad

(* A step of a thread that moves position i and neither reads a chunk nor  *)
(* adds to what is remembered.                                             *)
LEMMA ThreadMove ==
    ASSUME VerifyInv, TypeOK', NEW i \in Pos, NEW st \in Stage, Move(i, st),
           UNCHANGED <<pc, cur, load, errors, verified, corrupt, ok, aborted, result, seen, late, damaged>>,
           stage[i] \notin {"todo", "done"},
           st \in {"loaded", "dq", "decoding"} => stage[i] \in {"loaded", "dq", "decoding"},
           st # "rename",
           st = "done" => stage[i] = "rename",
           pc = "result" => st \notin {"todo", "rq", "reading", "loaded"}
    PROVE  VerifyInv'
<1>1. stage'[i] = st /\ \A j \in Pos : j # i => stage'[j] = stage[j]
  BY DEF Move, VerifyInv, TypeOK
<1>2. Checking
  BY DEF VerifyInv, PipelineInv
<1>3. \A j \in Pos : ChunkAt(j)' = ChunkAt(j)
  BY DEF ChunkAt
<1>4. MemoryInv' /\ OkMeansRead' /\ FailedMeansBad'
  BY DEF VerifyInv, MemoryInv, OkMeansRead, FailedMeansBad, ReadIntact, FoundBad
<1>5. PipelineInv'
  BY <1>1, <1>2, <1>3 DEF VerifyInv, PipelineInv, Checking, At
<1>6. OutcomeInv'
  BY <1>1, <1>3 DEF VerifyInv, OutcomeInv, At, ReadIntact, FoundBad
<1> QED BY <1>4, <1>5, <1>6 DEF VerifyInv
LEMMA PositionFacts ==
    ASSUME VerifyInv, NEW i \in Pos, stage[i] # "done"
    PROVE  Checking /\ cur \in Snapshot /\ ChunkAt(i) \in Chunk
  BY ContentAssumption DEF VerifyInv, PipelineInv, Checking, ChunkAt, TypeOK

LEMMA ReaderLoadInv ==
    ASSUME VerifyInv, TypeOK', NEW i \in Pos, ReaderLoad(i)
    PROVE  VerifyInv'
<1>1. Checking /\ cur \in Snapshot /\ ChunkAt(i) \in Chunk
  BY PositionFacts DEF ReaderLoad
<1>2. stage[i] = "reading" /\ stage'[i] = "loaded" /\ \A j \in Pos : j # i => stage'[j] = stage[j]
  BY DEF ReaderLoad, Move, VerifyInv, TypeOK
<1>3. load'[i] \in seen'[ChunkAt(i)] /\ \A j \in Pos : j # i => load'[j] = load[j]
  BY <1>1 DEF ReaderLoad, VerifyInv, TypeOK
<1>4. \A c \in Chunk : seen[c] \subseteq seen'[c]
  BY DEF ReaderLoad, VerifyInv, TypeOK
<1>5. UNCHANGED <<pc, cur, errors, verified, corrupt, ok, aborted, result, late, damaged>>
  BY DEF ReaderLoad
<1>6. /\ \A s \in Snapshot : ReadIntact(s) => ReadIntact(s)'
      /\ \A s \in Snapshot : FoundBad(s) => FoundBad(s)'
  BY <1>4, <1>5, SeenGrows
<1>7. MemoryInv'
  BY <1>4, <1>5 DEF VerifyInv, MemoryInv, TypeOK
<1>8. OkMeansRead' /\ FailedMeansBad'
  BY <1>5, <1>6 DEF VerifyInv, OkMeansRead, FailedMeansBad
<1>9. \A j \in Pos : ChunkAt(j)' = ChunkAt(j) /\ ChunkAt(j) \in Chunk
  BY <1>1, <1>5, ContentAssumption DEF ChunkAt
<1>10. PipelineInv'
  BY <1>1, <1>2, <1>3, <1>4, <1>5, <1>9 DEF VerifyInv, PipelineInv, Checking, At
<1>11. OutcomeInv'
  BY <1>1, <1>2, <1>5, <1>6, <1>9 DEF VerifyInv, OutcomeInv, At
<1> QED BY <1>7, <1>8, <1>10, <1>11 DEF VerifyInv

LEMMA ReaderFailInv ==
    ASSUME VerifyInv, TypeOK', NEW i \in Pos, ReaderFail(i)
    PROVE  VerifyInv'
<1>1. Checking /\ cur \in Snapshot /\ ChunkAt(i) \in Chunk
  BY PositionFacts DEF ReaderFail
<1>2. /\ stage[i] = "reading" /\ stage'[i] = "done"
      /\ \A j \in Pos : j # i => stage'[j] = stage[j]
  BY DEF ReaderFail, Move, VerifyInv, TypeOK
<1>3. \A c \in Chunk : seen[c] \subseteq seen'[c]
  BY DEF ReaderFail, VerifyInv, TypeOK
<1>4. UNCHANGED <<pc, cur, load, verified, corrupt, ok, aborted, result, late, damaged>> /\ errors'
  BY DEF ReaderFail
<1>5. /\ \A s \in Snapshot : ReadIntact(s) => ReadIntact(s)'
      /\ \A s \in Snapshot : FoundBad(s) => FoundBad(s)'
  BY <1>3, <1>4, SeenGrows
<1>6. MemoryInv'
  BY <1>3, <1>4 DEF VerifyInv, MemoryInv, TypeOK
<1>7. OkMeansRead' /\ FailedMeansBad'
  BY <1>4, <1>5 DEF VerifyInv, OkMeansRead, FailedMeansBad
<1>8. \A j \in Pos : ChunkAt(j)' = ChunkAt(j) /\ ChunkAt(j) \in Chunk
  BY <1>1, <1>4, ContentAssumption DEF ChunkAt
<1>9. PipelineInv'
  BY <1>1, <1>2, <1>3, <1>4, <1>8 DEF VerifyInv, PipelineInv, Checking, At
<1>10. FoundBad(cur)'
  <2>1. "unread" \in seen'[ChunkAt(i)]
    BY <1>1 DEF ReaderFail, VerifyInv, TypeOK
  <2> QED BY <1>4, <2>1 DEF FoundBad, ChunkAt, Finding
<1>11. OutcomeInv'
  BY <1>1, <1>2, <1>4, <1>5, <1>8, <1>10 DEF VerifyInv, OutcomeInv, At
<1> QED BY <1>6, <1>7, <1>9, <1>11 DEF VerifyInv

(* A bad chunk, found by a reader or a decoder, or a good one. *)
LEMMA ReportInv ==
    ASSUME VerifyInv, TypeOK', NEW i \in Pos, ReaderReport(i) \/ DecoderCheck(i)
    PROVE  VerifyInv'
<1> DEFINE c == ChunkAt(i)
<1>1. Checking /\ cur \in Snapshot /\ c \in Chunk
  BY PositionFacts DEF ReaderReport, DecoderCheck
<1>2. UNCHANGED <<pc, cur, load, ok, aborted, result, seen, late, damaged>>
  BY DEF ReaderReport, DecoderCheck
<1>3. stage[i] \in {"loaded", "decoding"} /\ load[i] \in seen[c]
  BY DEF ReaderReport, DecoderCheck, VerifyInv, PipelineInv, At
<1>4. /\ stage'[i] \in {"rename", "done"}
      /\ \A j \in Pos : j # i => stage'[j] = stage[j]
  BY DEF ReaderReport, DecoderCheck, Move, VerifyInv, TypeOK
<1>5. \/ /\ load[i] \in Intact /\ verified' = verified \cup {c} /\ corrupt' = corrupt
         /\ stage'[i] = "done"
         /\ errors' = (errors \/ load[i] = "foreign")
      \/ /\ load[i] \notin Intact /\ corrupt' = corrupt \cup {c} /\ verified' = verified
         /\ errors' = TRUE
  BY DEF ReaderReport, DecoderCheck, Move, VerifyInv, TypeOK
<1>6. MemoryInv'
  BY <1>2, <1>3, <1>5 DEF VerifyInv, MemoryInv
<1>7. OkMeansRead' /\ FailedMeansBad'
  BY <1>2 DEF VerifyInv, OkMeansRead, FailedMeansBad, ReadIntact, FoundBad
<1>8. \A j \in Pos : ChunkAt(j)' = ChunkAt(j)
  BY <1>2 DEF ChunkAt
<1>9. PipelineInv'
  BY <1>1, <1>2, <1>3, <1>4, <1>8 DEF VerifyInv, PipelineInv, Checking, At
<1>10. load[i] # "good" => FoundBad(cur)
  BY <1>3 DEF FoundBad, ChunkAt, VerifyInv, TypeOK, Finding
<1>11. errors' = errors \/ (errors' = TRUE /\ load[i] # "good")
  BY <1>5 DEF Intact, VerifyInv, TypeOK
<1>12. pc \in {"send", "result"} /\ ~errors' =>
          /\ ~errors /\ load[i] \in Intact /\ c \in verified' /\ stage'[i] = "done"
          /\ verified \subseteq verified'
  BY <1>5
<1>13. OutcomeInv'
  BY <1>2, <1>4, <1>8, <1>10, <1>11, <1>12
     DEF VerifyInv, OutcomeInv, At, ReadIntact, FoundBad
<1> QED BY <1>6, <1>7, <1>9, <1>13 DEF VerifyInv

LEMMA ThreadsInv ==
    ASSUME VerifyInv, TypeOK', Reader \/ Decoder
    PROVE  VerifyInv'
<1>1. ASSUME NEW i \in Pos, ReaderTake(i) PROVE VerifyInv'
  <2>1. pc # "result"
    BY <1>1 DEF ReaderTake, VerifyInv, PipelineInv, At
  <2> QED BY <1>1, <2>1, ThreadMove DEF ReaderTake, Stage
<1>2. ASSUME NEW i \in Pos, ReaderPass(i) \/ DecoderTake(i) PROVE VerifyInv'
  BY <1>2, ThreadMove DEF ReaderPass, DecoderTake, Stage
<1>3. ASSUME NEW i \in Pos, DecoderRename(i) PROVE VerifyInv'
  BY <1>3, ThreadMove DEF DecoderRename, Stage
<1> QED BY <1>1, <1>2, <1>3, ReaderLoadInv, ReaderFailInv, ReportInv DEF Reader, Decoder

LEMMA StartIndexInv ==
    ASSUME VerifyInv, TypeOK', NEW s \in Snapshot, StartIndex(s)
    PROVE  VerifyInv'
<1>1. /\ pc' = "send" /\ cur' = s
      /\ UNCHANGED <<load, verified, corrupt, ok, aborted, result, seen, late, damaged>>
      /\ s \notin damaged
  BY DEF StartIndex
<1>2. \A i \in Pos : /\ stage'[i] \in {"todo", "done"}
                     /\ stage'[i] = "done" => Content[s][i] \in verified \cup corrupt
  BY DEF StartIndex
<1>3. errors' = (\E i \in Pos : KnownBad(Content[s][i]))
  BY DEF StartIndex
<1>4. MemoryInv' /\ OkMeansRead' /\ FailedMeansBad'
  BY <1>1 DEF VerifyInv, MemoryInv, OkMeansRead, FailedMeansBad, ReadIntact, FoundBad
<1>5. PipelineInv'
  BY <1>1, <1>2 DEF PipelineInv, Checking, At
<1>6. errors' => FoundBad(s)
  <2> SUFFICES ASSUME NEW i \in Pos, KnownBad(Content[s][i]) PROVE FoundBad(s)
    BY <1>3
  <2>1. PICK k \in Finding : k \in seen[Content[s][i]] /\ k \notin Intact
    BY ContentAssumption DEF KnownBad, VerifyInv, MemoryInv, TypeOK
  <2> QED BY <2>1 DEF FoundBad, Intact
<1>7. ~errors' => \A i \in Pos : stage'[i] = "done" => Content[s][i] \in verified
  BY <1>2, <1>3 DEF KnownBad
<1>8. OutcomeInv'
  BY <1>1, <1>2, <1>6, <1>7 DEF OutcomeInv, At, ChunkAt, FoundBad
<1> QED BY <1>4, <1>5, <1>8 DEF VerifyInv

LEMMA SendChunkInv ==
    ASSUME VerifyInv, TypeOK', NEW i \in Pos, SendChunk(i)
    PROVE  VerifyInv'
<1>1. /\ pc = "send" /\ pc' = "send" /\ stage[i] = "todo" /\ cur \in Snapshot
      /\ UNCHANGED <<cur, load, verified, corrupt, ok, aborted, result, seen, late, damaged>>
  BY DEF SendChunk, VerifyInv, TypeOK
<1>2. /\ stage'[i] \in {"done", "rq"}
      /\ \A j \in Pos : j # i => stage'[j] = stage[j]
      /\ stage'[i] = "done" => ChunkAt(i) \in verified \/ (KnownBad(ChunkAt(i)) /\ errors' = TRUE)
      /\ errors' = errors \/ (KnownBad(ChunkAt(i)) /\ errors' = TRUE)
  BY DEF SendChunk, Move, KnownGood, VerifyInv, TypeOK
<1>3. MemoryInv' /\ OkMeansRead' /\ FailedMeansBad'
  BY <1>1 DEF VerifyInv, MemoryInv, OkMeansRead, FailedMeansBad, ReadIntact, FoundBad
<1>4. \A j \in Pos : ChunkAt(j)' = ChunkAt(j)
  BY <1>1 DEF ChunkAt
<1>5. PipelineInv'
  BY <1>1, <1>2, <1>4 DEF VerifyInv, PipelineInv, Checking, At
<1>6. KnownBad(ChunkAt(i)) => FoundBad(cur)
  <2> SUFFICES ASSUME KnownBad(ChunkAt(i)) PROVE FoundBad(cur)
    OBVIOUS
  <2>1. PICK k \in Finding : k \in seen[ChunkAt(i)] /\ k \notin Intact
    BY <1>1, ContentAssumption DEF KnownBad, VerifyInv, MemoryInv, TypeOK, ChunkAt
  <2> QED BY <2>1 DEF FoundBad, Intact, ChunkAt
<1>7. OutcomeInv'
  BY <1>1, <1>2, <1>4, <1>6 DEF VerifyInv, OutcomeInv, At, FoundBad
<1> QED BY <1>3, <1>5, <1>7 DEF VerifyInv

LEMMA TakeResultInv ==
    ASSUME VerifyInv, TypeOK', TakeResult
    PROVE  VerifyInv'
<1>1. /\ pc = "result" /\ pc' = "drop" /\ ok' = ~errors /\ cur \in Snapshot
      /\ UNCHANGED <<cur, stage, load, verified, corrupt, aborted, result, seen, damaged>>
      /\ late \subseteq late'
      /\ cur \notin late' => At({"dq", "decoding"}) = {}
  BY DEF TakeResult, pipeline, VerifyInv, TypeOK
<1>2. MemoryInv' /\ OkMeansRead' /\ FailedMeansBad'
  BY <1>1 DEF VerifyInv, MemoryInv, OkMeansRead, FailedMeansBad, ReadIntact, FoundBad
<1>3. PipelineInv'
  BY <1>1 DEF VerifyInv, PipelineInv, Checking, At, ChunkAt
<1>4. ASSUME ~errors, cur \notin late' PROVE ReadIntact(cur)
  <2> SUFFICES ASSUME NEW i \in Pos PROVE seen[Content[cur][i]] \cap Intact # {}
    BY DEF ReadIntact
  <2>1. stage[i] = "done"
    BY <1>1, <1>4 DEF VerifyInv, PipelineInv, OutcomeInv, At, TypeOK, Stage
  <2> QED BY <1>1, <1>4, <2>1 DEF VerifyInv, OutcomeInv, MemoryInv, At, ChunkAt
<1>5. OutcomeInv'
  BY <1>1, <1>4 DEF VerifyInv, OutcomeInv, ReadIntact, FoundBad, TypeOK
<1> QED BY <1>2, <1>3, <1>5 DEF VerifyInv

LEMMA RecordResultInv ==
    ASSUME VerifyInv, TypeOK', RecordResult
    PROVE  VerifyInv'
<1>1. /\ pc = "drop" /\ pc' \in {"pick", "aborted"} /\ cur \in Snapshot
      /\ \A i \in Pos : stage[i] = "done"
      /\ UNCHANGED <<cur, stage, load, errors, verified, corrupt, ok, aborted, seen, late, damaged>>
  BY DEF RecordResult, pipeline, VerifyInv, TypeOK
<1>2. /\ \A s \in Snapshot : s # cur => result'[s] = result[s]
      /\ \/ result' = result
         \/ ~aborted /\ result'[cur] = IF ok THEN "ok" ELSE "failed"
  BY DEF RecordResult, VerifyInv, TypeOK
<1>3. MemoryInv' /\ PipelineInv' /\ OutcomeInv'
  BY <1>1 DEF VerifyInv, MemoryInv, PipelineInv, OutcomeInv, Checking, At
<1>4. OkMeansRead'
  BY <1>1, <1>2 DEF VerifyInv, OutcomeInv, OkMeansRead, ReadIntact
<1>5. FailedMeansBad'
  BY <1>1, <1>2 DEF VerifyInv, OutcomeInv, FailedMeansBad, FoundBad
<1> QED BY <1>3, <1>4, <1>5 DEF VerifyInv

LEMMA RejectIndexInv ==
    ASSUME VerifyInv, TypeOK', NEW s \in Snapshot, RejectIndex(s)
    PROVE  VerifyInv'
<1>1. /\ pc = "pick" /\ pc' = "drop" /\ cur' = s /\ s \in damaged /\ ~ok'
      /\ UNCHANGED <<stage, load, errors, verified, corrupt, aborted, result, seen, late, damaged>>
  BY DEF RejectIndex, pipeline
<1>2. MemoryInv' /\ OkMeansRead' /\ FailedMeansBad'
  BY <1>1 DEF VerifyInv, MemoryInv, OkMeansRead, FailedMeansBad, ReadIntact, FoundBad
<1>3. PipelineInv' /\ OutcomeInv'
  BY <1>1 DEF VerifyInv, PipelineInv, OutcomeInv, Checking, At, FoundBad
<1> QED BY <1>2, <1>3 DEF VerifyInv

(* Steps that leave the pipeline to its threads. *)
LEMMA OtherStepsInv ==
    ASSUME VerifyInv, TypeOK',
           \/ ReadersDone \/ StopSending \/ Finish \/ Abort \/ Ended \/ UNCHANGED vars
           \/ \E s \in Snapshot : SkipSnapshot(s)
           \/ \E c \in Chunk : Upload(c)
    PROVE  VerifyInv'
<1> USE DEF VerifyInv
<1>1. UNCHANGED <<cur, load, errors, verified, corrupt, result, seen, late, damaged>>
  BY DEF ReadersDone, StopSending, Finish, Abort, Ended, vars, SkipSnapshot, Upload, pipeline
<1>2. MemoryInv' /\ OkMeansRead' /\ FailedMeansBad'
  BY <1>1 DEF MemoryInv, OkMeansRead, FailedMeansBad, ReadIntact, FoundBad
<1>3. CASE ReadersDone
  BY <1>1, <1>2, <1>3 DEF ReadersDone, pipeline, PipelineInv, OutcomeInv, Checking, At, ChunkAt,
     ReadIntact, FoundBad
<1>4. CASE StopSending
  <2>1. /\ pc' = "drop" /\ ~ok' /\ aborted'
        /\ \A i \in Pos : stage'[i] = stage[i] \/ stage'[i] = "done"
        /\ pc = "send"
    BY <1>4 DEF StopSending
  <2> QED BY <1>1, <1>2, <2>1 DEF PipelineInv, OutcomeInv, Checking, At, ChunkAt
<1>5. CASE Finish \/ \E s \in Snapshot : SkipSnapshot(s)
  BY <1>1, <1>2, <1>5 DEF Finish, SkipSnapshot, pipeline, PipelineInv, OutcomeInv, Checking, At, ChunkAt
<1>6. CASE Abort \/ Ended \/ UNCHANGED vars \/ \E c \in Chunk : Upload(c)
  <2>1. UNCHANGED <<pc, ok, stage>> /\ (aborted => aborted')
    BY <1>6 DEF Abort, Ended, vars, Upload, pipeline
  <2> QED BY <1>1, <1>2, <2>1 DEF PipelineInv, OutcomeInv, Checking, At, ChunkAt, ReadIntact, FoundBad
<1> QED BY <1>3, <1>4, <1>5, <1>6

LEMMA InitVerifyInv == Init => VerifyInv
<1> SUFFICES ASSUME Init PROVE VerifyInv
  OBVIOUS
<1>1. TypeOK
  BY InitTypeOK
<1>2. MemoryInv /\ PipelineInv /\ OutcomeInv /\ OkMeansRead /\ FailedMeansBad
  BY DEF Init, MemoryInv, PipelineInv, OutcomeInv, OkMeansRead, FailedMeansBad, Checking, At
<1> QED BY <1>1, <1>2 DEF VerifyInv

LEMMA NextVerifyInv == VerifyInv /\ [Next]_vars => VerifyInv'
<1> SUFFICES ASSUME VerifyInv, [Next]_vars PROVE VerifyInv'
  OBVIOUS
<1>1. TypeOK'
  BY NextTypeOK
<1> QED BY <1>1, ThreadsInv, StartIndexInv, RejectIndexInv, SendChunkInv, TakeResultInv, RecordResultInv, OtherStepsInv
        DEF Next, Worker

(* verify_index_chunks and its pools, for any snapshots, indexes and       *)
(* numbers of threads: what is remembered as verified or corrupt was read  *)
(* so, and what is counted as an error has a cause among what was read.    *)
THEOREM CountsAgreeWithReads == Spec => []VerifyInv
  BY InitVerifyInv, NextVerifyInv, PTL DEF Spec

(* What the manifests say after a verification, for any snapshots, indexes *)
(* and numbers of threads: a snapshot is recorded as failed only for a     *)
(* cause this worker has seen, and as good only if all its chunks were     *)
(* read intact, unless the outcome was fixed with chunks still undecoded.  *)
THEOREM RecordsAreSound == Spec => [](OkMeansRead /\ FailedMeansBad)
<1>1. Spec => []VerifyInv
  BY CountsAgreeWithReads
<1>2. VerifyInv => OkMeansRead /\ FailedMeansBad
  BY DEF VerifyInv
<1> QED BY <1>1, <1>2, PTL

=============================================================================
