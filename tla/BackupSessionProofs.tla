------------------------ MODULE BackupSessionProofs ------------------------
(* A finished backup agrees with its manifest: the proof that SessionInv is *)
(* inductive for an orderly client.                                         *)
EXTENDS BackupSession, SequenceTheorems, TLAPS

-----------------------------------------------------------------------------
(* Types *)

WriterStage == {"free", "created", "open", "failed", "closed", "sent", "put", "gone"}
BlobRequest == [stage : {"start", "put", "stored", "error"}, name : Blob, data : BlobData]

LEMMA InitTypeOK == Init => TypeOK
<1> SUFFICES ASSUME Init PROVE TypeOK
  OBVIOUS
<1>1. /\ data \in [Writer -> IndexData] /\ sent \in [Writer -> Contents]
      /\ object \in [Name -> Contents]
      /\ uploaded \in [Name -> IndexData \cup BlobData \cup {None}]
  BY DEF Init, IndexData, Contents
<1>2. /\ name \in [Writer -> Index \cup {None}]
      /\ tmp \in [Index -> Writer \cup {None}] /\ link \in [Index -> Writer \cup {None}]
      /\ blob \in [Blob -> BlobData \cup {None}]
      /\ stage \in [Writer -> WriterStage]
      /\ \A w \in Writer : stage[w] = "free" /\ name[w] \notin Index
  BY DataAssumption DEF Init, WriterStage
<1>3. req \in [Request -> {Idle} \cup BlobRequest]
  BY DEF Init
<1> QED BY <1>1, <1>2, <1>3 DEF Init, TypeOK, WriterStage, BlobRequest

LEMMA OnDiskType ==
    ASSUME TypeOK, NEW n \in Name
    PROVE  OnDisk(n) \in Contents
  BY DEF TypeOK, OnDisk, Contents, Name

LEMMA WriterTypeOK ==
    ASSUME TypeOK, NEW w \in Writer, WriterStep(w)
    PROVE  TypeOK'
<1> DEFINE Stages == WriterStage
<1>1. ASSUME NEW n \in Index, CreateIndex(w, n) PROVE TypeOK'
  <2>1. stage' \in [Writer -> Stages] /\ name' \in [Writer -> Index \cup {None}]
    BY <1>1 DEF CreateIndex, TypeOK, WriterStage
  <2>2. \A v \in Writer : stage'[v] # "free" <=> name'[v] \in Index
    BY <1>1 DEF CreateIndex, TypeOK
  <2>3. tmp' \in [Index -> Writer \cup {None}] /\ spoiled' \subseteq Writer
    BY <1>1 DEF CreateIndex, TypeOK
  <2> QED BY <1>1, <2>1, <2>2, <2>3 DEF CreateIndex, TypeOK, WriterStage, stateVars
<1>2. CASE RegisterWriter(w) \/ RemoveWriter(w)
  <2>1. stage[w] # "free" /\ name[w] \in Index
    BY <1>2 DEF RegisterWriter, RemoveWriter, TypeOK
  <2>2. stage' \in [Writer -> Stages] /\ \A v \in Writer : stage'[v] # "free" <=> stage[v] # "free"
    BY <1>2, <2>1 DEF RegisterWriter, RemoveWriter, Drop, TypeOK, WriterStage
  <2>3. tmp' \in [Index -> Writer \cup {None}]
    BY <1>2 DEF RegisterWriter, RemoveWriter, Drop, TypeOK
  <2> QED BY <1>2, <2>2, <2>3 DEF RegisterWriter, RemoveWriter, TypeOK, WriterStage, stateVars
<1>3. ASSUME NEW c \in Chunk, AppendChunk(w, c) PROVE TypeOK'
  <2>1. data' \in [Writer -> IndexData]
    BY <1>3 DEF AppendChunk, TypeOK, IndexData
  <2> QED BY <1>3, <2>1 DEF AppendChunk, TypeOK, stateVars, fileVars
<1>4. CASE CloseWriter(w)
  <2>1. stage[w] # "free" /\ name[w] \in Index
    BY <1>4 DEF CloseWriter, TypeOK
  <2>2. stage' \in [Writer -> Stages] /\ \A v \in Writer : stage'[v] # "free" <=> stage[v] # "free"
    BY <1>4, <2>1 DEF CloseWriter, TypeOK, WriterStage
  <2>3. tmp' \in [Index -> Writer \cup {None}] /\ link' \in [Index -> Writer \cup {None}]
    BY <1>4, <2>1 DEF CloseWriter, TypeOK
  <2>4. uploaded' \in [Name -> IndexData \cup BlobData \cup {None}]
    BY <1>4, <2>1 DEF CloseWriter, TypeOK
  <2>5. hasFile' \in BOOLEAN
    BY <1>4 DEF CloseWriter, TypeOK
  <2> QED BY <1>4, <2>2, <2>3, <2>4, <2>5 DEF CloseWriter, TypeOK, WriterStage
<1>5. CASE ReadIndex(w)
  <2>1. name[w] \in Name
    BY <1>5 DEF ReadIndex, TypeOK, Name
  <2>2. sent' \in [Writer -> Contents]
    BY <1>5, <2>1, OnDiskType DEF ReadIndex, TypeOK
  <2>3. stage' \in [Writer -> Stages] /\ \A v \in Writer : stage'[v] # "free" <=> stage[v] # "free"
    BY <1>5 DEF ReadIndex, TypeOK, WriterStage
  <2> QED BY <1>5, <2>2, <2>3 DEF ReadIndex, TypeOK, WriterStage, stateVars, fileVars
<1>6. CASE PutIndex(w) \/ UploadFails(w)
  <2>1. stage' \in [Writer -> Stages] /\ \A v \in Writer : stage'[v] # "free" <=> stage[v] # "free"
    BY <1>6 DEF PutIndex, UploadFails, TypeOK, WriterStage
  <2>2. object' \in [Name -> Contents]
    BY <1>6 DEF PutIndex, UploadFails, TypeOK, fileVars
  <2> QED BY <1>6, <2>1, <2>2 DEF PutIndex, UploadFails, TypeOK, WriterStage, stateVars, fileVars
<1> QED BY <1>1, <1>2, <1>3, <1>4, <1>5, <1>6 DEF WriterStep

LEMMA BlobTypeOK ==
    ASSUME TypeOK, NEW r \in Request, BlobStep(r)
    PROVE  TypeOK'
<1> DEFINE R == {Idle} \cup BlobRequest
<1>0. req \in [Request -> R]
  BY DEF TypeOK, BlobRequest
<1>1. ASSUME NEW q \in R, q.stage # "idle" PROVE q \in BlobRequest
  BY <1>1 DEF Idle
<1>2. ASSUME NEW n \in Blob, NEW d \in BlobData, StartBlob(r, n, d) PROVE TypeOK'
  <2>1. [stage |-> "start", name |-> n, data |-> d] \in BlobRequest
    BY DEF BlobRequest
  <2>2. req' \in [Request -> R]
    BY <1>0, <1>2, <2>1 DEF StartBlob
  <2> QED BY <1>2, <2>2 DEF StartBlob, TypeOK, BlobRequest, writerVars, fileVars, stateVars
<1>3. CASE PutBlob(r) \/ ReplaceBlob(r) \/ BlobFails(r) \/ RegisterBlob(r)
  <2>1. req[r] \in BlobRequest
    BY <1>0, <1>1, <1>3 DEF PutBlob, ReplaceBlob, BlobFails, RegisterBlob
  <2>2. req[r].name \in Blob /\ req[r].data \in BlobData
    BY <2>1 DEF BlobRequest
  <2>3. ASSUME NEW st \in {"start", "put", "stored", "error"}, req' = [req EXCEPT ![r].stage = st]
        PROVE  req' \in [Request -> R]
    BY <1>0, <2>1, <2>3 DEF BlobRequest
  <2>4. ASSUME req' = [req EXCEPT ![r] = Idle] PROVE req' \in [Request -> R]
    BY <1>0, <2>4
  <2>5. req' \in [Request -> R]
    BY <1>3, <2>3, <2>4 DEF PutBlob, ReplaceBlob, BlobFails, RegisterBlob
  <2>6. blob' \in [Blob -> BlobData \cup {None}]
    BY <1>3, <2>2 DEF PutBlob, ReplaceBlob, BlobFails, RegisterBlob, TypeOK, fileVars
  <2>7. object' \in [Name -> Contents]
    BY <1>3, <2>2 DEF PutBlob, ReplaceBlob, BlobFails, RegisterBlob, TypeOK, fileVars, Contents
  <2>8. uploaded' \in [Name -> IndexData \cup BlobData \cup {None}] /\ hasFile' \in BOOLEAN
    BY <1>3, <2>2 DEF PutBlob, ReplaceBlob, BlobFails, RegisterBlob, TypeOK, stateVars
  <2> QED BY <1>3, <2>5, <2>6, <2>7, <2>8
          DEF PutBlob, ReplaceBlob, BlobFails, RegisterBlob, TypeOK, BlobRequest,
              writerVars, fileVars, stateVars
<1> QED BY <1>2, <1>3 DEF BlobStep

LEMMA FinishTypeOK ==
    ASSUME TypeOK, FinishStep
    PROVE  TypeOK'
<1>1. ASSUME NEW m \in SomeManifest, AddManifest(m) PROVE TypeOK'
  <2>1. m \in Manifest
    <3>1. ASSUME NEW k \in 1 .. MaxChunks, NEW f \in [1 .. k -> Chunk] PROVE f \in IndexData
      <4>1. k \in Nat
        BY BoundAssumption
      <4> QED BY <4>1, SeqDef DEF IndexData
    <3>2. m \in [Name -> SomeIndexData \cup BlobData \cup {None}]
      BY <1>1 DEF SomeManifest
    <3>3. SomeIndexData \subseteq IndexData
      BY <3>1 DEF SomeIndexData
    <3> QED BY <3>2, <3>3 DEF Manifest
  <2> QED BY <1>1, <2>1 DEF AddManifest, TypeOK, writerVars, fileVars
<1>2. CASE StartFinish \/ PutManifest \/ WriteManifest \/ FinishFails \/ CompleteFinish
  BY ZenonT(60), <1>2 DEF StartFinish, PutManifest, WriteManifest, FinishFails, CompleteFinish, TypeOK,
              writerVars, fileVars
<1> QED BY <1>1, <1>2 DEF FinishStep

LEMMA EndTypeOK ==
    ASSUME TypeOK, EndStep
    PROVE  TypeOK'
  BY ZenonT(60) DEF EndStep, EndConnection, RemoveObjects, RemoveFiles, RemoveDirectory, TypeOK, Contents,
         writerVars, fileVars, stateVars

LEMMA NextTypeOK == TypeOK /\ [Next]_vars => TypeOK'
<1> SUFFICES ASSUME TypeOK, [Next]_vars PROVE TypeOK'
  OBVIOUS
<1>1. CASE UNCHANGED vars
  BY <1>1 DEF vars, writerVars, fileVars, stateVars, TypeOK
<1> QED BY <1>1, WriterTypeOK, BlobTypeOK, FinishTypeOK, EndTypeOK DEF Next

-----------------------------------------------------------------------------
(* No writer after finish, for any client *)

LEMMA NextNoWriter ==
    ASSUME TypeOK, NoWriterAfterFinish, [Next]_vars
    PROVE  NoWriterAfterFinish'
<1> USE DEF NoWriterAfterFinish, Registered
<1>1. ASSUME NEW w \in Writer, WriterStep(w) PROVE NoWriterAfterFinish'
  <2>1. UNCHANGED finished
    BY <1>1 DEF WriterStep, CreateIndex, RegisterWriter, AppendChunk, CloseWriter, ReadIndex, PutIndex,
                UploadFails, RemoveWriter, stateVars
  <2>2. \A v \in Writer : v # w => stage'[v] = stage[v]
    BY <1>1 DEF WriterStep, CreateIndex, RegisterWriter, AppendChunk, CloseWriter, ReadIndex, PutIndex,
                UploadFails, RemoveWriter, Drop, TypeOK
  <2>3. finished # "active" /\ w \notin Registered => stage'[w] \in {"free", "created", "gone"}
    BY <1>1 DEF WriterStep, CreateIndex, RegisterWriter, AppendChunk, CloseWriter, ReadIndex, PutIndex,
                UploadFails, RemoveWriter, Drop, TypeOK
  <2> QED BY <2>1, <2>2, <2>3
<1>2. CASE FinishStep
  <2>1. UNCHANGED stage
    BY <1>2 DEF FinishStep, AddManifest, StartFinish, PutManifest, WriteManifest, FinishFails,
                CompleteFinish, writerVars
  <2>2. finished' = finished \/ Registered = {} \/ finished # "active"
    BY <1>2 DEF FinishStep, AddManifest, StartFinish, PutManifest, WriteManifest, FinishFails,
                CompleteFinish
  <2> QED BY <2>1, <2>2
<1>3. CASE EndStep \/ UNCHANGED vars \/ \E r \in Request : BlobStep(r)
  <2>1. UNCHANGED <<finished, stage>>
    BY <1>3 DEF EndStep, EndConnection, RemoveObjects, RemoveFiles, RemoveDirectory, BlobStep, StartBlob,
                PutBlob, ReplaceBlob, BlobFails, RegisterBlob, vars, writerVars, stateVars
  <2> QED BY <2>1
<1> QED BY <1>1, <1>2, <1>3 DEF Next

(* From the moment finish is accepted no index writer is registered and no *)
(* index is being uploaded, whatever requests the client sends: this is    *)
(* what keeping a closed writer registered until it is uploaded is for.    *)
THEOREM NoWriterLeft == Spec => []NoWriterAfterFinish
<1>1. Init => TypeOK /\ NoWriterAfterFinish
  BY InitTypeOK DEF Init, NoWriterAfterFinish
<1>2. (TypeOK /\ NoWriterAfterFinish) /\ [Next]_vars => (TypeOK /\ NoWriterAfterFinish)'
  BY NextTypeOK, NextNoWriter
<1>3. Spec => [](TypeOK /\ NoWriterAfterFinish)
  BY <1>1, <1>2, PTL DEF Spec
<1> QED BY <1>3, PTL

-----------------------------------------------------------------------------
(* The files of one index name *)

(* The steps about other names leave Lost(n) and Clean(n) alone. *)
SameWriters(n) ==
    \A w \in Writer : (name[w] = n <=> name'[w] = n) /\ (name[w] = n => stage'[w] = stage[w])
SameFiles(n) ==
    /\ tmp'[n] = tmp[n] /\ link'[n] = link[n]
    /\ tmp[n] # None => (tmp[n] \in spoiled' <=> tmp[n] \in spoiled)
    /\ link[n] # None => (link[n] \in spoiled' <=> link[n] \in spoiled)
SameArchive(n) == uploaded'[n] = uploaded[n] /\ object'[n] = object[n]

LEMMA LostFrame ==
    ASSUME NEW n \in Index, SameWriters(n), SameFiles(n), Lost(n)
    PROVE  Lost(n)'
  BY DEF SameWriters, SameFiles, Lost, Pending

LEMMA CleanFrame ==
    ASSUME TypeOK, TypeOK', WritersInv, NEW n \in Index,
           SameWriters(n), SameFiles(n), SameArchive(n), Clean(n),
           link[n] # None => data'[link[n]] = data[link[n]],
           \A w \in Writer : name[w] = n => sent'[w] = sent[w]
    PROVE  Clean(n)'
<1>1. OnDisk(n)' = OnDisk(n)
  BY NameAssumption DEF SameFiles, OnDisk
<1>2. Pending(n)' = Pending(n) /\ Busy(n)' = Busy(n)
  BY DEF SameWriters, Pending, Busy, Uploading, Creating
<1>3. link[n] # None => name[link[n]] = n /\ link[n] \in Writer
  BY DEF WritersInv, TypeOK
<1>4. \A w \in Busy(n) : w \in Writer /\ stage'[w] = stage[w] /\ sent'[w] = sent[w]
  BY DEF Busy, Uploading, Creating, SameWriters
<1>5. (Busy(n) \cap Uploading)' = Busy(n) \cap Uploading
  BY <1>2, <1>4 DEF Busy, Uploading, Creating
<1> QED BY <1>1, <1>2, <1>3, <1>4, <1>5 DEF Clean, SameFiles, SameArchive, SameWriters

LEMMA OtherNames ==
    ASSUME TypeOK, WritersInv, NEW w \in Writer, WriterStep(w), NEW n \in Index, name'[w] # n
    PROVE  /\ SameWriters(n) /\ SameFiles(n) /\ SameArchive(n)
           /\ link[n] # None => data'[link[n]] = data[link[n]]
           /\ \A v \in Writer : name[v] = n => sent'[v] = sent[v]
<1>1. /\ tmp[n] # None => tmp[n] \in Writer /\ name[tmp[n]] = n
      /\ link[n] # None => link[n] \in Writer /\ name[link[n]] = n
  BY DEF TypeOK, WritersInv
<1>2. n \in Name
  BY DEF Name
<1>3. ASSUME NEW k \in Index, CreateIndex(w, k)
      PROVE  /\ SameWriters(n) /\ SameFiles(n) /\ SameArchive(n)
             /\ UNCHANGED <<data, sent>>
  <2>1. k # n /\ name[w] # n
    BY <1>3 DEF CreateIndex, TypeOK
  <2>2. SameWriters(n)
    BY <1>3, <2>1 DEF CreateIndex, TypeOK, SameWriters
  <2>3. tmp'[n] = tmp[n]
    BY <1>3, <2>1 DEF CreateIndex, TypeOK
  <2>4. spoiled' = spoiled \/ (spoiled' = spoiled \cup {tmp[k]} /\ tmp[k] # None)
    BY <1>3 DEF CreateIndex
  <2>5. tmp[k] # None => name[tmp[k]] = k
    BY DEF WritersInv
  <2>6. SameFiles(n)
    BY <1>1, <1>3, <2>1, <2>3, <2>4, <2>5 DEF CreateIndex, SameFiles
  <2> QED BY <1>3, <2>2, <2>6 DEF CreateIndex, SameArchive, stateVars
<1>4. ASSUME ~ \E k \in Index : CreateIndex(w, k)
      PROVE  name[w] # n /\ name' = name /\ spoiled' = spoiled
  BY <1>4 DEF WriterStep, RegisterWriter, AppendChunk, CloseWriter, ReadIndex, PutIndex, UploadFails,
              RemoveWriter
<1>5. ASSUME RegisterWriter(w) \/ RemoveWriter(w), name[w] # n, name' = name, spoiled' = spoiled
      PROVE  SameWriters(n) /\ SameFiles(n) /\ SameArchive(n) /\ UNCHANGED <<data, sent>>
  BY <1>5 DEF RegisterWriter, RemoveWriter, Drop, TypeOK, SameWriters, SameFiles, SameArchive, stateVars
<1>6. ASSUME NEW c \in Chunk, AppendChunk(w, c), name[w] # n
      PROVE  /\ SameWriters(n) /\ SameFiles(n) /\ SameArchive(n)
             /\ link[n] # None => data'[link[n]] = data[link[n]]
             /\ UNCHANGED sent
  BY <1>1, <1>6 DEF AppendChunk, TypeOK, SameWriters, SameFiles, SameArchive, stateVars, fileVars
<1>7. ASSUME CloseWriter(w), name[w] # n, name[w] \in Index
      PROVE  SameWriters(n) /\ SameFiles(n) /\ SameArchive(n) /\ UNCHANGED <<data, sent>>
  BY <1>2, <1>7 DEF CloseWriter, TypeOK, SameWriters, SameFiles, SameArchive
<1>8. ASSUME ReadIndex(w) \/ UploadFails(w), name[w] # n
      PROVE  /\ SameWriters(n) /\ SameFiles(n) /\ SameArchive(n) /\ UNCHANGED data
             /\ \A v \in Writer : name[v] = n => sent'[v] = sent[v]
  BY <1>8 DEF ReadIndex, UploadFails, TypeOK, SameWriters, SameFiles, SameArchive, fileVars, stateVars
<1>9. ASSUME PutIndex(w), name[w] # n
      PROVE  SameWriters(n) /\ SameFiles(n) /\ SameArchive(n) /\ UNCHANGED <<data, sent>>
  BY <1>2, <1>9 DEF PutIndex, TypeOK, SameWriters, SameFiles, SameArchive, stateVars
<1>10. stage[w] # "free" => name[w] \in Index
  BY DEF TypeOK
<1>11. CASE \E k \in Index : CreateIndex(w, k)
  BY <1>3, <1>11
<1>12. CASE ~ \E k \in Index : CreateIndex(w, k)
  <2>1. name[w] # n /\ name' = name /\ spoiled' = spoiled
    BY <1>4, <1>12
  <2>2. CloseWriter(w) => name[w] \in Index
    BY <1>10 DEF CloseWriter
  <2> QED BY <1>5, <1>6, <1>7, <1>8, <1>9, <1>12, <2>1, <2>2 DEF WriterStep
<1> QED BY <1>11, <1>12

(* A request about n starts when none is in flight. *)
LEMMA ArrivalAlone ==
    ASSUME Environment = {}, NEW n, Arrives(n)
    PROVE  Busy(n) = {} /\ BlobRequests(n) = {} /\ conn = "serving"
  BY DEF Arrives, InFlight, Busy, BlobRequests

LEMMA CreateOwn ==
    ASSUME Environment = {}, TypeOK, WritersInv, NEW w \in Writer, NEW n \in Index, CreateIndex(w, n)
    PROVE  Lost(n)' \/ Clean(n)'
<1>1. Busy(n) = {} /\ conn = "serving"
  BY ArrivalAlone DEF CreateIndex
<1>2. /\ stage[w] = "free" /\ name[w] # n /\ w \notin spoiled
      /\ stage'[w] = "created" /\ name'[w] = n
      /\ \A v \in Writer : v # w => stage'[v] = stage[v] /\ name'[v] = name[v]
  BY DEF CreateIndex, TypeOK, WritersInv
<1>3. Pending(n)' = Pending(n) \cup {w} /\ w \notin Pending(n)
  BY <1>2 DEF Pending
<1>4. \A v \in Pending(n) : v \in Writer /\ stage[v] = "open" /\ stage'[v] = "open"
  BY <1>1, <1>2 DEF Pending, Busy, Creating
<1>5. CASE Lost(n)
  <2>1. CASE \E v \in Writer : name[v] = n /\ stage[v] = "failed"
    BY <1>2, <2>1 DEF Lost
  <2>2. CASE \E v \in Pending(n) : stage[v] = "open"
    BY <1>3, <1>4, <2>2 DEF Lost
  <2> QED BY <1>5, <2>1, <2>2 DEF Lost
<1>6. CASE Clean(n) /\ tmp[n] # None
  <2>1. Pending(n) = {tmp[n]}
    BY <1>6 DEF Clean
  <2> QED BY <1>3, <1>4, <2>1 DEF Lost
<1>7. CASE Clean(n) /\ tmp[n] = None
  <2>1. tmp'[n] = w /\ spoiled' = spoiled /\ UNCHANGED <<data, sent, link, object, uploaded>>
    BY <1>7 DEF CreateIndex, TypeOK, stateVars
  <2>2. Pending(n)' = {w}
    BY <1>3, <1>7 DEF Clean
  <2>3. Busy(n)' = {w} /\ w \notin Uploading'
    BY <1>1, <1>2 DEF Busy, Creating, Uploading
  <2>4. OnDisk(n)' = OnDisk(n)
    BY <2>1, NameAssumption DEF OnDisk
  <2>5. link[n] # None => link[n] \in Writer /\ link[n] # w
    BY <1>2 DEF TypeOK, WritersInv
  <2>6. w # None
    BY DataAssumption
  <2> QED BY <1>1, <1>2, <1>7, <2>1, <2>2, <2>3, <2>4, <2>5, <2>6 DEF Clean
<1> QED BY <1>1, <1>5, <1>6, <1>7 DEF WritersInv

LEMMA RegisterOwn ==
    ASSUME TypeOK, WritersInv, conn = "serving", NEW w \in Writer, NEW n \in Index, name[w] = n, RegisterWriter(w)
    PROVE  Lost(n)' \/ Clean(n)'
<1>1. n \in Index /\ stage[w] = "created"
  BY DEF RegisterWriter, TypeOK
<1>2. /\ name' = name /\ UNCHANGED <<data, sent, spoiled, link, object, uploaded>>
      /\ \A v \in Writer : v # w => stage'[v] = stage[v]
  BY DEF RegisterWriter, Drop, TypeOK, stateVars
<1>3. Busy(n) = {w} /\ w \notin Uploading
  BY <1>1 DEF WritersInv, Busy, Creating, Uploading
<1>4. OnDisk(n)' = OnDisk(n)
  BY <1>1, <1>2, NameAssumption DEF OnDisk
<1>5. Lost(n) \/ Clean(n)
  BY <1>1 DEF WritersInv
<1>6. Clean(n) => link[n] # w
  BY <1>1, DataAssumption DEF Clean
<1>7. link[n] # None => link[n] \in Writer
  BY <1>1 DEF TypeOK
<1>8. CASE stage'[w] = "open" /\ tmp' = tmp
  <2>1. Pending(n)' = Pending(n) /\ Busy(n)' = {}
    BY <1>1, <1>2, <1>3, <1>8 DEF Pending, Busy, Uploading, Creating
  <2>2. CASE Lost(n)
    BY <1>1, <1>2, <1>8, <2>1, <2>2 DEF Lost, Pending
  <2>3. CASE Clean(n)
    BY <1>1, <1>2, <1>3, <1>4, <1>6, <1>7, <1>8, <2>1, <2>3 DEF Clean
  <2> QED BY <1>5, <2>2, <2>3
<1>9. CASE stage'[w] = "gone" /\ tmp' = [tmp EXCEPT ![n] = None]
  <2>1. Pending(n)' = Pending(n) \ {w} /\ Busy(n)' = {} /\ w \in Pending(n)
    BY <1>1, <1>2, <1>3, <1>9 DEF Pending, Busy, Uploading, Creating
  <2>2. tmp'[n] = None
    BY <1>1, <1>9 DEF TypeOK
  <2>3. CASE Lost(n)
    BY <1>1, <1>2, <2>1, <2>2, <2>3 DEF Lost, Pending
  <2>4. CASE Clean(n)
    <3>1. Pending(n)' = {}
      BY <2>1, <2>4 DEF Clean
    <3> QED BY <1>1, <1>2, <1>3, <1>4, <1>6, <1>7, <2>1, <2>2, <2>4, <3>1 DEF Clean
  <2> QED BY <1>5, <2>3, <2>4
<1> QED BY <1>8, <1>9 DEF RegisterWriter, Drop, TypeOK

LEMMA AppendOwn ==
    ASSUME TypeOK, TypeOK', WritersInv, NEW w \in Writer, NEW n \in Index, name[w] = n, NEW c \in Chunk, AppendChunk(w, c)
    PROVE  Lost(n)' \/ Clean(n)'
<1>1. n \in Index /\ stage[w] = "open" /\ conn = "serving"
  BY DEF AppendChunk, TypeOK
<1>2. SameWriters(n) /\ SameFiles(n) /\ SameArchive(n) /\ UNCHANGED sent
  BY DEF AppendChunk, SameWriters, SameFiles, SameArchive, fileVars, stateVars
<1>3. Clean(n) => link[n] # w
  BY <1>1, DataAssumption DEF Clean
<1>4. Clean(n) => (link[n] # None => data'[link[n]] = data[link[n]])
  BY <1>1, <1>3 DEF AppendChunk, TypeOK
<1>5. Lost(n) \/ Clean(n)
  BY <1>1 DEF WritersInv
<1>6. CASE Lost(n)
  BY <1>1, <1>2, <1>6, LostFrame
<1>7. CASE Clean(n)
  BY <1>1, <1>2, <1>4, <1>7, CleanFrame
<1> QED BY <1>5, <1>6, <1>7

LEMMA CloseOwn ==
    ASSUME Environment = {}, TypeOK, WritersInv, NEW w \in Writer, NEW n \in Index, name[w] = n, CloseWriter(w)
    PROVE  Lost(n)' \/ Clean(n)'
<1>1. n \in Index /\ n \in Name /\ n \notin Blob /\ stage[w] = "open"
  BY NameAssumption DEF CloseWriter, TypeOK, Name
<1>2. Busy(n) = {} /\ conn = "serving"
  BY ArrivalAlone DEF CloseWriter
<1>3. /\ name' = name /\ UNCHANGED <<data, sent, spoiled, object>>
      /\ \A v \in Writer : v # w => stage'[v] = stage[v]
      /\ tmp'[n] = None
  BY <1>1 DEF CloseWriter, TypeOK
<1>4. w \in Pending(n) /\ Pending(n)' = Pending(n) \ {w}
  BY <1>1, <1>3 DEF Pending, CloseWriter, TypeOK
<1>5. \A v \in Pending(n) : v \in Writer /\ stage[v] = "open"
  BY <1>2 DEF Pending, Busy, Creating
<1>6. stage'[w] = "failed" => Lost(n)'
  BY <1>3 DEF Lost
<1>7. (Pending(n) \ {w} # {}) => Lost(n)'
  BY <1>3, <1>4, <1>5 DEF Lost
<1>8. CASE Lost(n)
  <2>1. CASE \E v \in Writer : name[v] = n /\ stage[v] = "failed"
    BY <1>1, <1>3, <2>1 DEF Lost
  <2>2. CASE tmp[n] = None
    BY <1>1, <1>6, <2>2 DEF CloseWriter, TypeOK
  <2>3. CASE tmp[n] # None /\ \E v \in Pending(n) : Pending(n) \ {v} # {}
    BY <1>4, <1>7, <2>3
  <2> QED BY <1>8, <2>1, <2>2, <2>3 DEF Lost
<1>9. CASE Clean(n)
  <2>1. tmp[n] = w /\ Pending(n) = {w} /\ w \notin spoiled /\ w # None
    BY <1>4, <1>9, DataAssumption DEF Clean
  <2>2. link'[n] = w
    BY <1>1, <2>1 DEF CloseWriter, TypeOK
  <2>3. CASE stage'[w] = "closed" /\ uploaded'[n] = data[w]
    <3>1. OnDisk(n)' = data[w]
      BY <1>1, <1>3, <2>1, <2>2 DEF OnDisk
    <3>2. Busy(n)' = {w} /\ Pending(n)' = {}
      BY <1>2, <1>3, <1>4, <2>1, <2>3 DEF Busy, Creating, Uploading
    <3> QED BY <1>3, <2>1, <2>2, <2>3, <3>1, <3>2 DEF Clean
  <2>4. \/ stage'[w] = "failed"
        \/ stage'[w] = "closed" /\ uploaded'[n] = data[w]
    BY <1>1, <2>1 DEF CloseWriter, TypeOK
  <2> QED BY <1>6, <2>3, <2>4
<1> QED BY <1>1, <1>2, <1>8, <1>9 DEF WritersInv

LEMMA UploadOwn ==
    ASSUME TypeOK, WritersInv, conn = "serving", NEW w \in Writer, NEW n \in Index, name[w] = n,
           ReadIndex(w) \/ PutIndex(w) \/ UploadFails(w)
    PROVE  Lost(n)' \/ Clean(n)'
<1>1. /\ n \in Index /\ n \in Name /\ n \notin Blob
      /\ stage[w] \in {"closed", "sent"} /\ stage'[w] \in {"sent", "put", "failed"}
  BY NameAssumption DEF ReadIndex, PutIndex, UploadFails, TypeOK, Name
<1>2. /\ name' = name /\ UNCHANGED <<data, spoiled, link, uploaded, tmp>>
      /\ \A v \in Writer : v # w => stage'[v] = stage[v]
  BY DEF ReadIndex, PutIndex, UploadFails, TypeOK, stateVars, fileVars
<1>3. Busy(n) = {w} /\ w \in Uploading
  BY <1>1 DEF WritersInv, Busy, Creating, Uploading
<1>4. OnDisk(n)' = OnDisk(n)
  BY <1>1, <1>2 DEF OnDisk
<1>5. Pending(n)' = Pending(n)
  BY <1>1, <1>2 DEF Pending
<1>6. CASE Lost(n)
  BY <1>1, <1>2, <1>5, <1>6 DEF Lost, Pending
<1>7. CASE UploadFails(w)
  BY <1>2, <1>7 DEF Lost, UploadFails, TypeOK
<1>8. CASE Clean(n) /\ ~UploadFails(w)
  <2>1. Busy(n)' = {w} /\ w \in Uploading' /\ link[n] = w /\ w # None
    BY <1>1, <1>2, <1>3, <1>8, DataAssumption DEF Busy, Creating, Uploading, Clean, UploadFails,
       ReadIndex, PutIndex, TypeOK
  <2>2. stage'[w] = "sent" => sent'[w] = OnDisk(n)
    BY <1>8 DEF ReadIndex, PutIndex, UploadFails, TypeOK
  <2>3. stage'[w] = "put" => object'[n] = OnDisk(n)
    BY <1>1, <1>3, <1>8 DEF Clean, ReadIndex, PutIndex, UploadFails, TypeOK
  <2>4. stage'[w] \in {"sent", "put"}
    BY <1>8 DEF ReadIndex, PutIndex, UploadFails, TypeOK
  <2>5. tmp[n] # w
    BY <1>1, <1>8, <2>1 DEF Clean, Pending
  <2> QED BY <1>2, <1>4, <1>5, <1>8, <2>1, <2>2, <2>3, <2>4, <2>5 DEF Clean
<1>9. Lost(n) \/ Clean(n)
  BY <1>1 DEF WritersInv
<1> QED BY <1>6, <1>7, <1>8, <1>9

LEMMA RemoveOwn ==
    ASSUME TypeOK, WritersInv, conn = "serving", NEW w \in Writer, NEW n \in Index, name[w] = n, RemoveWriter(w)
    PROVE  Lost(n)' \/ Clean(n)'
<1>1. /\ n \in Index /\ n \notin Blob
      /\ stage[w] \in {"closed", "put"} /\ (S3 => stage[w] = "put") /\ stage'[w] = "gone"
  BY NameAssumption DEF RemoveWriter, Drop, TypeOK
<1>2. /\ name' = name /\ UNCHANGED <<data, sent, spoiled, link, uploaded, object>>
      /\ \A v \in Writer : v # w => stage'[v] = stage[v]
      /\ tmp'[n] = None
  BY <1>1 DEF RemoveWriter, Drop, TypeOK, stateVars
<1>3. Busy(n) = {w} /\ w \in Uploading
  BY <1>1 DEF WritersInv, Busy, Creating, Uploading
<1>4. OnDisk(n)' = OnDisk(n)
  BY <1>1, <1>2 DEF OnDisk
<1>5. Pending(n)' = Pending(n) /\ w \notin Pending(n) /\ Busy(n)' = {}
  BY <1>1, <1>2, <1>3 DEF Pending, Busy, Creating, Uploading
<1>6. \A v \in Pending(n) : stage'[v] = "open"
  BY <1>2, <1>3, <1>5 DEF Pending, Busy, Creating
<1>7. CASE Lost(n) \/ Pending(n) # {}
  BY <1>1, <1>2, <1>5, <1>6, <1>7 DEF Lost, Pending
<1>8. CASE Clean(n) /\ Pending(n) = {}
  <2>1. link[n] = w
    BY <1>3, <1>8 DEF Clean
  <2>2. S3 => object[n] = OnDisk(n)
    BY <1>1, <1>3, <1>8 DEF Clean
  <2> QED BY <1>1, <1>2, <1>4, <1>5, <1>8, <2>1, <2>2 DEF Clean
<1>9. Lost(n) \/ Clean(n)
  BY <1>1 DEF WritersInv
<1> QED BY <1>7, <1>8, <1>9

LEMMA WriterWritersInv ==
    ASSUME Environment = {}, TypeOK, TypeOK', WritersInv, NEW w \in Writer, WriterStep(w)
    PROVE  WritersInv'
<1>1. conn' = conn
  BY DEF WriterStep, CreateIndex, RegisterWriter, AppendChunk, CloseWriter, ReadIndex, PutIndex,
         UploadFails, RemoveWriter
<1>2. /\ \A v \in Writer : v # w => stage'[v] = stage[v] /\ name'[v] = name[v]
      /\ stage[w] # "free" => name'[w] = name[w]
      /\ stage'[w] # "free"
  BY DEF WriterStep, CreateIndex, RegisterWriter, AppendChunk, CloseWriter, ReadIndex, PutIndex,
         UploadFails, RemoveWriter, Drop, TypeOK
<1>3. /\ \A n \in Index : tmp'[n] \in {tmp[n], None} \/ (tmp'[n] = w /\ name'[w] = n)
      /\ \A n \in Index : link'[n] = link[n] \/ link'[n] = tmp[n]
      /\ spoiled' = spoiled \/ \E n \in Index : spoiled' = spoiled \cup {tmp[n]} /\ tmp[n] # None
  <2>1. ASSUME NEW n \in Index, CreateIndex(w, n)
        PROVE  /\ \A k \in Index : tmp'[k] \in {tmp[k], None} \/ (tmp'[k] = w /\ name'[w] = k)
               /\ link' = link
               /\ spoiled' = spoiled \/ (spoiled' = spoiled \cup {tmp[n]} /\ tmp[n] # None)
    BY <2>1 DEF CreateIndex, TypeOK
  <2>2. ASSUME RegisterWriter(w) \/ RemoveWriter(w) \/ CloseWriter(w)
        PROVE  /\ \A k \in Index : tmp'[k] \in {tmp[k], None}
               /\ \A k \in Index : link'[k] \in {link[k], tmp[k]}
               /\ spoiled' = spoiled
    BY <2>2 DEF RegisterWriter, RemoveWriter, CloseWriter, Drop, TypeOK
  <2>3. ASSUME ReadIndex(w) \/ PutIndex(w) \/ UploadFails(w) \/ \E c \in Chunk : AppendChunk(w, c)
        PROVE  UNCHANGED <<tmp, link, spoiled>>
    BY <2>3 DEF ReadIndex, PutIndex, UploadFails, AppendChunk, fileVars
  <2>4. CASE \E n \in Index : CreateIndex(w, n)
    BY <2>1, <2>4
  <2>5. CASE RegisterWriter(w) \/ RemoveWriter(w) \/ CloseWriter(w)
    BY <2>2, <2>5
  <2>6. CASE ReadIndex(w) \/ PutIndex(w) \/ UploadFails(w) \/ \E c \in Chunk : AppendChunk(w, c)
    BY <2>3, <2>6
  <2> QED BY <2>4, <2>5, <2>6 DEF WriterStep
<1>4. \A n \in Index : \A v \in {tmp[n], link[n]} \ {None} : v \in Writer /\ name[v] = n /\ name'[v] = n
  BY <1>2 DEF WritersInv, TypeOK
<1>5. \A n \in Index : \A v \in {tmp'[n], link'[n]} \ {None} : name'[v] = n
  BY <1>3, <1>4
<1>6. \A v \in spoiled' : stage'[v] # "free"
  <2>1. \A v \in spoiled : v \in Writer /\ stage[v] # "free"
    BY DEF WritersInv, TypeOK
  <2>2. \A n \in Index : tmp[n] # None => tmp[n] \in Writer /\ stage[tmp[n]] # "free"
    BY <1>4 DEF TypeOK
  <2> QED BY <1>2, <1>3, <2>1, <2>2
<1>7. \A n \in Index : \A v, u \in Busy(n)' : v = u
  <2>1. ASSUME NEW n \in Index, CreateIndex(w, n) PROVE Busy(n) = {}
    BY <2>1, ArrivalAlone DEF CreateIndex
  <2>2. CloseWriter(w) => Busy(name[w]) = {}
    BY ArrivalAlone DEF CloseWriter
  <2>3. ASSUME ~CloseWriter(w), ~ \E n \in Index : CreateIndex(w, n), NEW n \in Index
        PROVE  Busy(n)' \subseteq Busy(n)
    BY <1>2, <2>3 DEF WriterStep, Busy, Creating, Uploading, RegisterWriter, AppendChunk, ReadIndex,
       PutIndex, UploadFails, RemoveWriter, Drop, TypeOK
  <2>4. \A n \in Index : Busy(n)' \subseteq Busy(n) \cup {w}
    BY <1>2 DEF Busy, Creating, Uploading
  <2>5. \A n \in Index : n # name'[w] => Busy(n)' \subseteq Busy(n)
    BY <1>2 DEF Busy, Creating, Uploading
  <2>6. CASE \E n \in Index : CreateIndex(w, n)
    <3>1. PICK n \in Index : CreateIndex(w, n)
      BY <2>6
    <3>2. name'[w] = n
      BY <3>1 DEF CreateIndex, TypeOK
    <3> QED BY <2>1, <2>4, <2>5, <3>1, <3>2 DEF WritersInv
  <2>7. CASE CloseWriter(w)
    <3>1. name'[w] = name[w]
      BY <2>7 DEF CloseWriter
    <3> QED BY <2>2, <2>4, <2>5, <2>7, <3>1 DEF WritersInv
  <2>8. CASE ~CloseWriter(w) /\ ~ \E n \in Index : CreateIndex(w, n)
    BY <2>3, <2>8 DEF WritersInv
  <2> QED BY <2>6, <2>7, <2>8
<1>8. ASSUME conn' = "serving", NEW n \in Index PROVE Lost(n)' \/ Clean(n)'
  <2>1. conn = "serving" /\ (Lost(n) \/ Clean(n))
    BY <1>1, <1>8 DEF WritersInv
  <2>2. CASE name'[w] # n
    <3>1. CASE Lost(n)
      BY <2>2, <3>1, OtherNames, LostFrame
    <3>2. CASE Clean(n)
      BY <2>2, <3>2, OtherNames, CleanFrame
    <3> QED BY <2>1, <3>1, <3>2
  <2>3. CASE name'[w] = n
    <3>1. ASSUME NEW k \in Index, CreateIndex(w, k) PROVE k = n
      BY <2>3, <3>1 DEF CreateIndex, TypeOK
    <3>2. CASE \E k \in Index : CreateIndex(w, k)
      BY <3>1, <3>2, CreateOwn
    <3>3. CASE ~ \E k \in Index : CreateIndex(w, k)
      <4>1. stage[w] # "free"
        BY <3>3 DEF WriterStep, RegisterWriter, AppendChunk, CloseWriter, ReadIndex, PutIndex,
                    UploadFails, RemoveWriter
      <4>2. name[w] = n
        BY <1>2, <2>3, <4>1
      <4> QED BY <2>1, <3>3, <4>2, RegisterOwn, AppendOwn, CloseOwn, UploadOwn, RemoveOwn DEF WriterStep
    <3> QED BY <3>2, <3>3
  <2> QED BY <2>2, <2>3
<1> QED BY <1>5, <1>6, <1>7, <1>8 DEF WritersInv

-----------------------------------------------------------------------------
(* Blobs *)

LEMMA WriterBlobs ==
    ASSUME TypeOK, NEW w \in Writer, WriterStep(w), NEW n \in Blob, CleanBlob(n)
    PROVE  CleanBlob(n)'
<1>1. stage[w] # "free" => name[w] \in Index /\ name[w] # n
  BY NameAssumption DEF TypeOK
<1>2. UNCHANGED <<blob, req>>
  BY DEF WriterStep, CreateIndex, RegisterWriter, AppendChunk, CloseWriter, ReadIndex, PutIndex,
         UploadFails, RemoveWriter, fileVars
<1>3. uploaded'[n] = uploaded[n]
  BY <1>1 DEF WriterStep, CreateIndex, RegisterWriter, AppendChunk, CloseWriter, ReadIndex, PutIndex,
              UploadFails, RemoveWriter, stateVars, TypeOK, Name
<1>4. object'[n] = object[n]
  BY <1>1 DEF WriterStep, CreateIndex, RegisterWriter, AppendChunk, CloseWriter, ReadIndex, PutIndex,
              UploadFails, RemoveWriter, fileVars, TypeOK, Name
<1> QED BY <1>2, <1>3, <1>4 DEF CleanBlob, BlobRequests

(* What a step of request r leaves alone. *)
LEMMA BlobFrame ==
    ASSUME TypeOK, NEW r \in Request, BlobStep(r)
    PROVE  /\ UNCHANGED <<writerVars, tmp, link, written, dir, finished, manifest, finish, locks, conn>>
           /\ \A q \in Request : q # r => req'[q] = req[q]
           /\ \A n \in Index : uploaded'[n] = uploaded[n] /\ object'[n] = object[n]
<1>1. req[r].stage \in {"start", "put", "stored", "error"} => req[r].name \in Blob
  <2>1. req[r] = Idle \/ req[r] \in BlobRequest
    BY DEF TypeOK, BlobRequest
  <2> QED BY <2>1 DEF Idle, BlobRequest
<1>2. UNCHANGED <<writerVars, tmp, link, written, dir, finished, manifest, finish, locks, conn>>
  BY DEF BlobStep, StartBlob, PutBlob, ReplaceBlob, BlobFails, RegisterBlob, fileVars, stateVars
<1>3. \A q \in Request : q # r => req'[q] = req[q]
  BY DEF BlobStep, StartBlob, PutBlob, ReplaceBlob, BlobFails, RegisterBlob, TypeOK
<1>4. \A n \in Index : uploaded'[n] = uploaded[n] /\ object'[n] = object[n]
  BY <1>1, NameAssumption DEF BlobStep, StartBlob, PutBlob, ReplaceBlob, BlobFails, RegisterBlob,
     TypeOK, fileVars, stateVars, Name
<1> QED BY <1>2, <1>3, <1>4

LEMMA BlobWritersInv ==
    ASSUME TypeOK, TypeOK', WritersInv, NEW r \in Request, BlobStep(r)
    PROVE  WritersInv'
<1>1. UNCHANGED <<writerVars, tmp, link, conn>> /\ UNCHANGED <<stage, name, spoiled, data, sent>>
  BY BlobFrame DEF writerVars
<1>2. ASSUME NEW n \in Index PROVE SameWriters(n) /\ SameFiles(n) /\ SameArchive(n)
  BY <1>1, <1>2, BlobFrame DEF SameWriters, SameFiles, SameArchive
<1>3. ASSUME NEW n \in Index, Lost(n) \/ Clean(n) PROVE Lost(n)' \/ Clean(n)'
  <2>1. CASE Lost(n)
    BY <1>2, <2>1, LostFrame
  <2>2. CASE Clean(n)
    BY <1>1, <1>2, <2>2, CleanFrame
  <2> QED BY <1>3, <2>1, <2>2
<1>4. \A n \in Index : Busy(n)' = Busy(n)
  BY <1>1 DEF Busy, Uploading, Creating
<1> QED BY <1>1, <1>3, <1>4 DEF WritersInv

LEMMA BlobBlobs ==
    ASSUME Environment = {}, TypeOK, TypeOK', NEW r \in Request, BlobStep(r), NEW n \in Blob, CleanBlob(n)
    PROVE  CleanBlob(n)'
<1> DEFINE Stages == {"start", "put", "stored", "error"}
<1>1. req[r] = Idle \/ req[r] \in BlobRequest
  BY DEF TypeOK, BlobRequest
<1>2. req[r].stage \in Stages => req[r].name \in Blob /\ req[r].stage # "idle" /\ req[r] \in BlobRequest
  BY <1>1 DEF Idle, BlobRequest
<1>3. n \in Name
  BY DEF Name
<1>4. \A q \in Request : q # r => (q \in BlobRequests(n)' <=> q \in BlobRequests(n)) /\ req'[q] = req[q]
  BY BlobFrame DEF BlobRequests
<1>5. BlobRequests(n) \subseteq Request /\ BlobRequests(n)' \subseteq Request
  BY DEF BlobRequests
<1>6. ASSUME NEW k \in Blob, NEW d \in BlobData, StartBlob(r, k, d)
      PROVE  CleanBlob(n)'
  <2>1. BlobRequests(k) = {}
    BY <1>6, ArrivalAlone DEF StartBlob
  <2>2. req[r].stage = "idle" /\ req'[r].stage = "start" /\ req'[r].name = k
    BY <1>6 DEF StartBlob, Idle, TypeOK
  <2>3. UNCHANGED <<blob, uploaded, object>>
    BY <1>6 DEF StartBlob, fileVars, stateVars
  <2>4. CASE k = n
    <3>1. BlobRequests(n)' = {r}
      BY <1>4, <1>5, <2>1, <2>2, <2>4 DEF BlobRequests
    <3> QED BY <2>2, <3>1 DEF CleanBlob
  <2>5. CASE k # n
    <3>1. BlobRequests(n)' = BlobRequests(n) /\ r \notin BlobRequests(n)
      BY <1>4, <1>5, <2>2, <2>5 DEF BlobRequests
    <3> QED BY <1>4, <1>5, <2>3, <3>1 DEF CleanBlob
  <2> QED BY <2>4, <2>5
<1>7. ASSUME PutBlob(r) \/ ReplaceBlob(r) \/ BlobFails(r) \/ RegisterBlob(r), req[r].name # n
      PROVE  CleanBlob(n)'
  <2>1. req[r].stage \in Stages
    BY <1>7 DEF PutBlob, ReplaceBlob, BlobFails, RegisterBlob
  <2>2. req'[r] = Idle \/ req'[r].name = req[r].name
    BY <1>2, <1>7, <2>1 DEF PutBlob, ReplaceBlob, BlobFails, RegisterBlob, TypeOK, BlobRequest
  <2>3. BlobRequests(n)' = BlobRequests(n) /\ r \notin BlobRequests(n)
    BY <1>4, <1>5, <1>7, <2>2 DEF BlobRequests, Idle
  <2>4. blob'[n] = blob[n] /\ uploaded'[n] = uploaded[n] /\ object'[n] = object[n]
    BY <1>2, <1>3, <1>7, <2>1 DEF PutBlob, ReplaceBlob, BlobFails, RegisterBlob, TypeOK, fileVars, stateVars, Name
  <2> QED BY <1>4, <1>5, <2>3, <2>4 DEF CleanBlob
<1>8. ASSUME PutBlob(r) \/ ReplaceBlob(r) \/ BlobFails(r) \/ RegisterBlob(r), req[r].name = n
      PROVE  CleanBlob(n)'
  <2>1. req[r].stage \in Stages /\ req[r] \in BlobRequest /\ r \in BlobRequests(n)
    BY <1>2, <1>8 DEF PutBlob, ReplaceBlob, BlobFails, RegisterBlob, BlobRequests
  <2>2. BlobRequests(n) = {r}
    BY <2>1 DEF CleanBlob
  <2>3. BlobRequests(n)' \subseteq {r}
    BY <1>4, <1>5, <2>2
  <2>4. ASSUME NEW st \in Stages, req' = [req EXCEPT ![r].stage = st]
        PROVE  /\ req'[r].stage = st /\ req'[r].data = req[r].data
               /\ BlobRequests(n)' = {r}
    <3>1. req'[r].stage = st /\ req'[r].data = req[r].data /\ req'[r].name = n
      BY <1>8, <2>1, <2>4 DEF BlobRequest, TypeOK
    <3>2. r \in BlobRequests(n)'
      BY <3>1 DEF BlobRequests
    <3> QED BY <2>3, <3>1, <3>2
  <2>5. CASE PutBlob(r)
    <3>1. req'[r].stage = "put" /\ req'[r].data = req[r].data /\ BlobRequests(n)' = {r}
      BY <2>4, <2>5 DEF PutBlob
    <3>2. object'[n] = req[r].data
      BY <1>3, <1>8, <2>5 DEF PutBlob, TypeOK
    <3> QED BY <3>1, <3>2 DEF CleanBlob
  <2>6. CASE ReplaceBlob(r)
    <3>1. req'[r].stage = "stored" /\ req'[r].data = req[r].data /\ BlobRequests(n)' = {r}
      BY <2>4, <2>6 DEF ReplaceBlob
    <3>2. blob'[n] = req[r].data /\ UNCHANGED object
      BY <1>8, <2>6 DEF ReplaceBlob, TypeOK
    <3>3. S3 => object[n] = req[r].data
      BY <2>1, <2>6 DEF ReplaceBlob, CleanBlob
    <3> QED BY <3>1, <3>2, <3>3 DEF CleanBlob
  <2>7. CASE BlobFails(r)
    <3>1. req' = [req EXCEPT ![r].stage = "error"]
      BY <2>7 DEF BlobFails
    <3>2. req'[r].stage = "error" /\ BlobRequests(n)' = {r}
      BY <2>4, <3>1
    <3> QED BY <3>2 DEF CleanBlob
  <2>8. CASE RegisterBlob(r)
    <3>1. r \notin BlobRequests(n)'
      BY <2>8 DEF RegisterBlob, BlobRequests, Idle, TypeOK
    <3>2. uploaded'[n] = req[r].data /\ UNCHANGED <<blob, object>>
      BY <1>3, <1>8, <2>8 DEF RegisterBlob, TypeOK, fileVars
    <3>3. blob[n] = req[r].data /\ (S3 => object[n] = req[r].data)
      BY <2>1, <2>8 DEF RegisterBlob, CleanBlob
    <3> QED BY <2>3, <3>1, <3>2, <3>3 DEF CleanBlob
  <2> QED BY <1>8, <2>5, <2>6, <2>7, <2>8
<1> QED BY <1>6, <1>7, <1>8 DEF BlobStep

-----------------------------------------------------------------------------
(* finish_backup and the end of the connection *)

(* Once finish has been accepted nothing is in flight: only an active       *)
(* session takes a step of a writer or of a blob upload.                    *)
LEMMA StepsAreActive ==
    ASSUME Environment = {}, TypeOK, FinishInv,
           (\E w \in Writer : WriterStep(w)) \/ (\E r \in Request : BlobStep(r))
    PROVE  finished = "active" /\ UNCHANGED <<finished, finish, locks, conn>>
<1>1. UNCHANGED <<finished, finish, locks, conn>>
  BY DEF WriterStep, CreateIndex, RegisterWriter, AppendChunk, CloseWriter, ReadIndex, PutIndex,
         UploadFails, RemoveWriter, BlobStep, StartBlob, PutBlob, ReplaceBlob, BlobFails, RegisterBlob,
         stateVars
<1>2. finished # "active" => Uploading \cup Creating = {} /\ Registered = {} /\ \A r \in Request : req[r] = Idle
  BY DEF FinishInv, Quiet
<1>3. ASSUME NEW w \in Writer, WriterStep(w) PROVE finished = "active"
  BY <1>2, <1>3 DEF WriterStep, CreateIndex, RegisterWriter, AppendChunk, CloseWriter, ReadIndex, PutIndex,
     UploadFails, RemoveWriter, Uploading, Creating, Registered
<1>4. ASSUME NEW r \in Request, BlobStep(r) PROVE finished = "active"
  BY <1>2, <1>4 DEF BlobStep, StartBlob, PutBlob, ReplaceBlob, BlobFails, RegisterBlob, Idle
<1> QED BY <1>1, <1>3, <1>4

(* With no writer registered or being created, what is uploaded is stored. *)
LEMMA AgreementMatches ==
    ASSUME TypeOK, WritersInv, \A n \in Blob : CleanBlob(n), conn = "serving",
           Quiet, Registered = {}, Agrees(manifest)
    PROVE  Matches(manifest)
<1>1. ASSUME NEW n \in Index PROVE uploaded[n] = OnDisk(n) /\ (S3 => object[n] = OnDisk(n))
  <2>1. Busy(n) = {} /\ ~Lost(n)
    BY DEF Quiet, Busy, Lost, Pending, Registered
  <2>2. Clean(n)
    BY <2>1 DEF WritersInv
  <2> QED BY <2>1, <2>2 DEF Clean
<1>2. ASSUME NEW n \in Blob PROVE uploaded[n] = OnDisk(n) /\ (S3 => object[n] = OnDisk(n))
  <2>1. BlobRequests(n) = {}
    BY DEF Quiet, BlobRequests, Idle
  <2> QED BY <2>1 DEF CleanBlob, OnDisk
<1> QED BY <1>1, <1>2 DEF Matches, Agrees, Name

LEMMA FinishStepInv ==
    ASSUME Environment = {}, TypeOK, TypeOK', SessionInv, FinishStep
    PROVE  SessionInv'
<1>1. /\ UNCHANGED <<stage, name, data, sent, spoiled, tmp, link, blob, object, uploaded, req, conn>>
  BY DEF FinishStep, AddManifest, StartFinish, PutManifest, WriteManifest, FinishFails, CompleteFinish,
         writerVars, fileVars, stateVars
<1>2. /\ UNCHANGED <<Uploading, Creating, Registered, Quiet>>
      /\ \A n \in Name : OnDisk(n)' = OnDisk(n)
  BY <1>1 DEF Uploading, Creating, Registered, Quiet, OnDisk
<1>3. WritersInv'
  BY <1>1 DEF SessionInv, WritersInv, Lost, Clean, Pending, Busy, Uploading, Creating, OnDisk
<1>4. conn' = "serving" => \A n \in Blob : CleanBlob(n)'
  BY <1>1 DEF SessionInv, CleanBlob, BlobRequests
<1>5. FinishInv' /\ CleanupInv'
  <2> USE DEF SessionInv, FinishInv, CleanupInv, Finishing
  <2>1. manifest' = manifest => Matches(manifest)' = Matches(manifest)
    BY <1>1, <1>2 DEF Matches
  <2>2. ASSUME NEW m \in SomeManifest, AddManifest(m) PROVE FinishInv' /\ CleanupInv'
    BY <1>1, <1>2, <2>2 DEF AddManifest, fileVars
  <2>3. CASE StartFinish
    <3>1. Quiet /\ finished = "active" /\ Registered = {} /\ conn = "serving"
      BY <2>3 DEF StartFinish, Quiet
    <3>2. CASE manifest # None /\ Agrees(manifest)
      <4>1. Matches(manifest)'
        BY <2>1, <2>3, <3>1, <3>2, AgreementMatches DEF StartFinish
      <4> QED BY <1>1, <1>2, <2>3, <3>1, <3>2, <4>1 DEF StartFinish
    <3>3. CASE ~(manifest # None /\ Agrees(manifest))
      BY <1>1, <1>2, <2>3, <3>1, <3>3 DEF StartFinish
    <3> QED BY <3>2, <3>3
  <2>4. CASE PutManifest
    BY <1>1, <1>2, <2>1, <2>4 DEF PutManifest, fileVars
  <2>5. CASE WriteManifest
    BY <1>1, <1>2, <2>1, <2>5 DEF WriteManifest
  <2>6. CASE FinishFails
    BY <1>1, <1>2, <2>1, <2>6 DEF FinishFails
  <2>7. CASE CompleteFinish
    BY <1>1, <1>2, <2>1, <2>7 DEF CompleteFinish, fileVars
  <2> QED BY <2>2, <2>3, <2>4, <2>5, <2>6, <2>7 DEF FinishStep
<1> QED BY <1>3, <1>4, <1>5 DEF SessionInv

LEMMA EndStepInv ==
    ASSUME Environment = {}, TypeOK, TypeOK', SessionInv, EndStep
    PROVE  SessionInv'
<1>1. /\ UNCHANGED <<stage, name, data, sent, spoiled, req, finished, finish, manifest, locks>>
      /\ conn' # "serving"
  BY DEF EndStep, EndConnection, RemoveObjects, RemoveFiles, RemoveDirectory, writerVars, stateVars
<1>2. UNCHANGED <<Uploading, Creating, Registered, Quiet, Finishing>>
  BY <1>1 DEF Uploading, Creating, Registered, Quiet, Finishing
<1>3. \A n \in Index : tmp'[n] \in {tmp[n], None} /\ link'[n] \in {link[n], None}
  BY DEF EndStep, EndConnection, RemoveObjects, RemoveFiles, RemoveDirectory, TypeOK, fileVars
<1>4. WritersInv'
  <2>1. \A n \in Index : Busy(n)' = Busy(n)
    BY <1>1 DEF Busy, Uploading, Creating
  <2> QED BY <1>1, <1>3, <2>1 DEF SessionInv, WritersInv
<1>5. ~Finishing
  BY DEF SessionInv, FinishInv, EndStep, EndConnection, RemoveObjects, RemoveFiles, RemoveDirectory, Finishing
<1>6. finished = "finished" => EndConnection /\ conn' = "ended" /\ conn = "serving"
  BY DEF SessionInv, FinishInv, EndStep, EndConnection, RemoveObjects, RemoveFiles, RemoveDirectory, Finishing
<1>7. finished = "finished" => Matches(manifest)' /\ written' = manifest
  BY <1>1, <1>6 DEF SessionInv, FinishInv, Finishing, EndConnection, Matches, OnDisk, fileVars
<1>8. FinishInv'
  BY <1>1, <1>2, <1>5, <1>6, <1>7 DEF SessionInv, FinishInv, Finishing
<1> QED BY <1>1, <1>4, <1>8 DEF SessionInv, CleanupInv

-----------------------------------------------------------------------------
LEMMA InitSessionInv == Init => SessionInv
<1> SUFFICES ASSUME Init PROVE SessionInv
  OBVIOUS
<1>1. TypeOK
  BY InitTypeOK
<1>2. Registered = {} /\ Uploading = {} /\ Creating = {}
  BY DEF Init, Registered, Uploading, Creating
<1>3. WritersInv
  <2>1. ASSUME NEW n \in Index PROVE Clean(n) /\ Busy(n) = {}
    <3>1. Pending(n) = {} /\ Busy(n) = {}
      BY <1>2 DEF Init, Pending, Busy
    <3>2. OnDisk(n) = None /\ uploaded[n] = None /\ object[n] = None
      BY NameAssumption DEF Init, OnDisk, Name
    <3> QED BY <3>1, <3>2 DEF Init, Clean
  <2> QED BY <2>1 DEF Init, WritersInv
<1>4. \A n \in Blob : CleanBlob(n)
  BY DEF Init, CleanBlob, BlobRequests, Idle, Name
<1>5. FinishInv /\ CleanupInv
  BY DEF Init, FinishInv, CleanupInv, Finishing
<1> QED BY <1>1, <1>3, <1>4, <1>5 DEF SessionInv

LEMMA NextSessionInv ==
    ASSUME Environment = {}, SessionInv, [Next]_vars
    PROVE  SessionInv'
<1>1. TypeOK /\ TypeOK'
  BY NextTypeOK DEF SessionInv
<1>2. ASSUME finished = "active", UNCHANGED <<finished, finish, locks, conn>>
      PROVE  FinishInv' /\ CleanupInv'
  BY <1>2 DEF SessionInv, FinishInv, CleanupInv, Finishing
<1>3. ASSUME NEW w \in Writer, WriterStep(w) PROVE SessionInv'
  <2>1. WritersInv'
    BY <1>1, <1>3, WriterWritersInv DEF SessionInv
  <2>2. finished = "active" /\ UNCHANGED <<finished, finish, locks, conn>>
    BY <1>1, <1>3, StepsAreActive DEF SessionInv
  <2>3. conn' = "serving" => \A n \in Blob : CleanBlob(n)'
    BY <1>1, <1>3, <2>2, WriterBlobs DEF SessionInv
  <2> QED BY <1>1, <1>2, <2>1, <2>2, <2>3 DEF SessionInv
<1>4. ASSUME NEW r \in Request, BlobStep(r) PROVE SessionInv'
  <2>1. WritersInv'
    BY <1>1, <1>4, BlobWritersInv DEF SessionInv
  <2>2. finished = "active" /\ UNCHANGED <<finished, finish, locks, conn>>
    BY <1>1, <1>4, StepsAreActive DEF SessionInv
  <2>3. conn' = "serving" => \A n \in Blob : CleanBlob(n)'
    BY <1>1, <1>4, <2>2, BlobBlobs DEF SessionInv
  <2> QED BY <1>1, <1>2, <2>1, <2>2, <2>3 DEF SessionInv
<1>5. CASE UNCHANGED vars
  <2>1. /\ UNCHANGED <<stage, name, data, sent, spoiled, tmp, link, blob, object, written, dir, uploaded>>
        /\ UNCHANGED <<req, conn, finished, finish, manifest, locks, hasFile>>
    BY <1>5 DEF vars, writerVars, fileVars, stateVars
  <2>2. WritersInv'
    BY <2>1 DEF SessionInv, WritersInv, Lost, Clean, Pending, Busy, Uploading, Creating, OnDisk
  <2>3. conn' = "serving" => \A n \in Blob : CleanBlob(n)'
    BY <2>1 DEF SessionInv, CleanBlob, BlobRequests
  <2>4. FinishInv' /\ CleanupInv'
    BY <2>1 DEF SessionInv, FinishInv, CleanupInv, Finishing, Registered, Quiet, Uploading, Creating,
       Matches, OnDisk
  <2> QED BY <1>1, <2>2, <2>3, <2>4 DEF SessionInv
<1> QED BY <1>1, <1>3, <1>4, <1>5, FinishStepInv, EndStepInv DEF Next

(* For a client that waits for its answers, and an administrator who does  *)
(* not end a session while it finishes, SessionInv is an invariant: every  *)
(* index name either has a clean history or has lost a writer that keeps   *)
(* the session from finishing.                                             *)
THEOREM OrderlySession ==
    ASSUME Environment = {}
    PROVE  Spec => []SessionInv
<1>1. Init => SessionInv
  BY InitSessionInv
<1>2. SessionInv /\ [Next]_vars => SessionInv'
  BY NextSessionInv
<1> QED BY <1>1, <1>2, PTL DEF Spec

(* A finished backup has, on disk and in the object store, the files its   *)
(* manifest lists with the checksums it gives: finish_backup compares the  *)
(* manifest with uploaded_archives only, and this is why that is enough.   *)
THEOREM FinishedMatchesManifest ==
    ASSUME Environment = {}
    PROVE  Spec => []ManifestConsistent
<1>1. SessionInv => ManifestConsistent
  <2> SUFFICES ASSUME SessionInv, finished = "finished", conn \in {"serving", "ended"}
               PROVE  /\ written # None
                      /\ \A n \in Name : written[n] # None =>
                            OnDisk(n) = written[n] /\ (S3 => object[n] = written[n])
    BY DEF ManifestConsistent
  <2>1. manifest # None /\ written = manifest /\ Matches(manifest)
    BY DEF SessionInv, FinishInv
  <2> QED BY <2>1 DEF Matches
<1> QED BY <1>1, OrderlySession, PTL

=============================================================================
