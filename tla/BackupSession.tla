--------------------------- MODULE BackupSession ---------------------------
(***************************************************************************)
(* One backup session: the requests of a client, each handled by a thread  *)
(* of its own, share the state of the session under a mutex that is given  *)
(* up while files are sent to the backend.  The session is finished when   *)
(* the manifest the client has uploaded agrees with what it has uploaded,  *)
(* and removed if its connection ends before that.                         *)
(*                                                                         *)
(* The contents of an index are the chunks appended to it, and stand for   *)
(* their checksum too.  Which chunks a client may append is the subject of *)
(* DatastoreGC.                                                            *)
(***************************************************************************)
EXTENDS Integers, Sequences, FiniteSets

CONSTANTS
    Index, Blob,    \* archive names
    Chunk,
    BlobData,
    Writer,         \* index writers, each used once
    Request,        \* blob uploads that can be in flight together
    MaxChunks,      \* bound on the length of an index
    S3,             \* the backend is an object store
    Environment,    \* what the client and the administrator may do
    None, Mixed

ASSUME NameAssumption == Index \cap Blob = {}
ASSUME DataAssumption ==
    /\ None \notin BlobData \cup Writer \cup Index
    /\ Mixed \notin BlobData \cup {None}
ASSUME BoundAssumption == MaxChunks \in Nat \ {0} /\ S3 \in BOOLEAN
(* overlap: a request starts while another one for the same archive, or    *)
(* for finish any other one, is unanswered; late: blobs are uploaded after *)
(* finish; careless: the client goes on after a failed upload of a blob;   *)
(* break: the session ends while finish is unanswered; benchmark: the      *)
(* session is a benchmark.                                                 *)
ASSUME EnvironmentAssumption ==
    Environment \subseteq {"overlap", "late", "careless", "break", "benchmark"}

VARIABLES
    finished,    \* BackupState
    stage,       \* of each writer
    name,        \* of each writer
    data,        \* what has been appended to each writer
    sent,        \* what a writer's upload has read
    tmp,         \* the temporary file of each index name: the writer that created it
    link,        \* the file each index name refers to: the writer that created it
    spoiled,     \* files that a second writer has opened
    blob,        \* the blob files
    object,      \* the files in the object store
    req,         \* the blob uploads in flight
    uploaded,    \* uploaded_archives
    hasFile,     \* file_counter is not zero
    manifest,    \* the manifest registered last
    written,     \* the manifest file
    finish,      \* where finish_backup is
    locks,       \* the group and the snapshot guard are held
    conn,        \* the connection, or its cleanup
    dir          \* the snapshot directory exists

writerVars == <<stage, name, data, sent, spoiled>>
fileVars == <<tmp, link, blob, object, written, dir>>
stateVars == <<finished, uploaded, hasFile, manifest, finish, locks>>
vars == <<writerVars, fileVars, stateVars, req, conn>>

Name == Index \cup Blob
IndexData == Seq(Chunk)
Contents == IndexData \cup BlobData \cup {None, Mixed}
Manifest == [Name -> IndexData \cup BlobData \cup {None}]

Idle == [stage |-> "idle", name |-> None, data |-> None]

Init ==
    /\ finished = "active"
    /\ stage = [w \in Writer |-> "free"]
    /\ name = [w \in Writer |-> None]
    /\ data = [w \in Writer |-> <<>>]
    /\ sent = [w \in Writer |-> None]
    /\ spoiled = {}
    /\ tmp = [n \in Index |-> None]
    /\ link = [n \in Index |-> None]
    /\ blob = [n \in Blob |-> None]
    /\ object = [n \in Name |-> None]
    /\ written = None
    /\ dir = TRUE
    /\ req = [r \in Request |-> Idle]
    /\ uploaded = [n \in Name |-> None]
    /\ hasFile = FALSE
    /\ manifest = None
    /\ finish = "idle"
    /\ locks = TRUE
    /\ conn = "serving"

-----------------------------------------------------------------------------
(* What is on disk under an archive's name. *)
OnDisk(n) ==
    IF n \in Blob THEN blob[n]
    ELSE IF link[n] = None THEN None
    ELSE IF link[n] \in spoiled THEN Mixed
    ELSE data[link[n]]

(* The writers in dynamic_writers and fixed_writers. *)
Registered == {w \in Writer : stage[w] \in {"open", "failed", "closed", "sent", "put"}}

Uploading == {w \in Writer : stage[w] \in {"closed", "sent", "put"}}
Creating == {w \in Writer : stage[w] = "created"}
Finishing == finish \in {"start", "put", "written"}

InFlight(n) ==
    \/ \E w \in Uploading \cup Creating : name[w] = n
    \/ \E r \in Request : req[r].stage # "idle" /\ req[r].name = n

(* A request about archive n arrives. *)
Arrives(n) ==
    /\ conn = "serving"
    /\ ~InFlight(n) \/ "overlap" \in Environment

-----------------------------------------------------------------------------
(* Index writers *)

(* The temporary file is created, or opened again and truncated. *)
CreateIndex(w, n) ==
    /\ Arrives(n)
    /\ finished = "active" \/ "late" \in Environment
    /\ stage[w] = "free"
    /\ stage' = [stage EXCEPT ![w] = "created"]
    /\ name' = [name EXCEPT ![w] = n]
    /\ IF tmp[n] = None
         THEN tmp' = [tmp EXCEPT ![n] = w] /\ UNCHANGED spoiled
         ELSE spoiled' = spoiled \cup {tmp[n]} /\ UNCHANGED tmp
    /\ UNCHANGED <<data, sent, link, blob, object, written, dir, stateVars, req, conn>>

(* Dropping a writer removes the temporary file of its name. *)
Drop(w) ==
    /\ stage' = [stage EXCEPT ![w] = "gone"]
    /\ tmp' = [tmp EXCEPT ![name[w]] = None]

(* Mutated form: the state of the session is not checked. *)
RegisterWriterUnchecked(w) ==
    /\ stage[w] = "created"
    /\ stage' = [stage EXCEPT ![w] = "open"]
    /\ UNCHANGED <<tmp, name, data, sent, spoiled, link, blob, object, written, dir,
                   stateVars, req, conn>>

(* register_dynamic_writer, register_fixed_writer; the index to reuse may   *)
(* not have the same length.                                               *)
RegisterWriter(w) ==
    /\ stage[w] = "created"
    /\ \/ /\ finished = "active"
          /\ stage' = [stage EXCEPT ![w] = "open"]
          /\ UNCHANGED tmp
       \/ Drop(w)
    /\ UNCHANGED <<name, data, sent, spoiled, link, blob, object, written, dir,
                   stateVars, req, conn>>

AppendChunk(w, c) ==
    /\ conn = "serving"
    /\ finished = "active"
    /\ stage[w] = "open"
    /\ Len(data[w]) < MaxChunks
    /\ data' = [data EXCEPT ![w] = Append(@, c)]
    /\ UNCHANGED <<stage, name, sent, spoiled, fileVars, stateVars, req, conn>>

(* Closing a writer renames the temporary file of its name, whichever it   *)
(* is.  The writer stays registered until its file is uploaded; one whose  *)
(* file is missing, or has another checksum than the client expects, stays *)
(* registered for ever.                                                    *)
CloseWriter(w) ==
    LET n == name[w] IN
    /\ stage[w] = "open"
    /\ Arrives(n)
    /\ finished = "active"
    /\ data[w] # <<>>
    /\ tmp' = [tmp EXCEPT ![n] = None]
    /\ IF tmp[n] = None
         THEN stage' = [stage EXCEPT ![w] = "failed"] /\ UNCHANGED <<link, uploaded, hasFile>>
         ELSE /\ link' = [link EXCEPT ![n] = tmp[n]]
              /\ \/ /\ stage' = [stage EXCEPT ![w] = "closed"]
                    /\ uploaded' = [uploaded EXCEPT ![n] = data[w]]
                    /\ hasFile' = TRUE
                 \/ stage' = [stage EXCEPT ![w] = "failed"] /\ UNCHANGED <<uploaded, hasFile>>
    /\ UNCHANGED <<name, data, sent, spoiled, blob, object, written, dir,
                   finished, manifest, finish, locks, req, conn>>

(* upload_index_to_backend reads the file and sends what it has read. *)
ReadIndex(w) ==
    /\ S3
    /\ stage[w] = "closed"
    /\ OnDisk(name[w]) # None
    /\ stage' = [stage EXCEPT ![w] = "sent"]
    /\ sent' = [sent EXCEPT ![w] = OnDisk(name[w])]
    /\ UNCHANGED <<name, data, spoiled, fileVars, stateVars, req, conn>>

PutIndex(w) ==
    /\ stage[w] = "sent"
    /\ stage' = [stage EXCEPT ![w] = "put"]
    /\ object' = [object EXCEPT ![name[w]] = sent[w]]
    /\ UNCHANGED <<name, data, sent, spoiled, tmp, link, blob, written, dir,
                   stateVars, req, conn>>

UploadFails(w) ==
    /\ S3
    /\ stage[w] \in {"closed", "sent"}
    /\ stage' = [stage EXCEPT ![w] = "failed"]
    /\ UNCHANGED <<name, data, sent, spoiled, fileVars, stateVars, req, conn>>

(* Mutated form: the writer is removed as soon as it is closed. *)
RemoveWriterEarly(w) ==
    /\ stage[w] \in {"closed", "put"}
    /\ Drop(w)
    /\ UNCHANGED <<name, data, sent, spoiled, link, blob, object, written, dir,
                   stateVars, req, conn>>

RemoveWriter(w) ==
    /\ stage[w] = IF S3 THEN "put" ELSE "closed"
    /\ Drop(w)
    /\ UNCHANGED <<name, data, sent, spoiled, link, blob, object, written, dir,
                   stateVars, req, conn>>

-----------------------------------------------------------------------------
(* Blobs *)

(* add_blob of a blob looks at the state of the session only at its end. *)
StartBlob(r, n, d) ==
    /\ Arrives(n)
    /\ finished = "active" \/ "late" \in Environment
    /\ req[r] = Idle
    /\ req' = [req EXCEPT ![r] = [stage |-> "start", name |-> n, data |-> d]]
    /\ UNCHANGED <<writerVars, fileVars, stateVars, conn>>

PutBlob(r) ==
    /\ S3
    /\ req[r].stage = "start"
    /\ req' = [req EXCEPT ![r].stage = "put"]
    /\ object' = [object EXCEPT ![req[r].name] = req[r].data]
    /\ UNCHANGED <<writerVars, tmp, link, blob, written, dir, stateVars, conn>>

ReplaceBlob(r) ==
    /\ dir
    /\ req[r].stage = IF S3 THEN "put" ELSE "start"
    /\ req' = [req EXCEPT ![r].stage = "stored"]
    /\ blob' = [blob EXCEPT ![req[r].name] = req[r].data]
    /\ UNCHANGED <<writerVars, tmp, link, object, written, dir, stateVars, conn>>

BlobFails(r) ==
    /\ req[r].stage \in {"start", "put"}
    /\ IF "careless" \in Environment
         THEN req' = [req EXCEPT ![r] = Idle]
         ELSE req' = [req EXCEPT ![r].stage = "error"]
    /\ UNCHANGED <<writerVars, fileVars, stateVars, conn>>

RegisterBlob(r) ==
    /\ req[r].stage = "stored"
    /\ uploaded' = [uploaded EXCEPT ![req[r].name] = req[r].data]
    /\ hasFile' = TRUE
    /\ req' = [req EXCEPT ![r] = Idle]
    /\ UNCHANGED <<writerVars, fileVars, finished, manifest, finish, locks, conn>>

(* The manifest is kept, not stored; a later one replaces it. *)
AddManifest(m) ==
    /\ conn = "serving"
    /\ finished = "active"
    /\ manifest' = m
    /\ hasFile' = TRUE
    /\ UNCHANGED <<writerVars, fileVars, finished, uploaded, finish, locks, req, conn>>

-----------------------------------------------------------------------------
(* finish_backup *)

(* Mutated form: a file that was not uploaded is not looked for. *)
AgreesWherePresent(m) ==
    \A n \in Name : m[n] # None /\ uploaded[n] # None => uploaded[n] = m[n]

Agrees(m) == \A n \in Name : m[n] # None => uploaded[n] = m[n]

(* The checks, under the mutex: a manifest that does not agree is lost.    *)
(* (The base and the chunk store guard are the subject of DatastoreGC.)    *)
StartFinish ==
    /\ conn = "serving"
    /\ \/ "overlap" \in Environment
       \/ Uploading \cup Creating = {} /\ \A r \in Request : req[r] = Idle
    /\ finished = "active"
    /\ Registered = {}
    /\ hasFile
    /\ IF manifest # None /\ Agrees(manifest)
         THEN finished' = "finishing" /\ finish' = "start" /\ UNCHANGED manifest
         ELSE manifest' = None /\ UNCHANGED <<finished, finish>>
    /\ UNCHANGED <<writerVars, fileVars, uploaded, hasFile, locks, req, conn>>

PutManifest ==
    /\ S3
    /\ finish = "start"
    /\ finish' = "put"
    /\ UNCHANGED <<writerVars, fileVars, finished, uploaded, hasFile, manifest, locks, req, conn>>

WriteManifest ==
    /\ finish = IF S3 THEN "put" ELSE "start"
    /\ dir
    /\ finish' = "written"
    /\ written' = manifest
    /\ UNCHANGED <<writerVars, tmp, link, blob, object, dir,
                   finished, uploaded, hasFile, manifest, locks, req, conn>>

(* The manifest cannot be stored, or the file system not be synced: the    *)
(* session stays in the finishing state.                                   *)
FinishFails ==
    /\ Finishing
    /\ finish' = "failed"
    /\ UNCHANGED <<writerVars, fileVars, finished, uploaded, hasFile, manifest, locks, req, conn>>

CompleteFinish ==
    /\ finish = "written"
    /\ finished = "finishing"
    /\ finish' = "done"
    /\ finished' = "finished"
    /\ locks' = FALSE
    /\ UNCHANGED <<writerVars, fileVars, uploaded, hasFile, manifest, req, conn>>

-----------------------------------------------------------------------------
(* The end of the connection *)

(* The connection ends, or the task is aborted.  Requests in flight go on. *)
EndConnection ==
    /\ conn = "serving"
    /\ ~Finishing \/ "break" \in Environment
    /\ \/ /\ finished = "finished"
          /\ conn' = "ended"
       \/ /\ finished # "finished" \/ "benchmark" \in Environment
          /\ conn' = IF S3 THEN "objects" ELSE "files"
    /\ UNCHANGED <<writerVars, fileVars, stateVars, req>>

(* BackupDir::destroy, forced *)
RemoveObjects ==
    /\ conn = "objects"
    /\ \/ object' = [n \in Name |-> None] /\ conn' = "files"
       \/ UNCHANGED object /\ conn' = "ended"
    /\ UNCHANGED <<writerVars, tmp, link, blob, written, dir, stateVars, req>>

(* remove_dir_all removes the files, then the directory if it is empty. *)
RemoveFiles ==
    /\ conn = "files"
    /\ tmp' = [n \in Index |-> None]
    /\ link' = [n \in Index |-> None]
    /\ blob' = [n \in Blob |-> None]
    /\ written' = None
    /\ conn' = "rmdir"
    /\ UNCHANGED <<writerVars, object, dir, stateVars, req>>

Empty ==
    /\ \A n \in Index : tmp[n] = None /\ link[n] = None
    /\ \A n \in Blob : blob[n] = None
    /\ written = None

RemoveDirectory ==
    /\ conn = "rmdir"
    /\ dir' = (dir /\ ~Empty)
    /\ conn' = "ended"
    /\ UNCHANGED <<writerVars, tmp, link, blob, object, written, stateVars, req>>

-----------------------------------------------------------------------------
WriterStep(w) ==
    \/ \E n \in Index : CreateIndex(w, n)
    \/ RegisterWriter(w)
    \/ \E c \in Chunk : AppendChunk(w, c)
    \/ CloseWriter(w)
    \/ ReadIndex(w)
    \/ PutIndex(w)
    \/ UploadFails(w)
    \/ RemoveWriter(w)

BlobStep(r) ==
    \/ \E n \in Blob, d \in BlobData : StartBlob(r, n, d)
    \/ PutBlob(r)
    \/ ReplaceBlob(r)
    \/ BlobFails(r)
    \/ RegisterBlob(r)

(* The manifests a client may upload. *)
SomeIndexData == UNION {[1 .. k -> Chunk] : k \in 1 .. MaxChunks}
SomeManifest ==
    {m \in [Name -> SomeIndexData \cup BlobData \cup {None}] :
        /\ \A n \in Index : m[n] \notin BlobData
        /\ \A n \in Blob : m[n] \in BlobData \cup {None}}

FinishStep ==
    \/ \E m \in SomeManifest : AddManifest(m)
    \/ StartFinish
    \/ PutManifest
    \/ WriteManifest
    \/ FinishFails
    \/ CompleteFinish

EndStep ==
    \/ EndConnection
    \/ RemoveObjects
    \/ RemoveFiles
    \/ RemoveDirectory

Next ==
    \/ \E w \in Writer : WriterStep(w)
    \/ \E r \in Request : BlobStep(r)
    \/ FinishStep
    \/ EndStep

Spec == Init /\ [][Next]_vars

-----------------------------------------------------------------------------
(* Properties *)

(* The type invariant; a writer has a name exactly from its creation on    *)
(* (SharedBackupState).                                                    *)
TypeOK ==
    /\ finished \in {"active", "finishing", "finished"}
    /\ stage \in [Writer -> {"free", "created", "open", "failed", "closed", "sent", "put", "gone"}]
    /\ name \in [Writer -> Index \cup {None}]
    /\ \A w \in Writer : stage[w] # "free" <=> name[w] \in Index
    /\ data \in [Writer -> IndexData]
    /\ sent \in [Writer -> Contents]
    /\ spoiled \subseteq Writer
    /\ tmp \in [Index -> Writer \cup {None}]
    /\ link \in [Index -> Writer \cup {None}]
    /\ blob \in [Blob -> BlobData \cup {None}]
    /\ object \in [Name -> Contents]
    /\ written \in Manifest \cup {None}
    /\ req \in [Request -> {Idle} \cup [stage : {"start", "put", "stored", "error"}, name : Blob, data : BlobData]]
    /\ uploaded \in [Name -> IndexData \cup BlobData \cup {None}]
    /\ manifest \in Manifest \cup {None}
    /\ finish \in {"idle", "start", "put", "written", "failed", "done"}
    /\ conn \in {"serving", "objects", "files", "rmdir", "ended"}
    /\ hasFile \in BOOLEAN /\ locks \in BOOLEAN /\ dir \in BOOLEAN

(* While the manifest is written and from then on no index writer is       *)
(* registered, and no index is still being uploaded.                       *)
NoWriterAfterFinish == finished # "active" => Registered = {}

(* A finished backup that stays has the files its manifest lists, with the *)
(* checksums it gives, on disk and in the object store ("verify the        *)
(* manifest consistency on backup finish").                                *)
ManifestConsistent ==
    finished = "finished" /\ conn \in {"serving", "ended"} =>
        /\ written # None
        /\ \A n \in Name : written[n] # None =>
              /\ OnDisk(n) = written[n]
              /\ S3 => object[n] = written[n]

-----------------------------------------------------------------------------
(* The inductive invariant behind ManifestConsistent, for an orderly client *)

Pending(n) == {w \in Writer : name[w] = n /\ stage[w] \in {"created", "open"}}
Busy(n) == {w \in Uploading \cup Creating : name[w] = n}

(* Some writer of n will never be closed, so finish will never succeed: a  *)
(* temporary file is missing for it.                                       *)
Lost(n) ==
    \/ \E w \in Writer : name[w] = n /\ stage[w] = "failed"
    \/ \E w \in Pending(n) :
          /\ stage[w] = "open"
          /\ tmp[n] # None => Pending(n) \ {w} # {}

(* Every writer of n has had a temporary file to itself. *)
Clean(n) ==
    /\ tmp[n] = None => Pending(n) = {}
    /\ tmp[n] # None => Pending(n) = {tmp[n]} /\ tmp[n] \notin spoiled
    /\ link[n] # None => link[n] \notin spoiled /\ stage[link[n]] \in {"closed", "sent", "put", "gone"}
    /\ \A w \in Busy(n) \cap Uploading : link[n] = w
    /\ uploaded[n] = OnDisk(n)
    /\ \A w \in Busy(n) : stage[w] = "sent" => sent[w] = OnDisk(n)
    /\ S3 /\ (Busy(n) = {} \/ \E w \in Busy(n) : stage[w] \in {"created", "put"}) =>
          object[n] = OnDisk(n)

BlobRequests(n) == {r \in Request : req[r].stage # "idle" /\ req[r].name = n}

CleanBlob(n) ==
    /\ \A r, q \in BlobRequests(n) : r = q
    /\ BlobRequests(n) = {} => uploaded[n] = blob[n] /\ (S3 => object[n] = blob[n])
    /\ \A r \in BlobRequests(n) :
          /\ req[r].stage = "stored" => blob[n] = req[r].data
          /\ req[r].stage \in {"put", "stored"} /\ S3 => object[n] = req[r].data

Matches(m) ==
    \A n \in Name : m[n] # None => OnDisk(n) = m[n] /\ (S3 => object[n] = m[n])

Quiet == Uploading \cup Creating = {} /\ \A r \in Request : req[r] = Idle

WritersInv ==
    /\ \A n \in Index : \A w \in {tmp[n], link[n]} \ {None} : name[w] = n
    /\ \A w \in spoiled : stage[w] # "free"
    /\ \A n \in Index : \A v, w \in Busy(n) : v = w
    /\ conn = "serving" => \A n \in Index : Lost(n) \/ Clean(n)

FinishInv ==
    /\ finish = "idle" <=> finished = "active"
    /\ Finishing => finished = "finishing" /\ conn = "serving"
    /\ finish = "done" <=> finished = "finished"
    /\ finished # "active" => Registered = {} /\ Quiet
    /\ Finishing \/ finish = "done" => manifest # None
    /\ finish \in {"written", "done"} /\ conn \in {"serving", "ended"} => written = manifest
    /\ Finishing \/ finish = "done" => Matches(manifest)
    /\ finished = "finished" => conn \in {"serving", "ended"}

CleanupInv == finished # "finished" => locks

(* Throughout a session of an orderly client each archive is either lost,  *)
(* so that finish_backup fails, or its file, its object and its entry in   *)
(* uploaded_archives agree; both locks are held until it is finished.      *)
SessionInv ==
    /\ TypeOK
    /\ WritersInv
    /\ conn = "serving" => \A n \in Blob : CleanBlob(n)
    /\ FinishInv
    /\ CleanupInv

=============================================================================
