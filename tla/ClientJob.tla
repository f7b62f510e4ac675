------------------------------ MODULE ClientJob ------------------------------
(***************************************************************************)
(* The commands "backup" and "restore" of the client, with their keys: how *)
(* a backup decides which of the previous snapshot it reuses, in which     *)
(* order it uploads the archives, the catalog, the key and the manifest,   *)
(* and what a restore checks before it writes.                             *)
(*                                                                         *)
(* The datastore is what the client sees of it.  Its files may change      *)
(* behind the client's back: an object is replaced, a manifest is          *)
(* rewritten without its signature, a chunk is not what its digest says.   *)
(*                                                                         *)
(* Content is the version of the source.  A piece is a chunk or a blob; it *)
(* stands for its own digest, an object (an index or a blob) for its own   *)
(* checksum.  A signature is the key with what it signs.                   *)
(***************************************************************************)
EXTENDS Naturals, Sequences, SequencesExt, FiniteSetsExt, Functions

CONSTANTS
    NoKey,
    BackupCalls(_), \* parameters of the n-th backup: crypto parameters, specs, detection, dry
    RestoreCalls, \* parameters of restores: crypto parameters, snap, name, ignore
    MaxSnaps, MaxChanges, Versions

VARIABLES
    snaps,    \* the snapshots of the group, in order of their times
    source,   \* version of the directory, image and file that are backed up
    job,      \* the backup that runs
    restore,  \* the restore; one is looked at
    swapped,  \* chunks that are not what their digest says
    changes,
    signed    \* history: what was backed up under a signature

jobVars == <<snaps, source, job, restore, swapped, changes, signed>>

-----------------------------------------------------------------------------
(* Keys *)

Crypto(ok, mode, key, master) == [ok |-> ok, mode |-> mode, key |-> key, master |-> master]

(* crypto_parameters: a key that is given goes before the default one, and *)
(* a mode that needs no key must not be given one.                         *)
CryptoParameters(p) ==
    LET key == IF p.key # NoKey THEN p.key ELSE p.defaultKey
    IN  IF p.mode = "none" THEN Crypto(p.key = NoKey /\ ~p.master, "none", NoKey, FALSE)
        ELSE IF key = NoKey THEN Crypto(p.mode = "unset" /\ ~p.master, "none", NoKey, FALSE)
        ELSE Crypto(TRUE, IF p.mode = "unset" THEN "encrypt" ELSE p.mode, key, p.master \/ p.defaultMaster)

EncKey(c) == IF c.mode = "encrypt" THEN c.key ELSE NoKey

-----------------------------------------------------------------------------
(* Objects and manifests *)

Blobs == {"conf", "rsa", "manifest"}
Piece(name, v, key) == [of |-> name, v |-> v, key |-> key]
NoManifest == [files |-> << >>, sig |-> [key |-> NoKey, files |-> << >>], fp |-> NoKey, there |-> FALSE]

(* chunk_crypt_mode: chunks of an archive are encrypted or not. *)
ChunkCryptMode(info) == IF info.crypt = "encrypt" THEN "encrypt" ELSE "none"

(* to_string: with a key the manifest is signed and names the key. *)
ManifestToString(files, key) ==
    [files |-> files, sig |-> [key |-> key, files |-> IF key = NoKey THEN << >> ELSE files],
     fp |-> key, there |-> TRUE]
Unsigned(man) == man.sig.key = NoKey

(* check_signature; the fingerprint only makes for a better message. *)
CheckSignature(man, key, ignoreMissing) ==
    IF Unsigned(man) THEN ignoreMissing
    ELSE man.fp \in {NoKey, key} /\ man.sig = [key |-> key, files |-> man.files]

(* check_fingerprint *)
CheckFingerprint(man, key) == man.fp \in {NoKey, key}

(* from_data, without a check when there is no key. *)
ManifestAccepted(man, key, ignoreMissing) ==
    man.there /\ (key # NoKey => CheckSignature(man, key, ignoreMissing))

(* verify_file *)
VerifyFile(man, name, object) == name \in DOMAIN man.files /\ man.files[name].csum = object

(* read_raw_chunk and decode: the mode must be the index's, the key the  *)
(* chunk's, and the content what the digest says.                        *)
StoredChunk(d) == IF d \in DOMAIN swapped THEN swapped[d] ELSE d
ReadChunkOk(d, key, mode) ==
    LET c == StoredChunk(d)
    IN  /\ (c.key # NoKey) = (mode = "encrypt")
        /\ c.key \in {NoKey, key}
        /\ c = d

(* DataBlobReader: the magic of the blob says whether a key is needed. *)
ReadBlobOk(object, key) == \A c \in object : c.key \in {NoKey, key}

-----------------------------------------------------------------------------
(* A backup *)

NoJob == [pc |-> "no", call |-> << >>, c |-> Crypto(TRUE, "none", NoKey, FALSE), at |-> 0, last |-> 0, todo |-> << >>,
          prev |-> NoManifest, catalog |-> "none", files |-> << >>, conn |-> FALSE]
NoRestore == [pc |-> "no", call |-> << >>, c |-> Crypto(TRUE, "none", NoKey, FALSE), at |-> 0,
              man |-> NoManifest, todo |-> << >>, got |-> {}]

ClientJobInit ==
    /\ snaps = << >> /\ source = 1 /\ job = NoJob /\ restore = NoRestore
    /\ swapped = << >> /\ changes = 0 /\ signed = {}

Done(i) == snaps[i].state = "done"
DoneSnaps == {i \in DOMAIN snaps : Done(i)}
SplitMode(call) == call.detection \in {"data", "metadata"}

(* No target is given twice; that sources are of the right type is left out. *)
ValidSpecs(specs) == IsInjective(specs)

(* The parameters are read, the session is opened; the server takes the *)
(* group's newest finished snapshot as the previous one.                *)
BackupStarts(call) ==
    LET c == CryptoParameters(call)
    IN  /\ job.pc = "no" /\ Len(snaps) < MaxSnaps /\ c.ok /\ ValidSpecs(call.specs)
        /\ \A i \in DOMAIN snaps : snaps[i].state # "open"
        /\ snaps' = Append(snaps, [state |-> "open", objects |-> << >>, man |-> NoManifest])
        /\ job' = [NoJob EXCEPT !.pc = "previous", !.call = call, !.c = c, !.at = Len(snaps) + 1, !.conn = TRUE,
                                !.last = IF DoneSnaps = {} THEN 0 ELSE Max(DoneSnaps), !.todo = call.specs]
        /\ UNCHANGED <<source, restore, swapped, changes, signed>>

(* check_previous_manifest: chunks are reused when they are encrypted like *)
(* the new ones, and when a signature, if there is one, is this key's.     *)
CheckPreviousManifest(man, c) ==
    /\ \A n \in DOMAIN man.files \ Blobs :
            (ChunkCryptMode(man.files[n]) = "encrypt") = (c.mode = "encrypt")
    /\ c.key # NoKey => CheckSignature(man, c.key, c.mode # "encrypt")

(* The previous manifest, whose download may fail; a dry run ends here. *)
BackupPrevious(fails) ==
    LET man == snaps[job.last].man
        reusable == job.last # 0 /\ ~fails /\ CheckPreviousManifest(man, job.c)
    IN  /\ job.pc = "previous" /\ job.conn
        /\ job' = [job EXCEPT !.prev = IF reusable THEN man ELSE NoManifest,
                              !.pc = IF job.call.dry THEN "end" ELSE "upload",
                              !.conn = ~job.call.dry]
        /\ UNCHANGED <<snaps, source, restore, swapped, changes, signed>>

(* An error leaves create_backup, which drops the connection. *)
BackupEnds == job' = [job EXCEPT !.pc = "end", !.conn = FALSE]

PutObjects(objects) == snaps' = [snaps EXCEPT ![job.at].objects = objects @@ @]
AddFile(name, object) == name :> [crypt |-> job.c.mode, csum |-> object]

UploadsSpec(spec) == job.pc = "upload" /\ job.conn /\ job.todo # << >> /\ Head(job.todo) = spec
Uploaded(files, rest) == job' = [job EXCEPT !.files = files @@ @, !.todo = Tail(@), !.catalog = rest]

(* A configuration file or an image *)
BackupFile(spec) ==
    LET object == {Piece(spec, source, EncKey(job.c))}
    IN  /\ spec \in {"conf", "disk"} /\ UploadsSpec(spec)
        /\ PutObjects(spec :> object)
        /\ Uploaded(AddFile(spec, object), job.catalog)
        /\ UNCHANGED <<source, restore, swapped, changes, signed>>

(* Mutant: a reference need not be signed. *)
PreviousReferenceArchivesUnsigned(man, c) ==
    /\ {"mpxar", "ppxar"} \subseteq DOMAIN man.files
    /\ man.files["ppxar"].crypt = c.mode

(* previous_reference_archives: its payload is taken over unread, so with *)
(* a key the reference must be signed.                                    *)
PreviousReferenceArchives(man, c) ==
    /\ c.key # NoKey => CheckSignature(man, c.key, FALSE)
    /\ {"mpxar", "ppxar"} \subseteq DOMAIN man.files
    /\ man.files["ppxar"].crypt = c.mode

(* prepare_reference: without the index of the metadata the source is read, *)
(* while an error with the payload's index or with the metadata is final.   *)
LastObject(name) == IF name \in DOMAIN snaps[job.last].objects THEN snaps[job.last].objects[name] ELSE {}
Referenced ==
    /\ job.call.detection = "metadata" /\ job.prev.there
    /\ PreviousReferenceArchives(job.prev, job.c)
    /\ VerifyFile(job.prev, "mpxar", LastObject("mpxar"))
ReferenceFails ==
    /\ Referenced
    /\ \/ ~VerifyFile(job.prev, "ppxar", LastObject("ppxar"))
       \/ \E d \in LastObject("mpxar") : ~ReadChunkOk(d, job.c.key, ChunkCryptMode(job.prev.files["mpxar"]))

(* Files whose metadata is the same are not read again. *)
NewPayload == {Piece("ppxar", source, EncKey(job.c))}
NextPayload ==
    IF Referenced /\ \A d \in LastObject("mpxar") : d.v = source THEN LastObject("ppxar") ELSE NewPayload

(* A directory, as one archive with a catalog or as two without *)
BackupDirectory ==
    LET unified == {Piece("pxar", source, EncKey(job.c))}
        meta == {Piece("mpxar", source, EncKey(job.c))}
    IN  /\ UploadsSpec("root") /\ ~ReferenceFails
        /\ IF SplitMode(job.call)
           THEN /\ PutObjects("mpxar" :> meta @@ "ppxar" :> NextPayload)
                /\ Uploaded(AddFile("ppxar", NextPayload) @@ AddFile("mpxar", meta), job.catalog)
           ELSE /\ PutObjects("pxar" :> unified)
                /\ Uploaded(AddFile("pxar", unified), "running")
        /\ UNCHANGED <<source, restore, swapped, changes, signed>>

BackupReferenceFails ==
    /\ UploadsSpec("root") /\ ReferenceFails /\ BackupEnds
    /\ UNCHANGED <<snaps, source, restore, swapped, changes, signed>>

(* The task that uploads the catalog can fail at any time; it cancels the *)
(* session.  It ends well only once the catalog is closed.                *)
CatalogFails ==
    /\ job.catalog \in {"running", "closed"} /\ job.conn
    /\ job' = [job EXCEPT !.catalog = "failed", !.conn = FALSE]
    /\ UNCHANGED <<snaps, source, restore, swapped, changes, signed>>

CatalogUploaded ==
    /\ job.catalog = "closed" /\ job.conn
    /\ PutObjects("catalog" :> {Piece("catalog", source, EncKey(job.c))})
    /\ job' = [job EXCEPT !.catalog = "ok"]
    /\ UNCHANGED <<source, restore, swapped, changes, signed>>

(* Mutant: the catalog's result is not waited for. *)
BackupCatalogUnawaited ==
    /\ job.pc = "upload" /\ job.todo = << >> /\ job.conn
    /\ job' = [job EXCEPT !.pc = "key",
                          !.catalog = IF @ = "running" THEN "closed" ELSE @,
                          !.files = IF job.catalog = "none" THEN @
                                    ELSE AddFile("catalog", {Piece("catalog", source, EncKey(job.c))}) @@ @]
    /\ UNCHANGED <<snaps, source, restore, swapped, changes, signed>>

(* The catalog is closed, and its result waited for. *)
BackupCatalog ==
    /\ job.pc = "upload" /\ job.todo = << >>
    /\ \/ job.catalog = "none" /\ job' = [job EXCEPT !.pc = "key"]
       \/ job.catalog = "running" /\ job' = [job EXCEPT !.catalog = "closed"]
       \/ /\ job.catalog = "ok"
          /\ job' = [job EXCEPT !.pc = "key",
                                !.files = AddFile("catalog", {Piece("catalog", source, EncKey(job.c))}) @@ @]
       \/ job.catalog = "failed" /\ BackupEnds
    /\ UNCHANGED <<snaps, source, restore, swapped, changes, signed>>

(* The key for the master key's owner: not encrypted, but listed as if. *)
BackupKey ==
    LET object == {Piece("rsa", 1, NoKey)}
    IN  /\ job.pc = "key" /\ job.conn
        /\ IF job.c.master
           THEN PutObjects("rsa" :> object) /\ job' = [job EXCEPT !.pc = "manifest", !.files = AddFile("rsa", object) @@ @]
           ELSE job' = [job EXCEPT !.pc = "manifest"] /\ UNCHANGED snaps
        /\ UNCHANGED <<source, restore, swapped, changes, signed>>

(* What a backup of these parameters should have signed *)
Names(call, c) ==
    {n \in Range(call.specs) : n # "root"}
    \cup (IF "root" \notin Range(call.specs) THEN {}
          ELSE IF SplitMode(call) THEN {"mpxar", "ppxar"} ELSE {"pxar", "catalog"})
    \cup (IF c.master THEN {"rsa"} ELSE {})
Intended(call, c, v) ==
    [n \in Names(call, c) |->
        [crypt |-> c.mode, csum |-> {IF n = "rsa" THEN Piece(n, 1, NoKey) ELSE Piece(n, v, EncKey(c))}]]

BackupManifest ==
    /\ job.pc = "manifest" /\ job.conn
    /\ snaps' = [snaps EXCEPT ![job.at].man = ManifestToString(job.files, job.c.key)]
    /\ job' = [job EXCEPT !.pc = "finish"]
    /\ signed' = IF job.c.key = NoKey THEN signed
                 ELSE signed \cup {[key |-> job.c.key, files |-> Intended(job.call, job.c, source)]}
    /\ UNCHANGED <<source, restore, swapped, changes>>

BackupFinish ==
    /\ job.pc = "finish" /\ job.conn
    /\ snaps' = [snaps EXCEPT ![job.at].state = "done"]
    /\ BackupEnds
    /\ UNCHANGED <<source, restore, swapped, changes, signed>>

(* An upload fails, the connection breaks or the client is killed. *)
BackupFails ==
    /\ job.pc \notin {"no", "end"} /\ BackupEnds
    /\ UNCHANGED <<snaps, source, restore, swapped, changes, signed>>

(* The server removes what was not finished. *)
ServerCleansUp ==
    /\ job.pc # "no" /\ ~job.conn /\ snaps[job.at].state = "open"
    /\ snaps' = [snaps EXCEPT ![job.at] = [state |-> "gone", objects |-> << >>, man |-> NoManifest]]
    /\ UNCHANGED <<source, job, restore, swapped, changes, signed>>

BackupReturns ==
    /\ job.pc = "end" /\ snaps[job.at].state # "open" /\ job' = NoJob
    /\ UNCHANGED <<snaps, source, restore, swapped, changes, signed>>

-----------------------------------------------------------------------------
(* A restore *)

(* A snapshot that is locked by its backup may list its manifest already. *)
HasManifest(i) == snaps[i].state # "gone" /\ snaps[i].man.there

(* api_datastore_latest_finished_snapshot, or the snapshot that is named *)
LatestFinished == LET S == {i \in DOMAIN snaps : HasManifest(i)} IN IF S = {} THEN 0 ELSE Max(S)

RestoreStarts(call) ==
    LET c == CryptoParameters(call)
        at == IF call.latest THEN LatestFinished ELSE Min(DOMAIN snaps)
    IN  /\ restore.pc = "no" /\ c.ok /\ snaps # << >> /\ at # 0
        /\ restore' = [NoRestore EXCEPT !.pc = "open", !.call = call, !.c = c, !.at = at]
        /\ UNCHANGED <<snaps, source, job, swapped, changes, signed>>

(* Mutant: the reader does not need the lock of the snapshot. *)
RestoreOpensAny ==
    /\ restore.pc = "open"
    /\ restore' = [restore EXCEPT !.pc = IF snaps[restore.at].state # "gone" THEN "manifest" ELSE "failed"]
    /\ UNCHANGED <<snaps, source, job, swapped, changes, signed>>

(* BackupReader::start, refused while a backup has the snapshot *)
RestoreOpens ==
    /\ restore.pc = "open"
    /\ restore' = [restore EXCEPT !.pc = IF Done(restore.at) THEN "manifest" ELSE "failed"]
    /\ UNCHANGED <<snaps, source, job, swapped, changes, signed>>

(* get_pxar_archive_names: a name of either variant gives both archives. *)
PxarArchiveNames(name, man) ==
    IF name \in DOMAIN man.files
    THEN IF name \in {"mpxar", "ppxar"} THEN <<"mpxar", "ppxar">> ELSE <<name>>
    ELSE IF name = "pxar" /\ "mpxar" \in DOMAIN man.files THEN <<"mpxar", "ppxar">> ELSE << >>

RestoreNames(name, man) == IF name \in {"pxar", "mpxar", "ppxar"} THEN PxarArchiveNames(name, man) ELSE <<name>>

(* The manifest is downloaded and checked.  The key's blob is restored *)
(* without the key that it holds.                                      *)
RestoreManifest ==
    LET man == snaps[restore.at].man
        key == restore.c.key
        keyBlob == restore.call.name = "rsa" /\ key = NoKey
        names == RestoreNames(restore.call.name, man)
    IN  /\ restore.pc = "manifest"
        /\ restore' =
             IF ~ManifestAccepted(man, key, restore.call.ignore) \/ ~(keyBlob \/ CheckFingerprint(man, key))
             THEN [restore EXCEPT !.pc = "failed"]
             ELSE IF restore.call.name = "manifest" THEN [restore EXCEPT !.pc = "ok", !.man = man]
             ELSE IF names = << >> THEN [restore EXCEPT !.pc = "failed"]
             ELSE [restore EXCEPT !.pc = "data", !.man = man, !.todo = names]
        /\ UNCHANGED <<snaps, source, job, swapped, changes, signed>>

(* download_blob, download_dynamic_index, download_fixed_index and the *)
(* chunks behind them                                                  *)
RestoreObject(name) ==
    LET objects == snaps[restore.at].objects
    IN  IF name \in DOMAIN objects THEN objects[name] ELSE {}
RestoreReadsWell(name) ==
    LET object == RestoreObject(name)
    IN  /\ VerifyFile(restore.man, name, object)
        /\ IF name \in Blobs THEN ReadBlobOk(object, restore.c.key)
           ELSE \A d \in object : ReadChunkOk(d, restore.c.key, ChunkCryptMode(restore.man.files[name]))

RestoreData ==
    LET name == Head(restore.todo)
    IN  /\ restore.pc = "data"
        /\ restore' =
             IF ~RestoreReadsWell(name) THEN [restore EXCEPT !.pc = "failed"]
             ELSE [restore EXCEPT !.got = @ \cup RestoreObject(name), !.todo = Tail(@),
                                  !.pc = IF Len(restore.todo) = 1 THEN "ok" ELSE "data"]
        /\ UNCHANGED <<snaps, source, job, swapped, changes, signed>>

-----------------------------------------------------------------------------
(* The rest of the world *)

SourceChanges ==
    /\ job.pc = "no" /\ source < Versions /\ source' = source + 1
    /\ UNCHANGED <<snaps, job, restore, swapped, changes, signed>>

Reading(i) == restore.pc \in {"manifest", "data"} /\ restore.at = i

(* A snapshot is removed unless a session holds its lock. *)
ForgetSnapshot(i) ==
    /\ Done(i) /\ ~(job.conn /\ job.last = i) /\ ~Reading(i)
    /\ snaps' = [snaps EXCEPT ![i] = [state |-> "gone", objects |-> << >>, man |-> NoManifest]]
    /\ UNCHANGED <<source, job, restore, swapped, changes, signed>>

Changing == changes < MaxChanges /\ changes' = changes + 1

(* Version 0 is content that nobody backed up. *)
OtherObjects(name) ==
    {{Piece(name, 0, NoKey)}} \cup
    {snaps[j].objects[name] : j \in {k \in DOMAIN snaps : name \in DOMAIN snaps[k].objects}}

ObjectChanges(i, name) ==
    /\ Done(i) /\ Changing
    /\ \E object \in OtherObjects(name) : snaps' = [snaps EXCEPT ![i].objects[name] = object]
    /\ UNCHANGED <<source, job, restore, swapped, signed>>

(* The manifest, too, is rewritten, without a signature: it fits the objects. *)
ManifestChanges(i, name) ==
    /\ Done(i) /\ Changing
    /\ \E object \in OtherObjects(name) :
         LET files == [snaps[i].man.files EXCEPT ![name].csum = object]
         IN  snaps' = [snaps EXCEPT ![i].objects[name] = object, ![i].man = ManifestToString(files, NoKey)]
    /\ UNCHANGED <<source, job, restore, swapped, signed>>

ChunkChanges(i, name) ==
    /\ Done(i) /\ name \notin Blobs /\ Changing
    /\ \E d \in snaps[i].objects[name] :
         swapped' = (d :> [d EXCEPT !.v = 0]) @@ swapped
    /\ UNCHANGED <<snaps, source, job, restore, signed>>

-----------------------------------------------------------------------------

ClientJobNext ==
    \/ \E call \in BackupCalls(Len(snaps) + 1) : BackupStarts(call)
    \/ \E fails \in BOOLEAN : BackupPrevious(fails)
    \/ \E spec \in {"conf", "disk"} : BackupFile(spec)
    \/ BackupDirectory \/ BackupReferenceFails
    \/ CatalogFails \/ CatalogUploaded
    \/ BackupCatalog \/ BackupKey \/ BackupManifest \/ BackupFinish
    \/ BackupFails \/ ServerCleansUp \/ BackupReturns
    \/ \E call \in RestoreCalls : RestoreStarts(call)
    \/ RestoreOpens \/ RestoreManifest \/ RestoreData
    \/ SourceChanges
    \/ \E i \in DOMAIN snaps :
        \/ ForgetSnapshot(i)
        \/ \E name \in DOMAIN snaps[i].objects :
             ObjectChanges(i, name) \/ ManifestChanges(i, name) \/ ChunkChanges(i, name)

-----------------------------------------------------------------------------

(* A signed manifest lists what its backup read from the source, each file  *)
(* encrypted or not as the mode says: nothing that a signature does not     *)
(* cover is taken over from a previous snapshot.                            *)
SignedRight ==
    \A i \in DOMAIN snaps :
        LET man == snaps[i].man
        IN  man.there /\ ~Unsigned(man) /\ CheckSignature(man, man.sig.key, FALSE)
                => [key |-> man.sig.key, files |-> man.files] \in signed

(* A snapshot that was finished, and is as it was, has each file that its *)
(* manifest lists: the catalog's upload, too, ended before.               *)
FinishedWhole ==
    changes = 0 =>
        \A i \in DoneSnaps :
            /\ snaps[i].man.there
            /\ snaps[i].objects = [n \in DOMAIN snaps[i].man.files |-> snaps[i].man.files[n].csum]

(* What is restored with a key, and without leave to pass over a missing    *)
(* signature, is what one backup signed with that key read, whatever became *)
(* of the files on the server meanwhile.                                    *)
RestoredSigned ==
    restore.pc = "ok" /\ restore.c.key # NoKey /\ ~restore.call.ignore /\ restore.call.name # "manifest" =>
        \E s \in signed :
            /\ s.key = restore.c.key
            /\ restore.got = UNION {s.files[n].csum : n \in Range(RestoreNames(restore.call.name, s)) \cap DOMAIN s.files}

(* A restore reads no snapshot that is not finished. *)
RestoresFinished == Reading(restore.at) => Done(restore.at)

ClientJobInv == SignedRight /\ FinishedWhole /\ RestoredSigned /\ RestoresFinished
=============================================================================
