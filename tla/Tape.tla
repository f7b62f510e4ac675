-------------------------------- MODULE Tape --------------------------------
(***************************************************************************)
(* Tape backup of a datastore to one media pool: the writer with its       *)
(* inventory, media sets and catalogs, restore jobs, and the commands that *)
(* label, format and catalog a tape.  A job writes chunk archives and then *)
(* the snapshot archive, moves on to the next tape when one is full, and   *)
(* commits its catalog after the drive has flushed what the catalog names. *)
(*                                                                         *)
(* A tape has its label and files; what is not flushed may be lost when    *)
(* the power fails.  Each actor has a drive of its own, and a tape is in   *)
(* one drive.  The snapshots of the source datastores do not change.       *)
(* Encryption, namespaces, owners, locations and the changer are left out, *)
(* and the writer's copy of the inventory is taken to be current.          *)
(***************************************************************************)
EXTENDS Integers, Sequences, FiniteSets

CONSTANTS
    Media,        \* tapes
    Snap,         \* snapshots of the source datastores
    SnapChunks(_),\* their chunks; digests count per datastore
    StoreOf(_),   \* datastore of a snapshot or a chunk
    Slots,        \* files a tape has room for
    MaxSessions,  \* bound on backup jobs, and the clock: set numbers are times
    MaxOthers,    \* bound on restore jobs and commands of administrators
    AlwaysCreate, \* allocation policy: a set per job, or continue
    Overwrite,    \* retention policy: overwrite, or keep
    NoTape

ASSUME SlotsAssumption == Slots \in Nat \ {0} /\ MaxSessions \in Nat /\ MaxOthers \in Nat
ASSUME TapeNameAssumption == NoTape \notin Media

VARIABLES
    tape,      \* what is on the tapes
    flushed,   \* number of files that have reached the tape
    catalog,   \* catalog files
    inv,       \* the inventory
    writer,    \* the backup job
    restore,   \* the restore job
    target,    \* what has been restored
    sessions, others,
    reused,    \* history: a tape was written to under a restore of its set
    partial    \* history: catalogs written by a restore of some datastores only,
               \* or copied from an archive that did not fit on its tape

tapeVars == <<tape, flushed, catalog, inv, writer, restore, target, sessions, others, reused, partial>>

-----------------------------------------------------------------------------

TapeSet == 0 .. MaxSessions             \* media sets; 0 stands for none
Member == [set : TapeSet, seq : 0 .. Cardinality(Media)]
Unassigned == [set |-> 0, seq |-> 0]

TapeChunks == UNION {SnapChunks(s) : s \in Snap}

(* An entry of a catalog: the file with a chunk or a snapshot. *)
Entry(nr, file) == {[nr |-> nr, what |-> x] : x \in file.has}

ChunkFile(C, whole) == [kind |-> "chunks", of |-> NoTape, whole |-> whole, has |-> C]
SnapFile(s, whole) == [kind |-> "snapshot", of |-> NoTape, whole |-> whole, has |-> IF whole THEN {s} ELSE {}]
CatalogFile(m, entries, whole) == [kind |-> "catalog", of |-> m, whole |-> whole, has |-> entries]

NoCatalog == [state |-> "none", member |-> Unassigned, has |-> {}]
EmptyCatalog(member) == [state |-> "good", member |-> member, has |-> {}]
NotKnown == [known |-> FALSE, member |-> Unassigned, ctime |-> 0, status |-> "none"]
EmptyMedia == [NotKnown EXCEPT !.known = TRUE]
BlankTape == [labelled |-> FALSE, member |-> Unassigned, files |-> <<>>]

NotWriting ==
    [step |-> "idle", set |-> 0, list |-> <<>>, media |-> NoTape, snap |-> {}, todo |-> {}, seen |-> {},
     pend |-> {}, wrote |-> FALSE, next |-> "idle", leom |-> FALSE]
NotRestoring == [step |-> "idle", set |-> 0, list |-> <<>>, cats |-> {}, want |-> {}, read |-> {}, stores |-> {}]

TapeInit ==
    /\ tape = [m \in Media |-> [BlankTape EXCEPT !.labelled = TRUE]]
    /\ flushed = [m \in Media |-> 0]
    /\ catalog = [m \in Media |-> EmptyCatalog(Unassigned)]
    /\ inv = [m \in Media |-> EmptyMedia]
    /\ writer = NotWriting
    /\ restore = NotRestoring
    /\ target = [snaps |-> {}, chunks |-> {}]
    /\ sessions = 0 /\ others = 0
    /\ reused = FALSE /\ partial = {}

-----------------------------------------------------------------------------
(* The inventory *)

(* compute_media_set_members *)
MembersOf(set) == {m \in Media : inv[m].known /\ inv[m].member.set = set}
SetComplete(set) == {inv[m].member.seq : m \in MembersOf(set)} = 0 .. Cardinality(MembersOf(set)) - 1
MediaAt(set, seq) == CHOOSE m \in MembersOf(set) : inv[m].member.seq = seq
MediaList(set) == [i \in 1 .. Cardinality(MembersOf(set)) |-> MediaAt(set, i - 1)]

Assigned == {m \in Media : inv[m].known /\ inv[m].member.set # 0}

(* latest_media_set *)
LatestSet ==
    IF Assigned = {} THEN 0
    ELSE inv[CHOOSE m \in Assigned : \A n \in Assigned : inv[n].ctime <= inv[m].ctime].member.set

(* current_set_usable, with compute_media_state, of a set and its media *)
SetUsable(set, list) ==
    \A i \in 1 .. Len(list) :
        /\ inv[list[i]].known /\ inv[list[i]].member = [set |-> set, seq |-> i - 1]
        /\ inv[list[i]].status \in {"none", "full"}
LastWritable(list) == list # <<>> /\ inv[list[Len(list)]].status = "none"

(* media_expire_time: with "continue" a set is in use until there is a newer one *)
Expired(m) ==
    /\ m \in Assigned /\ Overwrite
    /\ inv[m].status \in {"none", "full"}
    /\ \/ AlwaysCreate
       \/ \E n \in Assigned : inv[n].member.set # inv[m].member.set /\ inv[n].ctime > inv[m].ctime

(* lock_media_set.  restore drops its lock when the call returns, before   *)
(* the worker is done.                                                     *)
SetLocked(set) == writer.step # "idle" /\ writer.set = set
UnderRestore(set) == restore.step # "idle" /\ restore.set = set

-----------------------------------------------------------------------------
(* The writer *)

Unchanged == UNCHANGED <<restore, target, others, partial>>

Readable(m) == catalog[m].state = "good" /\ catalog[m].member = inv[m].member
InCatalogs(set) == {e.what : e \in UNION {catalog[m].has : m \in MembersOf(set)}}

(* MediaPool::new, start_write_session, PoolWriter::new *)
StartSession(force) ==
    LET cur == LatestSet
        new == force \/ AlwaysCreate \/ cur = 0 \/ ~SetComplete(cur) \/ ~SetUsable(cur, MediaList(cur))
        set == IF new THEN sessions + 1 ELSE cur IN
    /\ writer = NotWriting /\ sessions < MaxSessions
    /\ \A m \in MembersOf(set) : Readable(m)
    /\ sessions' = sessions + 1
    /\ writer' = [NotWriting EXCEPT !.step = "next", !.set = set, !.list = MediaList(set),
                                   !.seen = InCatalogs(set)]
    /\ UNCHANGED <<tape, flushed, catalog, inv, reused>> /\ Unchanged

(* backup_worker and backup_snapshot; NewChunksIterator leaves out the     *)
(* chunks that some catalog of the set has                                 *)
BackupSnapshot(s) ==
    /\ writer.step = "next" /\ s \notin writer.seen
    /\ writer' = [writer EXCEPT !.step = "chunks", !.snap = {s}, !.wrote = TRUE,
                                !.todo = SnapChunks(s) \ writer.seen]
    /\ UNCHANGED <<tape, flushed, catalog, inv, sessions, reused>> /\ Unchanged

NeedsMedia == writer.step \in {"chunks", "catalog"} /\ writer.media = NoTape

(* next_unassigned_media, next_empty_media *)
EmptyTape(m) == inv[m].known /\ inv[m].member.set = 0 /\ inv[m].status = "none"

(* next_expired_media *)
ExpiredTape(m) ==
    Expired(m) /\ inv[m].member.set # writer.set /\ ~SetLocked(inv[m].member.set)

(* Expired tapes when there is no empty one. *)
Allocatable(m) == EmptyTape(m) \/ (ExpiredTape(m) /\ \A n \in Media : ~EmptyTape(n))

(* alloc_writable_media, add_media_to_current_set; the job may die before  *)
(* the inventory is stored                                                 *)
AllocMedia(m, dies) ==
    LET member == [set |-> writer.set, seq |-> Len(writer.list)] IN
    /\ NeedsMedia /\ SetUsable(writer.set, writer.list) /\ ~LastWritable(writer.list)
    /\ Allocatable(m)
    /\ catalog' = [catalog EXCEPT ![m] = EmptyCatalog(member)]
    /\ reused' = (reused \/ UnderRestore(inv[m].member.set))
    /\ IF dies THEN UNCHANGED inv
       ELSE inv' = [inv EXCEPT ![m] = [known |-> TRUE, member |-> member, ctime |-> sessions, status |-> "none"]]
    /\ writer' = IF dies THEN NotWriting ELSE [writer EXCEPT !.list = Append(@, m)]
    /\ UNCHANGED <<tape, flushed, sessions>> /\ Unchanged

Room == Len(tape[writer.media].files) + 1 < Slots

(* A file at the end of the tape, when there is any room for it. *)
AppendFile(file) ==
    tape' = [tape EXCEPT ![writer.media].files = IF Len(@) < Slots THEN Append(@, file) ELSE @]

(* load_writable_media, update_media_set_label: a tape of the set is       *)
(* continued, any other gets the label of the set ...                      *)
LoadMedia ==
    LET m == writer.list[Len(writer.list)]
        fresh == tape[m].member.set # writer.set IN
    /\ NeedsMedia /\ LastWritable(writer.list) /\ SetUsable(writer.set, writer.list)
    /\ tape[m].labelled
    /\ IF fresh
       THEN /\ tape' = [tape EXCEPT ![m].member = inv[m].member, ![m].files = <<>>]
            /\ flushed' = [flushed EXCEPT ![m] = 0]
            /\ writer' = [writer EXCEPT !.media = m, !.step = "overwrite", !.next = writer.step]
       ELSE /\ tape[m].member = inv[m].member /\ Readable(m)
            /\ writer' = [writer EXCEPT !.media = m]
            /\ UNCHANGED <<tape, flushed>>
    /\ UNCHANGED <<catalog, inv, sessions, reused>> /\ Unchanged

(* ... and an empty catalog ... *)
OverwriteCatalog ==
    /\ writer.step = "overwrite"
    /\ catalog' = [catalog EXCEPT ![writer.media] = EmptyCatalog(inv[writer.media].member)]
    /\ writer' = [writer EXCEPT !.step = "copy"]
    /\ UNCHANGED <<tape, flushed, inv, sessions, reused>> /\ Unchanged

(* ... and, one after the other, the catalogs of the tapes before it:      *)
(* append_media_set_catalogs.  The job fails when they do not fit.         *)
CopyCatalogs ==
    LET n == Len(tape[writer.media].files) + 1
        m == writer.list[n] IN
    /\ writer.step = "copy"
    /\ IF n = Len(writer.list)
       THEN writer' = [writer EXCEPT !.step = writer.next] /\ UNCHANGED tape
       ELSE /\ AppendFile(CatalogFile(m, catalog[m].has, Room))
            /\ writer' = IF Room THEN writer ELSE [writer EXCEPT !.step = "failed"]
    /\ UNCHANGED <<flushed, catalog, inv, sessions, reused>> /\ Unchanged

(* Register what was written, and commit when the tape is full or a lot    *)
(* has been written.                                                       *)
Registered(file, leom, commit, next) ==
    LET nr == Len(tape[writer.media].files) + 1 IN
    [writer EXCEPT !.pend = @ \cup Entry(nr, file), !.seen = @ \cup file.has,
                   !.todo = @ \ file.has, !.leom = leom, !.next = next,
                   !.step = IF leom \/ commit THEN "sync" ELSE next]

(* append_chunk_archive, write_chunk_archive *)
WriteChunks(C, commit) ==
    /\ writer.step = "chunks" /\ writer.media # NoTape
    /\ writer.todo # {} /\ C \subseteq writer.todo
    /\ IF Room THEN C # {} ELSE C # writer.todo /\ (Len(tape[writer.media].files) = Slots => C = {})
    /\ AppendFile(ChunkFile(C, Room))
    /\ writer' = Registered(ChunkFile(C, Room), ~Room, commit, "chunks")
    /\ UNCHANGED <<flushed, catalog, inv, sessions, reused>> /\ Unchanged

(* append_snapshot_archive; one that does not fit goes to the next tape *)
WriteSnapshot(commit) ==
    /\ writer.step = "chunks" /\ writer.media # NoTape /\ writer.todo = {}
    /\ \E s \in writer.snap :
        /\ AppendFile(SnapFile(s, Room))
        /\ writer' = Registered(SnapFile(s, Room), ~Room, commit, IF Room THEN "next" ELSE "chunks")
    /\ UNCHANGED <<flushed, catalog, inv, sessions, reused>> /\ Unchanged

(* Mutated form: without waiting for the drive. *)
SyncTapeNot ==
    /\ writer.step = "sync"
    /\ writer' = [writer EXCEPT !.step = "commit"]
    /\ UNCHANGED <<tape, flushed, catalog, inv, sessions, reused>> /\ Unchanged

(* PoolWriter::commit: the drive is flushed ... *)
SyncTape ==
    /\ writer.step = "sync"
    /\ flushed' = IF writer.media = NoTape THEN flushed
                  ELSE [flushed EXCEPT ![writer.media] = Len(tape[writer.media].files)]
    /\ writer' = [writer EXCEPT !.step = "commit"]
    /\ UNCHANGED <<tape, catalog, inv, sessions, reused>> /\ Unchanged

(* ... then the catalog is appended to; "Fixme: this should be atomic" *)
CommitCatalog(dies) ==
    /\ writer.step = "commit"
    /\ catalog' = IF writer.media = NoTape THEN catalog
                  ELSE [catalog EXCEPT ![writer.media].has = @ \cup IF dies THEN {} ELSE writer.pend,
                                       ![writer.media].state = IF dies THEN "torn" ELSE @]
    /\ writer' = IF dies THEN NotWriting
                 ELSE [writer EXCEPT !.pend = {}, !.step = IF writer.leom THEN "full" ELSE writer.next]
    /\ UNCHANGED <<tape, flushed, inv, sessions, reused>> /\ Unchanged

(* set_media_status_full *)
MarkFull ==
    /\ writer.step = "full"
    /\ inv[writer.media].known
    /\ inv' = [inv EXCEPT ![writer.media].status = "full"]
    /\ writer' = [writer EXCEPT !.media = NoTape, !.leom = FALSE, !.step = writer.next]
    /\ UNCHANGED <<tape, flushed, catalog, sessions, reused>> /\ Unchanged

(* The end of backup_worker: a last commit, then append_catalog_archive *)
EndBackup ==
    /\ writer.step = "next"
    /\ writer' = [writer EXCEPT !.step = "sync", !.next = IF writer.wrote THEN "catalog" ELSE "end"]
    /\ UNCHANGED <<tape, flushed, catalog, inv, sessions, reused>> /\ Unchanged

AppendCatalog ==
    LET m == writer.media IN
    /\ writer.step = "catalog" /\ m # NoTape
    /\ AppendFile(CatalogFile(m, catalog[m].has, Room))
    /\ writer' = [writer EXCEPT !.step = IF Room THEN "end" ELSE "full", !.next = "catalog"]
    /\ UNCHANGED <<flushed, catalog, inv, sessions, reused>> /\ Unchanged

(* The job ends, or fails: what is registered and not committed is gone,   *)
(* the drive flushes when the tape is rewound.                             *)
EndSession ==
    /\ writer.step # "idle"
    /\ flushed' = IF writer.media = NoTape THEN flushed
                  ELSE [flushed EXCEPT ![writer.media] = Len(tape[writer.media].files)]
    /\ writer' = NotWriting
    /\ UNCHANGED <<tape, catalog, inv, sessions, reused>> /\ Unchanged
-----------------------------------------------------------------------------
(* Restore jobs *)

RestoreUnchanged == UNCHANGED <<tape, flushed, inv, writer, sessions, reused>>

(* check_snapshot_restorable, get_media_set_catalog: what the catalogs of a *)
(* set have, and which snapshots of it the datastores lack                 *)
Catalogued(set) ==
    UNION {{[media |-> m, nr |-> e.nr, what |-> e.what] : e \in catalog[m].has} : m \in MembersOf(set)}
Restorable(set, stores) == {s \in InCatalogs(set) \cap Snap : StoreOf(s) \in stores} \ target.snaps

(* restore: the set's lock is free, its members and catalogs are read *)
StartRestore(set, stores, full) ==
    /\ restore.step = "idle" /\ others < MaxOthers
    /\ set # 0 /\ MembersOf(set) # {} /\ ~SetLocked(set) /\ SetComplete(set)
    /\ full \/ \A m \in MembersOf(set) : Readable(m)
    /\ others' = others + 1
    /\ restore' =
        [step   |-> IF full THEN "full" ELSE "snapshots",
         set    |-> set,
         list   |-> IF full THEN MediaList(set) ELSE <<>>,
         cats   |-> IF full THEN {} ELSE Catalogued(set),
         want   |-> IF full THEN {} ELSE Restorable(set, stores),
         read   |-> {},
         stores |-> stores]
    /\ UNCHANGED <<catalog, target, partial>> /\ RestoreUnchanged

FileAt(m, nr) == IF nr <= Len(tape[m].files) THEN tape[m].files[nr] ELSE ChunkFile({}, FALSE)

RestoreEnds == restore' = NotRestoring

(* restore_snapshots_to_tmpdir: the label of the tape and the header of    *)
(* the archive have to match                                               *)
RestoreSnapshot(e) ==
    /\ restore.step = "snapshots" /\ e \in restore.cats /\ e.what \in restore.want
    /\ writer.media # e.media
    /\ IF tape[e.media].member.set = restore.set /\ FileAt(e.media, e.nr) = SnapFile(e.what, TRUE)
       THEN restore' = [restore EXCEPT !.want = @ \ {e.what}, !.read = @ \cup {e.what}]
       ELSE RestoreEnds
    /\ UNCHANGED <<catalog, target, others, partial>> /\ RestoreUnchanged

(* Mutated form: only from the tapes that have the snapshots. *)
CollectChunksNear ==
    LET missing == UNION {SnapChunks(s) : s \in restore.read} \ target.chunks
        near == {e.media : e \in {e \in restore.cats : e.what \in restore.read}} IN
    /\ restore.step = "snapshots" /\ restore.want = {}
    /\ restore' = [restore EXCEPT !.step = "chunks", !.want = missing \cap {e.what : e \in {e \in restore.cats : e.media \in near}}]
    /\ UNCHANGED <<catalog, target, others, partial>> /\ RestoreUnchanged

(* Phase 2: the chunks the datastore does not have and some catalog has *)
CollectChunks ==
    LET missing == UNION {SnapChunks(s) : s \in restore.read} \ target.chunks IN
    /\ restore.step = "snapshots" /\ restore.want = {}
    /\ restore' = [restore EXCEPT !.step = "chunks", !.want = missing \cap {e.what : e \in restore.cats}]
    /\ UNCHANGED <<catalog, target, others, partial>> /\ RestoreUnchanged

(* restore_file_chunk_map, restore_partial_chunk_archive: a chunk that is  *)
(* not in the archive is passed over                                       *)
RestoreChunk(e) ==
    LET file == FileAt(e.media, e.nr) IN
    /\ restore.step = "chunks" /\ e \in restore.cats /\ e.what \in restore.want
    /\ writer.media # e.media
    /\ IF file.kind = "chunks"
       THEN /\ restore' = [restore EXCEPT !.want = @ \ {e.what}]
            /\ target' = [target EXCEPT !.chunks = @ \cup ({e.what} \cap file.has)]
       ELSE RestoreEnds /\ UNCHANGED target
    /\ UNCHANGED <<catalog, others, partial>> /\ RestoreUnchanged

(* Phase 3 *)
CopySnapshots ==
    /\ restore.step = "chunks" /\ restore.want = {}
    /\ target' = [target EXCEPT !.snaps = @ \cup restore.read]
    /\ RestoreEnds
    /\ UNCHANGED <<catalog, others, partial>> /\ RestoreUnchanged

Stored(x, stores) == StoreOf(x) \in stores

(* restore_archive for the first n files: what there is in the datastore *)
RestoredFrom(m, n, stores) ==
    LET found == {x \in UNION {tape[m].files[i].has : i \in {i \in 1 .. n : tape[m].files[i].kind # "catalog"}} : Stored(x, stores)}
    IN  [snaps |-> target.snaps \cup (found \cap Snap), chunks |-> target.chunks \cup (found \cap TapeChunks)]

(* ... and what there is in the new catalog: a chunk archive of a datastore *)
(* that is not restored is skipped, a snapshot of it is registered.        *)
ScannedEntries(m, stores) ==
    UNION {Entry(i, tape[m].files[i]) :
            i \in {i \in 1 .. Len(tape[m].files) :
                    LET f == tape[m].files[i] IN
                    \/ f.kind = "snapshot"
                    \/ f.kind = "chunks" /\ \A x \in f.has : Stored(x, stores)}}

AllStores == {StoreOf(s) : s \in Snap}

(* request_and_restore_media, restore_media *)
RestoreMedia(n) ==
    /\ restore.step = "full" /\ restore.list # <<>>
    /\ LET m == Head(restore.list) IN
        /\ writer.media # m /\ n <= Len(tape[m].files)
        /\ IF tape[m].member.set # restore.set THEN RestoreEnds /\ UNCHANGED <<catalog, target, partial>>
           ELSE /\ target' = RestoredFrom(m, n, restore.stores)
                /\ IF n < Len(tape[m].files) THEN RestoreEnds /\ UNCHANGED <<catalog, partial>>
                   ELSE /\ restore' = [restore EXCEPT !.list = Tail(@)]
                        /\ catalog' = [catalog EXCEPT ![m] = [state |-> "good", member |-> tape[m].member,
                                                             has |-> ScannedEntries(m, restore.stores)]]
                        /\ partial' = IF restore.stores = AllStores THEN partial \ {m} ELSE partial \cup {m}
    /\ UNCHANGED others /\ RestoreUnchanged

EndRestore ==
    /\ restore.step # "idle" /\ (restore.step = "full" => restore.list = <<>>)
    /\ RestoreEnds
    /\ UNCHANGED <<catalog, target, others, partial>> /\ RestoreUnchanged

-----------------------------------------------------------------------------
(* Commands; each needs the drive with the tape and the lock of its set *)

Command(m) ==
    /\ others < MaxOthers /\ writer.media # m
    /\ others' = others + 1
    /\ UNCHANGED <<writer, restore, target, sessions>>

(* format_media; it may die before the tape is formatted *)
FormatMedia(m, dies) ==
    /\ Command(m)
    /\ tape[m].labelled /\ (tape[m].member.set # 0 => ~SetLocked(tape[m].member.set))
    /\ reused' = (reused \/ UnderRestore(tape[m].member.set))
    /\ catalog' = [catalog EXCEPT ![m] = NoCatalog]
    /\ inv' = [inv EXCEPT ![m] = NotKnown]
    /\ tape' = IF dies THEN tape ELSE [tape EXCEPT ![m] = BlankTape]
    /\ flushed' = IF dies THEN flushed ELSE [flushed EXCEPT ![m] = 0]
    /\ partial' = partial \ {m}

(* label_media, barcode_label_media, write_media_label *)
LabelMedia(m) ==
    /\ Command(m)
    /\ ~tape[m].labelled /\ ~inv[m].known
    /\ tape' = [tape EXCEPT ![m].labelled = TRUE]
    /\ catalog' = [catalog EXCEPT ![m] = EmptyCatalog(Unassigned)]
    /\ inv' = [inv EXCEPT ![m] = EmptyMedia]
    /\ UNCHANGED <<flushed, partial, reused>>

(* read_label, update_inventory: the inventory follows the label *)
Inventorized(m) == [known |-> TRUE, member |-> tape[m].member, ctime |-> tape[m].member.set, status |-> inv[m].status]
Related(m) == IF tape[m].member.set # 0 /\ catalog[m].member.set = tape[m].member.set THEN catalog[m] ELSE NoCatalog

Inventorize(m) ==
    /\ Command(m)
    /\ tape[m].labelled /\ ~SetLocked(tape[m].member.set) /\ writer.step = "idle"
    /\ inv' = [inv EXCEPT ![m] = Inventorized(m)]
    /\ catalog' = [catalog EXCEPT ![m] = Related(m)]
    /\ UNCHANGED <<tape, flushed, partial, reused>>

(* fast_catalog_restore takes a catalog from the end of the tape *)
LastFile(m) == tape[m].files[Len(tape[m].files)]
HasCatalog(m) == tape[m].files # <<>> /\ LastFile(m).kind = "catalog" /\ LastFile(m).of = m

(* catalog_media: from the last catalog archive, or by reading it all *)
CatalogMedia(m) ==
    /\ Command(m)
    /\ tape[m].labelled /\ tape[m].member.set # 0 /\ ~SetLocked(tape[m].member.set)
    /\ inv' = [inv EXCEPT ![m] = Inventorized(m)]
    /\ \/ /\ HasCatalog(m)
          /\ \E part \in SUBSET LastFile(m).has :
                /\ LastFile(m).whole => part = LastFile(m).has
                /\ catalog' = [catalog EXCEPT ![m] = [state |-> "good", member |-> tape[m].member, has |-> part]]
          /\ partial' = IF LastFile(m).whole THEN partial \ {m} ELSE partial \cup {m}
       \/ /\ catalog' = [catalog EXCEPT ![m] = [state |-> "good", member |-> tape[m].member,
                                                has |-> ScannedEntries(m, AllStores)]]
          /\ partial' = partial \ {m}
    /\ UNCHANGED <<tape, flushed, reused>>

(* update_media_status and destroy_media take no lock *)
SetStatus(m, status) ==
    /\ others < MaxOthers /\ others' = others + 1
    /\ inv[m].known
    /\ inv' = [inv EXCEPT ![m].status = status]
    /\ UNCHANGED <<tape, flushed, catalog, writer, restore, target, sessions, reused, partial>>

DestroyMedia(m) ==
    /\ others < MaxOthers /\ others' = others + 1
    /\ inv[m].known
    /\ inv' = [inv EXCEPT ![m] = NotKnown]
    /\ UNCHANGED <<tape, flushed, catalog, writer, restore, target, sessions, reused, partial>>

(* The power fails. *)
PowerLoss ==
    /\ writer.step # "idle" \/ restore.step # "idle"
    /\ writer' = NotWriting /\ restore' = NotRestoring
    /\ \E kept \in [Media -> 0 .. Slots] :
        /\ \A m \in Media : kept[m] \in flushed[m] .. Len(tape[m].files)
        /\ tape' = [m \in Media |-> [tape[m] EXCEPT !.files = SubSeq(@, 1, kept[m])]]
        /\ flushed' = kept
    /\ UNCHANGED <<catalog, inv, target, sessions, others, reused, partial>>

TapeNext ==
    \/ \E b \in BOOLEAN : StartSession(b) \/ WriteSnapshot(b) \/ CommitCatalog(b)
    \/ \E s \in Snap : BackupSnapshot(s)
    \/ \E m \in Media, b \in BOOLEAN : AllocMedia(m, b) \/ FormatMedia(m, b)
    \/ LoadMedia \/ OverwriteCatalog \/ CopyCatalogs \/ SyncTape \/ MarkFull \/ EndBackup \/ AppendCatalog \/ EndSession
    \/ \E C \in SUBSET writer.todo, b \in BOOLEAN : WriteChunks(C, b)
    \/ \E set \in TapeSet, stores \in (SUBSET AllStores) \ {{}}, b \in BOOLEAN : StartRestore(set, stores, b)
    \/ \E e \in restore.cats : RestoreSnapshot(e) \/ RestoreChunk(e)
    \/ CollectChunks \/ CopySnapshots \/ EndRestore \/ \E n \in 0 .. Slots : RestoreMedia(n)
    \/ \E m \in Media : LabelMedia(m) \/ Inventorize(m) \/ CatalogMedia(m) \/ DestroyMedia(m)
    \/ \E m \in Media, status \in {"none", "full", "damaged"} : SetStatus(m, status)
    \/ PowerLoss

TapeSpec == TapeInit /\ [][TapeNext]_tapeVars

-----------------------------------------------------------------------------
(* Properties *)

TapeTypeOK ==
    /\ \A m \in Media :
        /\ tape[m].member \in Member /\ inv[m].member \in Member /\ catalog[m].member \in Member
        /\ flushed[m] \in 0 .. Len(tape[m].files) /\ Len(tape[m].files) <= Slots
    /\ writer.media \in Media \cup {NoTape} /\ restore.set \in TapeSet

(* What a catalog names is on the tape, and has reached it: a commit comes *)
(* after the drive has flushed, whatever dies between the two.             *)
CatalogTrue ==
    \A m \in Media : catalog[m].state # "none" /\ catalog[m].member = tape[m].member =>
        \A e \in catalog[m].has : e.nr <= flushed[m] /\ e.what \in tape[m].files[e.nr].has

(* The catalogs of a set have the chunks of every snapshot they have,      *)
(* although a job ends, fails or dies anywhere and tapes are reused: the   *)
(* next job skips what they have, a restore looks up nothing else.         *)
SetClosed ==
    \A set \in TapeSet \ {0} :
        /\ SetComplete(set) /\ MembersOf(set) \cap partial = {}
        /\ \A m \in MembersOf(set) : Readable(m)
        => \A s \in InCatalogs(set) \cap Snap : SnapChunks(s) \subseteq InCatalogs(set)

(* The catalogs say what can be read from the tapes. *)
CatalogsTrue == TapeTypeOK /\ CatalogTrue /\ SetClosed

(* A restored snapshot has its chunks, unless a tape of its set was taken  *)
(* while it was restored, or a catalog lacks chunks it should have.        *)
RestoredWhole ==
    ~reused /\ partial = {} => \A s \in target.snaps : SnapChunks(s) \subseteq target.chunks

=============================================================================
