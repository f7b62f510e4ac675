------------------------------ MODULE PxarCreate ------------------------------
(***************************************************************************)
(* The creation of a split pxar archive with change detection by metadata. *)
(* Files that have not changed since the previous snapshot are not read:   *)
(* the chunks of the previous payload archive that hold them are injected  *)
(* into the new one, and the new metadata archive refers to their place    *)
(* there.  Entries are kept in a lookahead cache until it is known whether *)
(* the chunks of the range they cover are worth it.                        *)
(*                                                                         *)
(* Offsets count units; a file has at least one, its header.  A digest is  *)
(* the content of the chunk.  The walk is the directory tree in the order  *)
(* in which it is visited, with a dir and an end entry for a directory.    *)
(***************************************************************************)
EXTENDS Integers, Sequences, FiniteSets
LOCAL INSTANCE SequencesExt

CONSTANTS
    PrevPayload,    \* the previous payload archive
    PrevEnds,       \* ends of its chunks: the previous payload index
    PrevFiles,      \* name -> [at, size]: what the previous metadata archive says
    Walks,          \* walks: sequences of [kind, name, same, inode, of, size]
    PxarCacheSize,  \* entries with a file descriptor in the cache
    PaddingLimit,   \* CHUNK_PADDING_THRESHOLD in tenths
    InjectBatch     \* chunks in one injection

ASSUME PxarAssumption ==
    /\ PrevEnds # << >> /\ Last(PrevEnds) = Len(PrevPayload)
    /\ \A i \in 1 .. Len(PrevEnds) - 1 : PrevEnds[i] < PrevEnds[i + 1]
    /\ \A f \in DOMAIN PrevFiles : PrevFiles[f].at + PrevFiles[f].size <= Len(PrevPayload)
    /\ PxarCacheSize \in Nat \ {0} /\ PaddingLimit \in 0 .. 10 /\ InjectBatch \in Nat \ {0}

VARIABLES
    walk,      \* the whole walk
    visited,   \* entries of it that have been visited
    skipped,   \* those that could not be opened
    arch,      \* the archiver, its encoder and its cache
    pxarEnd    \* "running", "closed", "failed"

pxarVars == <<walk, visited, skipped, arch, pxarEnd>>

NoChunk == [first |-> 0, size |-> 0, padding |-> 0, digest |-> << >>, end |-> 0]
NoOffset == -1

(* pos: payload_position; meta: the metadata archive; out: what goes to the *)
(* payload stream and the injection queue, in this order; last: the chunk   *)
(* held back; seen: hard links the cache has seen; inodes: those encoded.   *)
NewArchiver(reuse) ==
    [reuse |-> reuse, pos |-> 1, meta |-> << >>,
     out |-> <<[kind |-> "raw", at |-> 0, units |-> <<"start">>, chunks |-> << >>]>>,
     cache |-> << >>, enabled |-> FALSE, from |-> 0, to |-> 0, last |-> NoChunk,
     lastReusable |-> NoOffset, seen |-> {}, inodes |-> << >>]

PxarInit ==
    /\ walk \in Walks /\ visited = 0 /\ skipped = {}
    /\ \E reuse \in BOOLEAN : arch = NewArchiver(reuse)
    /\ pxarEnd = "running"

(* What a file holds: as before if it has not changed.  of is the name, or *)
(* that of the first link to the same inode.                               *)
FileContent(e) ==
    IF e.same /\ e.of \in DOMAIN PrevFiles
    THEN SubSeq(PrevPayload, PrevFiles[e.of].at + 1, PrevFiles[e.of].at + PrevFiles[e.of].size)
    ELSE [i \in 1 .. e.size |-> e.of]

-----------------------------------------------------------------------------
(* The previous payload index *)

ChunkStart(i) == IF i = 1 THEN 0 ELSE PrevEnds[i - 1]
PrevChunk(i) ==
    [first |-> i, size |-> PrevEnds[i] - ChunkStart(i), padding |-> 0,
     digest |-> SubSeq(PrevPayload, ChunkStart(i) + 1, PrevEnds[i]), end |-> PrevEnds[i]]

(* lookup_dynamic_entries: a range that ends with a chunk takes the next   *)
(* chunk, too, unless it is the last one.                                  *)
LookupDynamicEntries(from, to) ==
    LET first == CHOOSE i \in DOMAIN PrevEnds : ChunkStart(i) <= from /\ from < PrevEnds[i]
        Behind == {i \in first .. Len(PrevEnds) : to < PrevEnds[i]}
        last == IF Behind = {} THEN Len(PrevEnds) ELSE CHOOSE i \in Behind : \A j \in Behind : i <= j
        startPadding == from - ChunkStart(first)
        endPadding == IF Behind = {} THEN 0 ELSE PrevEnds[last] - to
    IN  [start |-> startPadding, end |-> endPadding,
         chunks |-> [i \in 1 .. last - first + 1 |->
            [PrevChunk(first + i - 1) EXCEPT !.padding = (IF i = 1 THEN startPadding ELSE 0)
                                                       + (IF i = last - first + 1 THEN endPadding ELSE 0)]]]

(* same_indexed_chunk_as.  Mutated form: a digest alone is taken for it. *)
SameIndexedChunkByDigest(c, d) == c.digest = d.digest
SameIndexedChunk(c, d) == c.digest = d.digest /\ c.end = d.end

-----------------------------------------------------------------------------
(* Writing *)

SizeOf(chunks) == FoldLeft(LAMBDA n, c : n + c.size, 0, chunks)

(* inject_chunks_at_current_payload_position *)
InjectChunks(a, chunks) ==
    LET Batches == 1 .. (Len(chunks) + InjectBatch - 1) \div InjectBatch
        Inject(b, i) ==
            LET part == SubSeq(chunks, (i - 1) * InjectBatch + 1, IF i * InjectBatch < Len(chunks) THEN i * InjectBatch ELSE Len(chunks))
            IN  [b EXCEPT !.out = Append(@, [kind |-> "inject", at |-> b.pos, units |-> << >>, chunks |-> part]),
                          !.pos = @ + SizeOf(part)]
    IN  FoldLeft(Inject, a, [i \in Batches |-> i])

(* add_entry_to_archive; offset is that of a reused payload or NoOffset *)
AddEntryToArchive(a, e, offset) ==
    LET Meta(ref) == Append(a.meta, [kind |-> e.kind, name |-> e.name, ref |-> ref])
        Encoded(ref) == IF e.inode = 0 THEN a.inodes
                        ELSE [i \in DOMAIN a.inodes \cup {e.inode} |-> IF i = e.inode THEN ref ELSE a.inodes[i]]
    IN
    IF e.kind # "file" THEN [a EXCEPT !.meta = Meta(NoOffset)]
    ELSE IF e.inode \in DOMAIN a.inodes THEN [a EXCEPT !.meta = Meta(a.inodes[e.inode])]
    ELSE IF offset # NoOffset THEN [a EXCEPT !.meta = Meta(offset), !.inodes = Encoded(offset)]
    ELSE [a EXCEPT !.meta = Meta(a.pos), !.inodes = Encoded(a.pos), !.pos = @ + Len(FileContent(e)),
                   !.out = Append(@, [kind |-> "raw", at |-> a.pos, units |-> FileContent(e), chunks |-> << >>])]

(* encode_entries_to_archive: the chunk held back comes first; base is the *)
(* place of the start of the cached range or NoOffset to read the files.   *)
EncodeEntriesToArchive(a, base) ==
    LET held == IF a.last = NoChunk THEN a ELSE InjectChunks([a EXCEPT !.last = NoChunk], <<a.last>>)
        reset == [held EXCEPT !.cache = << >>, !.enabled = FALSE, !.from = a.to]
        Encode(b, c) == AddEntryToArchive(b, c.entry, IF base = NoOffset THEN NoOffset ELSE base + c.offset)
    IN  FoldLeft(Encode, reset, a.cache)

(* The padding of a chunk of which the previous range uses a part *)
Used(c) == c.size - c.padding

(* flush_cached_reusing_if_below_threshold *)
Flush(a, keepLast) ==
    LET found == LookupDynamicEntries(a.from, a.to)
        first == found.chunks[1]
        continued == a.last # NoChunk /\ SameIndexedChunk(a.last, first)
        padding == found.start + found.end - (IF continued THEN Used(a.last) ELSE 0)
        total == a.to - a.from + found.start + found.end
        chunks == IF continued THEN [found.chunks EXCEPT ![1].padding = @ - Used(a.last)] ELSE found.chunks
        before == IF a.last # NoChunk /\ ~continued
                  THEN InjectChunks([a EXCEPT !.last = NoChunk], <<a.last>>) ELSE [a EXCEPT !.last = NoChunk]
        encoded == EncodeEntriesToArchive(before, before.pos + found.start)
    IN
    IF a.from = a.to \/ padding * 10 > total * PaddingLimit THEN EncodeEntriesToArchive(a, NoOffset)
    ELSE IF keepLast THEN InjectChunks([encoded EXCEPT !.last = Last(chunks)], Front(chunks))
    ELSE InjectChunks(encoded, chunks)

-----------------------------------------------------------------------------
(* The lookahead cache *)

Cached(a, e, offset) == [a EXCEPT !.cache = Append(@, [entry |-> e, offset |-> offset]), !.enabled = TRUE]
IsFull(a) == Cardinality({i \in DOMAIN a.cache : a.cache[i].entry.kind # "end"}) >= PxarCacheSize

(* try_extend_range, where the first range of all starts anywhere *)
Extends(a, at) == a.to = 0 \/ a.to = at
Extended(a, at, to) == [a EXCEPT !.from = IF a.to = 0 THEN at ELSE @, !.to = to]

(* is_reusable_entry, with the offsets strictly increasing *)
Unchanged(a, e) == a.reuse /\ e.same /\ e.name \in DOMAIN PrevFiles
IsReusable(a, e) == Unchanged(a, e) /\ PrevFiles[e.name].at > a.lastReusable

-----------------------------------------------------------------------------
(* add_entry for an entry the cache may keep *)

AddRegularFile(a, e) ==
    LET at == PrevFiles[e.name].at
        to == at + PrevFiles[e.name].size
        marked == [a EXCEPT !.seen = IF e.inode = 0 THEN @ ELSE @ \cup {e.inode}]
        counted == [marked EXCEPT !.lastReusable = at]
        ranged == IF Extends(counted, at) THEN Extended(counted, at, to)
                  ELSE [Flush(counted, TRUE) EXCEPT !.from = at, !.to = to]
        flushed == EncodeEntriesToArchive(Flush(marked, FALSE), NoOffset)
    IN
    IF e.inode # 0 /\ e.inode \in a.seen THEN Cached(a, e, 0)
    ELSE IF IsReusable(a, e) THEN Cached(ranged, e, at - ranged.from)
    ELSE AddEntryToArchive(flushed, e, NoOffset)

AddOther(a, e) ==
    IF a.enabled THEN Cached(a, e, 0)
    ELSE AddEntryToArchive(EncodeEntriesToArchive(a, NoOffset), e, NoOffset)

(* The end of a directory goes where its entries went. *)
AddDirEnd(a, e) == IF a.enabled THEN Cached(a, e, 0) ELSE AddEntryToArchive(a, e, NoOffset)

AddEntry(a, e) ==
    LET room == IF IsFull(a) /\ e.kind # "end" THEN Flush(a, TRUE) ELSE a IN
    IF ~a.reuse THEN AddEntryToArchive(a, e, NoOffset)
    ELSE IF e.kind = "file" THEN AddRegularFile(room, e)
    ELSE IF e.kind = "end" THEN AddDirEnd(room, e)
    ELSE AddOther(room, e)

-----------------------------------------------------------------------------

Running == pxarEnd = "running"
Current == walk[visited + 1]

Visit ==
    /\ Running /\ visited < Len(walk)
    /\ arch' = AddEntry(arch, Current)
    /\ visited' = visited + 1
    /\ UNCHANGED <<walk, skipped, pxarEnd>>

(* The file vanished, cannot be read or its handle is stale. *)
VisitNothing ==
    /\ Running /\ visited < Len(walk) /\ Current.kind \in {"file", "other"}
    /\ skipped' = skipped \cup {visited + 1}
    /\ visited' = visited + 1
    /\ UNCHANGED <<walk, arch, pxarEnd>>

VisitFails ==
    /\ Running /\ visited < Len(walk)
    /\ pxarEnd' = "failed"
    /\ UNCHANGED <<walk, visited, skipped, arch>>

(* The rest of the cache, then the end marker of the payload archive *)
CloseArchive ==
    LET flushed == IF arch.reuse THEN Flush(arch, FALSE) ELSE arch IN
    /\ Running /\ visited = Len(walk)
    /\ arch' = [flushed EXCEPT !.out = Append(@, [kind |-> "raw", at |-> flushed.pos, units |-> <<"tail">>, chunks |-> << >>]),
                               !.pos = @ + 1]
    /\ pxarEnd' = "closed"
    /\ UNCHANGED <<walk, visited, skipped>>

PxarNext == Visit \/ VisitNothing \/ VisitFails \/ CloseArchive

PxarSpec == PxarInit /\ [][PxarNext]_pxarVars

-----------------------------------------------------------------------------
(* Properties *)

ContentOf(event) == IF event.kind = "raw" THEN event.units ELSE FlattenSeq([i \in DOMAIN event.chunks |-> event.chunks[i].digest])
Payload(a) == FlattenSeq([i \in DOMAIN a.out |-> ContentOf(a.out[i])])

PxarTypeOK ==
    /\ visited \in 0 .. Len(walk) /\ skipped \subseteq 1 .. visited /\ pxarEnd \in {"running", "closed", "failed"}
    /\ arch.pos \in Nat /\ arch.from <= arch.to

(* The padding of a chunk, part of which two ranges use, is not negative,  *)
(* nor more than the chunk; every injection goes where the payload ends.   *)
InjectionsRight ==
    /\ 0 <= arch.last.padding /\ arch.last.padding <= arch.last.size
    /\ \A i \in DOMAIN arch.out :
        /\ arch.out[i].at = Len(FlattenSeq([j \in 1 .. i - 1 |-> ContentOf(arch.out[j])]))
        /\ \A j \in DOMAIN arch.out[i].chunks :
             LET c == arch.out[i].chunks[j] IN 0 <= c.padding /\ c.padding <= c.size

(* The metadata archive has the entries of the walk in its order; what it  *)
(* refers to in the payload archive is the content of the file; and the    *)
(* places increase, as the encoder insists, but for hard links.            *)
RefsRight ==
    LET Visited == SelectSeq([i \in 1 .. Len(walk) |-> i], LAMBDA i : i \notin skipped)
        entries == [k \in DOMAIN Visited |-> walk[Visited[k]]]
        Firsts == {k \in DOMAIN entries : entries[k].kind = "file" /\
                     (entries[k].inode = 0 \/ \A j \in 1 .. k - 1 : entries[j].inode # entries[k].inode)}
    IN
    pxarEnd = "closed" =>
        /\ [k \in DOMAIN arch.meta |-> <<arch.meta[k].kind, arch.meta[k].name>>] =
           [k \in DOMAIN entries |-> <<entries[k].kind, entries[k].name>>]
        /\ \A k \in DOMAIN entries : entries[k].kind = "file" =>
             SubSeq(Payload(arch), arch.meta[k].ref + 1, arch.meta[k].ref + Len(FileContent(entries[k]))) = FileContent(entries[k])
        /\ \A j, k \in Firsts : j < k => arch.meta[j].ref < arch.meta[k].ref

ArchiveRight == PxarTypeOK /\ InjectionsRight /\ RefsRight
=============================================================================
