----------------------------- MODULE IndexReader -----------------------------
(* Dynamic index files and the readers of the content an index describes:    *)
(* the buffered reader with its sequential fast path, and the asynchronous   *)
(* reader with a cache shared by digest.  Chunks are sequences of bytes, a   *)
(* byte is its digest and its place; a chunk may stop being readable.        *)
EXTENDS Integers, Sequences, FiniteSets, SequencesExt

CONSTANTS
    DigestLen,      \* digest -> length of the chunk
    MaxDynChunks,   \* bound on the chunks of the index
    MaxReadChunks,  \* bound on the chunks of an index that is read
    ReadSizes,      \* the sizes of the callers' buffers
    CacheSlots,     \* chunks the cache of a reader holds
    MostUsedMax,    \* chunks find_most_used_chunks returns
    MaxReads,       \* bound on the calls of a reader
    IdxNone

VARIABLES
    dyn,      \* DynamicIndexWriter: entries, offset, closed
    dynFile,  \* the file under its final name, or IdxNone
    lost,     \* digests of the chunks that cannot be read any more
    buffered, \* BufferedDynamicReader: buf, idx, start, off, cache
    seekable, \* SeekableCachedChunkReader: pos, read_future, cache
    got,      \* the last read: reader, from, want and the bytes, or IdxNone
    reads

dynVars == <<dyn, dynFile, lost, buffered, seekable, got, reads>>

ChunkBytes(digest) == [i \in 1 .. DigestLen[digest] |-> <<digest, i>>]

(* DynamicIndexWriter, with the offset its caller counts *)
DynInit ==
    /\ dyn = [entries |-> << >>, offset |-> 0, closed |-> FALSE] /\ dynFile = IdxNone /\ lost = {}
    /\ buffered = IdxNone /\ seekable = IdxNone /\ got = IdxNone /\ reads = 0

DynAddChunk(digest) ==
    /\ ~dyn.closed /\ Len(dyn.entries) < MaxDynChunks
    /\ LET end == dyn.offset + DigestLen[digest]
       IN  dyn' = [dyn EXCEPT !.entries = Append(@, [end |-> end, digest |-> digest]), !.offset = end]
    /\ UNCHANGED <<dynFile, lost, buffered, seekable, got, reads>>

(* close writes the checksum into the header and renames the file *)
DynClose ==
    /\ ~dyn.closed
    /\ dyn' = [dyn EXCEPT !.closed = TRUE]
    /\ dynFile' = [entries |-> dyn.entries, csum |-> dyn.entries]
    /\ UNCHANGED <<lost, buffered, seekable, got, reads>>

-----------------------------------------------------------------------------
(* DynamicIndexReader; positions count from 0 *)
DynCount(file) == Len(file.entries)
ChunkEnd(file, pos) == file.entries[pos + 1].end
DynChunkInfo(file, pos) ==
    [start |-> IF pos = 0 THEN 0 ELSE ChunkEnd(file, pos - 1), end |-> ChunkEnd(file, pos),
     digest |-> file.entries[pos + 1].digest]
IndexBytes(file) == IF DynCount(file) = 0 THEN 0 ELSE ChunkEnd(file, DynCount(file) - 1)
DynComputeCsum(file) ==
    <<[i \in 1 .. DynCount(file) |-> LET info == DynChunkInfo(file, i - 1) IN [end |-> info.end, digest |-> info.digest]],
      IndexBytes(file)>>

RECURSIVE BinarySearch(_, _, _, _, _, _)
BinarySearch(file, startIdx, start, endIdx, end, offset) ==
    LET middle == (startIdx + endIdx) \div 2
        middleEnd == ChunkEnd(file, middle)
    IN  IF offset >= end \/ offset < start THEN IdxNone
        ELSE IF endIdx = startIdx THEN startIdx
        ELSE IF offset < middleEnd THEN BinarySearch(file, startIdx, start, middle, middleEnd, offset)
        ELSE BinarySearch(file, middle + 1, middleEnd, endIdx, end, offset)
Find(file, offset) == BinarySearch(file, 0, 0, DynCount(file) - 1, IndexBytes(file), offset)

DynChunkFromOffset(file, offset) ==
    LET found == Find(file, offset)
    IN  IF found = IdxNone THEN IdxNone
        ELSE <<found, offset - (IF found = 0 THEN 0 ELSE ChunkEnd(file, found - 1))>>

(* find_most_used_chunks: the map is iterated in any order; a vector sorted  *)
(* by count takes each and loses its last element when it is too long        *)
Uses(file, digest) == Cardinality({i \in DOMAIN file.entries : file.entries[i].digest = digest})
InsertByCount(file, vector, digest) ==
    LET at == Cardinality({i \in DOMAIN vector : Uses(file, vector[i]) < Uses(file, digest)})
        longer == InsertAt(vector, at + 1, digest)
    IN  IF Len(longer) > MostUsedMax THEN Front(longer) ELSE longer
MostUsed(file, order) ==
    FoldLeft(LAMBDA vector, d : IF Uses(file, d) <= 1 THEN vector ELSE InsertByCount(file, vector, d), << >>, order)

-----------------------------------------------------------------------------
(* An LRU cache that holds CacheSlots keys, the last one used at the end *)
Touched(cache, key) ==
    LET others == SelectSeq(cache, LAMBDA k : k # key)
        longer == Append(others, key)
    IN  IF Len(longer) > CacheSlots THEN Tail(longer) ELSE longer

(* DynamicIndexReader::new refuses an empty index (the upper end is a bound) *)
OpenReaders ==
    /\ dynFile # IdxNone /\ DynCount(dynFile) \in 1 .. MaxReadChunks
    /\ buffered = IdxNone
    /\ buffered' = [buf |-> << >>, idx |-> 0, start |-> 0, off |-> 0, cache |-> << >>]
    /\ seekable' = [pos |-> 0, future |-> IdxNone, cache |-> << >>]
    /\ UNCHANGED <<dyn, dynFile, lost, got, reads>>

Counted == buffered # IdxNone /\ reads < MaxReads /\ reads' = reads + 1

(* buffer_chunk: the cache is asked, a chunk that is not in it is read *)
Readable(cache, key, digest) == key \in Range(cache) \/ digest \notin lost
BufferChunk(r, pos) ==
    LET info == DynChunkInfo(dynFile, pos)
    IN  IF Readable(r.cache, pos, info.digest)
        THEN [r EXCEPT !.buf = ChunkBytes(info.digest), !.idx = pos, !.start = info.start, !.cache = Touched(@, pos)]
        ELSE IdxNone

(* buffered_read: the reader with the chunk of the offset in its buffer, or  *)
(* IdxNone                                                                    *)
Behind(r, offset) == offset >= r.start + Len(r.buf)
BufferedRead(r, offset) ==
    IF offset = IndexBytes(dynFile) THEN r
    ELSE IF Len(r.buf) > 0 /\ r.idx + 1 < DynCount(dynFile) /\ Behind(r, offset)
            /\ offset < ChunkEnd(dynFile, r.idx + 1)
    THEN BufferChunk(r, r.idx + 1)
    ELSE IF Len(r.buf) = 0 \/ offset < r.start \/ Behind(r, offset)
    THEN BufferChunk(r, Find(dynFile, offset))
    ELSE r

Failed(reader, from, want) == [reader |-> reader, from |-> from, want |-> want, bytes |-> IdxNone]
Smaller(a, b) == IF a < b THEN a ELSE b
ReadBuffered(want, from) ==
    LET r == BufferedRead(buffered, from)
        data == IF from = IndexBytes(dynFile) THEN << >> ELSE SubSeq(r.buf, from - r.start + 1, Len(r.buf))
        n == Smaller(want, Len(data))
    IN  IF r = IdxNone
        THEN buffered' = [buffered EXCEPT !.off = from] /\ got' = Failed("buffered", from, want)
        ELSE /\ buffered' = [r EXCEPT !.off = from + n]
             /\ got' = [reader |-> "buffered", from |-> from, want |-> want, bytes |-> SubSeq(data, 1, n)]

(* Read::read *)
BufferedReadCall(want) ==
    /\ Counted /\ ReadBuffered(want, buffered.off)
    /\ UNCHANGED <<dyn, dynFile, lost, seekable>>

(* Seek::seek, from the start, from the end or from where the reader is *)
InArchive(offset) == offset >= 0 /\ offset <= IndexBytes(dynFile)
BufferedSeek(origin, by) ==
    /\ Counted
    /\ LET new == CASE origin = "start" -> by
                    [] origin = "end" -> IndexBytes(dynFile) + by
                    [] origin = "current" -> buffered.off + by
       IN  buffered' = IF InArchive(new) THEN [buffered EXCEPT !.off = new] ELSE buffered
    /\ UNCHANGED <<dyn, dynFile, lost, seekable, got>>

(* LocalDynamicReadAt: seek and read under the mutex *)
ReadAt(want, offset) ==
    /\ Counted
    /\ IF InArchive(offset) THEN ReadBuffered(want, offset)
       ELSE got' = Failed("buffered", offset, want) /\ UNCHANGED buffered
    /\ UNCHANGED <<dyn, dynFile, lost, seekable>>

-----------------------------------------------------------------------------
(* SeekableCachedChunkReader: start_seek stops at the end; poll_read starts  *)
(* the future that read_at is, which awaits every chunk                       *)
StartSeek(origin, by) ==
    /\ Counted /\ seekable.future = IdxNone
    /\ LET to == CASE origin = "start" -> by
                   [] origin = "end" -> IndexBytes(dynFile) + by
                   [] origin = "current" -> seekable.pos + by
       IN  seekable' = IF to < 0 THEN seekable ELSE [seekable EXCEPT !.pos = Smaller(to, IndexBytes(dynFile))]
    /\ UNCHANGED <<dyn, dynFile, lost, buffered, got>>

PollRead(wanted) ==
    /\ Counted /\ seekable.future = IdxNone
    /\ seekable' = [seekable EXCEPT !.future = [offset |-> seekable.pos, wanted |-> wanted, read |-> << >>]]
    /\ UNCHANGED <<dyn, dynFile, lost, buffered, got>>

(* One turn of the loop in read_at: a chunk from the cache *)
SeekableDone(bytes) ==
    LET f == seekable.future
    IN  /\ seekable' = [seekable EXCEPT !.future = IdxNone, !.pos = IF bytes = IdxNone THEN @ ELSE @ + Len(bytes)]
        /\ got' = [reader |-> "seekable", from |-> f.offset, want |-> f.wanted, bytes |-> bytes]
CachedRead ==
    /\ seekable # IdxNone /\ seekable.future # IdxNone
    /\ LET f == seekable.future
           offset == f.offset + Len(f.read)
           chunk == DynChunkFromOffset(dynFile, offset)
           info == DynChunkInfo(dynFile, chunk[1])
           want == Smaller(info.end - offset, f.wanted - Len(f.read))
       IN  IF Len(f.read) >= f.wanted \/ chunk = IdxNone THEN SeekableDone(f.read)
           ELSE IF ~Readable(seekable.cache, info.digest, info.digest) THEN SeekableDone(IdxNone)
           ELSE /\ seekable' = [seekable EXCEPT !.cache = Touched(@, info.digest),
                                                !.future.read = @ \o SubSeq(ChunkBytes(info.digest), chunk[2] + 1, chunk[2] + want)]
                /\ UNCHANGED got
    /\ UNCHANGED <<dyn, dynFile, lost, buffered, reads>>

(* A chunk is removed or found corrupt *)
LoseChunk(digest) ==
    /\ buffered # IdxNone /\ lost = {}
    /\ lost' = {digest}
    /\ UNCHANGED <<dyn, dynFile, buffered, seekable, got, reads>>

DynNext ==
    \/ \E d \in DOMAIN DigestLen : DynAddChunk(d) \/ LoseChunk(d)
    \/ DynClose \/ OpenReaders \/ CachedRead
    \/ \E n \in ReadSizes : BufferedReadCall(n) \/ PollRead(n)
    \/ \E n \in ReadSizes, offset \in 0 .. dyn.offset + 1 : ReadAt(n, offset)
    \/ \E origin \in {"start", "end", "current"}, by \in -2 .. 2 :
           (origin = "start" => by >= 0) /\ (BufferedSeek(origin, by) \/ StartSeek(origin, by))

-----------------------------------------------------------------------------
Archive == FlattenSeq([i \in 1 .. Len(dyn.entries) |-> ChunkBytes(dyn.entries[i].digest)])

(* find_most_used_chunks, in whatever order the map is iterated: as many of  *)
(* the digests that occur more than once as it may return.  When they are    *)
(* too many, those that occur most often are left out: the vector ascends    *)
(* and loses its last element.  (Its comment, index.rs:39, says "Returns     *)
(* most often used chunks".)                                                 *)
LeastUsed(used) ==
    LET often == {d \in DOMAIN DigestLen : Uses(dynFile, d) > 1} IN
    /\ Len(used) = Smaller(MostUsedMax, Cardinality(often)) /\ IsInjective(used)
    /\ Range(used) \subseteq often
    /\ \A d \in Range(used), e \in often \ Range(used) : Uses(dynFile, d) <= Uses(dynFile, e)

(* The binary search finds for every offset the one chunk that holds it, and *)
(* none behind the end; the checksum of the reader is the writer's; of the   *)
(* repeated digests, the ones used least are returned (LeastUsed).           *)
SearchRight ==
    (dynFile # IdxNone /\ DynCount(dynFile) > 0 /\ buffered = IdxNone) =>
        /\ DynComputeCsum(dynFile) = <<dynFile.csum, Len(Archive)>>
        /\ \A offset \in 0 .. Len(Archive) + 1 :
               LET found == DynChunkFromOffset(dynFile, offset)
               IN  IF offset >= Len(Archive) THEN found = IdxNone
                   ELSE Archive[offset + 1] = ChunkBytes(dynFile.entries[found[1] + 1].digest)[found[2] + 1]
        /\ \A order \in SetToSeqs(DOMAIN DigestLen) :
               LeastUsed(MostUsed(dynFile, order))

(* Whatever was read and sought before, and although chunks could not be     *)
(* read in between, a read returns the bytes of the archive at its offset:   *)
(* the seekable reader all that were asked for up to the end, the buffered   *)
(* one at least one of them.                                                 *)
ReadsRight ==
    (got # IdxNone /\ got.bytes # IdxNone) =>
        LET rest == Len(Archive) - got.from
            all == Smaller(got.want, rest)
        IN  /\ got.bytes = SubSeq(Archive, got.from + 1, got.from + Len(got.bytes))
            /\ Len(got.bytes) <= all
            /\ got.reader = "seekable" => Len(got.bytes) = all
            /\ all > 0 => Len(got.bytes) > 0

(* Only a chunk that is gone fails a read inside the archive *)
FailsForReason ==
    (got # IdxNone /\ got.bytes = IdxNone) => got.from > Len(Archive) \/ lost # {}

IndexReaderInv == SearchRight /\ ReadsRight /\ FailsForReason
=============================================================================
