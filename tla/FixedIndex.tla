----------------------------- MODULE FixedIndex -----------------------------
(* Fixed index files: the writer, which maps the file into memory and grows  *)
(* it while the size of the image is not known, and the reader.  Sizes are   *)
(* in units of which a chunk has ChunkSize; a digest stands for its chunk,   *)
(* and the checksum of an index for the digests it is computed from.         *)
EXTENDS Integers, Sequences, FiniteSets

CONSTANTS
    ChunkSize,        \* FIXED_CHUNK_SIZE
    InitialCapacity,  \* INITIAL_CAPACITY
    KnownSizes,       \* the sizes a writer is created with; FixNone: not known
    Bases,            \* digests of the index that is cloned; FixNone: none
    FixDigests,
    Zero,             \* the digest of a hole: the file is zero filled
    MaxFixedSize,     \* bound on the end of a chunk
    MaxFixedCalls,    \* bound on the calls of the writer
    FixNone

ASSUME FixedAssumption ==
    /\ ChunkSize \in Nat \ {0}
    /\ InitialCapacity \in Nat \ {0}
    /\ KnownSizes \subseteq Nat \cup {FixNone}

VARIABLES
    writer,     \* the writer's fields, or FixNone
    base,       \* the digests it was given by clone_data_from
    accepted,   \* the chunks add_chunk has accepted: position -> digest and length
    published,  \* the file under its final name, or FixNone
    fixCalls

fixVars == <<writer, base, accepted, published, fixCalls>>

DivCeil(n, d) == (n + d - 1) \div d
Zeros(n) == [i \in 0 .. n - 1 |-> Zero]

FixedInit ==
    /\ writer = FixNone /\ base = FixNone
    /\ accepted = << >> /\ published = FixNone /\ fixCalls = 0

(* file_size: an index has at least one chunk *)
FileSizeFits(length) == length > 0

FixedCreate(known) ==
    /\ writer = FixNone /\ published = FixNone /\ fixCalls < MaxFixedCalls
    /\ LET length == IF known = FixNone THEN 0 ELSE DivCeil(known, ChunkSize)
           capacity == IF known = FixNone THEN InitialCapacity ELSE length
       IN  writer' = IF FileSizeFits(capacity)
                     THEN [size |-> IF known = FixNone THEN 0 ELSE known, length |-> length, capacity |-> capacity,
                           index |-> Zeros(capacity), mapped |-> TRUE, growable |-> known = FixNone]
                     ELSE FixNone
    /\ base' = FixNone /\ accepted' = << >> /\ fixCalls' = fixCalls + 1
    /\ UNCHANGED published

(* set_index_capacity_or_unmap: the file is truncated and mapped again, and *)
(* a writer whose mapping fails is of no use any more                       *)
Unmapped(w) == [w EXCEPT !.mapped = FALSE]
SetCapacity(w, capacity, remaps) ==
    IF capacity = w.capacity THEN <<w, TRUE>>
    ELSE IF ~w.mapped \/ ~FileSizeFits(capacity) \/ ~remaps THEN <<Unmapped(w), FALSE>>
    ELSE <<[w EXCEPT !.capacity = capacity,
                     !.index = [i \in 0 .. capacity - 1 |-> IF i \in DOMAIN w.index THEN w.index[i] ELSE Zero]], TRUE>>

NextPowerOfTwo(n) == CHOOSE p \in {2 ^ k : k \in 0 .. n} : p >= n /\ \A k \in 0 .. n : 2 ^ k >= n => p <= 2 ^ k

(* grow_to_size: a size that is no multiple of the chunk size is the last *)
GrowToSize(w, requested, remaps) ==
    LET newLen == DivCeil(requested, ChunkSize)
        partial == newLen * ChunkSize # requested
        resized ==
            IF partial THEN SetCapacity([w EXCEPT !.growable = FALSE], newLen, remaps)
            ELSE IF newLen > w.capacity THEN SetCapacity(w, NextPowerOfTwo(newLen), remaps)
            ELSE <<w, TRUE>>
    IN  IF w.size >= requested THEN <<w, TRUE>>
        ELSE IF ~w.growable THEN <<w, FALSE>>
        ELSE IF ~resized[2] THEN resized
        ELSE <<[resized[1] EXCEPT !.length = newLen, !.size = requested], TRUE>>

(* check_chunk_alignment: only the last chunk can be smaller *)
Aligned(w, offset, len) ==
    /\ offset >= len
    /\ offset <= w.size
    /\ offset = w.size \/ len = ChunkSize
    /\ len \in 1 .. ChunkSize
    /\ (offset - len) % ChunkSize = 0

AddDigest(w, pos, digest) == [w EXCEPT !.index[pos] = digest]
CanAddDigest(w, pos) == pos < w.length /\ w.mapped

(* add_chunk: the size grows before the chunk is checked *)
FixedAddChunk(start, len, digest, remaps) ==
    /\ writer # FixNone /\ published = FixNone /\ fixCalls < MaxFixedCalls
    /\ start + len <= MaxFixedSize
    /\ LET grown == GrowToSize(writer, start + len, remaps)
           w == grown[1]
           pos == start \div ChunkSize
           good == grown[2] /\ Aligned(w, start + len, len) /\ CanAddDigest(w, pos)
       IN  /\ writer' = IF good THEN AddDigest(w, pos, digest) ELSE w
           /\ accepted' = IF good
                          THEN [p \in DOMAIN accepted \cup {pos} |->
                                    IF p = pos THEN [digest |-> digest, start |-> start, len |-> len] ELSE accepted[p]]
                          ELSE accepted
    /\ fixCalls' = fixCalls + 1
    /\ UNCHANGED <<base, published>>

(* clone_data_from, of the previous backup's index into a new writer *)
CloneDataFrom(digests, remaps) ==
    /\ writer # FixNone /\ writer.mapped /\ base = FixNone /\ accepted = << >>
    /\ published = FixNone /\ fixCalls < MaxFixedCalls
    /\ LET count == Len(digests)
           resized == IF writer.growable /\ writer.capacity < count
                      THEN SetCapacity(writer, count, remaps) ELSE <<writer, TRUE>>
           w == resized[1]
       IN  /\ writer' = IF resized[2]
                        THEN [w EXCEPT !.index = [i \in DOMAIN w.index |-> IF i < count THEN digests[i + 1] ELSE w.index[i]]]
                        ELSE w
           /\ base' = IF resized[2] THEN digests ELSE base
    /\ fixCalls' = fixCalls + 1
    /\ UNCHANGED <<accepted, published>>

(* close: the header, then the unused capacity is cut off and the file     *)
(* renamed                                                                  *)
Digests(w) == [i \in 1 .. w.length |-> w.index[i - 1]]
FixedClose ==
    /\ writer # FixNone /\ published = FixNone /\ fixCalls < MaxFixedCalls
    /\ writer' = Unmapped(writer)
    /\ published' =
           IF writer.mapped /\ (writer.length < writer.capacity => FileSizeFits(writer.length))
           THEN [size |-> writer.size, csum |-> Digests(writer),
                 index |-> [i \in 1 .. IF writer.length < writer.capacity THEN writer.length ELSE writer.capacity |->
                                writer.index[i - 1]]]
           ELSE FixNone
    /\ fixCalls' = fixCalls + 1
    /\ UNCHANGED <<base, accepted>>

(* A writer that is dropped takes its temporary file with it *)
FixedDrop ==
    /\ writer # FixNone /\ published = FixNone
    /\ writer' = FixNone /\ base' = FixNone /\ accepted' = << >>
    /\ UNCHANGED <<published, fixCalls>>

FixedNext ==
    \/ \E known \in KnownSizes : FixedCreate(known)
    \/ \E start \in 0 .. MaxFixedSize, len \in 0 .. ChunkSize + 1, d \in FixDigests, ok \in BOOLEAN :
           FixedAddChunk(start, len, d, ok)
    \/ \E b \in Bases, ok \in BOOLEAN : CloneDataFrom(b, ok)
    \/ FixedClose
    \/ FixedDrop

-----------------------------------------------------------------------------
(* FixedIndexReader *)
IndexCount(file) == Len(file.index)
FixedOpens(file) ==
    /\ DivCeil(file.size, ChunkSize) = IndexCount(file)
    /\ IndexCount(file) > 0
FixedChunkInfo(file, pos) ==
    [start |-> pos * ChunkSize,
     end |-> IF (pos + 1) * ChunkSize < file.size THEN (pos + 1) * ChunkSize ELSE file.size,
     digest |-> file.index[pos + 1]]
FixedComputeCsum(file) ==
    <<[i \in 1 .. IndexCount(file) |-> FixedChunkInfo(file, i - 1).digest],
      FixedChunkInfo(file, IndexCount(file) - 1).end>>
FixedChunkFromOffset(file, offset) ==
    IF offset >= file.size THEN FixNone ELSE <<offset \div ChunkSize, offset % ChunkSize>>

Expected(pos) ==
    IF pos \in DOMAIN accepted THEN accepted[pos].digest
    ELSE IF base # FixNone /\ pos < Len(base) THEN base[pos + 1]
    ELSE Zero

(* An index that was closed can be opened, with the checksum that close has  *)
(* returned: each chunk that add_chunk has accepted is at its range, short   *)
(* only at the end, whatever calls were refused and however the file grew    *)
(* and shrank meanwhile; the others are those of the index it was cloned     *)
(* from, or holes; and every offset is looked up in the chunk that has it.   *)
FixedReadBack ==
    published # FixNone =>
        /\ FixedOpens(published)
        /\ FixedComputeCsum(published) = <<published.csum, published.size>>
        /\ \A pos \in 0 .. IndexCount(published) - 1 : FixedChunkInfo(published, pos).digest = Expected(pos)
        /\ \A pos \in DOMAIN accepted :
               /\ pos < IndexCount(published)
               /\ LET info == FixedChunkInfo(published, pos)
                  IN  info.start = accepted[pos].start /\ info.end = info.start + accepted[pos].len
        /\ \A offset \in 0 .. MaxFixedSize :
               LET found == FixedChunkFromOffset(published, offset)
               IN  IF offset >= published.size THEN found = FixNone
                   ELSE LET info == FixedChunkInfo(published, found[1])
                        IN  info.start + found[2] = offset /\ offset < info.end

(* A mapped writer never refers to memory behind its mapping *)
FixedInBounds ==
    writer # FixNone =>
        /\ writer.mapped => DOMAIN writer.index = 0 .. writer.capacity - 1 /\ writer.length <= writer.capacity
        /\ writer.length = DivCeil(writer.size, ChunkSize)
        /\ writer.growable => writer.size % ChunkSize = 0

FixedIndexInv == FixedReadBack /\ FixedInBounds
=============================================================================
