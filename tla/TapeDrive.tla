----------------------------- MODULE TapeDrive -----------------------------
(***************************************************************************)
(* A tape in a drive, below the level of the Tape module: files of blocks  *)
(* separated by filemarks, the block streams that carry archives, where    *)
(* the head is, and which key the drive encrypts with.  The drive is an    *)
(* LTO drive, or the virtual one whose files are files of a directory.     *)
(*                                                                         *)
(* A task opens the drive, labels the tape or reads its labels, and then   *)
(* appends archives or reads files.  It can be killed anywhere: then       *)
(* nothing is cleaned up, and the tape may end without a filemark, while   *)
(* an error closes the file with a filemark but without an end marker.     *)
(*                                                                         *)
(* Content is counted in units; a block carries Payload of them.  A media  *)
(* set stands for its label and its key.  Alert flags, MAM attributes,     *)
(* drive options and the timing of commands are left out.                  *)
(***************************************************************************)
EXTENDS Integers, Sequences, SequencesExt, FiniteSetsExt

CONSTANTS
    Payload,      \* units of content in a block
    TapeBlock,    \* units of a chunk written by one call; a call may fill two blocks
    Early,        \* blocks after which an LTO drive reports the end of the media
    Capacity,     \* blocks that an LTO tape has room for
    DriveChunks, ChunkSize(_), SnapSize,
    MediaSets, Encrypted(_),
    Drives,       \* the drives considered: virtual, worm, enc, quirk
    NoSet, MaxTape \* bound on tasks and on files of a tape

ASSUME BlockAssumption == Payload \in Nat \ {0} /\ TapeBlock \in Nat \ {0} /\ Early < Capacity
ASSUME NoSetAssumption == NoSet \notin MediaSets

VARIABLES
    hw,     \* the drive: virtual, worm, enc (can encrypt), quirk (where LOCATE goes)
    reel,   \* the tape: closed files, and blocks that no filemark follows yet
    pos,    \* the head: file number, and blocks of it that were passed
    loadedKey, \* key loaded into the drive
    handle, \* the task's handle
    w,      \* its open BlockedWriter, with the archive it writes
    recs,   \* history: what the task was told about each file of the tape
    got,    \* history: the file last asked for, and the one the head went to
    tapeTasks

driveVars == <<hw, reel, pos, loadedKey, handle, w, recs, got, tapeTasks>>

-----------------------------------------------------------------------------
(* Content and blocks *)

LabelUnit == [u |-> "label", of |-> NoSet, i |-> 0]
SetUnit(s) == [u |-> "set", of |-> s, i |-> 0]
HeadUnit(what) == [u |-> what, of |-> NoSet, i |-> 0]
EntryUnit(c) == [u |-> "entry", of |-> c, i |-> 0]
DataUnit(c, i) == [u |-> "data", of |-> c, i |-> i]

Block(seq, data, end, inc) == [seq |-> seq, data |-> data, end |-> end, inc |-> inc, key |-> loadedKey]

File(blocks) == [there |-> TRUE, blocks |-> blocks]
Gone == [there |-> FALSE, blocks |-> <<>>]

Blank == [files |-> <<>>, tail |-> <<>>]
Bot == [f |-> 0, b |-> 0]
NoHandle == [open |-> FALSE, offset |-> 0, known |-> FALSE, set |-> NoSet, atEom |-> FALSE]
NewHandle == [NoHandle EXCEPT !.open = TRUE]
NoWriter == [what |-> "none", nr |-> 0, buf |-> <<>>, seq |-> 0, leom |-> FALSE, warn |-> 0,
             limit |-> 0, acked |-> {}, left |-> 0]
NotAsked == [asked |-> 0, at |-> 0]
Rec(what, state, acked) == [what |-> what, state |-> state, acked |-> acked]

DriveInit ==
    /\ hw \in Drives
    /\ reel = Blank /\ pos = Bot /\ loadedKey = NoSet
    /\ handle = NoHandle /\ w = NoWriter
    /\ recs = <<>> /\ got = NotAsked /\ tapeTasks = 0

-----------------------------------------------------------------------------
(* The tape *)

Closed == Len(reel.files)
Blocks(f) == IF f < Closed THEN reel.files[f + 1].blocks ELSE reel.tail
UsedBefore(f) == FoldLeft(+, 0, [i \in 1 .. f |-> Len(reel.files[i].blocks)])

(* Writing at the head makes what is behind it the end of the tape. *)
CutAt(p) == [files |-> SubSeq(reel.files, 1, p.f), tail |-> SubSeq(Blocks(p.f), 1, p.b)]
Marked(r) == [files |-> Append(r.files, File(r.tail)), tail |-> <<>>]

Eom == [f |-> Closed, b |-> Len(reel.tail)]

(* check_filemark: one block back is an error behind a filemark. *)
AfterFilemark(p) == p.b = 0

(* Mutant: an unfinished file is appended to. *)
MoveToEomAppends(writeMissingEof) ==
    [reel |-> reel, pos |-> IF hw.virtual THEN [f |-> Closed, b |-> 0] ELSE Eom]

VirtualEom == [reel |-> reel, pos |-> [f |-> Closed, b |-> 0]]

(* move_to_eom, which ends an unfinished file before it is appended to. *)
MoveToEom(writeMissingEof) ==
    IF hw.virtual THEN VirtualEom
    ELSE IF writeMissingEof /\ ~AfterFilemark(Eom)
         THEN [reel |-> Marked(reel), pos |-> [f |-> Closed + 1, b |-> 0]]
         ELSE [reel |-> reel, pos |-> Eom]

(* SPACE over n filemarks, backwards when n is negative: the head stops at *)
(* the side of the last one that it comes to.                              *)
CanSpace(p, n) == IF n > 0 THEN p.f + n <= Closed ELSE p.f + n >= 0
Space(p, n) ==
    IF n > 0 THEN [f |-> p.f + n, b |-> 0]
    ELSE [f |-> p.f + n, b |-> Len(Blocks(p.f + n))]

(* LOCATE goes to the near side of a filemark; which one a number means *)
(* depends on the vendor.                                               *)
Sub(a, b) == IF a < b THEN 0 ELSE a - b
Landing(position, offset) == Sub(position + offset, 1) + 1 + hw.quirk

(* locate_file: the head, the offset that was learnt, and whether the *)
(* drive could do it.                                                 *)
LocateFile(position) ==
    LET first == Landing(position, IF handle.known THEN handle.offset ELSE 0)
        offset == position - first
        second == Landing(position, offset)
        To(f, o, ok) == [ok |-> ok /\ f \in 0 .. Closed, offset |-> o,
                         pos |-> [f |-> IF f \in 0 .. Closed THEN f ELSE Closed, b |-> 0]]
    IN  IF hw.virtual \/ position \in {0, 1} THEN To(position, handle.offset, TRUE)
        ELSE IF handle.known \/ first \notin 1 .. Closed \/ first = position
             THEN To(first, handle.offset, first # 0)
             ELSE To(second, offset, second = position)
LearntOffset(position) ==
    handle.known \/ (~hw.virtual /\ position > 1 /\ Landing(position, 0) \in 1 .. Closed)

(* move_to_last_file: behind the last but one filemark.  Whether the tape *)
(* ends with a filemark is not asked.                                     *)
LastVirtualFile == [f |-> Closed - 1, b |-> 0]
LastMarkedFile == IF Closed = 1 THEN Bot ELSE Space(Space(Eom, -2), 1)
LastOfTape == IF hw.virtual THEN LastVirtualFile ELSE LastMarkedFile

-----------------------------------------------------------------------------
(* Reading a block stream *)

Decipherable(blk) == blk.key = NoSet \/ blk.key = loadedKey

(* check_buffer of block i of a stream. *)
GoodBlock(blk, i) == blk.seq = i - 1 /\ (blk.data # <<>> \/ blk.end) /\ Decipherable(blk)

(* A file of the virtual tape's index that is not in the directory. *)
Missing(f) == f < Closed /\ ~reel.files[f + 1].there

(* BlockedReader from the first block of a file to the end, with what it *)
(* hands out and how it ends.  A block that cannot be read ends it, and  *)
(* so does anything but a filemark behind the end marker.                *)
Stream(f) ==
    LET bs == Blocks(f)
        stops == {i \in DOMAIN bs : ~GoodBlock(bs[i], i) \/ bs[i].end}
        n == IF stops = {} THEN Len(bs) + 1 ELSE Min(stops)
        Units(m) == FlattenSeq([i \in 1 .. m |-> bs[i].data])
        Ends(status, m) == [status |-> status, units |-> Units(m)]
    IN  IF Missing(f) THEN Ends("gone", 0)
        ELSE IF stops = {} THEN Ends(IF f < Closed THEN (IF bs = <<>> THEN "filemark" ELSE "nomarker")
                                     ELSE (IF bs = <<>> THEN "empty" ELSE "eod"), Len(bs))
        ELSE IF ~GoodBlock(bs[n], n) \/ n < Len(bs) \/ f >= Closed THEN Ends("bad", n - 1)
        ELSE Ends(IF bs[n].inc THEN "incomplete" ELSE "end", n)

(* ChunkArchiveDecoder: an entry is a chunk unless the archive ends in it. *)
Decoded(units) ==
    {units[i].of : i \in {j \in DOMAIN units : units[j].u = "entry" /\ j + ChunkSize(units[j].of) <= Len(units)}}
IntactChunk(units, c) ==
    \E i \in DOMAIN units :
        /\ units[i] = EntryUnit(c)
        /\ \A k \in 1 .. ChunkSize(c) : i + k \in DOMAIN units /\ units[i + k] = DataUnit(c, k)

(* read_label_without_loading_key: the label and the media set, "none" for *)
(* an empty tape, "error" when a file is not what it should be.            *)
ReadLabel ==
    LET label == Stream(0) set == Stream(1)
    IN  IF label.status = "empty" THEN [kind |-> "none", set |-> NoSet]
        ELSE IF ~(label.status = "end" /\ label.units = <<LabelUnit>>) THEN [kind |-> "error", set |-> NoSet]
        ELSE IF Closed < 2 /\ set.status = "empty" THEN [kind |-> "label", set |-> NoSet]
        ELSE IF set.status = "end" /\ Len(set.units) = 1 /\ set.units[1].u = "set"
             THEN [kind |-> "label", set |-> set.units[1].of]
        ELSE [kind |-> "error", set |-> NoSet]

(* set_encryption: a drive that cannot encrypt refuses a key only. *)
KeyOf(s) == IF s # NoSet /\ Encrypted(s) THEN s ELSE NoSet
CanLoadKey(k) == k = NoSet \/ (hw.enc /\ ~hw.virtual)

-----------------------------------------------------------------------------
(* The drive and its labels *)

DriveIdle == handle.open /\ w = NoWriter

(* open_lto_drive, open_virtual_tape_drive *)
OpenDrive ==
    /\ ~handle.open /\ tapeTasks < MaxTape
    /\ handle' = NewHandle /\ tapeTasks' = tapeTasks + 1
    /\ UNCHANGED <<hw, reel, pos, loadedKey, w, recs, got>>

(* The handle is dropped: the key is taken out of the drive. *)
CloseDrive ==
    /\ DriveIdle
    /\ handle' = NoHandle /\ loadedKey' = NoSet
    /\ UNCHANGED <<hw, reel, pos, w, recs, got, tapeTasks>>

(* A tape is labelled: format_media, and a file with the label; WORM media *)
(* must be empty.  The task may fail in between.                           *)
LabelTape ==
    /\ DriveIdle /\ handle.set = NoSet
    /\ loadedKey' = NoSet
    /\ IF hw.worm /\ Eom # Bot
       THEN pos' = Eom /\ UNCHANGED <<reel, recs>>
       ELSE \E done \in BOOLEAN :
                IF done
                THEN /\ reel' = Marked([Blank EXCEPT
                            !.tail = <<[Block(0, <<LabelUnit>>, TRUE, FALSE) EXCEPT !.key = NoSet]>>])
                     /\ pos' = [f |-> 1, b |-> 0]
                     /\ recs' = <<Rec("label", "whole", {})>>
                ELSE reel' = Blank /\ pos' = Bot /\ recs' = <<>>
    /\ UNCHANGED <<hw, handle, w, got, tapeTasks>>

(* read_label: the head is behind the labels, and the key is loaded. *)
ReadLabels ==
    /\ DriveIdle /\ handle.set = NoSet
    /\ ReadLabel.kind = "label" /\ CanLoadKey(KeyOf(ReadLabel.set))
    /\ loadedKey' = KeyOf(ReadLabel.set)
    /\ pos' = [f |-> IF ReadLabel.set = NoSet THEN 1 ELSE 2, b |-> 0]
    /\ UNCHANGED <<hw, reel, handle, w, recs, got, tapeTasks>>

(* truncate_tape of a task that is killed before or after it has stored the *)
(* index: behind the label only.                                            *)
TruncatedTape(stored) ==
    IF stored THEN CutAt([f |-> 1, b |-> 0])
    ELSE [reel EXCEPT !.files = [i \in DOMAIN @ |-> IF i = 1 THEN @[i] ELSE Gone]]

(* write_media_set_label of the virtual drive truncates its tape, removing *)
(* files before it stores the shorter index; the task is killed meanwhile. *)
VirtualLabelDies(stored) ==
    /\ hw.virtual /\ Closed > 1
    /\ reel' = TruncatedTape(stored)
    /\ recs' = IF stored THEN <<recs[1]>>
               ELSE [i \in DOMAIN recs |-> IF i = 1 THEN recs[i] ELSE Rec("set", "failed", {})]
    /\ handle' = NoHandle /\ pos' = Bot /\ loadedKey' = NoSet

(* write_media_set_label at file 1: the label is written without a key and *)
(* the key of the set loaded afterwards, when it may turn out that the     *)
(* drive cannot encrypt.  The virtual drive refuses a key at once.         *)
WriteMediaSetLabel(s) ==
    LET cut == CutAt([f |-> 1, b |-> 0])
        loads == CanLoadKey(KeyOf(s))
    IN  \/ /\ hw.virtual => loads
           /\ ~(hw.worm /\ Eom # [f |-> 1, b |-> 0])
           /\ reel' = Marked([cut EXCEPT !.tail = <<[Block(0, <<SetUnit(s)>>, TRUE, FALSE) EXCEPT !.key = NoSet]>>])
           /\ pos' = [f |-> 2, b |-> 0] /\ loadedKey' = IF loads THEN KeyOf(s) ELSE NoSet
           /\ recs' = <<recs[1], Rec("set", "whole", {})>>
           /\ handle' = IF loads THEN [handle EXCEPT !.set = s, !.atEom = FALSE] ELSE NoHandle
        \/ loads /\ \E stored \in BOOLEAN : VirtualLabelDies(stored)

(* load_writable_media: the labels are read, and update_media_set_label    *)
(* continues the set or starts a new one; the encryption mode is asserted. *)
LoadWritableMedia(s) ==
    /\ DriveIdle /\ handle.set = NoSet
    /\ ReadLabel.kind = "label" /\ CanLoadKey(KeyOf(ReadLabel.set))
    /\ IF ReadLabel.set = s
       THEN /\ loadedKey' = KeyOf(s) /\ pos' = [f |-> 2, b |-> 0]
            /\ handle' = [handle EXCEPT !.set = s, !.atEom = FALSE]
            /\ UNCHANGED <<reel, recs>>
       ELSE WriteMediaSetLabel(s)
    /\ UNCHANGED <<hw, w, got, tapeTasks>>

-----------------------------------------------------------------------------
(* Writing an archive *)

Prepared == IF handle.atEom THEN [reel |-> reel, pos |-> pos] ELSE MoveToEom(TRUE)

(* What the drive has room for: the warning an LTO drive gives early, or *)
(* the size of the virtual tape, of which a file gets two blocks.        *)
VirtualSpace(f) == Max({2, Capacity - UsedBefore(f)})
Warn(f) == IF hw.virtual THEN VirtualSpace(f) ELSE Max({0, Early - UsedBefore(f)})
Limit(f) == IF hw.virtual THEN VirtualSpace(f) + 2 ELSE Max({0, Capacity - UsedBefore(f)})

(* write_all of the units: the blocks it completes, and the writer after. *)
Filled(units) == (Len(w.buf) + Len(units)) \div Payload
Leom(n) == w.leom \/ (n > 0 /\ w.seq + n > w.warn)
Put(units) ==
    LET all == w.buf \o units
        n == Filled(units)
        m == Min({n, w.limit - w.seq})
    IN  [ok |-> m = n,
         blocks |-> [i \in 1 .. m |-> Block(w.seq + i - 1, SubSeq(all, (i - 1) * Payload + 1, i * Payload), FALSE, FALSE)],
         w |-> [w EXCEPT !.buf = SubSeq(all, n * Payload + 1, Len(all)), !.seq = @ + m, !.leom = Leom(m)]]

(* The blocks reach the tape: at the head, or in the virtual tape's file. *)
OnTape(blocks) ==
    IF hw.virtual THEN [reel EXCEPT !.files[w.nr + 1].blocks = @ \o blocks]
    ELSE [CutAt(pos) EXCEPT !.tail = @ \o blocks]
HeadAfter(n) == IF hw.virtual THEN pos ELSE [pos EXCEPT !.b = @ + n]

(* The file ends with a filemark; the virtual tape needs none. *)
EndFile(r) == IF hw.virtual THEN r ELSE Marked(r)
HeadAfterMark == IF hw.virtual THEN pos ELSE [f |-> pos.f + 1, b |-> 0]
Told(state, acked) == recs' = [recs EXCEPT ![w.nr + 1] = Rec(w.what, state, acked)]

(* An error: the writer is dropped, which writes the filemark. *)
Dropped(blocks) ==
    /\ reel' = EndFile(OnTape(blocks)) /\ pos' = HeadAfterMark
    /\ Told("failed", {}) /\ w' = NoWriter

(* finish: the rest of the buffer in a block with the end marker. *)
FinishedWith(p, incomplete, state, acked) ==
    LET last == Block(p.w.seq, p.w.buf, TRUE, incomplete)
    IN  IF p.w.seq < w.limit
        THEN /\ reel' = EndFile(OnTape(Append(p.blocks, last))) /\ pos' = HeadAfterMark
             /\ Told(state, acked) /\ w' = NoWriter
        ELSE Dropped(p.blocks)

Continues(p, acked, left) ==
    /\ reel' = OnTape(p.blocks) /\ pos' = HeadAfter(Len(p.blocks))
    /\ w' = [p.w EXCEPT !.acked = acked, !.left = left]
    /\ UNCHANGED recs

NewVirtualFile(r) == [r EXCEPT !.files = Append(@, File(<<>>))]

(* append_chunk_archive and append_snapshot_archive: prepare_tape_write and *)
(* write_file, and the header, of which there is always room in the buffer. *)
(* The number of the file is asked for before it is written.                *)
StartArchive(what) ==
    /\ DriveIdle /\ handle.set # NoSet /\ Prepared.pos.f \in 2 .. MaxTape
    /\ LET nr == Prepared.pos.f
           r == Prepared.reel
       IN  /\ reel' = IF hw.virtual THEN NewVirtualFile(r) ELSE r
           /\ pos' = IF hw.virtual THEN [f |-> nr + 1, b |-> 0] ELSE Prepared.pos
           /\ w' = [NoWriter EXCEPT !.what = what, !.nr = nr, !.buf = <<HeadUnit(what)>>,
                                    !.warn = Warn(Closed), !.limit = Limit(Closed), !.left = SnapSize]
           /\ recs' = Append(recs, Rec(what, "open", {}))
    /\ handle' = [handle EXCEPT !.atEom = TRUE]
    /\ UNCHANGED <<hw, loadedKey, got, tapeTasks>>

(* try_write_chunk: the entry header, whose warning is not looked at, and  *)
(* the chunk in pieces.  After a warning the archive is closed, and the    *)
(* chunk counts as written only when its last piece was not a full one.    *)
TryWriteChunk(c) ==
    LET size == ChunkSize(c)
        pieces == (size + TapeBlock - 1) \div TapeBlock
        Upto(k) == <<EntryUnit(c)>> \o [i \in 1 .. Min({k * TapeBlock, size}) |-> DataUnit(c, i)]
        warned == {k \in 1 .. pieces : Leom(Filled(Upto(k)))}
        k == IF warned = {} THEN pieces ELSE Min(warned)
        p == Put(Upto(k))
        acked == IF warned = {} \/ k * TapeBlock > size THEN w.acked \cup {c} ELSE w.acked
    IN  /\ w.what = "chunks" /\ c \notin w.acked
        /\ IF ~p.ok THEN Dropped(p.blocks)
           ELSE IF warned # {} THEN FinishedWith(p, FALSE, "whole", acked)
           ELSE Continues(p, acked, 0)
        /\ UNCHANGED <<hw, loadedKey, handle, got, tapeTasks>>

(* A buffer of the snapshot archive's encoder is written; a warning ends *)
(* the archive, which is marked incomplete.                              *)
WriteSnapshotPart ==
    LET p == Put(<<DataUnit(NoSet, SnapSize - w.left + 1)>>)
    IN  /\ w.what = "snapshot" /\ w.left > 0
        /\ IF p.ok /\ ~p.w.leom THEN Continues(p, {}, w.left - 1)
           ELSE IF p.w.leom THEN FinishedWith(p, TRUE, "incomplete", {})
           ELSE Dropped(p.blocks)
        /\ UNCHANGED <<hw, loadedKey, handle, got, tapeTasks>>

(* The archive is complete, or has its largest size. *)
FinishArchive ==
    /\ w # NoWriter /\ (w.what = "snapshot" => w.left = 0)
    /\ FinishedWith([ok |-> TRUE, blocks |-> <<>>, w |-> w], FALSE, "whole", w.acked)
    /\ UNCHANGED <<hw, loadedKey, handle, got, tapeTasks>>

(* A chunk or a file cannot be read: the writer is dropped. *)
AbortArchive ==
    /\ w # NoWriter
    /\ Dropped(<<>>)
    /\ UNCHANGED <<hw, loadedKey, handle, got, tapeTasks>>

(* The task is killed: no filemark, and the key stays in the drive. *)
KillTask ==
    /\ handle.open
    /\ handle' = NoHandle /\ w' = NoWriter
    /\ recs' = IF w = NoWriter THEN recs
               ELSE IF ~hw.virtual /\ Closed = w.nr /\ reel.tail = <<>> THEN SubSeq(recs, 1, w.nr)
               ELSE [recs EXCEPT ![w.nr + 1] = Rec(w.what, "failed", {})]
    /\ UNCHANGED <<hw, reel, pos, loadedKey, got, tapeTasks>>

-----------------------------------------------------------------------------
(* Reading *)

(* A restore or a catalog job asks for a file. *)
MoveToFile(n) ==
    /\ DriveIdle /\ n \in 0 .. Closed
    /\ LET l == LocateFile(n)
       IN  /\ pos' = l.pos
           /\ handle' = [handle EXCEPT !.offset = l.offset, !.known = LearntOffset(n), !.atEom = FALSE]
           /\ got' = IF l.ok THEN [asked |-> n, at |-> l.pos.f] ELSE NotAsked
    /\ UNCHANGED <<hw, reel, loadedKey, w, recs, tapeTasks>>

MoveToLastFile ==
    /\ DriveIdle /\ Closed > 0
    /\ pos' = LastOfTape /\ got' = [asked |-> Closed - 1, at |-> LastOfTape.f]
    /\ handle' = [handle EXCEPT !.atEom = FALSE]
    /\ UNCHANGED <<hw, reel, loadedKey, w, recs, tapeTasks>>

DriveNext ==
    \/ OpenDrive \/ CloseDrive \/ LabelTape \/ ReadLabels
    \/ \E s \in MediaSets : LoadWritableMedia(s)
    \/ \E what \in {"chunks", "snapshot"} : StartArchive(what)
    \/ \E c \in DriveChunks : TryWriteChunk(c)
    \/ WriteSnapshotPart \/ FinishArchive \/ AbortArchive \/ KillTask
    \/ \E n \in 0 .. MaxTape : MoveToFile(n)
    \/ MoveToLastFile

-----------------------------------------------------------------------------
(* Properties *)

(* What a task was told about a file is what the tape gives back: an       *)
(* archive reported as written is read to its end marker, with every chunk *)
(* that was reported as written in it; one that the end of the media cut   *)
(* off is marked incomplete; one whose task failed never looks complete;   *)
(* and no chunk is decoded from a part of its data.                        *)
StreamsRight ==
    \A f \in 0 .. Len(recs) - 1 :
        LET s == Stream(f) r == recs[f + 1]
        IN  (\A i \in DOMAIN Blocks(f) : Decipherable(Blocks(f)[i])) =>
               /\ r.state = "whole" =>
                     /\ s.status = "end" /\ s.units[1].u = r.what
                     /\ r.what = "chunks" => \A c \in r.acked : IntactChunk(s.units, c)
                     /\ r.what = "snapshot" => Len(s.units) = SnapSize + 1
               /\ r.state = "incomplete" => s.status = "incomplete"
               /\ r.state \in {"open", "failed"} => s.status \notin {"end", "incomplete"}
               /\ \A c \in Decoded(s.units) : IntactChunk(s.units, c)

(* A file is told its number before it is written: the tape has as many    *)
(* files as tasks were told of, so that the numbers of a catalog stay true *)
(* after a task was killed.                                                *)
NumbersRight ==
    Len(recs) \in {Closed, Closed + 1} /\ (Len(recs) = Closed => reel.tail = <<>>)

(* The head goes to the file that was asked for, with every vendor's LOCATE. *)
LocatesRight == got.asked = got.at

(* The labels of a tape can be read without a key, and every archive of an *)
(* encrypted media set is written with the key of that set and no other.   *)
KeysRight ==
    \A f \in 0 .. Closed : \A i \in DOMAIN Blocks(f) :
        LET k == Blocks(f)[i].key
        IN  IF f < 2 THEN k = NoSet
            ELSE \/ ~reel.files[2].there
                 \/ k = KeyOf(reel.files[2].blocks[1].data[1].of)

DriveInv == StreamsRight /\ NumbersRight /\ LocatesRight /\ KeysRight
=============================================================================
