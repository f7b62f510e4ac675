----------------------------- MODULE ClientUpload -----------------------------
(***************************************************************************)
(* The upload of a payload archive: the archiver's thread writes data to   *)
(* one channel and injections to another one; a chunker task cuts the data *)
(* into chunks and forces a boundary where chunks are injected; the upload *)
(* task puts both together again, counts offsets and checksum and sends    *)
(* new chunks; the append task waits for the answers and appends to the    *)
(* index on the server in the order of the stream.                         *)
(*                                                                         *)
(* A chunk's digest is its content.  Where the chunker cuts depends on     *)
(* content and on suggestions that may come too late: it is a free choice. *)
(***************************************************************************)
EXTENDS PxarCreate
LOCAL INSTANCE SequencesExt

CONSTANTS
    MergeMax,      \* chunks merged into one request
    ChunkBuffer,   \* chunks between the chunker and the upload
    UploadQueue,   \* capacity of the queue to the append task
    MinChunk,      \* least size of a chunk the chunker cuts
    FixedSize      \* chunk size of a fixed index

ASSUME UploadAssumption == MergeMax \in Nat \ {0} /\ ChunkBuffer \in Nat \ {0} /\ UploadQueue \in Nat \ {0} /\ MinChunk \in Nat \ {0} /\ FixedSize \in Nat \ {0}

VARIABLES
    emitted,   \* events of arch.out that the archiver has passed on
    chan,      \* buffered writer, data channel, boundary queue, is it closed, who got the error
    cut,       \* ChunkStream and the chunks it has cut
    up,        \* the upload task behind it
    app,       \* the append task
    server     \* the server's side of the session

uploadVars == <<emitted, chan, cut, up, app, server>>

NoInject == [at |-> -1, chunks |-> << >>]
Known(list) == [new |-> FALSE, list |-> list]
Nothing == Known(<< >>)
PrevDigests == {PrevChunk(i).digest : i \in DOMAIN PrevEnds}

UploadInit ==
    /\ emitted = 0
    /\ chan = [buf |-> << >>, msgs |-> << >>, bounds |-> << >>, closed |-> FALSE, error |-> "nobody"]
    /\ cut = [buffer |-> << >>, scan |-> 0, consumed |-> 0, next |-> NoInject, pc |-> "cut", out |-> << >>, injections |-> << >>]
    /\ \E previous \in BOOLEAN, fixed \in {0, FixedSize} :
        /\ arch.reuse => previous /\ fixed = 0
        /\ up = [fixed |-> fixed, pc |-> "inject", inject |-> NoInject, total |-> 0, csum |-> << >>, merge |-> Nothing,
                 item |-> Nothing, known |-> IF previous THEN PrevDigests ELSE {}]
        /\ server = [known |-> IF previous THEN PrevDigests ELSE {}, posted |-> << >>, index |-> << >>, state |-> "open"]
    /\ app = [pc |-> "recv", queue |-> << >>, merge |-> << >>, item |-> << >>, closing |-> FALSE]

-----------------------------------------------------------------------------
(* The archiver's thread *)

Emit ==
    LET event == arch.out[emitted + 1] IN
    /\ ~Running /\ emitted < Len(arch.out)
    /\ chan' = IF event.kind = "raw" THEN [chan EXCEPT !.buf = @ \o event.units]
               ELSE [chan EXCEPT !.bounds = Append(@, [at |-> event.at, chunks |-> event.chunks])]
    /\ emitted' = emitted + 1
    /\ UNCHANGED <<cut, up, app, server>>

(* The buffer of the writer is full, or the writer is closed. *)
FlushWriter ==
    /\ chan.buf # << >>
    /\ chan' = [chan EXCEPT !.msgs = Append(@, chan.buf), !.buf = << >>]
    /\ UNCHANGED <<emitted, cut, up, app, server>>

CloseStream ==
    /\ ~Running /\ emitted = Len(arch.out) /\ chan.buf = << >> /\ ~chan.closed
    /\ chan' = [chan EXCEPT !.closed = TRUE]
    /\ UNCHANGED <<emitted, cut, up, app, server>>

-----------------------------------------------------------------------------
(* InjectReusedChunksQueue, and what the upload makes of its items *)

UploadError == [up EXCEPT !.pc = "error"]

(* An item for MergeKnownChunksQueue: what it holds, what it passes on *)
Merge(held, item) ==
    IF item.new THEN [held |-> IF held = Nothing THEN Nothing ELSE item, out |-> IF held = Nothing THEN item ELSE held]
    ELSE IF held.new THEN [held |-> item, out |-> held]
    ELSE LET list == held.list \o item.list IN
         IF held # Nothing /\ Len(list) >= MergeMax THEN [held |-> Nothing, out |-> Known(list)]
         ELSE [held |-> Known(list), out |-> Nothing]

Passed(u, item) ==
    LET m == Merge(u.merge, item) IN
    [u EXCEPT !.merge = m.held, !.item = m.out, !.pc = IF m.out = Nothing THEN "inject" ELSE "send"]

Counted(u, digest) ==
    [u EXCEPT !.total = @ + Len(digest),
              !.csum = Append(@, <<digest, IF u.fixed = 0 THEN u.total + Len(digest) ELSE 0>>)]

(* Injected chunks: offsets and checksum without the data *)
AccountInjected(u, chunks) ==
    LET Count(acc, c) == [u |-> Counted(acc.u, c.digest), list |-> Append(acc.list, <<acc.u.total, c.digest>>)]
        acc == FoldLeft(Count, [u |-> u, list |-> << >>], chunks)
    IN  Passed(acc.u, Known(acc.list))

AccountRaw(u, units) ==
    LET entry == <<u.total, units>>
        counted == [Counted(u, units) EXCEPT !.known = @ \cup {units}]
    IN  Passed(counted, [new |-> units \notin u.known, list |-> <<entry>>])

(* What is to be injected, and where: now, later, or too late *)
Inject ==
    LET received == up.inject = NoInject /\ cut.injections # << >>
        inject == IF received THEN Head(cut.injections) ELSE up.inject
        now == [up EXCEPT !.inject = inject]
    IN
    /\ up.pc = "inject"
    /\ cut' = IF received THEN [cut EXCEPT !.injections = Tail(@)] ELSE cut
    /\ up' = IF inject = NoInject THEN [now EXCEPT !.pc = "take"]
             ELSE IF inject.at = up.total THEN AccountInjected([now EXCEPT !.inject = NoInject], inject.chunks)
             ELSE IF inject.at > up.total THEN [now EXCEPT !.pc = "take"]
             ELSE [now EXCEPT !.pc = "misaligned"]
    /\ UNCHANGED <<emitted, chan, app, server>>

(* A chunk from below; an empty one only made room for an injection. *)
FromBelow(u, units) == IF units = << >> THEN [u EXCEPT !.pc = "inject"] ELSE AccountRaw(u, units)

(* The end of the stream, with what is left in the queues *)
EndOfStream(u) ==
    IF u.inject # NoInject \/ cut.injections # << >> THEN UploadError
    ELSE IF u.merge # Nothing THEN [u EXCEPT !.item = u.merge, !.merge = Nothing, !.pc = "send"]
    ELSE [u EXCEPT !.pc = "end"]

(* The next chunk, or the end, or the error of the stream *)
Take ==
    /\ up.pc = "take" /\ (cut.out # << >> \/ cut.pc \in {"ended", "failed"})
    /\ IF cut.out # << >> THEN cut' = [cut EXCEPT !.out = Tail(@)] /\ up' = FromBelow(up, Head(cut.out))
       ELSE cut' = cut /\ up' = IF cut.pc = "ended" THEN EndOfStream(up) ELSE UploadError
    /\ UNCHANGED <<emitted, chan, app, server>>

-----------------------------------------------------------------------------
(* ChunkStream *)

(* Mutated form: the injected chunks are not counted. *)
ForcedUncounted(c, inject) ==
    [c EXCEPT !.buffer = SubSeq(c.buffer, inject.at - c.consumed + 1, Len(c.buffer)), !.scan = 0,
              !.consumed = inject.at, !.next = NoInject]
(* The forced boundary lies in the buffer: chunks are injected behind it. *)
Forced(c, inject) ==
    [c EXCEPT !.buffer = SubSeq(c.buffer, inject.at - c.consumed + 1, Len(c.buffer)), !.scan = 0,
              !.consumed = inject.at + SizeOf(inject.chunks), !.next = NoInject]

(* A regular boundary at this place of the buffer *)
Split(c, n) == [c EXCEPT !.buffer = SubSeq(c.buffer, n + 1, Len(c.buffer)), !.scan = 0, !.consumed = @ + n]

(* What the chunker may say of the part that it has not seen: 0, or where  *)
(* the chunk ends.                                                         *)
Scans(c) == {0} \cup {n \in c.scan + 1 .. Len(c.buffer) : n >= MinChunk}

Emitted(c, units) == [c EXCEPT !.out = Append(@, units)]

CutDynamic ==
    LET received == cut.next = NoInject /\ chan.bounds # << >>
        inject == IF received THEN Head(chan.bounds) ELSE cut.next
        c == [cut EXCEPT !.next = inject]
    IN
    /\ cut.pc = "cut" /\ up.fixed = 0 /\ Len(cut.out) < ChunkBuffer
    /\ chan' = IF received THEN [chan EXCEPT !.bounds = Tail(@)] ELSE chan
    /\ \E n \in Scans(c) :
        LET boundary == cut.consumed + (IF n = 0 THEN Len(cut.buffer) ELSE n) IN
        cut' = IF inject # NoInject /\ inject.at <= boundary
               THEN IF inject.at < cut.consumed THEN [c EXCEPT !.pc = "misaligned"]
                    ELSE Emitted([Forced(c, inject) EXCEPT !.injections = Append(@, inject)], SubSeq(cut.buffer, 1, inject.at - cut.consumed))
               ELSE IF n # 0 THEN Emitted(Split(c, n), SubSeq(cut.buffer, 1, n))
               ELSE [c EXCEPT !.scan = Len(c.buffer), !.pc = "input"]
    /\ UNCHANGED <<emitted, up, app, server>>

(* FixedChunkStream, without a task of its own *)
CutFixed ==
    /\ cut.pc = "cut" /\ up.fixed # 0 /\ cut.out = << >>
    /\ cut' = IF Len(cut.buffer) >= up.fixed
              THEN Emitted(Split(cut, up.fixed), SubSeq(cut.buffer, 1, up.fixed))
              ELSE [cut EXCEPT !.pc = "input"]
    /\ UNCHANGED <<emitted, chan, up, app, server>>

(* PxarBackupStream: the error, the data, or the end with the last chunk;  *)
(* nothing is cut after it.  Both streams of an archive share one error,   *)
(* which the first to ask gets.                                            *)
Input ==
    LET failed == chan.closed /\ pxarEnd = "failed" /\ chan.error = "nobody" IN
    /\ cut.pc = "input"
    /\ \/ /\ failed
          /\ chan' = [chan EXCEPT !.error = "payload"] /\ cut' = [cut EXCEPT !.pc = "failed"]
       \/ /\ ~failed /\ chan.msgs # << >>
          /\ cut' = [cut EXCEPT !.buffer = @ \o Head(chan.msgs), !.pc = "cut"]
          /\ chan' = [chan EXCEPT !.msgs = Tail(@)]
       \/ /\ ~failed /\ chan.msgs = << >> /\ chan.closed
          /\ LET ended == [cut EXCEPT !.buffer = << >>, !.scan = 0, !.pc = "ended"] IN
             cut' = IF cut.buffer = << >> THEN ended ELSE Emitted(ended, cut.buffer)
          /\ chan' = chan
    /\ UNCHANGED <<emitted, up, app, server>>

OtherStreamFails ==
    /\ chan.closed /\ pxarEnd = "failed" /\ chan.error = "nobody"
    /\ chan' = [chan EXCEPT !.error = "metadata"]
    /\ UNCHANGED <<emitted, cut, up, app, server>>

-----------------------------------------------------------------------------
(* upload_merged_chunk_stream: requests are sent without waiting *)

Send ==
    /\ up.pc = "send" /\ app.pc # "ended" /\ Len(app.queue) < UploadQueue
    /\ app' = [app EXCEPT !.queue = Append(@, [list |-> up.item.list, post |-> IF up.item.new THEN Len(server.posted) + 1 ELSE 0])]
    /\ server' = IF up.item.new
                 THEN [server EXCEPT !.posted = Append(@, [digest |-> up.item.list[1][2], answer |-> "pending"])] ELSE server
    /\ up' = [up EXCEPT !.item = Nothing, !.pc = "inject"]
    /\ UNCHANGED <<emitted, chan, cut>>

SendFails ==
    /\ up.pc = "send" /\ app.pc = "ended"
    /\ up' = UploadError
    /\ UNCHANGED <<emitted, chan, cut, app, server>>

(* The server answers requests in any order. *)
StoreChunk(i) ==
    /\ server.posted[i].answer = "pending"
    /\ server' = [server EXCEPT !.posted[i].answer = "ok", !.known = @ \cup {server.posted[i].digest}]
    /\ UNCHANGED <<emitted, chan, cut, up, app>>

RejectChunk(i) ==
    /\ server.posted[i].answer = "pending"
    /\ server' = [server EXCEPT !.posted[i].answer = "failed"]
    /\ UNCHANGED <<emitted, chan, cut, up, app>>

-----------------------------------------------------------------------------
(* append_chunk_queue *)

Merged(a, list) ==
    LET all == a.merge \o list IN
    IF a.merge # << >> /\ Len(all) >= MergeMax THEN [a EXCEPT !.merge = << >>, !.item = all, !.pc = "put"]
    ELSE [a EXCEPT !.merge = all, !.pc = "recv"]

Receive ==
    LET head == Head(app.queue)
        answer == IF head.post = 0 THEN "ok" ELSE server.posted[head.post].answer
    IN
    /\ app.pc = "recv" /\ app.queue # << >> /\ answer # "pending"
    /\ app' = IF answer = "ok" THEN Merged([app EXCEPT !.queue = Tail(@)], head.list)
              ELSE [app EXCEPT !.pc = "ended", !.queue = << >>, !.closing = TRUE]
    /\ UNCHANGED <<emitted, chan, cut, up, server>>

(* The upload has dropped its end of the queue. *)
LastAppend ==
    /\ app.pc = "recv" /\ app.queue = << >> /\ up.pc \in {"end", "error", "misaligned"}
    /\ app' = IF app.merge # << >> THEN [app EXCEPT !.merge = << >>, !.item = app.merge, !.pc = "put"]
              ELSE [app EXCEPT !.pc = "ended"]
    /\ UNCHANGED <<emitted, chan, cut, up, server>>

(* The server appends what it knows at the offset it expects. *)
AppendIndex ==
    LET Size(index) == FoldLeft(LAMBDA n, d : n + Len(d), 0, index)
        Step(acc, entry) ==
            IF acc.ok /\ entry[2] \in server.known /\ entry[1] = Size(acc.index)
            THEN [acc EXCEPT !.index = Append(@, entry[2])] ELSE [acc EXCEPT !.ok = FALSE]
        acc == FoldLeft(Step, [ok |-> TRUE, index |-> server.index], app.item)
    IN
    /\ app.pc = "put"
    /\ server' = [server EXCEPT !.index = acc.index]
    /\ app' = IF acc.ok THEN [app EXCEPT !.item = << >>, !.pc = "recv"]
              ELSE [app EXCEPT !.pc = "ended", !.queue = << >>, !.closing = TRUE]
    /\ UNCHANGED <<emitted, chan, cut, up>>

AppendFails ==
    /\ app.pc = "put"
    /\ app' = [app EXCEPT !.pc = "ended", !.queue = << >>, !.closing = TRUE]
    /\ UNCHANGED <<emitted, chan, cut, up, server>>

-----------------------------------------------------------------------------
(* The end: both tasks are done; closing is set if the append task failed. *)

UploadDone ==
    /\ app.pc = "ended" /\ up.pc \in {"end", "error", "misaligned"} /\ server.state = "open"
    /\ LET fails == up.pc # "end" \/ app.closing
           csum == [i \in DOMAIN server.index |->
                      <<server.index[i], IF up.fixed = 0
                                         THEN FoldLeft(LAMBDA n, d : n + Len(d), 0, SubSeq(server.index, 1, i)) ELSE 0>>]
       IN  server' = [server EXCEPT !.state = IF fails \/ csum # up.csum THEN "failed" ELSE "closed"]
    /\ UNCHANGED <<emitted, chan, cut, up, app>>

(* The other stream is uploaded too, unless it got the error. *)
FinishUpload ==
    /\ server.state = "closed"
    /\ server' = [server EXCEPT !.state = IF chan.error = "metadata" THEN "failed" ELSE "finished"]
    /\ UNCHANGED <<emitted, chan, cut, up, app>>

UploadNext ==
    \/ Emit \/ FlushWriter \/ CloseStream
    \/ Inject \/ Take \/ CutDynamic \/ CutFixed \/ Input \/ OtherStreamFails \/ Send \/ SendFails
    \/ \E i \in DOMAIN server.posted : StoreChunk(i) \/ RejectChunk(i)
    \/ Receive \/ LastAppend \/ AppendIndex \/ AppendFails \/ UploadDone \/ FinishUpload

ClientNext == (PxarNext /\ UNCHANGED uploadVars) \/ (UploadNext /\ UNCHANGED pxarVars)
ClientSpec == PxarInit /\ UploadInit /\ [][ClientNext]_<<pxarVars, uploadVars>>

-----------------------------------------------------------------------------
(* Properties *)

UploadTypeOK ==
    /\ emitted \in 0 .. Len(arch.out) /\ cut.scan \in 0 .. Len(cut.buffer) /\ Len(app.queue) <= UploadQueue
    /\ up.pc \in {"inject", "take", "send", "end", "error", "misaligned"}
    /\ cut.pc \in {"cut", "input", "ended", "failed", "misaligned"}
    /\ app.pc \in {"recv", "put", "ended"} /\ server.state \in {"open", "closed", "failed", "finished"}

(* A boundary never lies behind what has been cut already, whatever the    *)
(* buffers of the writer and the threads' order.                           *)
Aligned == up.pc # "misaligned" /\ cut.pc # "misaligned"

(* An index that is complete holds the payload archive, injected chunks    *)
(* included, and each of its chunks is on the server.                      *)
IndexRight ==
    /\ server.state = "finished" => pxarEnd = "closed" /\ FlattenSeq(server.index) = Payload(arch)
    /\ \A i \in DOMAIN server.index : server.index[i] \in server.known

(* Unless something has failed, the upload of an archive ends well: its    *)
(* injections are all used, and the checksums agree.                       *)
UploadGoesThrough ==
    server.state = "failed" =>
        pxarEnd = "failed" \/ app.closing

UploadRight == UploadTypeOK /\ Aligned /\ IndexRight /\ UploadGoesThrough
=============================================================================
