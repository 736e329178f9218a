------------------------------ MODULE PieceMgr ------------------------------
(***************************************************************************)
(* The piece manager of core/piece.c as the torrent thread uses it: slots, *)
(* received blocks, request counts, piece buffers, have/available          *)
(* bitfields, progress counters and the download-order cursor.  The        *)
(* manager is one record; each C function that changes it is an operator   *)
(* from records to records, so that an action is the whole handler with    *)
(* the calls it makes.  The hash worker appears as the FIFO queue that     *)
(* HashRing is shown to implement.                                         *)
(***************************************************************************)
EXTENDS Integers, Sequences, FiniteSets, FiniteSetsExt, SequencesExt

CONSTANTS NumPieces,   \* mi->num_pieces
          BlockCount,  \* piece -> piece_num_blocks
          Class,       \* piece -> its range of the storage: "disk" (readable),
                       \* "skip" (storage_range_skipped) or "sink" (neither)
          Order,       \* piece_order (<<>>: piece index order)
          Lookahead,   \* largest strict_order_lookahead the owner sets
          QMax,        \* PIECE_HASH_QUEUE_MAX
          ReqMax       \* bound on request_counts (UINT8_MAX)

Pieces == 0 .. NumPieces - 1

ASSUME MgrAssumption ==
  /\ NumPieces \in Nat \ {0}
  /\ BlockCount \in [Pieces -> Nat \ {0}]
  /\ Class \in [Pieces -> {"disk", "skip", "sink"}]
  /\ Order \in Seq(Nat)
  /\ Lookahead \in Nat \ {0}
  /\ QMax \in Nat \ {0}
  /\ ReqMax \in Nat \ {0}

Blocks(p) == 0 .. BlockCount[p] - 1

None  == -1                        \* (uint32_t)-1
NoBuf == <<>>                      \* sl->buf == NULL
Tags  == {"stale", "good", "bad"}  \* what a block of a buffer holds

VARIABLE pm

----------------------------------------------------------------------------
(* Download order and its cursor.                                          *)

OrderCount == IF Order = <<>> THEN NumPieces ELSE Len(Order)

Positions == 0 .. OrderCount - 1

OrderPieceAt(n) == IF Order = <<>> THEN n ELSE Order[n + 1]

\* order_pos: the last position of a piece in the order, if it has one.
OrderPos(p) == LET at == {n \in Positions : OrderPieceAt(n) = p}
               IN  IF at = {} THEN None ELSE Max(at)

Unfinished(m, n) == /\ OrderPieceAt(n) \in Pieces
                    /\ m.state[OrderPieceAt(n)] # "DONE"

\* The first unfinished position from lo on, or the end of the order.
FirstUnfinished(m, lo) ==
  LET open == {n \in Positions : n >= lo /\ Unfinished(m, n)}
  IN  IF open = {} THEN OrderCount ELSE Min(open)

\* The loop stops at the end without moving a cursor that is already there.
OrderCursorAdvance(m) == [m EXCEPT !.order_cursor = FirstUnfinished(m, @)]

\* Mutant: the cursor is not pulled back.
NoCursorRewind(m, p) == m

OrderCursorRewind(m, p) ==
  [m EXCEPT !.order_cursor = IF OrderPos(p) # None /\ OrderPos(p) < @
                             THEN OrderPos(p) ELSE @]

----------------------------------------------------------------------------
(* Slot transitions.                                                       *)

Readable(p) == Class[p] = "disk"   \* storage_range_readable
Skipped(p)  == Class[p] = "skip"   \* storage_range_skipped

\* Fields every path to DONE updates.  Bytes are counted in blocks.
CountDone(m, p, avail) ==
  OrderCursorAdvance(
    [m EXCEPT !.state[p] = "DONE",
              !.have_bf = @ \cup {p},
              !.available_bf = IF avail THEN @ \cup {p} ELSE @,
              !.num_done = @ + 1,
              !.completed_bytes = @ + BlockCount[p]])

\* mark_piece_done: the tail of a verified and written piece.
MarkPieceDone(m, p) == CountDone(m, p, Readable(p))

\* mark_done_unhashed: startup scan and fast resume.
MarkDoneUnhashed(m, p, readable) ==
  CountDone([m EXCEPT !.blocks[p] = Blocks(p)], p, readable)

\* The stale data of a kept buffer must never be hashed again.
StaleBuf(buf) == [b \in DOMAIN buf |-> "stale"]

\* Mutants of reset_piece: the progress counters, or the block bitmap, are
\* left as they were.
ResetPieceKeepsCount(m, p) ==
  OrderCursorRewind(
    [m EXCEPT !.have_bf = @ \ {p}, !.available_bf = @ \ {p}, !.blocks[p] = {},
              !.reqs[p] = [b \in Blocks(p) |-> 0], !.buf[p] = StaleBuf(@),
              !.state[p] = "EMPTY"], p)
ResetPieceKeepsBlocks(m, p) ==
  OrderCursorRewind(
    [m EXCEPT !.reqs[p] = [b \in Blocks(p) |-> 0], !.buf[p] = StaleBuf(@),
              !.state[p] = "EMPTY"], p)

\* reset_piece: uncount a DONE piece, forget blocks and requests, keep the
\* buffer, pull the cursor back.
ResetPiece(m, p) ==
  LET counted == m.state[p] = "DONE" /\ m.num_done > 0
      uncount == IF ~counted THEN m
                 ELSE [m EXCEPT !.num_done = @ - 1,
                                !.completed_bytes =
                                   IF @ >= BlockCount[p] THEN @ - BlockCount[p] ELSE 0,
                                !.have_bf = @ \ {p},
                                !.available_bf = @ \ {p}]
  IN  OrderCursorRewind(
        [uncount EXCEPT !.blocks[p] = {},
                        !.reqs[p] = [b \in Blocks(p) |-> 0],
                        !.buf[p] = StaleBuf(@),
                        !.state[p] = "EMPTY"], p)

\* storage_write of a piece: all of it is stored, or the call fails, with
\* none or a part of the piece stored.
WriteResults == {"stored", "refused", "torn"}
Store(m, p, w) ==
  [m EXCEPT !.disk[p] = IF ~Readable(p) \/ w = "refused" THEN @
                        ELSE IF w = "stored" THEN "good" ELSE "other"]

GoodData(p, data) == \A b \in Blocks(p) : data[b] = "good"

\* Mutants of hash_apply: a mismatch only reattaches the buffer; the result
\* of storage_write is ignored.
HashApplyNoReset(m, job, w) ==
  IF m.state[job.idx] # "HASHING" THEN m
  ELSE IF ~GoodData(job.idx, job.data) THEN [m EXCEPT !.buf[job.idx] = job.data]
  ELSE MarkPieceDone(Store(m, job.idx, "stored"), job.idx)
HashApplyIgnoresWrite(m, job, w) ==
  IF m.state[job.idx] # "HASHING" THEN m
  ELSE IF ~GoodData(job.idx, job.data)
       THEN ResetPiece([m EXCEPT !.buf[job.idx] = job.data], job.idx)
  ELSE MarkPieceDone(Store(m, job.idx, w), job.idx)

\* hash_apply for one finished job; w: the outcome of its storage_write.
HashApply(m, job, w) ==
  LET p == job.idx IN
  IF m.state[p] # "HASHING" THEN m
  ELSE IF ~GoodData(p, job.data)
       THEN ResetPiece([m EXCEPT !.buf[p] = job.data], p)
  ELSE IF w # "stored"
       THEN ResetPiece(Store([m EXCEPT !.buf[p] = job.data], p, w), p)
  ELSE MarkPieceDone(Store(m, p, w), p)

\* Pop and apply the head of the queue.
PopApply(m, w) ==
  HashApply([m EXCEPT !.queue = Tail(@), !.hashed = @ - 1], Head(m.queue), w)

----------------------------------------------------------------------------
(* The functions of the interface.                                         *)

\* piece_buf_get fills an empty slot, unless the allocation fails (~a).
WithBuf(p, buf, a) == IF buf = NoBuf /\ a THEN [b \in Blocks(p) |-> "stale"] ELSE buf

\* piece_mgr_mark_pending: a failed allocation leaves the piece PENDING.
MarkPending(m, p, a) ==
  IF m.state[p] \in {"DONE", "HASHING"} THEN m
  ELSE [m EXCEPT !.state[p] = "PENDING", !.buf[p] = WithBuf(p, @, a)]

\* Mutant: the count of a block that was cleared already wraps.
ClearBlockUnguarded(m, p, b) == [m EXCEPT !.reqs[p][b] = @ - 1]

\* piece_mgr_mark_block_requested and piece_mgr_clear_block_requested
MarkBlockRequested(m, p, b) ==
  [m EXCEPT !.reqs[p][b] = IF @ # ReqMax THEN @ + 1 ELSE @]
ClearBlockRequested(m, p, b) ==
  [m EXCEPT !.reqs[p][b] = IF @ > 0 THEN @ - 1 ELSE @]

\* hash_enqueue on an available worker: with a full ring the head, once
\* hashed, is applied first; then the buffer is detached into the queue.
HashEnqueue(m, p, w) ==
  LET room == IF Len(m.queue) = QMax
              THEN PopApply([m EXCEPT !.hashed = IF @ = 0 THEN 1 ELSE @], w)
              ELSE m
  IN  [room EXCEPT !.queue = Append(@, [idx |-> p, data |-> room.buf[p]]),
                   !.buf[p] = NoBuf,
                   !.state[p] = "HASHING"]

\* The inline tail of piece_mgr_got_block.
HashInline(m, p, w) ==
  IF ~GoodData(p, m.buf[p]) THEN ResetPiece(m, p)
  ELSE IF w # "stored" THEN ResetPiece(Store(m, p, w), p)
  ELSE [MarkPieceDone(Store(m, p, w), p) EXCEPT !.buf[p] = NoBuf]

\* piece_mgr_got_block with well-formed arguments; w: the outcome of a
\* storage_write made by this call, a: would an allocation succeed?
GotBlock(m, p, b, tag, w, a) ==
  IF m.state[p] \in {"DONE", "HASHING"} \/ WithBuf(p, m.buf[p], a) = NoBuf THEN m
  ELSE LET recv == [m EXCEPT !.state[p] = "PENDING",
                             !.buf[p] = [WithBuf(p, @, a) EXCEPT ![b] = tag],
                             !.blocks[p] = @ \cup {b},
                             !.reqs[p][b] = 0]
       IN  IF recv.blocks[p] # Blocks(p) THEN recv
           ELSE IF m.hash_ok THEN HashEnqueue(recv, p, w)
           ELSE HashInline(recv, p, w)

\* A write or an allocation of the call failed: a negative result, here or
\* through hash_result_cb, which ends the torrent (fatal_error).
GotBlockFails(m, p, b, tag, w, a) ==
  GotBlock(m, p, b, tag, w, a) # GotBlock(m, p, b, tag, "stored", TRUE)

\* torrent_submit_web_piece: every block not yet there, in block order, up to
\* the first failure.
SubmitWebPiece(m, p, tag, w, a) ==
  LET start == [m |-> MarkPending(m, p, a), failed |-> FALSE]
      turn(acc, b) == IF acc.failed \/ b \in acc.m.blocks[p] THEN acc
                      ELSE [m |-> GotBlock(acc.m, p, b, tag, w, a),
                            failed |-> GotBlockFails(acc.m, p, b, tag, w, a)]
      sub[n \in 0 .. BlockCount[p]] ==  \* after n blocks
        IF n = 0 THEN start ELSE turn(sub[n - 1], n - 1)
  IN  IF p \in m.have_bf THEN [m |-> m, failed |-> FALSE] ELSE sub[BlockCount[p]]

\* piece_mgr_drain_hash_results: apply the finished prefix; w gives the
\* outcome of each write.
Drain(m, w) ==
  LET drained[n \in 0 .. m.hashed] ==  \* after n verdicts
        IF n = 0 THEN m ELSE PopApply(drained[n - 1], w[n])
  IN  drained[m.hashed]

\* piece_mgr_hash_flush: the worker finishes everything first.
HashFlush(m, w) == Drain([m EXCEPT !.hashed = Len(m.queue)], w)

\* piece_mgr_check_existing; r: is the range on the disk readable at all?
CheckExisting(m, p, r) ==
  IF Skipped(p) \/ (Readable(p) /\ r /\ m.disk[p] = "good")
  THEN IF m.state[p] = "DONE" THEN m
       ELSE MarkDoneUnhashed(m, p, ~Skipped(p))
  ELSE ResetPiece(m, p)

\* Mutant: a piece that fails verification stays DONE.
VerifyKeepsDone(m, p, r) == m

\* piece_mgr_verify_piece and the verdict it returns.
VerifyValid(m, p, r) == /\ m.state[p] = "DONE"
                        /\ Readable(p) => r /\ m.disk[p] = "good"
VerifyPiece(m, p, r) ==
  IF m.state[p] = "DONE" /\ ~VerifyValid(m, p, r) THEN ResetPiece(m, p) ELSE m

\* piece_mgr_verify_all after a successful flush.
VerifyAll(m, w, r) ==
  LET verified[n \in 0 .. NumPieces] ==  \* after n pieces
        IF n = 0 THEN HashFlush(m, w) ELSE VerifyPiece(verified[n - 1], n - 1, r)
  IN  verified[NumPieces]

\* piece_mgr_preset_have: bits over sink ranges are dropped.
PresetPiece(m, bf, p) ==
  IF p \notin bf \/ m.state[p] = "DONE" \/ Class[p] = "sink" THEN m
  ELSE MarkDoneUnhashed(m, p, Readable(p))
PresetHave(m, bf) ==
  LET preset[n \in 0 .. NumPieces] ==  \* after n pieces
        IF n = 0 THEN m ELSE PresetPiece(preset[n - 1], bf, n - 1)
  IN  preset[NumPieces]
----------------------------------------------------------------------------
(* Picking a piece for a peer.  have: the peer's bitfield, gate: the pieces *)
(* the application's request_allowed callback admits.                       *)

\* slot_has_requestable_block
Requestable(m, p) == \E b \in Blocks(p) : b \notin m.blocks[p] /\ m.reqs[p][b] = 0

\* Mutant: the window only counts pieces the peer has.
PickTurnPeerWindow(m, have, gate, fillFirst, acc, n) ==
  LET i == OrderPieceAt(n) IN
  IF acc.ret # None \/ acc.left = 0 \/ ~Unfinished(m, n) \/ i \notin have THEN acc
  ELSE IF i \notin gate THEN [acc EXCEPT !.left = 0]
  ELSE LET next == [acc EXCEPT !.left = @ - 1] IN
       IF m.state[i] = "PENDING" /\ Requestable(m, i) /\ acc.pending = None
       THEN [next EXCEPT !.pending = i, !.ret = IF fillFirst THEN i ELSE @]
       ELSE IF m.state[i] = "EMPTY" /\ acc.empty = None
       THEN [next EXCEPT !.empty = i, !.ret = IF fillFirst THEN @ ELSE i]
       ELSE next

\* One turn of the strict loop of piece_mgr_pick.  acc.left counts the
\* unfinished pieces the window still admits; 0 after a break.
PickTurn(m, have, gate, fillFirst, acc, n) ==
  LET i == OrderPieceAt(n) IN
  IF acc.ret # None \/ acc.left = 0 \/ ~Unfinished(m, n) THEN acc
  ELSE IF i \notin gate THEN [acc EXCEPT !.left = 0]
  ELSE LET next == [acc EXCEPT !.left = @ - 1] IN
       IF i \notin have THEN next
       ELSE IF m.state[i] = "PENDING" /\ Requestable(m, i) /\ acc.pending = None
            THEN [next EXCEPT !.pending = i, !.ret = IF fillFirst THEN i ELSE @]
       ELSE IF m.state[i] = "EMPTY" /\ acc.empty = None
            THEN [next EXCEPT !.empty = i, !.ret = IF fillFirst THEN @ ELSE i]
       ELSE next

PickStrict(m, have, gate, la, fillFirst) ==
  LET start == [left |-> la, pending |-> None, empty |-> None, ret |-> None]
      scan[n \in m.order_cursor .. OrderCount] ==  \* before position n
        IF n = m.order_cursor THEN start
        ELSE PickTurn(m, have, gate, fillFirst, scan[n - 1], n - 1)
      acc == scan[OrderCount]
  IN  IF acc.ret # None THEN acc.ret
      ELSE IF acc.pending # None THEN acc.pending ELSE acc.empty

\* The two passes of piece_mgr_pick without strict order.
PickAny(m, have, gate) ==
  LET fresh == {p \in have \cap gate : m.state[p] = "EMPTY" /\ p \notin m.have_bf}
      again == {p \in have \cap gate : /\ m.state[p] \notin {"DONE", "HASHING"}
                                       /\ p \notin m.have_bf}
  IN  IF fresh # {} THEN Min(fresh) ELSE IF again # {} THEN Min(again) ELSE None

\* piece_mgr_pick
Pick(m, have, gate, la, fillFirst) ==
  IF m.strict_order THEN PickStrict(m, have, gate, la, fillFirst)
  ELSE PickAny(m, have, gate)

\* piece_mgr_head_piece
HeadPiece(m) == LET n == FirstUnfinished(m, m.order_cursor)
                IN  IF n = OrderCount THEN None ELSE OrderPieceAt(n)

----------------------------------------------------------------------------
(* The manager under every call its owner may make.                        *)

\* piece_mgr_create_ex over whatever is on the disk.  A hash worker that
\* cannot be spawned later is the same as one that was never available.
Fresh(d, strict, async) ==
  [state |-> [p \in Pieces |-> "EMPTY"],
   blocks |-> [p \in Pieces |-> {}],
   reqs |-> [p \in Pieces |-> [b \in Blocks(p) |-> 0]],
   buf |-> [p \in Pieces |-> NoBuf],
   have_bf |-> {}, available_bf |-> {}, num_done |-> 0, completed_bytes |-> 0,
   order_cursor |-> 0, strict_order |-> strict, hash_ok |-> async,
   queue |-> <<>>, hashed |-> 0, disk |-> d]

Disks == {d \in [Pieces -> {"good", "other"}] :
            \A p \in Pieces : ~Readable(p) => d[p] = "other"}

\* Optionally followed by the fast-resume preset with any saved bitfield.
Init == \E d \in Disks, strict, async \in BOOLEAN, bf \in SUBSET Pieces :
          pm = PresetHave(Fresh(d, strict, async), bf)

\* What piece_mgr_pick may return for some peer, gate and policy.
Picks == {Pick(pm, have, gate, la, f) : have \in SUBSET Pieces,
            gate \in SUBSET Pieces, la \in 1 .. Lookahead, f \in BOOLEAN}

\* schedule_requests for the piece p picked for a peer, whose pipeline has
\* room for n more blocks.
Schedule(p, n, a) ==
  LET m    == MarkPending(pm, p, a)
      free == {b \in Blocks(p) : b \notin m.blocks[p] /\ m.reqs[p][b] = 0}
      sent == {b \in free : Cardinality({c \in free : c < b}) < n}
      asked[k \in 0 .. BlockCount[p]] ==  \* after k blocks
        IF k = 0 THEN m
        ELSE IF k - 1 \in sent THEN MarkBlockRequested(asked[k - 1], p, k - 1)
        ELSE asked[k - 1]
  IN  pm' = asked[BlockCount[p]]

\* schedule_hedged_requests: a second request for a block of the head piece.
Hedge(p, b) == /\ pm.strict_order
               /\ p = HeadPiece(pm)
               /\ b \notin pm.blocks[p]
               /\ pm.reqs[p][b] = 1
               /\ pm' = MarkBlockRequested(pm, p, b)

\* clear_request: a request expired or its peer is gone.  Its count may have
\* been cleared before, when another peer delivered the block.
Forget(p, b) == pm' = ClearBlockRequested(pm, p, b)

Receive(p, b, tag, w, a) == pm' = GotBlock(pm, p, b, tag, w, a)

WebPiece(p, tag, w, a) == pm' = SubmitWebPiece(pm, p, tag, w, a).m

\* The hash worker finishes the next queued piece.
WorkerDone == /\ pm.hashed < Len(pm.queue)
              /\ pm' = [pm EXCEPT !.hashed = @ + 1]

\* Outcomes of the writes of the first n queued jobs.
Writes(n) == [1 .. n -> WriteResults]

DrainResults(w) == pm' = Drain(pm, w)
FlushResults(w) == pm' = HashFlush(pm, w)

ScanPiece(p, r)   == pm' = CheckExisting(pm, p, r)
FinalPiece(p, r)  == pm' = VerifyPiece(pm, p, r)
FinalAll(w, r)    == pm' = VerifyAll(pm, w, r)

\* Another program, or the medium, changes what is stored.
Corrupt(p) == Readable(p) /\ pm' = [pm EXCEPT !.disk[p] = "other"]

Next ==
  \/ \E p \in Picks \ {None}, a \in BOOLEAN : \E n \in 1 .. BlockCount[p] :
       Schedule(p, n, a)
  \/ \E p \in Pieces : \E b \in Blocks(p) :
       \/ Hedge(p, b)
       \/ Forget(p, b)
       \/ \E tag \in {"good", "bad"}, w \in WriteResults, a \in BOOLEAN :
            Receive(p, b, tag, w, a)
  \/ \E p \in Pieces, tag \in {"good", "bad"}, w \in WriteResults, a \in BOOLEAN :
       WebPiece(p, tag, w, a)
  \/ WorkerDone
  \/ \E w \in Writes(pm.hashed) : DrainResults(w)
  \/ \E w \in Writes(Len(pm.queue)) : FlushResults(w) \/ \E r \in BOOLEAN : FinalAll(w, r)
  \/ \E p \in Pieces : \/ \E r \in BOOLEAN : ScanPiece(p, r) \/ FinalPiece(p, r)
                       \/ Corrupt(p)

Spec == Init /\ [][Next]_pm
----------------------------------------------------------------------------
(* Properties.                                                             *)

TypeOK ==
  /\ pm.state \in [Pieces -> {"EMPTY", "PENDING", "HASHING", "DONE"}]
  /\ \A p \in Pieces :
       /\ pm.blocks[p] \subseteq Blocks(p)
       /\ pm.reqs[p] \in [Blocks(p) -> 0 .. ReqMax]
       /\ pm.buf[p] = NoBuf \/ pm.buf[p] \in [Blocks(p) -> Tags]
  /\ pm.order_cursor \in 0 .. OrderCount
  /\ Len(pm.queue) <= QMax
  /\ pm.hashed \in 0 .. Len(pm.queue)

Done == {p \in Pieces : pm.state[p] = "DONE"}

\* The size of a set of pieces.
SizeOf(S) ==
  LET size[n \in 0 .. NumPieces] ==  \* of the first n pieces
        IF n = 0 THEN 0
        ELSE size[n - 1] + IF n - 1 \in S THEN BlockCount[n - 1] ELSE 0
  IN  size[NumPieces]

\* The progress counters and the two bitfields describe the set of DONE
\* pieces, whatever order of downloads, startup scans, resets, dropped
\* verdicts and presets led there: nothing is counted twice by mark_piece_done
\* and mark_done_unhashed or uncounted twice by reset_piece, the clamp of
\* completed_bytes to 0 in reset_piece never hides a mismatch, and only pieces
\* that can be read back are offered to other peers.
Accounting == /\ pm.have_bf = Done
              /\ pm.num_done = Cardinality(Done)
              /\ pm.completed_bytes = SizeOf(Done)
              /\ pm.available_bf = {p \in Done : Readable(p)}

\* order_cursor is a frontier: no unfinished piece of the order is behind it.
FrontierSound == \A n \in Positions : n < pm.order_cursor => ~Unfinished(pm, n)

\* The piece the strict policy should pick, without cursor or scan: of the
\* first la unfinished pieces of the whole order, and before the first one
\* the gate closes, the earliest with an unrequested block, or the earliest
\* untouched one.
Window(m, gate, la) ==
  LET open == {n \in Positions : Unfinished(m, n)}
  IN  {n \in open : /\ Cardinality({k \in open : k < n}) < la
                    /\ \A k \in open : k <= n => OrderPieceAt(k) \in gate}
StrictPick(m, have, gate, la, fillFirst) ==
  LET offered == {n \in Window(m, gate, la) : OrderPieceAt(n) \in have}
      resume == {n \in offered : /\ m.state[OrderPieceAt(n)] = "PENDING"
                                 /\ Requestable(m, OrderPieceAt(n))}
      start == {n \in offered : m.state[OrderPieceAt(n)] = "EMPTY"}
      one(s) == OrderPieceAt(Min(s))
  IN  IF resume \cup start = {} THEN None
      ELSE IF fillFirst THEN IF resume # {} THEN one(resume) ELSE one(start)
      ELSE IF start # {} THEN one(start) ELSE one(resume)

\* piece_mgr_pick with its cached frontier and its one-pass scan returns what
\* the policy says for every peer bitfield, gate and setting.
PickMatchesPolicy ==
  \A have, gate \in SUBSET Pieces, la \in 1 .. Lookahead, f \in BOOLEAN :
    PickStrict(pm, have, gate, la, f) = StrictPick(pm, have, gate, la, f)

\* "No stale byte can ever be observed": buffers are reused without being
\* cleared, yet a piece is only handed to the hash once every block of it was
\* received since the slot was last reset.
NoStaleByte == \A i \in 1 .. Len(pm.queue) :
                 \A b \in Blocks(pm.queue[i].idx) : pm.queue[i].data[b] # "stale"

\* An unfinished piece can always make progress: it has a block to ask for,
\* or a verdict under way.  (The picker skips other pieces and got_block
\* ignores their blocks, so they would stay unfinished for ever.)
NeverStuck ==
  \A p \in Pieces :
    CASE pm.state[p] = "DONE"    -> TRUE
      [] pm.state[p] = "HASHING" -> \E i \in 1 .. Len(pm.queue) : pm.queue[i].idx = p
      [] pm.state[p] = "EMPTY"   -> pm.blocks[p] = {}
      [] pm.state[p] = "PENDING" -> pm.blocks[p] # Blocks(p)

\* After creation a piece of a disk file only becomes DONE when its verified
\* bytes are on the storage, by whichever of the worker, inline, backpressure
\* and scan paths it gets there and with whatever jobs of its earlier
\* downloads still queued.
DoneOnlyIfStored ==
  [][\A p \in Pieces :
       Readable(p) /\ pm.state[p] # "DONE" /\ pm'.state[p] = "DONE"
         => pm'.disk[p] = "good"]_pm
=============================================================================
