------------------------------ MODULE HashRing ------------------------------
(***************************************************************************)
(* The asynchronous hash pipeline of core/piece.c: the torrent thread puts *)
(* completed pieces into a ring, the hash worker hashes them strictly in   *)
(* ring order, the torrent thread pops finished entries from the head and  *)
(* applies them.  One action is one critical section of hash_mutex or one  *)
(* stretch of thread-private code; every access to the ring is under the   *)
(* mutex, so nothing is lost by not splitting the sections further.  The   *)
(* two condition variables are modelled by the waiting control states: a   *)
(* signal moves a waiter on and is lost when there is none.                *)
(***************************************************************************)
EXTENDS Integers, Sequences

CONSTANTS NumPieces,  \* mi->num_pieces
          Bufs,       \* addresses malloc can return for piece buffers
          QMax,       \* PIECE_HASH_QUEUE_MAX
          PoolMax,    \* PIECE_BUF_POOL_MAX
          StartupVerify, \* is existing data scanned (no fast-resume bitfield)?
          NULL,       \* the null pointer
          Junk        \* buffer or disk bytes that match no piece hash

ASSUME RingAssumption == /\ NumPieces \in Nat \ {0}
                         /\ QMax \in Nat \ {0}
                         /\ PoolMax \in Nat
                         /\ StartupVerify \in BOOLEAN
                         /\ NULL \notin Bufs
                         /\ Junk \notin 0 .. NumPieces - 1

Pieces == 0 .. NumPieces - 1
Data   == Pieces \cup {Junk}   \* p stands for "bytes with piece p's SHA-1"
Cells  == 0 .. QMax - 1

Job   == [idx : Pieces, buf : Bufs \cup {NULL}, done : BOOLEAN, ok : BOOLEAN]
NoJob == [idx |-> 0, buf |-> NULL, done |-> FALSE, ok |-> FALSE]

\* The worker's locals: the remembered entry and the fields copied from it.
WorkerJob == [pos : Cells, idx : Pieces, buf : Bufs \cup {NULL}, ok : BOOLEAN]
NoWorkerJob == [pos |-> 0, idx |-> 0, buf |-> NULL, ok |-> FALSE]

VARIABLES
  \* guarded by hash_mutex
  hash_q, hash_q_head, hash_q_count, hash_q_hashed, hash_shutdown,
  \* torrent thread only
  hash_ok, hash_started, slot, slotbuf, buf_pool, verify_index,
  tpc,      \* where the torrent thread is
  cur,      \* piece being enqueued
  hand,     \* job popped from the ring and being applied
  ret,      \* where hash_apply returns to
  closing,  \* piece_mgr_destroy was called
  \* hash worker only
  wpc, wjob,
  \* the world
  heap,     \* piece buffers allocated and not freed
  content,  \* bytes in each buffer
  disk      \* bytes in each piece's range of the storage

ring  == <<hash_q, hash_q_head, hash_q_count, hash_q_hashed, hash_shutdown>>
mode  == <<hash_ok, hash_started>>
slots == <<slot, slotbuf, buf_pool, heap, content, disk>>
call  == <<cur, hand, ret, closing>>
vars  == <<ring, mode, slots, call, verify_index, tpc, wpc, wjob>>

TypeOK ==
  /\ hash_q \in [Cells -> Job]
  /\ hash_q_head \in Cells
  /\ hash_q_count \in 0 .. QMax
  /\ hash_q_hashed \in 0 .. QMax
  /\ hash_shutdown \in BOOLEAN
  /\ hash_ok \in BOOLEAN
  /\ hash_started \in BOOLEAN
  /\ slot \in [Pieces -> {"open", "HASHING", "DONE"}]
  /\ slotbuf \in [Pieces -> Bufs \cup {NULL}]
  /\ buf_pool \in Seq(Bufs)
  /\ verify_index \in 0 .. NumPieces
  /\ tpc \in {"run", "spawn", "inline", "enq", "enq_wait", "enq_woken",
              "enq_put", "apply", "drain", "flush", "flush_wait", "stop",
              "join", "free", "dead"}
  /\ cur \in Pieces
  /\ hand \in Job
  /\ ret \in {"enq_put", "drain"}
  /\ closing \in BOOLEAN
  /\ wpc \in {"off", "loop", "wait", "hash", "post", "exit"}
  /\ wjob \in WorkerJob
  /\ heap \in SUBSET Bufs
  /\ content \in [Bufs -> Data]
  /\ disk \in [Pieces -> Data]

\* piece_mgr_create_ex.  The sync primitives may fail to initialise.  Data
\* found on the disk is only looked at by the startup scan.
Init ==
  /\ hash_q = [c \in Cells |-> NoJob]
  /\ hash_q_head = 0 /\ hash_q_count = 0 /\ hash_q_hashed = 0
  /\ hash_shutdown = FALSE
  /\ hash_ok \in BOOLEAN
  /\ hash_started = FALSE
  /\ slot = [p \in Pieces |-> "open"]
  /\ slotbuf = [p \in Pieces |-> NULL]
  /\ buf_pool = <<>>
  /\ verify_index = IF StartupVerify THEN 0 ELSE NumPieces
  /\ tpc = "run" /\ cur = 0 /\ hand = NoJob /\ ret = "drain" /\ closing = FALSE
  /\ wpc = "off"
  /\ wjob = NoWorkerJob
  /\ heap = {}
  /\ content = [b \in Bufs |-> Junk]
  /\ disk \in {d \in [Pieces -> Data] : \A p \in Pieces :
                   d[p] \in IF StartupVerify THEN {p, Junk} ELSE {Junk}}

----------------------------------------------------------------------------
(* Ring and buffer helpers.                                                *)

Cell(k) == (hash_q_head + k) % QMax   \* k-th occupied entry from the head

HeadDone == hash_q[hash_q_head].done

\* Mutants of PopHead.
PopHeadNoWrap == /\ hand' = hash_q[hash_q_head]
                 /\ hash_q_head' = hash_q_head + 1
                 /\ hash_q_count' = hash_q_count - 1
                 /\ hash_q_hashed' = hash_q_hashed - 1
                 /\ UNCHANGED <<hash_q, hash_shutdown>>
PopHeadKeepHashed == /\ hand' = hash_q[hash_q_head]
                     /\ hash_q_head' = (hash_q_head + 1) % QMax
                     /\ hash_q_count' = hash_q_count - 1
                     /\ UNCHANGED <<hash_q, hash_q_hashed, hash_shutdown>>

\* The pop shared by the drain loop and the backpressure path.
PopHead == /\ hand' = hash_q[hash_q_head]
           /\ hash_q_head' = (hash_q_head + 1) % QMax
           /\ hash_q_count' = hash_q_count - 1
           /\ hash_q_hashed' = hash_q_hashed - 1
           /\ UNCHANGED <<hash_q, hash_shutdown>>

\* pthread_cond_signal(&hash_cond): the worker is the only waiter.
SignalWorker == wpc' = IF wpc = "wait" THEN "loop" ELSE wpc

\* Mutant: the worker does not signal hash_done_cond.
NoSignalTorrent == UNCHANGED tpc

\* pthread_cond_signal(&hash_done_cond): the torrent thread is the only waiter.
SignalTorrent == tpc' = CASE tpc = "enq_wait"   -> "enq_woken"
                          [] tpc = "flush_wait" -> "flush"
                          [] OTHER              -> tpc

\* piece_buf_get: the pool first (a stack), then malloc, which may fail.
BufGet(b) == IF buf_pool # <<>>
             THEN /\ b = buf_pool[Len(buf_pool)]
                  /\ buf_pool' = SubSeq(buf_pool, 1, Len(buf_pool) - 1)
                  /\ UNCHANGED heap
             ELSE /\ b \notin heap
                  /\ heap' = heap \cup {b}
                  /\ UNCHANGED buf_pool

\* Mutant: a buffer that does not fit into the pool is forgotten.
BufPutLeak(b) == /\ buf_pool' = IF Len(buf_pool) < PoolMax
                               THEN Append(buf_pool, b) ELSE buf_pool
                 /\ UNCHANGED <<heap, content>>

\* piece_buf_put: recycle, or free when the pool is full.
BufPut(b) == IF Len(buf_pool) < PoolMax
             THEN /\ buf_pool' = Append(buf_pool, b)
                  /\ UNCHANGED <<heap, content>>
             ELSE /\ heap' = heap \ {b}
                  /\ content' = [content EXCEPT ![b] = Junk]
                  /\ UNCHANGED buf_pool

----------------------------------------------------------------------------
(* Mutants of the two operators below: a full ring bypassed by hashing     *)
(* inline, an entry that keeps its old done flag or its old index, and a   *)
(* digest comparison the wrong way round.                                  *)
HashPathInlineWhenFull ==
  IF ~hash_ok \/ hash_q_count = QMax THEN "inline"
  ELSE IF hash_started THEN "enq" ELSE "spawn"
NewJobStaleDone ==
  [hash_q[Cell(hash_q_count)] EXCEPT !.idx = cur, !.buf = slotbuf[cur]]
NewJobStaleIdx ==
  [hash_q[Cell(hash_q_count)] EXCEPT !.buf = slotbuf[cur], !.done = FALSE,
                                     !.ok = FALSE]
MatchesInverted(b, p) == content[b] # p

\* hash_enqueue's choice: worker running, worker to be spawned, or inline.
HashPath == IF ~hash_ok THEN "inline"
            ELSE IF hash_started THEN "enq" ELSE "spawn"

\* The tail entry hash_enqueue fills in.
NewJob == [idx |-> cur, buf |-> slotbuf[cur], done |-> FALSE, ok |-> FALSE]

\* sha1 and memcmp: does buffer b hold piece p's bytes?
Matches(b, p) == content[b] = p

----------------------------------------------------------------------------
(* Torrent thread: receiving a piece.                                      *)

\* piece_mgr_mark_pending: the first request for a piece gives it a buffer.
MarkPending(p) ==
  /\ tpc = "run" /\ slot[p] = "open" /\ slotbuf[p] = NULL
  /\ \E b \in Bufs : /\ BufGet(b)
                     /\ slotbuf' = [slotbuf EXCEPT ![p] = b]
  /\ UNCHANGED <<ring, mode, call, slot, content, disk, verify_index, tpc,
                 wpc, wjob>>

\* piece_mgr_got_block for the block that completes the piece, up to the
\* choice hash_enqueue makes between the worker and inline hashing.
GotLastBlock(p, d) ==
  /\ tpc = "run" /\ slot[p] = "open" /\ slotbuf[p] # NULL
  /\ content' = [content EXCEPT ![slotbuf[p]] = d]
  /\ cur' = p
  /\ tpc' = HashPath
  /\ UNCHANGED <<ring, mode, slot, slotbuf, buf_pool, heap, disk, hand, ret,
                 closing, verify_index, wpc, wjob>>

\* The worker is spawned lazily; without it the manager hashes inline forever.
SpawnWorker ==
  /\ tpc = "spawn"
  /\ \/ /\ hash_started' = TRUE /\ wpc' = "loop" /\ tpc' = "enq"
        /\ UNCHANGED hash_ok
     \/ /\ hash_ok' = FALSE /\ tpc' = "inline"
        /\ UNCHANGED <<hash_started, wpc>>
  /\ UNCHANGED <<ring, slots, call, verify_index, wjob>>

\* A failed storage_write may have stored part of the piece.
WriteFailed(p) == disk' \in {disk, [disk EXCEPT ![p] = Junk]}

\* The tail of piece_mgr_got_block: hash, write and mark done inline.
InlineHash ==
  /\ tpc = "inline"
  /\ \/ /\ ~Matches(slotbuf[cur], cur)
        /\ UNCHANGED <<slot, slotbuf, buf_pool, heap, content, disk>>
     \/ /\ Matches(slotbuf[cur], cur)
        /\ WriteFailed(cur)
        /\ UNCHANGED <<slot, slotbuf, buf_pool, heap, content>>
     \/ /\ Matches(slotbuf[cur], cur)
        /\ disk' = [disk EXCEPT ![cur] = content[slotbuf[cur]]]
        /\ slot' = [slot EXCEPT ![cur] = "DONE"]
        /\ BufPut(slotbuf[cur])
        /\ slotbuf' = [slotbuf EXCEPT ![cur] = NULL]
  /\ tpc' = "run"
  /\ cur' = 0
  /\ UNCHANGED <<ring, mode, hand, ret, closing, verify_index, wpc, wjob>>

\* hash_enqueue, ring full and head unfinished: wait on hash_done_cond.
EnqueueWait ==
  /\ tpc = "enq_woken" \/ (tpc = "enq" /\ hash_q_count = QMax)
  /\ ~HeadDone
  /\ tpc' = "enq_wait"
  /\ UNCHANGED <<ring, mode, slots, call, verify_index, wpc, wjob>>

\* Mutant: the backpressure path applies the head and leaves it in the ring.
EnqueuePopKeeps ==
  /\ tpc = "enq_woken" \/ (tpc = "enq" /\ hash_q_count = QMax)
  /\ HeadDone
  /\ hand' = hash_q[hash_q_head]
  /\ ret' = "enq_put"
  /\ tpc' = "apply"
  /\ UNCHANGED <<ring, mode, slots, cur, closing, verify_index, wpc, wjob>>

\* hash_enqueue, ring full and head finished: apply the head first.
EnqueuePop ==
  /\ tpc = "enq_woken" \/ (tpc = "enq" /\ hash_q_count = QMax)
  /\ HeadDone
  /\ PopHead
  /\ ret' = "enq_put"
  /\ tpc' = "apply"
  /\ UNCHANGED <<mode, slots, cur, closing, verify_index, wpc, wjob>>

\* hash_enqueue: detach the buffer into the tail entry, signal the worker.
EnqueuePut ==
  /\ tpc = "enq_put" \/ (tpc = "enq" /\ hash_q_count # QMax)
  /\ hash_q' = [hash_q EXCEPT ![Cell(hash_q_count)] = NewJob]
  /\ hash_q_count' = hash_q_count + 1
  /\ SignalWorker
  /\ slotbuf' = [slotbuf EXCEPT ![cur] = NULL]
  /\ slot' = [slot EXCEPT ![cur] = "HASHING"]
  /\ tpc' = "run"
  /\ cur' = 0
  /\ UNCHANGED <<hash_q_head, hash_q_hashed, hash_shutdown, mode, hand, ret,
                 closing, buf_pool, heap, content, disk, verify_index, wjob>>

----------------------------------------------------------------------------
(* Torrent thread: applying verdicts.                                      *)

\* hash_apply: drop, reset on mismatch or write failure, or write and finish.
HashApply ==
  /\ tpc = "apply"
  /\ LET p == hand.idx IN
       \/ /\ slot[p] # "HASHING"
          /\ BufPut(hand.buf)
          /\ UNCHANGED <<slot, slotbuf, disk>>
       \/ /\ slot[p] = "HASHING"
          /\ \/ ~hand.ok /\ UNCHANGED disk
             \/ hand.ok /\ WriteFailed(p)
          /\ slotbuf' = [slotbuf EXCEPT ![p] = hand.buf]
          /\ slot' = [slot EXCEPT ![p] = "open"]
          /\ UNCHANGED <<buf_pool, heap, content>>
       \/ /\ slot[p] = "HASHING" /\ hand.ok
          /\ disk' = [disk EXCEPT ![p] = content[hand.buf]]
          /\ slot' = [slot EXCEPT ![p] = "DONE"]
          /\ BufPut(hand.buf)
          /\ UNCHANGED slotbuf
  /\ hand' = NoJob
  /\ tpc' = ret
  /\ UNCHANGED <<ring, mode, cur, ret, closing, verify_index, wpc, wjob>>

\* piece_mgr_drain_hash_results is called (every torrent_tick).
DrainCall ==
  /\ tpc = "run" /\ hash_started
  /\ tpc' = "drain"
  /\ UNCHANGED <<ring, mode, slots, call, verify_index, wpc, wjob>>

DrainPop ==
  /\ tpc = "drain" /\ hash_q_count # 0 /\ HeadDone
  /\ PopHead
  /\ ret' = "drain"
  /\ tpc' = "apply"
  /\ UNCHANGED <<mode, slots, cur, closing, verify_index, wpc, wjob>>

DrainReturn ==
  /\ tpc = "drain" /\ (hash_q_count = 0 \/ ~HeadDone)
  /\ tpc' = IF closing THEN "stop" ELSE "run"
  /\ UNCHANGED <<ring, mode, slots, call, verify_index, wpc, wjob>>

\* piece_mgr_hash_flush is called (final verification).
FlushCall ==
  /\ tpc = "run" /\ hash_started
  /\ tpc' = "flush"
  /\ UNCHANGED <<ring, mode, slots, call, verify_index, wpc, wjob>>

\* Mutant: the flush only drains what is finished already.
FlushNoWait ==
  /\ tpc = "flush"
  /\ tpc' = "drain"
  /\ UNCHANGED <<ring, mode, slots, call, verify_index, wpc, wjob>>

\* piece_mgr_hash_flush: wait until the worker has caught up, then drain.
FlushWait ==
  /\ tpc = "flush"
  /\ tpc' = IF hash_q_hashed < hash_q_count THEN "flush_wait" ELSE "drain"
  /\ UNCHANGED <<ring, mode, slots, call, verify_index, wpc, wjob>>

----------------------------------------------------------------------------
(* Torrent thread: startup scan and shutdown.                              *)

\* piece_mgr_check_existing from the startup scan of torrent_tick, one piece
\* per step.  A web-seed piece may already be in the ring.
CheckExisting ==
  /\ tpc = "run" /\ verify_index < NumPieces
  /\ slot' = [slot EXCEPT ![verify_index] =
                IF disk[verify_index] = verify_index THEN "DONE" ELSE "open"]
  /\ verify_index' = verify_index + 1
  /\ UNCHANGED <<ring, mode, call, slotbuf, buf_pool, heap, content, disk,
                 tpc, wpc, wjob>>

\* piece_mgr_destroy: flush first when there is a worker.
DestroyCall ==
  /\ tpc = "run"
  /\ closing' = TRUE
  /\ tpc' = IF hash_started THEN "flush" ELSE "free"
  /\ UNCHANGED <<ring, mode, slots, cur, hand, ret, verify_index, wpc, wjob>>

DestroyStop ==
  /\ tpc = "stop"
  /\ hash_shutdown' = TRUE
  /\ SignalWorker
  /\ tpc' = "join"
  /\ UNCHANGED <<hash_q, hash_q_head, hash_q_count, hash_q_hashed, mode,
                 slots, call, verify_index, wjob>>

DestroyJoin ==
  /\ tpc = "join" /\ wpc = "exit"
  /\ hash_started' = FALSE
  /\ tpc' = "free"
  /\ UNCHANGED <<ring, hash_ok, slots, call, verify_index, wpc, wjob>>

\* Buffers left in the ring, in the slots and in the pool are freed.
DestroyFree ==
  /\ tpc = "free"
  /\ heap' = heap \ ( {hash_q[Cell(k)].buf : k \in 0 .. hash_q_count - 1}
                      \cup {slotbuf[p] : p \in Pieces}
                      \cup {buf_pool[i] : i \in 1 .. Len(buf_pool)} )
  /\ slotbuf' = [p \in Pieces |-> NULL]
  /\ buf_pool' = <<>>
  /\ hash_ok' = FALSE
  /\ tpc' = "dead"
  /\ UNCHANGED <<ring, hash_started, slot, content, disk, call, verify_index,
                 wpc, wjob>>

----------------------------------------------------------------------------
(* Hash worker.                                                            *)

WorkerWait ==
  /\ wpc = "loop" /\ ~hash_shutdown /\ hash_q_hashed = hash_q_count
  /\ wpc' = "wait"
  /\ UNCHANGED <<ring, mode, slots, call, verify_index, tpc, wjob>>

WorkerExit ==
  /\ wpc = "loop" /\ hash_shutdown /\ hash_q_hashed = hash_q_count
  /\ wpc' = "exit"
  /\ UNCHANGED <<ring, mode, slots, call, verify_index, tpc, wjob>>

\* Remember the first unhashed entry and copy its fields, then unlock.
WorkerTake ==
  /\ wpc = "loop" /\ hash_q_hashed # hash_q_count
  /\ LET c == Cell(hash_q_hashed) IN
       wjob' = [pos |-> c, idx |-> hash_q[c].idx, buf |-> hash_q[c].buf,
                ok |-> FALSE]
  /\ wpc' = "hash"
  /\ UNCHANGED <<ring, mode, slots, call, verify_index, tpc>>

\* SHA-1 of the buffer, outside the lock.
WorkerHash ==
  /\ wpc = "hash"
  /\ wjob' = [wjob EXCEPT !.ok = Matches(wjob.buf, wjob.idx)]
  /\ wpc' = "post"
  /\ UNCHANGED <<ring, mode, slots, call, verify_index, tpc>>

\* Store the verdict through the remembered pointer and signal.
WorkerPost ==
  /\ wpc = "post"
  /\ hash_q' = [hash_q EXCEPT ![wjob.pos].ok = wjob.ok, ![wjob.pos].done = TRUE]
  /\ hash_q_hashed' = hash_q_hashed + 1
  /\ SignalTorrent
  /\ wpc' = "loop"
  /\ wjob' = NoWorkerJob
  /\ UNCHANGED <<hash_q_head, hash_q_count, hash_shutdown, mode, slots, call,
                 verify_index>>

\* pthread_cond_wait may return without a signal.
SpuriousWakeup ==
  /\ \/ wpc = "wait" /\ wpc' = "loop" /\ UNCHANGED tpc
     \/ tpc = "enq_wait" /\ tpc' = "enq_woken" /\ UNCHANGED wpc
     \/ tpc = "flush_wait" /\ tpc' = "flush" /\ UNCHANGED wpc
  /\ UNCHANGED <<ring, mode, slots, call, verify_index, wjob>>

----------------------------------------------------------------------------
\* What the owner of the manager calls, whenever the thread is not in a call.
Calls == \/ \E p \in Pieces : MarkPending(p)
         \/ \E p \in Pieces : \E d \in {p, Junk} : GotLastBlock(p, d)
         \/ DrainCall \/ FlushCall \/ CheckExisting \/ DestroyCall

\* A call in progress.
TorrentStep == \/ SpawnWorker \/ InlineHash
               \/ EnqueueWait \/ EnqueuePop \/ EnqueuePut
               \/ HashApply \/ DrainPop \/ DrainReturn \/ FlushWait
               \/ DestroyStop \/ DestroyJoin \/ DestroyFree

WorkerStep == WorkerWait \/ WorkerExit \/ WorkerTake \/ WorkerHash \/ WorkerPost

\* The manager is gone: the only state in which nothing more happens.
Dead == tpc = "dead" /\ UNCHANGED vars

Next == Calls \/ TorrentStep \/ WorkerStep \/ SpuriousWakeup \/ Dead

Spec == Init /\ [][Next]_vars

\* Both threads are scheduled; calls and spurious wakeups need not happen.
FairSpec == Spec /\ WF_vars(TorrentStep) /\ WF_vars(WorkerStep)
----------------------------------------------------------------------------
(* Properties.                                                             *)

\* The ring is one queue with a finished prefix: exactly the first
\* hash_q_hashed of its hash_q_count entries carry a verdict, which is what
\* lets both threads share one array (hash_worker indexes by hash_q_hashed,
\* the torrent thread by the done flag of the head).
RingConsistent ==
  /\ hash_q_hashed <= hash_q_count
  /\ \A k \in 0 .. hash_q_count - 1 : hash_q[Cell(k)].done <=> k < hash_q_hashed

\* While the worker hashes outside the lock, the entry behind its remembered
\* pointer stays the first unhashed one: it is never popped, moved or reused,
\* so the verdict it stores later is the verdict of the piece it hashed.
WorkerKeepsEntry ==
  wpc \in {"hash", "post"} =>
    /\ hash_q_hashed < hash_q_count
    /\ wjob.pos = Cell(hash_q_hashed)
    /\ hash_q[wjob.pos].idx = wjob.idx
    /\ hash_q[wjob.pos].buf = wjob.buf

\* hash_enqueue does not test the ring again after applying the head: the
\* entry it then fills is free (it never overwrites a queued piece).
PutHasRoom ==
  /\ tpc \in {"enq_wait", "enq_woken"} => hash_q_count = QMax
  /\ tpc = "enq_put" => hash_q_count < QMax

\* Places that hold a piece buffer, and the buffer each holds.
Holders == {<<"slot", p>> : p \in {q \in Pieces : slotbuf[q] # NULL}}
           \cup {<<"ring", k>> : k \in 0 .. hash_q_count - 1}
           \cup {<<"hand", 0>> : x \in {y \in {0} : tpc = "apply"}}
           \cup {<<"pool", i>> : i \in 1 .. Len(buf_pool)}

Held(h) == CASE h[1] = "slot" -> slotbuf[h[2]]
             [] h[1] = "ring" -> hash_q[Cell(h[2])].buf
             [] h[1] = "hand" -> hand.buf
             [] h[1] = "pool" -> buf_pool[h[2]]

\* Every allocated piece buffer has exactly one owner among slots, ring, the
\* job being applied and the pool, and owners hold allocated buffers only: no
\* aliasing (the torrent thread never writes into a buffer the worker is
\* hashing), no use after free, no double free, no leak, also after destroy.
BufferOwnedOnce ==
  /\ \A h \in Holders : Held(h) \in heap
  /\ \A g, h \in Holders : Held(g) = Held(h) => g = h
  /\ \A b \in heap : \E h \in Holders : Held(h) = b

\* A piece in state HASHING has a job on its way: it cannot be stuck in a
\* state in which the picker skips it and received blocks are ignored.
HashingIsInFlight ==
  \A p \in Pieces : slot[p] = "HASHING" =>
    \/ \E k \in 0 .. hash_q_count - 1 : hash_q[Cell(k)].idx = p
    \/ tpc = "apply" /\ hand.idx = p

\* The guard of hash_apply: a job being applied belongs to a piece that is
\* still HASHING ("invariant guard - should not happen").
ApplyGuardNeverFires == tpc = "apply" => slot[hand.idx] = "HASHING"

\* A piece marked DONE has its verified bytes on the storage.
DoneIsOnDisk == \A p \in Pieces : slot[p] = "DONE" => disk[p] = p

\* piece_mgr_destroy finishes and applies in-flight hashes before it stops
\* the worker: from then on no completed piece is waiting for its verdict.
DestroyAppliesAll ==
  tpc \in {"stop", "join", "free", "dead"} =>
    hash_q_count = 0 /\ \A p \in Pieces : slot[p] # "HASHING"

\* The two threads implement the sequential queue of HashFifo.
Pending == LET inRing == [k \in 1 .. hash_q_count |-> hash_q[Cell(k - 1)]]
               jobs == (IF tpc = "apply" THEN <<hand>> ELSE <<>>) \o inRing
           IN [i \in 1 .. Len(jobs) |->
                 [idx |-> jobs[i].idx, data |-> content[jobs[i].buf]]]

Fifo == INSTANCE HashFifo WITH pending <- Pending

ImplementsFifo == Fifo!Spec

\* No lost wakeup: every call of the torrent thread returns, in particular a
\* backpressured hash_enqueue, a flush and the join of piece_mgr_destroy.
CallsReturn == (tpc # "run") ~> (tpc \in {"run", "dead"})
=============================================================================
