--------------------------- MODULE HashRingProofs ---------------------------
(***************************************************************************)
(* Proofs about HashRing for every number of pieces, ring size and pool    *)
(* size: the type invariant and the ring discipline both threads rely on.  *)
(*                                                                         *)
(* TypeOK alone is not inductive: hash_q_hashed stays in range only because *)
(* the worker's entry stays unhashed while it works (WorkerKeepsEntry), a  *)
(* pop stays in range only because a finished head is a counted entry      *)
(* (RingConsistent), and the buffers that reach the pool are real only     *)
(* because every queued job has one (JobsHaveBuffers).                     *)
(***************************************************************************)
EXTENDS HashRing, DataFacts

\* Wherever the code uses a job's or a completed piece's buffer it has one.
JobsHaveBuffers ==
  /\ \A k \in 0 .. hash_q_count - 1 : hash_q[Cell(k)].buf \in Bufs
  /\ tpc = "apply" => hand.buf \in Bufs
  /\ tpc \in {"spawn", "inline", "enq", "enq_wait", "enq_woken", "enq_put"}
       => slotbuf[cur] \in Bufs
  /\ tpc = "apply" /\ ret = "enq_put" => slotbuf[cur] \in Bufs /\ hash_q_count < QMax

\* The ring discipline, inductive together with the types.
RingInv == /\ TypeOK
           /\ RingConsistent
           /\ WorkerKeepsEntry
           /\ PutHasRoom
           /\ JobsHaveBuffers

----------------------------------------------------------------------------
LEMMA RingInvInit == Init => RingInv
<1> SUFFICES ASSUME Init PROVE RingInv
  OBVIOUS
<1> USE RingAssumption DEF Init
<1>1. TypeOK
  <2>1. /\ NoJob \in Job /\ NoWorkerJob \in WorkerJob
        /\ NumPieces \in 0 .. NumPieces
    BY DEF NoJob, Job, NoWorkerJob, WorkerJob, Cells, Pieces
  <2>2. disk \in [Pieces -> Data]
    OBVIOUS
  <2>3. content \in [Bufs -> Data]
    BY DEF Data
  <2>4. verify_index \in 0 .. NumPieces
    BY <2>1
  <2>5. /\ hash_q \in [Cells -> Job] /\ hash_q_head \in Cells
        /\ hash_q_count \in 0 .. QMax /\ hash_q_hashed \in 0 .. QMax
    BY <2>1 DEF Cells
  <2>6. /\ slot \in [Pieces -> {"open", "HASHING", "DONE"}]
        /\ slotbuf \in [Pieces -> Bufs \cup {NULL}]
        /\ buf_pool \in Seq(Bufs) /\ heap \in SUBSET Bufs
        /\ cur \in Pieces
    BY DEF Pieces
  <2> QED
    BY <2>1, <2>2, <2>3, <2>4, <2>5, <2>6 DEF TypeOK
<1>2. RingConsistent /\ WorkerKeepsEntry /\ PutHasRoom /\ JobsHaveBuffers
  BY DEF RingConsistent, WorkerKeepsEntry, PutHasRoom, JobsHaveBuffers
<1> QED
  BY <1>1, <1>2 DEF RingInv

\* piece_buf_get and piece_buf_put keep the pool a stack of real buffers.
LEMMA BufGetTypes ==
  ASSUME TypeOK, NEW b \in Bufs, BufGet(b)
  PROVE  buf_pool' \in Seq(Bufs) /\ heap' \in SUBSET Bufs
<1>1. CASE buf_pool # <<>>
  <2>1. Len(buf_pool) \in Nat /\ Len(buf_pool) # 0
    BY <1>1 DEF TypeOK
  <2>2. SubSeq(buf_pool, 1, Len(buf_pool) - 1) \in Seq(Bufs)
    BY <2>1 DEF TypeOK
  <2> QED
    BY <1>1, <2>2 DEF TypeOK, BufGet
<1>2. CASE buf_pool = <<>>
  BY <1>2 DEF TypeOK, BufGet
<1> QED
  BY <1>1, <1>2

LEMMA BufPutTypes ==
  ASSUME TypeOK, NEW b \in Bufs, BufPut(b)
  PROVE  /\ buf_pool' \in Seq(Bufs) /\ heap' \in SUBSET Bufs
         /\ content' \in [Bufs -> Data]
<1>1. CASE Len(buf_pool) < PoolMax
  BY <1>1 DEF TypeOK, BufPut
<1>2. CASE ~(Len(buf_pool) < PoolMax)
  BY <1>2 DEF TypeOK, BufPut, Data
<1> QED
  BY <1>1, <1>2

LEMMA WriteFailedTypes ==
  ASSUME TypeOK, NEW p \in Pieces, WriteFailed(p)
  PROVE  disk' \in [Pieces -> Data]
BY DEF TypeOK, WriteFailed, Data

\* PopHead keeps the ring's types and hands over a job with a buffer.
LEMMA PopHeadTypes ==
  ASSUME RingInv, PopHead, HeadDone, hash_q_count # 0
  PROVE  /\ hash_q' = hash_q
         /\ hash_q_head' \in Cells
         /\ hash_q_hashed \in 1 .. hash_q_count
         /\ hash_q_count' = hash_q_count - 1
         /\ hash_q_hashed' = hash_q_hashed - 1
         /\ hand' \in Job
         /\ hand'.buf \in Bufs
         /\ \A k \in 0 .. QMax - 1 : (hash_q_head' + k) % QMax = Cell(k + 1)
<1> USE RingAssumption DEF RingInv
<1>0. hash_q_head \in 0 .. QMax - 1 /\ hash_q_count \in 1 .. QMax
  BY DEF TypeOK, Cells
<1>1. 0 \in 0 .. hash_q_count - 1 /\ Cell(0) = hash_q_head
  <2>1. (hash_q_head + 0) % QMax = hash_q_head
    BY <1>0, CellZero
  <2> QED
    BY <1>0, <2>1 DEF Cell
<1>2. hash_q_hashed \in 1 .. hash_q_count
  BY <1>1 DEF RingConsistent, HeadDone, TypeOK
<1>3. hash_q[hash_q_head].buf \in Bufs
  BY <1>1 DEF JobsHaveBuffers
<1>4. \A k \in 0 .. QMax - 1 : /\ (hash_q_head + 1) % QMax \in Cells
                               /\ (((hash_q_head + 1) % QMax) + k) % QMax
                                    = (hash_q_head + (k + 1)) % QMax
  BY CellAfterPop DEF TypeOK, Cells
<1> QED
  BY <1>2, <1>3, <1>4 DEF PopHead, TypeOK, Cells, Cell

\* A step other than the three that touch the ring leaves its discipline
\* alone as long as the worker does not start on a new entry.
LEMMA RingUntouched ==
  ASSUME RingConsistent, WorkerKeepsEntry, UNCHANGED ring,
         \/ UNCHANGED <<wpc, wjob>>
         \/ wpc' \notin {"hash", "post"}
  PROVE  RingConsistent' /\ WorkerKeepsEntry'
BY DEF RingConsistent, WorkerKeepsEntry, Cell, ring

----------------------------------------------------------------------------
(* Types.                                                                  *)

LEMMA CallsTypes == ASSUME RingInv, Calls PROVE TypeOK'
<1> USE RingAssumption DEF RingInv, TypeOK, ring, mode, slots, call
<1>1. ASSUME NEW p \in Pieces, MarkPending(p) PROVE TypeOK'
  <2>1. PICK b \in Bufs : BufGet(b) /\ slotbuf' = [slotbuf EXCEPT ![p] = b]
    BY <1>1 DEF MarkPending
  <2>2. buf_pool' \in Seq(Bufs) /\ heap' \in SUBSET Bufs
    BY <2>1, BufGetTypes
  <2> QED
    BY <1>1, <2>1, <2>2 DEF MarkPending
<1>2. ASSUME NEW p \in Pieces, NEW d \in {p, Junk}, GotLastBlock(p, d) PROVE TypeOK'
  BY <1>2 DEF GotLastBlock, HashPath, Data
<1>3. CASE DrainCall
  BY <1>3 DEF DrainCall
<1>4. CASE FlushCall
  BY <1>4 DEF FlushCall
<1>5. CASE CheckExisting
  BY <1>5 DEF CheckExisting, Pieces
<1>6. CASE DestroyCall
  BY <1>6 DEF DestroyCall
<1> QED
  BY <1>1, <1>2, <1>3, <1>4, <1>5, <1>6 DEF Calls

LEMMA TorrentStepTypes == ASSUME RingInv, TorrentStep PROVE TypeOK'
<1> USE RingAssumption DEF RingInv
<1>1. CASE SpawnWorker
  <2>1. CASE hash_started'
    BY <1>1, <2>1 DEF SpawnWorker, TypeOK, ring, slots, call
  <2>2. CASE ~hash_started'
    BY <1>1, <2>2 DEF SpawnWorker, TypeOK, ring, slots, call
  <2> QED
    BY <2>1, <2>2
<1>2. CASE InlineHash
  <2>1. slotbuf[cur] \in Bufs /\ cur \in Pieces
    BY <1>2 DEF InlineHash, JobsHaveBuffers, TypeOK
  <2>2. /\ slot' \in [Pieces -> {"open", "HASHING", "DONE"}]
        /\ slotbuf' \in [Pieces -> Bufs \cup {NULL}]
        /\ disk' \in [Pieces -> Data]
    BY <1>2, <2>1, WriteFailedTypes DEF InlineHash, TypeOK
  <2>3. /\ buf_pool' \in Seq(Bufs) /\ heap' \in SUBSET Bufs
        /\ content' \in [Bufs -> Data]
    BY <1>2, <2>1, BufPutTypes DEF InlineHash, TypeOK
  <2> QED
    BY <1>2, <2>2, <2>3 DEF InlineHash, TypeOK, ring, mode, Pieces
<1>3. CASE EnqueueWait
  BY <1>3 DEF EnqueueWait, TypeOK, ring, mode, slots, call
<1>4. CASE EnqueuePop
  <2>1. hash_q_count # 0
    BY <1>4 DEF EnqueuePop, PutHasRoom
  <2> QED
    BY <1>4, <2>1, PopHeadTypes
    DEF EnqueuePop, PopHead, TypeOK, ring, mode, slots, call
<1>5. CASE EnqueuePut
  <2>1. hash_q_count \in 0 .. QMax - 1
    BY <1>5 DEF EnqueuePut, PutHasRoom, TypeOK
  <2>2. Cell(hash_q_count) \in Cells
    BY <2>1, CellWrap DEF Cell, Cells, TypeOK
  <2>3. NewJob \in Job
    BY DEF NewJob, Job, TypeOK
  <2> QED
    BY <1>5, <2>1, <2>2, <2>3
    DEF EnqueuePut, SignalWorker, TypeOK, mode, Pieces
<1>6. CASE HashApply
  <2>1. hand.buf \in Bufs /\ hand.idx \in Pieces
    BY <1>6 DEF HashApply, JobsHaveBuffers, TypeOK, Job
  <2>2. /\ slot' \in [Pieces -> {"open", "HASHING", "DONE"}]
        /\ slotbuf' \in [Pieces -> Bufs \cup {NULL}]
        /\ disk' \in [Pieces -> Data]
    BY <1>6, <2>1, WriteFailedTypes DEF HashApply, TypeOK
  <2>3. /\ buf_pool' \in Seq(Bufs) /\ heap' \in SUBSET Bufs
        /\ content' \in [Bufs -> Data]
    BY <1>6, <2>1, BufPutTypes DEF HashApply, TypeOK
  <2>4. hand' \in Job
    BY <1>6 DEF HashApply, NoJob, Job, Pieces
  <2> QED
    BY <1>6, <2>2, <2>3, <2>4 DEF HashApply, TypeOK, ring, mode
<1>7. CASE DrainPop
  BY <1>7, PopHeadTypes DEF DrainPop, PopHead, TypeOK, ring, mode, slots, call
<1>8. CASE DrainReturn
  BY <1>8 DEF DrainReturn, TypeOK, ring, mode, slots, call
<1>9. CASE FlushWait
  BY <1>9 DEF FlushWait, TypeOK, ring, mode, slots, call
<1>10. CASE DestroyStop
  BY <1>10 DEF DestroyStop, SignalWorker, TypeOK, mode, slots, call
<1>11. CASE DestroyJoin
  BY <1>11 DEF DestroyJoin, TypeOK, ring, slots, call
<1>12. CASE DestroyFree
  <2>1. heap' \in SUBSET Bufs /\ buf_pool' \in Seq(Bufs)
    BY <1>12 DEF DestroyFree, TypeOK
  <2>2. slotbuf' \in [Pieces -> Bufs \cup {NULL}]
    BY <1>12 DEF DestroyFree
  <2> QED
    BY <1>12, <2>1, <2>2 DEF DestroyFree, TypeOK, ring, call
<1> QED
  BY <1>1, <1>2, <1>3, <1>4, <1>5, <1>6, <1>7, <1>8, <1>9, <1>10, <1>11, <1>12
  DEF TorrentStep

LEMMA WorkerStepTypes == ASSUME RingInv, WorkerStep PROVE TypeOK'
<1> USE RingAssumption DEF RingInv, TypeOK
<1>1. CASE WorkerWait
  BY <1>1 DEF WorkerWait, ring, mode, slots, call
<1>2. CASE WorkerExit
  BY <1>2 DEF WorkerExit, ring, mode, slots, call
<1>3. CASE WorkerTake
  <2>1. hash_q_hashed \in 0 .. QMax - 1
    BY <1>3 DEF WorkerTake, RingConsistent
  <2>2. Cell(hash_q_hashed) \in Cells
    BY <2>1, CellWrap DEF Cell, Cells
  <2>3. wjob' \in WorkerJob
    BY <1>3, <2>2 DEF WorkerTake, WorkerJob, Job
  <2> QED
    BY <1>3, <2>3 DEF WorkerTake, ring, mode, slots, call
<1>4. CASE WorkerHash
  <2>1. Matches(wjob.buf, wjob.idx) \in BOOLEAN
    BY DEF Matches
  <2>2. wjob' \in WorkerJob
    BY <1>4, <2>1 DEF WorkerHash, WorkerJob
  <2> QED
    BY <1>4, <2>2 DEF WorkerHash, ring, mode, slots, call
<1>5. CASE WorkerPost
  <2>1. hash_q_hashed' \in 0 .. QMax
    BY <1>5 DEF WorkerPost, WorkerKeepsEntry
  <2>2. hash_q' \in [Cells -> Job]
    BY <1>5 DEF WorkerPost, Job, WorkerJob
  <2>3. wjob' \in WorkerJob
    BY <1>5 DEF WorkerPost, NoWorkerJob, WorkerJob, Cells, Pieces
  <2> QED
    BY <1>5, <2>1, <2>2, <2>3
    DEF WorkerPost, SignalTorrent, mode, slots, call
<1> QED
  BY <1>1, <1>2, <1>3, <1>4, <1>5 DEF WorkerStep

----------------------------------------------------------------------------
(* The ring discipline: only EnqueuePop, DrainPop, EnqueuePut, WorkerTake  *)
(* and WorkerPost touch the ring or the worker's entry.                    *)

\* A pop moves every queued entry one place towards the head; the worker's
\* entry, which is unfinished, cannot be the one popped.
LEMMA PopKeepsRing ==
  ASSUME RingInv, PopHead, HeadDone, hash_q_count # 0, UNCHANGED <<wpc, wjob>>
  PROVE  RingConsistent' /\ WorkerKeepsEntry'
<1> USE RingAssumption DEF RingInv
<1>1. /\ hash_q' = hash_q
      /\ hash_q_hashed \in 1 .. hash_q_count
      /\ hash_q_count' = hash_q_count - 1
      /\ hash_q_hashed' = hash_q_hashed - 1
      /\ \A k \in 0 .. QMax - 1 : (hash_q_head' + k) % QMax = Cell(k + 1)
  BY PopHeadTypes
<1>2. hash_q_count \in 1 .. QMax
  BY DEF TypeOK
<1>3. RingConsistent'
  <2>1. ASSUME NEW k \in 0 .. hash_q_count' - 1
        PROVE  hash_q'[(hash_q_head' + k) % QMax].done <=> k < hash_q_hashed'
    <3>1. k \in 0 .. QMax - 1 /\ k + 1 \in 0 .. hash_q_count - 1
      BY <1>1, <1>2
    <3>2. hash_q[Cell(k + 1)].done <=> k + 1 < hash_q_hashed
      BY <3>1 DEF RingConsistent
    <3> QED
      BY <1>1, <1>2, <3>1, <3>2
  <2>2. hash_q_hashed' <= hash_q_count'
    BY <1>1, <1>2
  <2> QED
    BY <2>1, <2>2 DEF RingConsistent, Cell
<1>4. WorkerKeepsEntry'
  <2> SUFFICES ASSUME wpc \in {"hash", "post"}
               PROVE  /\ hash_q_hashed' < hash_q_count'
                      /\ wjob.pos = (hash_q_head' + hash_q_hashed') % QMax
                      /\ hash_q[wjob.pos].idx = wjob.idx
                      /\ hash_q[wjob.pos].buf = wjob.buf
    BY <1>1 DEF WorkerKeepsEntry, Cell
  <2>1. hash_q_hashed - 1 \in 0 .. QMax - 1 /\ (hash_q_hashed - 1) + 1 = hash_q_hashed
    BY <1>1, <1>2
  <2>2. (hash_q_head' + (hash_q_hashed - 1)) % QMax = Cell(hash_q_hashed)
    BY <1>1, <2>1
  <2> QED
    BY <1>1, <1>2, <2>2 DEF WorkerKeepsEntry
<1> QED
  BY <1>3, <1>4

\* The entry hash_enqueue fills is none of the queued ones.
LEMMA PutKeepsRing ==
  ASSUME RingInv, EnqueuePut
  PROVE  /\ RingConsistent' /\ WorkerKeepsEntry'
         /\ \A k \in 0 .. hash_q_count' - 1 : hash_q'[Cell(k)'].buf \in Bufs
<1> USE RingAssumption DEF RingInv
<1>1. hash_q_count \in 0 .. QMax - 1 /\ hash_q_head \in 0 .. QMax - 1
  BY DEF EnqueuePut, PutHasRoom, TypeOK, Cells
<1>2. slotbuf[cur] \in Bufs
  BY DEF EnqueuePut, JobsHaveBuffers
<1>3. /\ hash_q' = [hash_q EXCEPT ![Cell(hash_q_count)] = NewJob]
      /\ hash_q_count' = hash_q_count + 1
      /\ UNCHANGED <<hash_q_head, hash_q_hashed, wjob>>
      /\ wpc' \in {"hash", "post"} => wpc = wpc'
  BY DEF EnqueuePut, SignalWorker
<1>4. \A k \in 0 .. QMax - 1 : Cell(k)' = Cell(k) /\ Cell(k) \in Cells
  BY <1>1, <1>3, CellWrap DEF Cell, Cells
<1>5. hash_q'[Cell(hash_q_count)] = NewJob
  BY <1>1, <1>3, <1>4 DEF TypeOK
<1>6. ASSUME NEW k \in 0 .. hash_q_count - 1
      PROVE  hash_q'[Cell(k)] = hash_q[Cell(k)]
  <2>1. ASSUME Cell(k) = Cell(hash_q_count) PROVE FALSE
    <3>1. k \in 0 .. QMax - 1
      BY <1>1
    <3>2. k = hash_q_count
      BY <1>1, <2>1, <3>1, CellInjective DEF Cell
    <3> QED
      BY <1>1, <3>2
  <2> QED
    BY <1>1, <1>3, <1>4, <2>1 DEF TypeOK
<1>7. hash_q_hashed \in 0 .. hash_q_count
  BY DEF RingConsistent, TypeOK
<1>8. RingConsistent'
  <2>1. ASSUME NEW k \in 0 .. hash_q_count
        PROVE  hash_q'[Cell(k)'].done <=> k < hash_q_hashed
    <3>1. CASE k = hash_q_count
      BY <1>1, <1>4, <1>5, <1>7, <3>1 DEF NewJob
    <3>2. CASE k \in 0 .. hash_q_count - 1
      BY <1>1, <1>4, <1>6, <3>2 DEF RingConsistent
    <3> QED
      BY <1>1, <3>1, <3>2
  <2> QED
    BY <1>1, <1>3, <1>7, <2>1 DEF RingConsistent
<1>9. WorkerKeepsEntry'
  <2> SUFFICES ASSUME wpc \in {"hash", "post"}
               PROVE  /\ hash_q_hashed' < hash_q_count'
                      /\ wjob.pos = (hash_q_head' + hash_q_hashed') % QMax
                      /\ hash_q'[wjob.pos].idx = wjob.idx
                      /\ hash_q'[wjob.pos].buf = wjob.buf
    BY <1>3 DEF WorkerKeepsEntry, Cell
  <2>1. hash_q_hashed \in 0 .. hash_q_count - 1 /\ wjob.pos = Cell(hash_q_hashed)
    BY <1>1, <1>7 DEF WorkerKeepsEntry
  <2>2. hash_q'[wjob.pos] = hash_q[wjob.pos]
    BY <1>6, <2>1
  <2> QED
    BY <1>1, <1>3, <2>1, <2>2 DEF WorkerKeepsEntry, Cell
<1>10. ASSUME NEW k \in 0 .. hash_q_count
       PROVE  hash_q'[Cell(k)'].buf \in Bufs
  <2>1. CASE k = hash_q_count
    BY <1>1, <1>2, <1>4, <1>5, <2>1 DEF NewJob
  <2>2. CASE k \in 0 .. hash_q_count - 1
    BY <1>1, <1>4, <1>6, <2>2 DEF JobsHaveBuffers
  <2> QED
    BY <1>1, <2>1, <2>2
<1> QED
  BY <1>1, <1>3, <1>8, <1>9, <1>10

\* The verdict lands in the first unhashed entry and in no other.
LEMMA PostKeepsRing ==
  ASSUME RingInv, WorkerPost
  PROVE  /\ RingConsistent' /\ WorkerKeepsEntry'
         /\ \A k \in 0 .. hash_q_count' - 1 : hash_q'[Cell(k)'].buf \in Bufs
<1> USE RingAssumption DEF RingInv
<1>1. /\ hash_q_head \in 0 .. QMax - 1 /\ hash_q_count \in 0 .. QMax
      /\ hash_q_hashed \in 0 .. hash_q_count - 1
      /\ wjob.pos = Cell(hash_q_hashed)
  BY DEF WorkerPost, WorkerKeepsEntry, TypeOK, Cells
<1>2. /\ hash_q' = [hash_q EXCEPT ![wjob.pos].ok = wjob.ok, ![wjob.pos].done = TRUE]
      /\ hash_q_hashed' = hash_q_hashed + 1
      /\ UNCHANGED <<hash_q_head, hash_q_count>>
      /\ wpc' = "loop"
  BY DEF WorkerPost
<1>3. \A k \in 0 .. QMax - 1 : Cell(k)' = Cell(k) /\ Cell(k) \in Cells
  BY <1>1, <1>2, CellWrap DEF Cell, Cells
<1>4. ASSUME NEW k \in 0 .. hash_q_count - 1
      PROVE  /\ hash_q'[Cell(k)'].done <=> k < hash_q_hashed + 1
             /\ hash_q'[Cell(k)'].buf \in Bufs
  <2>1. k \in 0 .. QMax - 1 /\ Cell(k)' = Cell(k) /\ Cell(k) \in Cells
    BY <1>1, <1>3
  <2>2. /\ hash_q[Cell(k)].done <=> k < hash_q_hashed
        /\ hash_q[Cell(k)].buf \in Bufs
    BY DEF RingConsistent, JobsHaveBuffers
  <2>3. CASE k = hash_q_hashed
    <3>1. /\ hash_q'[Cell(k)].done = TRUE
          /\ hash_q'[Cell(k)].buf = hash_q[Cell(k)].buf
      BY <1>1, <1>2, <2>1, <2>3 DEF TypeOK, Job
    <3> QED
      BY <1>1, <2>1, <2>2, <2>3, <3>1
  <2>4. CASE k # hash_q_hashed
    <3>1. ASSUME Cell(k) = wjob.pos PROVE FALSE
      <4>1. hash_q_hashed \in 0 .. QMax - 1
        BY <1>1
      <4> QED
        BY <1>1, <2>1, <2>4, <3>1, <4>1, CellInjective DEF Cell
    <3>2. hash_q'[Cell(k)] = hash_q[Cell(k)]
      BY <1>2, <2>1, <3>1 DEF TypeOK
    <3> QED
      BY <1>1, <2>1, <2>2, <2>4, <3>2
  <2> QED
    BY <2>3, <2>4
<1>5. RingConsistent'
  <2>1. hash_q_hashed' <= hash_q_count'
    BY <1>1, <1>2
  <2>2. \A k \in 0 .. hash_q_count' - 1 : hash_q'[Cell(k)'].done <=> k < hash_q_hashed'
    BY <1>2, <1>4
  <2> QED
    BY <2>1, <2>2 DEF RingConsistent
<1>6. WorkerKeepsEntry'
  BY <1>2 DEF WorkerKeepsEntry
<1> QED
  BY <1>2, <1>4, <1>5, <1>6

LEMMA TakeKeepsRing ==
  ASSUME RingInv, WorkerTake
  PROVE  RingConsistent' /\ WorkerKeepsEntry'
BY DEF RingInv, TypeOK, WorkerTake, RingConsistent, WorkerKeepsEntry, Cell, ring

----------------------------------------------------------------------------
(* Room in the ring and buffers behind every job.                          *)

LEMMA CallsRoom == ASSUME RingInv, Calls PROVE PutHasRoom' /\ JobsHaveBuffers'
<1> USE DEF RingInv, TypeOK, PutHasRoom, JobsHaveBuffers, Cell, ring, mode, slots, call
<1>1. ASSUME NEW p \in Pieces, MarkPending(p) PROVE PutHasRoom' /\ JobsHaveBuffers'
  BY <1>1 DEF MarkPending
<1>2. ASSUME NEW p \in Pieces, NEW d \in {p, Junk}, GotLastBlock(p, d)
      PROVE  PutHasRoom' /\ JobsHaveBuffers'
  BY <1>2 DEF GotLastBlock, HashPath
<1>3. CASE DrainCall \/ FlushCall
  BY <1>3 DEF DrainCall, FlushCall
<1>4. CASE CheckExisting \/ DestroyCall
  BY <1>4 DEF CheckExisting, DestroyCall
<1> QED
  BY <1>1, <1>2, <1>3, <1>4 DEF Calls

LEMMA TorrentStepRoom ==
  ASSUME RingInv, TorrentStep PROVE PutHasRoom' /\ JobsHaveBuffers'
<1> USE RingAssumption DEF RingInv
<1>1. CASE SpawnWorker \/ InlineHash \/ EnqueueWait
  BY <1>1 DEF TypeOK, PutHasRoom, JobsHaveBuffers, Cell, SpawnWorker,
              InlineHash, EnqueueWait, ring, mode, slots, call
<1>2. ASSUME PopHead, HeadDone, hash_q_count # 0, tpc' = "apply",
             UNCHANGED <<slotbuf, cur>>,
             ret' = "enq_put" => slotbuf[cur] \in Bufs
      PROVE  PutHasRoom' /\ JobsHaveBuffers'
  <2>1. /\ hash_q' = hash_q
        /\ hash_q_hashed \in 1 .. hash_q_count
        /\ hash_q_count' = hash_q_count - 1
        /\ hand'.buf \in Bufs
        /\ \A k \in 0 .. QMax - 1 : (hash_q_head' + k) % QMax = Cell(k + 1)
    BY <1>2, PopHeadTypes
  <2>2. hash_q_count \in 1 .. QMax
    BY <1>2 DEF TypeOK
  <2>3. ASSUME NEW k \in 0 .. hash_q_count' - 1
        PROVE  hash_q'[(hash_q_head' + k) % QMax].buf \in Bufs
    <3>1. k \in 0 .. QMax - 1 /\ k + 1 \in 0 .. hash_q_count - 1
      BY <2>1, <2>2
    <3>2. hash_q[Cell(k + 1)].buf \in Bufs
      BY <3>1 DEF JobsHaveBuffers
    <3> QED
      BY <2>1, <3>1, <3>2
  <2> QED
    BY <1>2, <2>1, <2>2, <2>3 DEF PutHasRoom, JobsHaveBuffers, Cell
<1>3. CASE EnqueuePop
  <2>1. hash_q_count # 0 /\ slotbuf[cur] \in Bufs
    BY <1>3 DEF EnqueuePop, PutHasRoom, JobsHaveBuffers
  <2> QED
    BY <1>2, <1>3, <2>1 DEF EnqueuePop, slots
<1>4. CASE EnqueuePut
  <2>1. \A k \in 0 .. hash_q_count' - 1 : hash_q'[Cell(k)'].buf \in Bufs
    BY <1>4, PutKeepsRing
  <2> QED
    BY <1>4, <2>1 DEF EnqueuePut, PutHasRoom, JobsHaveBuffers
<1>5. CASE HashApply
  BY <1>5 DEF HashApply, TypeOK, PutHasRoom, JobsHaveBuffers, Cell, ring
<1>6. CASE DrainPop
  BY <1>2, <1>6 DEF DrainPop, slots
<1>7. CASE DrainReturn \/ FlushWait
  BY <1>7 DEF DrainReturn, FlushWait, PutHasRoom, JobsHaveBuffers, Cell, ring,
              slots, call
<1>8. CASE DestroyStop \/ DestroyJoin \/ DestroyFree
  BY <1>8 DEF DestroyStop, DestroyJoin, DestroyFree, PutHasRoom,
              JobsHaveBuffers, Cell, ring, slots, call
<1> QED
  BY <1>1, <1>3, <1>4, <1>5, <1>6, <1>7, <1>8 DEF TorrentStep

LEMMA WorkerStepRoom ==
  ASSUME RingInv, WorkerStep PROVE PutHasRoom' /\ JobsHaveBuffers'
<1> USE DEF RingInv
<1>1. CASE WorkerWait \/ WorkerExit \/ WorkerTake \/ WorkerHash
  BY <1>1 DEF WorkerWait, WorkerExit, WorkerTake, WorkerHash, PutHasRoom,
              JobsHaveBuffers, Cell, ring, slots, call
<1>2. CASE WorkerPost
  <2>1. \A k \in 0 .. hash_q_count' - 1 : hash_q'[Cell(k)'].buf \in Bufs
    BY <1>2, PostKeepsRing
  <2> QED
    BY <1>2, <2>1 DEF WorkerPost, SignalTorrent, PutHasRoom, JobsHaveBuffers,
                      slots, call
<1> QED
  BY <1>1, <1>2 DEF WorkerStep

----------------------------------------------------------------------------
\* Every step of either thread preserves the ring discipline.
LEMMA RingInvStep == RingInv /\ [Next]_vars => RingInv'
<1> SUFFICES ASSUME RingInv, [Next]_vars PROVE RingInv'
  OBVIOUS
<1>1. CASE Calls
  <2>1. UNCHANGED <<ring, wpc, wjob>>
    BY <1>1 DEF Calls, MarkPending, GotLastBlock, DrainCall, FlushCall,
                CheckExisting, DestroyCall
  <2> QED
    BY <1>1, <2>1, CallsTypes, CallsRoom, RingUntouched DEF RingInv
<1>2. CASE TorrentStep
  <2>1. RingConsistent' /\ WorkerKeepsEntry'
    <3>1. CASE SpawnWorker \/ InlineHash \/ EnqueueWait \/ HashApply
               \/ DrainReturn \/ FlushWait \/ DestroyJoin \/ DestroyFree
      <4>1. UNCHANGED ring /\ (UNCHANGED <<wpc, wjob>> \/ wpc' = "loop")
        BY <3>1 DEF SpawnWorker, InlineHash, EnqueueWait, HashApply,
                    DrainReturn, FlushWait, DestroyJoin, DestroyFree
      <4> QED
        BY <4>1, RingUntouched DEF RingInv
    <3>2. CASE DestroyStop
      BY <3>2 DEF DestroyStop, SignalWorker, RingInv, RingConsistent,
                  WorkerKeepsEntry, Cell
    <3>3. CASE EnqueuePop
      <4>1. hash_q_count # 0
        BY <3>3, RingAssumption DEF EnqueuePop, PutHasRoom, RingInv
      <4> QED
        BY <3>3, <4>1, PopKeepsRing DEF EnqueuePop
    <3>4. CASE DrainPop
      BY <3>4, PopKeepsRing DEF DrainPop
    <3>5. CASE EnqueuePut
      BY <3>5, PutKeepsRing
    <3> QED
      BY <1>2, <3>1, <3>2, <3>3, <3>4, <3>5 DEF TorrentStep
  <2> QED
    BY <1>2, <2>1, TorrentStepTypes, TorrentStepRoom DEF RingInv
<1>3. CASE WorkerStep
  <2>1. RingConsistent' /\ WorkerKeepsEntry'
    <3>1. CASE WorkerWait \/ WorkerExit
      BY <3>1, RingUntouched DEF WorkerWait, WorkerExit, RingInv
    <3>2. CASE WorkerTake
      BY <3>2, TakeKeepsRing
    <3>3. CASE WorkerHash
      BY <3>3 DEF WorkerHash, RingInv, TypeOK, WorkerJob, RingConsistent,
                  WorkerKeepsEntry, Cell, ring
    <3>4. CASE WorkerPost
      BY <3>4, PostKeepsRing
    <3> QED
      BY <1>3, <3>1, <3>2, <3>3, <3>4 DEF WorkerStep
  <2> QED
    BY <1>3, <2>1, WorkerStepTypes, WorkerStepRoom DEF RingInv
<1>4. CASE SpuriousWakeup
  BY <1>4 DEF SpuriousWakeup, RingInv, TypeOK, RingConsistent,
              WorkerKeepsEntry, PutHasRoom, JobsHaveBuffers, Cell, ring, mode,
              slots, call
<1>5. CASE UNCHANGED vars
  BY <1>5 DEF vars, RingInv, TypeOK, RingConsistent, WorkerKeepsEntry,
              PutHasRoom, JobsHaveBuffers, Cell, ring, mode, slots, call
<1> QED
  BY <1>1, <1>2, <1>3, <1>4, <1>5 DEF Next, Dead

LEMMA RingInvHolds == Spec => []RingInv
BY RingInvInit, RingInvStep, PTL DEF Spec

\* Type correctness of the hash pipeline, for every ring and pool size.
THEOREM TypeCorrect == Spec => []TypeOK
BY RingInvHolds, PTL DEF RingInv

\* The finished entries are exactly the first hash_q_hashed of the ring.
THEOREM RingIsConsistent == Spec => []RingConsistent
BY RingInvHolds, PTL DEF RingInv

\* The entry the worker hashes outside the lock is not popped or reused.
THEOREM WorkerEntryIsKept == Spec => []WorkerKeepsEntry
BY RingInvHolds, PTL DEF RingInv

\* hash_enqueue never writes into an occupied entry.
THEOREM PutNeverOverwrites == Spec => []PutHasRoom
BY RingInvHolds, PTL DEF RingInv

----------------------------------------------------------------------------
(***************************************************************************)
(* What the ring discipline above buys, for every number of                *)
(* pieces, ring size and pool size: every piece buffer has one owner, a    *)
(* piece in state HASHING has a job in flight, a piece marked DONE is on   *)
(* the storage, and piece_mgr_destroy leaves no verdict unapplied.         *)
(*                                                                         *)
(* The four are proved together, because each step of one rests on the     *)
(* others: a verdict stays true only while nobody else writes the buffer   *)
(* (Apart), the buffer of a rejected piece returns to an empty slot        *)
(* (HashingSlotIsEmpty), and destroy frees each buffer once because the    *)
(* ring is empty by then (ModeInv).                                        *)
(***************************************************************************)

\* The ring seen from its head: Entries[k] is the k-th oldest job.
Entries == [k \in Cells |-> hash_q[Cell(k)]]

Offsets == 0 .. hash_q_count - 1
PoolIdx == 1 .. Len(buf_pool)

\* hash_enqueue is in progress for piece cur, perhaps applying the head first.
Enqueuing == \/ tpc \in {"spawn", "inline", "enq", "enq_wait", "enq_woken", "enq_put"}
             \/ tpc = "apply" /\ ret = "enq_put"

\* Which control states have a worker, and how far destroy has got: after the
\* flush nothing is unhashed, after the drain nothing is queued.
ModeInv ==
  /\ hash_started \/ tpc = "spawn" => hash_ok
  /\ tpc \in {"enq", "enq_wait", "enq_woken", "enq_put", "apply", "drain",
              "flush", "flush_wait", "stop", "join"} => hash_started
  /\ tpc \in {"spawn", "inline", "free", "dead"} => ~hash_started
  /\ ~hash_started => hash_q_count = 0
  /\ closing => tpc \in {"flush", "flush_wait", "drain", "apply", "stop",
                         "join", "free", "dead"}
  /\ closing /\ tpc = "apply" => ret = "drain"
  /\ closing /\ tpc \in {"drain", "apply"} => hash_q_hashed = hash_q_count
  /\ tpc \in {"stop", "join", "free", "dead"} => closing /\ hash_q_count = 0

\* The piece being enqueued is still open, with bytes that are its own or junk;
\* a piece whose job is in flight has no second buffer in its slot.
SlotInv ==
  /\ \A p \in Pieces : slot[p] = "HASHING" => slotbuf[p] = NULL
  /\ Enqueuing => slot[cur] = "open" /\ content[slotbuf[cur]] \in {cur, Junk}

\* Owners hold allocated buffers.
Owned ==
  /\ \A p \in Pieces : slotbuf[p] # NULL => slotbuf[p] \in heap
  /\ \A k \in Offsets : Entries[k].buf \in heap
  /\ tpc = "apply" => hand.buf \in heap
  /\ \A i \in PoolIdx : buf_pool[i] \in heap

\* No two owners hold the same buffer.
Apart ==
  /\ \A p, q \in Pieces : slotbuf[p] # NULL /\ slotbuf[p] = slotbuf[q] => p = q
  /\ \A j, k \in Offsets : Entries[j].buf = Entries[k].buf => j = k
  /\ \A i, j \in PoolIdx : buf_pool[i] = buf_pool[j] => i = j
  /\ \A p \in Pieces : \A k \in Offsets : slotbuf[p] # Entries[k].buf
  /\ \A p \in Pieces : \A i \in PoolIdx : slotbuf[p] # buf_pool[i]
  /\ \A k \in Offsets : \A i \in PoolIdx : Entries[k].buf # buf_pool[i]
  /\ tpc = "apply" => /\ \A p \in Pieces : slotbuf[p] # hand.buf
                      /\ \A k \in Offsets : Entries[k].buf # hand.buf
                      /\ \A i \in PoolIdx : buf_pool[i] # hand.buf

\* Every allocated buffer has an owner.
NoLeak ==
  \A b \in heap : \/ \E p \in Pieces : slotbuf[p] = b
                  \/ \E k \in Offsets : Entries[k].buf = b
                  \/ tpc = "apply" /\ hand.buf = b
                  \/ \E i \in PoolIdx : buf_pool[i] = b

\* A verdict tells whether the buffer still holds the piece's bytes.
VerdictsTrue ==
  /\ \A k \in Offsets : Entries[k].done =>
       (Entries[k].ok <=> content[Entries[k].buf] = Entries[k].idx)
  /\ tpc = "apply" => (hand.ok <=> content[hand.buf] = hand.idx)
  /\ wpc = "post" => (wjob.ok <=> content[wjob.buf] = wjob.idx)

InFlight ==
  \A p \in Pieces : slot[p] = "HASHING" =>
    \/ \E k \in Offsets : Entries[k].idx = p
    \/ tpc = "apply" /\ hand.idx = p

SafeInv == /\ RingInv
           /\ ModeInv
           /\ SlotInv
           /\ Owned
           /\ Apart
           /\ NoLeak
           /\ VerdictsTrue
           /\ InFlight
           /\ DoneIsOnDisk
----------------------------------------------------------------------------
(* How each kind of step moves the jobs of the ring.                       *)

LEMMA EntriesType ==
  ASSUME RingInv
  PROVE  /\ Entries \in [Cells -> Job]
         /\ Offsets \subseteq Cells
         /\ \A k \in Offsets : Entries[k] = hash_q[Cell(k)]
         /\ \A k \in Offsets : Entries[k].buf \in Bufs
         /\ \A k \in Offsets : Entries[k].done <=> k < hash_q_hashed
<1> USE RingAssumption DEF RingInv
<1>1. hash_q_count \in 0 .. QMax /\ hash_q_head \in 0 .. QMax - 1
  BY DEF TypeOK, Cells
<1>2. Offsets \subseteq Cells
  BY <1>1 DEF Offsets, Cells
<1>3. \A k \in Cells : Cell(k) \in Cells
  BY <1>1, CellWrap DEF Cell, Cells
<1>4. Entries \in [Cells -> Job]
  BY <1>3 DEF Entries, TypeOK
<1>5. \A k \in Offsets : Entries[k] = hash_q[Cell(k)]
  BY <1>2 DEF Entries
<1> QED
  BY <1>2, <1>4, <1>5 DEF JobsHaveBuffers, RingConsistent, Offsets

\* A pop hands over the oldest job and moves the others up by one.
LEMMA PopMoves ==
  ASSUME RingInv, PopHead, HeadDone, hash_q_count # 0
  PROVE  /\ hash_q_count \in 1 .. QMax
         /\ hash_q_count' = hash_q_count - 1
         /\ hash_q_hashed' = hash_q_hashed - 1
         /\ hand' = Entries[0] /\ Entries[0].done
         /\ \A k \in Offsets' : k + 1 \in Offsets /\ Entries'[k] = Entries[k + 1]
<1> USE RingAssumption
<1>1. /\ hash_q' = hash_q
      /\ hash_q_count' = hash_q_count - 1
      /\ hash_q_hashed' = hash_q_hashed - 1
      /\ \A k \in 0 .. QMax - 1 : (hash_q_head' + k) % QMax = Cell(k + 1)
  BY PopHeadTypes
<1>2. hash_q_count \in 1 .. QMax /\ hash_q_head \in 0 .. QMax - 1
  BY DEF RingInv, TypeOK, Cells
<1>3. Cell(0) = hash_q_head /\ 0 \in Cells
  BY <1>2, CellZero DEF Cell, Cells
<1>4. Entries[0] = hash_q[hash_q_head]
  BY <1>3 DEF Entries
<1>5. ASSUME NEW k \in Offsets'
      PROVE  k + 1 \in Offsets /\ Entries'[k] = Entries[k + 1]
  <2>1. k \in Cells /\ k + 1 \in Cells /\ k + 1 \in Offsets
    BY <1>1, <1>2 DEF Offsets, Cells
  <2>2. Entries'[k] = hash_q'[(hash_q_head' + k) % QMax]
    BY <2>1 DEF Entries, Cell
  <2>3. Entries[k + 1] = hash_q[Cell(k + 1)]
    BY <2>1 DEF Entries
  <2> QED
    BY <1>1, <2>1, <2>2, <2>3 DEF Cells
<1> QED
  BY <1>1, <1>2, <1>4, <1>5 DEF PopHead, HeadDone

\* hash_enqueue appends cur's job and leaves the others where they are.
LEMMA PutMoves ==
  ASSUME RingInv, EnqueuePut
  PROVE  /\ hash_q_count \in 0 .. QMax - 1
         /\ hash_q_count' = hash_q_count + 1
         /\ Entries'[hash_q_count] = NewJob
         /\ \A k \in Offsets : Entries'[k] = Entries[k]
<1> USE RingAssumption DEF RingInv
<1>1. hash_q_count \in 0 .. QMax - 1 /\ hash_q_head \in 0 .. QMax - 1
  BY DEF EnqueuePut, PutHasRoom, TypeOK, Cells
<1>2. /\ hash_q' = [hash_q EXCEPT ![Cell(hash_q_count)] = NewJob]
      /\ hash_q_count' = hash_q_count + 1 /\ hash_q_head' = hash_q_head
  BY DEF EnqueuePut
<1>3. \A k \in Cells : Cell(k)' = Cell(k) /\ Cell(k) \in Cells
  BY <1>1, <1>2, CellWrap DEF Cell, Cells
<1>4. \A k \in Cells : Entries[k] = hash_q[Cell(k)] /\ Entries'[k] = hash_q'[Cell(k)]
  BY <1>3 DEF Entries
<1>5. hash_q_count \in Cells
  BY <1>1 DEF Cells
<1>6. Entries'[hash_q_count] = NewJob
  BY <1>2, <1>3, <1>4, <1>5 DEF TypeOK
<1>7. ASSUME NEW k \in Offsets PROVE Entries'[k] = Entries[k]
  <2>1. k \in Cells /\ k # hash_q_count
    BY <1>1 DEF Cells, Offsets
  <2>2. Cell(k) # Cell(hash_q_count)
    BY <1>1, <1>5, <2>1, CellInjective DEF Cell, Cells
  <2> QED
    BY <1>2, <1>3, <1>4, <2>1, <2>2 DEF TypeOK
<1> QED
  BY <1>1, <1>2, <1>6, <1>7

\* The worker changes nothing but the verdict of its own entry.
LEMMA PostMoves ==
  ASSUME RingInv, WorkerPost
  PROVE  /\ hash_q_hashed \in Offsets
         /\ Offsets' = Offsets
         /\ Entries[hash_q_hashed].idx = wjob.idx
         /\ Entries[hash_q_hashed].buf = wjob.buf
         /\ Entries'[hash_q_hashed].ok = wjob.ok
         /\ \A k \in Offsets : /\ Entries'[k].idx = Entries[k].idx
                               /\ Entries'[k].buf = Entries[k].buf
                               /\ k # hash_q_hashed => Entries'[k] = Entries[k]
<1> USE RingAssumption DEF RingInv
<1>1. /\ hash_q_head \in 0 .. QMax - 1 /\ hash_q_count \in 0 .. QMax
      /\ hash_q_hashed \in 0 .. hash_q_count - 1
      /\ wjob.pos = Cell(hash_q_hashed)
      /\ hash_q[wjob.pos].idx = wjob.idx
      /\ hash_q[wjob.pos].buf = wjob.buf
  BY DEF WorkerPost, WorkerKeepsEntry, TypeOK, Cells
<1>2. /\ hash_q' = [hash_q EXCEPT ![wjob.pos].ok = wjob.ok, ![wjob.pos].done = TRUE]
      /\ hash_q_count' = hash_q_count /\ hash_q_head' = hash_q_head
  BY DEF WorkerPost
<1>3. \A k \in Cells : Cell(k)' = Cell(k) /\ Cell(k) \in Cells
  BY <1>1, <1>2, CellWrap DEF Cell, Cells
<1>4. \A k \in Cells : Entries[k] = hash_q[Cell(k)] /\ Entries'[k] = hash_q'[Cell(k)]
  BY <1>3 DEF Entries
<1>5. hash_q_hashed \in Cells /\ Offsets \subseteq Cells /\ hash_q_hashed \in Offsets
  BY <1>1 DEF Cells, Offsets
<1>6. /\ Entries'[hash_q_hashed].ok = wjob.ok
      /\ Entries'[hash_q_hashed].idx = Entries[hash_q_hashed].idx
      /\ Entries'[hash_q_hashed].buf = Entries[hash_q_hashed].buf
  BY <1>1, <1>2, <1>3, <1>4, <1>5 DEF TypeOK, Job
<1>7. ASSUME NEW k \in Offsets, k # hash_q_hashed PROVE Entries'[k] = Entries[k]
  <2>1. k \in Cells
    BY <1>5
  <2>2. Cell(k) # Cell(hash_q_hashed)
    BY <1>1, <1>5, <1>7, <2>1, CellInjective DEF Cell, Cells
  <2> QED
    BY <1>1, <1>2, <1>3, <1>4, <2>1, <2>2 DEF TypeOK
<1>8. Offsets' = Offsets
  BY <1>2 DEF Offsets
<1> QED
  BY <1>1, <1>4, <1>5, <1>6, <1>7, <1>8

\* A step that leaves the ring alone leaves its entries alone.
LEMMA EntriesUnchanged ==
  ASSUME UNCHANGED <<hash_q, hash_q_head, hash_q_count>>
  PROVE  Entries' = Entries /\ Offsets' = Offsets
BY DEF Entries, Offsets, Cell

\* The stack without its top element.
LEMMA StackPop ==
  ASSUME NEW S, NEW s \in Seq(S), NEW n \in Nat, n = Len(s), n # 0
  PROVE  /\ Len(SubSeq(s, 1, n - 1)) = n - 1
         /\ \A i \in 1 .. n - 1 : SubSeq(s, 1, n - 1)[i] = s[i]
OBVIOUS

\* The buffer pool is a stack: piece_buf_get pops its top or allocates ...
LEMMA BufGetMoves ==
  ASSUME TypeOK, NEW b \in Bufs, BufGet(b)
  PROVE  \/ /\ heap' = heap
            /\ Len(buf_pool) \in PoolIdx /\ b = buf_pool[Len(buf_pool)]
            /\ PoolIdx' = PoolIdx \ {Len(buf_pool)}
            /\ \A i \in PoolIdx' : buf_pool'[i] = buf_pool[i]
         \/ /\ b \notin heap /\ heap' = heap \cup {b}
            /\ buf_pool' = buf_pool /\ PoolIdx' = PoolIdx
<1>1. CASE buf_pool # <<>>
  <2> DEFINE n == Len(buf_pool)
  <2>1. n \in Nat \ {0}
    BY <1>1 DEF TypeOK
  <2>2. buf_pool' = SubSeq(buf_pool, 1, n - 1) /\ heap' = heap /\ b = buf_pool[n]
    BY <1>1 DEF BufGet
  <2>3. Len(buf_pool') = n - 1 /\ \A i \in 1 .. n - 1 : buf_pool'[i] = buf_pool[i]
    BY <2>1, <2>2, StackPop DEF TypeOK
  <2> QED
    BY <2>1, <2>2, <2>3 DEF PoolIdx
<1>2. CASE buf_pool = <<>>
  BY <1>2 DEF BufGet, PoolIdx
<1> QED
  BY <1>1, <1>2

\* ... and piece_buf_put pushes the buffer or frees it.
LEMMA BufPutMoves ==
  ASSUME TypeOK, NEW b \in Bufs, BufPut(b)
  PROVE  \/ /\ heap' = heap /\ content' = content
            /\ Len(buf_pool) + 1 \notin PoolIdx
            /\ PoolIdx' = PoolIdx \cup {Len(buf_pool) + 1}
            /\ buf_pool'[Len(buf_pool) + 1] = b
            /\ \A i \in PoolIdx : buf_pool'[i] = buf_pool[i]
         \/ /\ heap' = heap \ {b} /\ content' = [content EXCEPT ![b] = Junk]
            /\ buf_pool' = buf_pool /\ PoolIdx' = PoolIdx
<1>1. CASE Len(buf_pool) < PoolMax
  <2> DEFINE n == Len(buf_pool)
  <2>1. n \in Nat
    BY DEF TypeOK
  <2>2. buf_pool' = Append(buf_pool, b) /\ heap' = heap /\ content' = content
    BY <1>1 DEF BufPut
  <2>3. /\ Len(buf_pool') = n + 1 /\ buf_pool'[n + 1] = b
        /\ \A i \in 1 .. n : buf_pool'[i] = buf_pool[i]
    BY <2>1, <2>2 DEF TypeOK
  <2> QED
    BY <2>1, <2>2, <2>3 DEF PoolIdx
<1>2. CASE ~(Len(buf_pool) < PoolMax)
  BY <1>2 DEF BufPut, PoolIdx
<1> QED
  BY <1>1, <1>2

----------------------------------------------------------------------------
LEMMA SafeInvInit == Init => SafeInv
<1> SUFFICES ASSUME Init PROVE SafeInv
  OBVIOUS
<1>1. RingInv
  BY RingInvInit
<1>2. Offsets = {} /\ PoolIdx = {}
  BY DEF Init, Offsets, PoolIdx
<1>3. ModeInv /\ SlotInv /\ VerdictsTrue /\ InFlight /\ DoneIsOnDisk
  BY <1>2 DEF Init, ModeInv, SlotInv, Enqueuing, VerdictsTrue, InFlight, DoneIsOnDisk
<1>4. Owned /\ Apart /\ NoLeak
  BY <1>2 DEF Init, Owned, Apart, NoLeak
<1> QED
  BY <1>1, <1>3, <1>4 DEF SafeInv

----------------------------------------------------------------------------
(* Control states.                                                         *)

\* Destroy leaves its drain only with an empty ring: what is queued has been
\* hashed, so an unfinished head means no head at all.
LEMMA ClosingDrainIsEmpty ==
  ASSUME SafeInv, DrainReturn, closing PROVE hash_q_count = 0
<1>1. hash_q_hashed = hash_q_count /\ hash_q_count \in Nat
  BY DEF SafeInv, ModeInv, DrainReturn, RingInv, TypeOK
<1>2. ASSUME hash_q_count # 0 PROVE FALSE
  <2>1. 0 \in Offsets
    BY <1>1, <1>2 DEF Offsets
  <2>2. hash_q[Cell(0)].done
    BY <1>1, <2>1, EntriesType DEF SafeInv, Offsets
  <2>3. Cell(0) = hash_q_head
    BY CellZero, RingAssumption DEF Cell, SafeInv, RingInv, TypeOK, Cells
  <2> QED
    BY <1>2, <2>2, <2>3 DEF DrainReturn, HeadDone
<1> QED
  BY <1>2

LEMMA ModeInvStep == ASSUME SafeInv, [Next]_vars PROVE ModeInv'
<1> USE DEF SafeInv, ModeInv
<1>1. CASE Calls
  BY <1>1 DEF Calls, MarkPending, GotLastBlock, HashPath, DrainCall, FlushCall,
              CheckExisting, DestroyCall, ring, mode, call
<1>2. CASE TorrentStep
  <2>1. CASE SpawnWorker \/ InlineHash \/ EnqueueWait \/ EnqueuePut
    <3>1. CASE SpawnWorker
      <4>1. tpc = "spawn" /\ ~closing /\ hash_ok /\ hash_q_count = 0
        BY <3>1 DEF SpawnWorker
      <4>2. UNCHANGED <<closing, hash_q_count>>
        BY <3>1 DEF SpawnWorker, ring, call
      <4>3. \/ hash_started' /\ hash_ok' /\ tpc' = "enq"
            \/ ~hash_started' /\ tpc' = "inline"
        BY <3>1, <4>1, Zenon DEF SpawnWorker
      <4> QED
        BY <4>1, <4>2, <4>3
    <3>2. CASE InlineHash \/ EnqueueWait \/ EnqueuePut
      BY <3>2 DEF InlineHash, EnqueueWait, EnqueuePut, ring, mode, call
    <3> QED
      BY <2>1, <3>1, <3>2
  <2>2. CASE EnqueuePop
    <3>1. hash_q_count # 0
      BY <2>2, RingAssumption DEF EnqueuePop, PutHasRoom, RingInv
    <3> QED
      BY <2>2, <3>1, PopMoves DEF EnqueuePop, mode
  <2>3. CASE DrainPop
    BY <2>3, PopMoves DEF DrainPop, mode
  <2>4. CASE HashApply
    BY <2>4 DEF HashApply, ring, mode, RingInv, TypeOK
  <2>5. CASE DrainReturn
    BY <2>5, ClosingDrainIsEmpty DEF DrainReturn, ring, mode, call
  <2>6. CASE FlushWait
    BY <2>6 DEF FlushWait, ring, mode, call, RingInv, RingConsistent, TypeOK
  <2>7. CASE DestroyStop \/ DestroyJoin \/ DestroyFree
    BY <2>7 DEF DestroyStop, DestroyJoin, DestroyFree, ring, mode, call
  <2> QED
    BY <1>2, <2>1, <2>2, <2>3, <2>4, <2>5, <2>6, <2>7 DEF TorrentStep
<1>3. CASE WorkerStep
  <2>1. CASE WorkerPost
    <3>1. hash_q_hashed < hash_q_count
      BY <2>1 DEF WorkerPost, RingInv, WorkerKeepsEntry
    <3> QED
      BY <2>1, <3>1 DEF WorkerPost, SignalTorrent, mode, call, RingInv, TypeOK
  <2>2. CASE WorkerWait \/ WorkerExit \/ WorkerTake \/ WorkerHash
    BY <2>2 DEF WorkerWait, WorkerExit, WorkerTake, WorkerHash, ring, mode, call
  <2> QED
    BY <1>3, <2>1, <2>2 DEF WorkerStep
<1>4. CASE SpuriousWakeup
  BY <1>4 DEF SpuriousWakeup, ring, mode, call
<1>5. CASE UNCHANGED vars
  BY <1>5 DEF vars, ring, mode, call
<1> QED
  BY <1>1, <1>2, <1>3, <1>4, <1>5 DEF Next, Dead

----------------------------------------------------------------------------
(* Ownership of the piece buffers: each action that moves a buffer.        *)

OwnInv == Owned /\ Apart /\ NoLeak

\* Nothing that owns a buffer changes.
LEMMA OwnersUnchanged ==
  ASSUME OwnInv, UNCHANGED <<slotbuf, buf_pool, heap, Entries, Offsets>>,
         \/ tpc # "apply" /\ tpc' # "apply"
         \/ UNCHANGED <<tpc, hand>>
  PROVE  OwnInv'
<1>1. PoolIdx' = PoolIdx
  BY DEF PoolIdx
<1> QED
  BY <1>1 DEF OwnInv, Owned, Apart, NoLeak

\* The first request moves a buffer from the pool or the allocator to a slot.
LEMMA MarkPendingOwn ==
  ASSUME SafeInv, OwnInv, NEW p \in Pieces, MarkPending(p) PROVE OwnInv'
<1> USE RingAssumption
<1>1. PICK b \in Bufs : BufGet(b) /\ slotbuf' = [slotbuf EXCEPT ![p] = b]
  BY DEF MarkPending
<1>2. /\ tpc = "run" /\ tpc' = "run" /\ slotbuf[p] = NULL
      /\ Entries' = Entries /\ Offsets' = Offsets
  BY EntriesUnchanged DEF MarkPending, ring
<1>3. /\ slotbuf \in [Pieces -> Bufs \cup {NULL}] /\ b # NULL
      /\ slotbuf'[p] = b /\ \A q \in Pieces : q # p => slotbuf'[q] = slotbuf[q]
  BY <1>1 DEF SafeInv, RingInv, TypeOK
<1>4. \/ /\ heap' = heap
         /\ Len(buf_pool) \in PoolIdx /\ b = buf_pool[Len(buf_pool)]
         /\ PoolIdx' = PoolIdx \ {Len(buf_pool)}
         /\ \A i \in PoolIdx' : buf_pool'[i] = buf_pool[i]
      \/ /\ b \notin heap /\ heap' = heap \cup {b}
         /\ buf_pool' = buf_pool /\ PoolIdx' = PoolIdx
  BY <1>1, BufGetMoves DEF SafeInv, RingInv
<1>5. Owned'
  BY <1>2, <1>3, <1>4 DEF OwnInv, Owned
<1>6. Apart'
  BY <1>2, <1>3, <1>4 DEF OwnInv, Owned, Apart
<1>7. NoLeak'
  <2>1. NULL \notin heap
    BY DEF SafeInv, RingInv, TypeOK
  <2> QED
    BY <1>2, <1>3, <1>4, <2>1 DEF OwnInv, NoLeak
<1> QED
  BY <1>5, <1>6, <1>7 DEF OwnInv

\* hash_enqueue moves the buffer from the slot of cur to the tail of the ring.
LEMMA EnqueuePutOwn == ASSUME SafeInv, OwnInv, EnqueuePut PROVE OwnInv'
<1> USE RingAssumption
<1>1. /\ hash_q_count \in 0 .. QMax - 1 /\ hash_q_count' = hash_q_count + 1
      /\ Entries'[hash_q_count] = NewJob
      /\ \A k \in Offsets : Entries'[k] = Entries[k]
  BY PutMoves DEF SafeInv
<1>2. Offsets' = Offsets \cup {hash_q_count} /\ hash_q_count \notin Offsets
  BY <1>1 DEF Offsets
<1>3. /\ tpc # "apply" /\ tpc' # "apply"
      /\ UNCHANGED <<heap, buf_pool>> /\ PoolIdx' = PoolIdx
      /\ slotbuf' = [slotbuf EXCEPT ![cur] = NULL]
  BY DEF EnqueuePut, PoolIdx
<1>4. slotbuf[cur] \in Bufs /\ cur \in Pieces /\ slotbuf \in [Pieces -> Bufs \cup {NULL}]
  BY DEF EnqueuePut, SafeInv, RingInv, JobsHaveBuffers, TypeOK
<1>5. Entries'[hash_q_count].buf = slotbuf[cur]
  BY <1>1 DEF NewJob
<1>6. /\ slotbuf'[cur] = NULL /\ slotbuf[cur] # NULL
      /\ \A q \in Pieces : q # cur => slotbuf'[q] = slotbuf[q]
      /\ \A k \in Offsets : Entries[k].buf \in Bufs
      /\ \A i \in PoolIdx : buf_pool[i] \in Bufs
  BY <1>3, <1>4, EntriesType DEF SafeInv, RingInv, TypeOK, PoolIdx
<1>7. Owned'
  BY <1>1, <1>2, <1>3, <1>4, <1>5, <1>6 DEF OwnInv, Owned
<1>8. Apart'
  BY <1>1, <1>2, <1>3, <1>4, <1>5, <1>6 DEF OwnInv, Apart
<1>9. NoLeak'
  BY <1>1, <1>2, <1>3, <1>4, <1>5, <1>6 DEF OwnInv, NoLeak
<1> QED
  BY <1>7, <1>8, <1>9 DEF OwnInv

\* A pop moves the head's buffer from the ring to the job being applied.
LEMMA PopOwn ==
  ASSUME SafeInv, OwnInv, PopHead, HeadDone, hash_q_count # 0, tpc # "apply",
         tpc' = "apply", UNCHANGED slots
  PROVE  OwnInv'
<1>1. /\ hash_q_count \in 1 .. QMax /\ hash_q_count' = hash_q_count - 1
      /\ hand' = Entries[0]
      /\ \A k \in Offsets' : k + 1 \in Offsets /\ Entries'[k] = Entries[k + 1]
  BY PopMoves DEF SafeInv
<1>2. /\ 0 \in Offsets
      /\ \A k \in Offsets : k # 0 => k - 1 \in Offsets' /\ (k - 1) + 1 = k
      /\ \A k \in Offsets' : k + 1 # 0 /\ k \in Int
  BY <1>1 DEF Offsets
<1>3. UNCHANGED <<slotbuf, heap, buf_pool>> /\ PoolIdx' = PoolIdx
  BY DEF slots, PoolIdx
<1>4. Owned'
  BY <1>1, <1>2, <1>3 DEF OwnInv, Owned
<1>5. Apart'
  BY <1>1, <1>2, <1>3 DEF OwnInv, Apart
<1>6. NoLeak'
  <2> SUFFICES ASSUME NEW k \in Offsets, k # 0
               PROVE  \E j \in Offsets' : Entries'[j].buf = Entries[k].buf
    BY <1>1, <1>2, <1>3 DEF OwnInv, NoLeak
  <2> QED
    BY <1>1, <1>2
<1> QED
  BY <1>4, <1>5, <1>6 DEF OwnInv

\* A buffer given back from the slot of cur or from the applied job.
LEMMA InlineHashOwn == ASSUME SafeInv, OwnInv, InlineHash PROVE OwnInv'
<1> USE RingAssumption
<1>1. /\ tpc # "apply" /\ tpc' # "apply"
      /\ Entries' = Entries /\ Offsets' = Offsets
  BY EntriesUnchanged DEF InlineHash, ring
<1>2. slotbuf[cur] \in Bufs /\ cur \in Pieces /\ slotbuf \in [Pieces -> Bufs \cup {NULL}]
  BY DEF InlineHash, SafeInv, RingInv, JobsHaveBuffers, TypeOK
<1>3. CASE UNCHANGED <<slotbuf, buf_pool, heap>>
  BY <1>1, <1>3, OwnersUnchanged
<1>4. CASE BufPut(slotbuf[cur]) /\ slotbuf' = [slotbuf EXCEPT ![cur] = NULL]
  <2> DEFINE b == slotbuf[cur]
             n == Len(buf_pool) + 1
  <2>1. \/ /\ heap' = heap
           /\ n \notin PoolIdx /\ PoolIdx' = PoolIdx \cup {n} /\ buf_pool'[n] = b
           /\ \A i \in PoolIdx : buf_pool'[i] = buf_pool[i]
        \/ heap' = heap \ {b} /\ buf_pool' = buf_pool /\ PoolIdx' = PoolIdx
    BY <1>2, <1>4, BufPutMoves DEF SafeInv, RingInv
  <2>2. /\ slotbuf'[cur] = NULL /\ b # NULL
        /\ \A q \in Pieces : q # cur => slotbuf'[q] = slotbuf[q]
        /\ \A k \in Offsets : Entries[k].buf # NULL
        /\ \A i \in PoolIdx : buf_pool[i] # NULL
    BY <1>2, <1>4, EntriesType DEF SafeInv, RingInv, TypeOK, PoolIdx
  <2> HIDE DEF b, n
  <2>3. b = slotbuf[cur]
    BY DEF b
  <2>4. Owned'
    BY <1>1, <1>2, <2>1, <2>2, <2>3 DEF OwnInv, Owned, Apart
  <2>5. Apart'
    BY <1>1, <1>2, <2>1, <2>2, <2>3 DEF OwnInv, Apart
  <2>6. NoLeak'
    BY <1>1, <1>2, <2>1, <2>2, <2>3 DEF OwnInv, NoLeak
  <2> QED
    BY <2>4, <2>5, <2>6 DEF OwnInv
<1> QED
  BY <1>3, <1>4 DEF InlineHash

LEMMA HashApplyOwn == ASSUME SafeInv, OwnInv, HashApply PROVE OwnInv'
<1> USE RingAssumption
<1>1. /\ tpc = "apply" /\ tpc' # "apply"
      /\ Entries' = Entries /\ Offsets' = Offsets
  BY EntriesUnchanged DEF HashApply, ring, SafeInv, RingInv, TypeOK
<1>2. /\ hand.buf \in Bufs /\ hand.idx \in Pieces
      /\ slotbuf \in [Pieces -> Bufs \cup {NULL}]
  BY DEF HashApply, SafeInv, RingInv, JobsHaveBuffers, TypeOK, Job
<1>3. CASE BufPut(hand.buf) /\ UNCHANGED slotbuf
  <2> DEFINE b == hand.buf
             n == Len(buf_pool) + 1
  <2>1. \/ /\ heap' = heap
           /\ n \notin PoolIdx /\ PoolIdx' = PoolIdx \cup {n} /\ buf_pool'[n] = b
           /\ \A i \in PoolIdx : buf_pool'[i] = buf_pool[i]
        \/ heap' = heap \ {b} /\ buf_pool' = buf_pool /\ PoolIdx' = PoolIdx
    BY <1>2, <1>3, BufPutMoves DEF SafeInv, RingInv
  <2>2. b = hand.buf
    OBVIOUS
  <2> HIDE DEF b, n
  <2>3. Owned'
    BY <1>1, <1>2, <1>3, <2>1, <2>2 DEF OwnInv, Owned, Apart
  <2>4. Apart'
    BY <1>1, <1>2, <1>3, <2>1, <2>2 DEF OwnInv, Apart
  <2>5. NoLeak'
    BY <1>1, <1>2, <1>3, <2>1, <2>2 DEF OwnInv, NoLeak
  <2> QED
    BY <2>3, <2>4, <2>5 DEF OwnInv
<1>4. CASE /\ slot[hand.idx] = "HASHING"
           /\ slotbuf' = [slotbuf EXCEPT ![hand.idx] = hand.buf]
           /\ UNCHANGED <<buf_pool, heap>>
  <2>1. /\ slotbuf[hand.idx] = NULL /\ PoolIdx' = PoolIdx
        /\ slotbuf'[hand.idx] = hand.buf
        /\ \A q \in Pieces : q # hand.idx => slotbuf'[q] = slotbuf[q]
    BY <1>2, <1>4 DEF SafeInv, SlotInv, PoolIdx
  <2>2. Owned'
    BY <1>1, <1>2, <1>4, <2>1 DEF OwnInv, Owned
  <2>3. Apart'
    BY <1>1, <1>2, <1>4, <2>1 DEF OwnInv, Apart
  <2>4. NoLeak'
    <3>0. NULL \notin heap
      BY DEF SafeInv, RingInv, TypeOK
    <3> QED
      BY <1>1, <1>2, <1>4, <2>1, <3>0 DEF OwnInv, NoLeak
  <2> QED
    BY <2>2, <2>3, <2>4 DEF OwnInv
<1> QED
  BY <1>3, <1>4 DEF HashApply

\* Destroy frees each buffer once and forgets all of them.
LEMMA DestroyFreeOwn == ASSUME SafeInv, OwnInv, DestroyFree PROVE OwnInv'
<1>1. Offsets = {} /\ Offsets' = {} /\ PoolIdx' = {}
  BY DEF DestroyFree, SafeInv, ModeInv, Offsets, PoolIdx, ring
<1>2. tpc # "apply" /\ tpc' # "apply" /\ \A p \in Pieces : slotbuf'[p] = NULL
  BY DEF DestroyFree
<1>3. heap' = {}
  <2>1. heap \subseteq {slotbuf[p] : p \in Pieces}
                       \cup {buf_pool[i] : i \in 1 .. Len(buf_pool)}
    BY <1>1, <1>2 DEF OwnInv, NoLeak, PoolIdx
  <2> QED
    BY <2>1 DEF DestroyFree
<1> QED
  BY <1>1, <1>2, <1>3 DEF OwnInv, Owned, Apart, NoLeak

\* The worker changes no buffer pointer.
LEMMA WorkerPostOwn == ASSUME SafeInv, OwnInv, WorkerPost PROVE OwnInv'
<1>1. Offsets' = Offsets /\ \A k \in Offsets : Entries'[k].buf = Entries[k].buf
  BY PostMoves DEF SafeInv
<1>2. /\ UNCHANGED <<slotbuf, buf_pool, heap, hand>> /\ PoolIdx' = PoolIdx
      /\ tpc' = "apply" <=> tpc = "apply"
  BY DEF WorkerPost, SignalTorrent, slots, call, PoolIdx
<1> QED
  BY <1>1, <1>2 DEF OwnInv, Owned, Apart, NoLeak

LEMMA OwnInvStep == ASSUME SafeInv, [Next]_vars PROVE OwnInv'
<1> OwnInv
  BY DEF SafeInv, OwnInv
<1>1. ASSUME UNCHANGED ring, UNCHANGED <<slotbuf, buf_pool, heap>>,
             \/ tpc # "apply" /\ tpc' # "apply"
             \/ UNCHANGED <<tpc, hand>>
      PROVE  OwnInv'
  <2>1. Entries' = Entries /\ Offsets' = Offsets
    BY <1>1, EntriesUnchanged DEF ring
  <2> QED
    BY <1>1, <2>1, OwnersUnchanged
<1>2. CASE Calls
  <2>1. ASSUME NEW p \in Pieces, MarkPending(p) PROVE OwnInv'
    BY <2>1, MarkPendingOwn
  <2>2. ASSUME NEW p \in Pieces, NEW d \in {p, Junk}, GotLastBlock(p, d) PROVE OwnInv'
    BY <1>1, <2>2 DEF GotLastBlock, HashPath
  <2>3. CASE DrainCall \/ FlushCall \/ CheckExisting \/ DestroyCall
    BY <1>1, <2>3 DEF DrainCall, FlushCall, CheckExisting, DestroyCall, slots
  <2> QED
    BY <1>2, <2>1, <2>2, <2>3 DEF Calls
<1>3. CASE TorrentStep
  <2>1. CASE SpawnWorker \/ EnqueueWait \/ DrainReturn \/ FlushWait \/ DestroyJoin
    BY <1>1, <2>1 DEF SpawnWorker, EnqueueWait, DrainReturn, FlushWait, DestroyJoin, slots
  <2>2. CASE EnqueuePop
    <3>1. hash_q_count # 0
      BY <2>2, RingAssumption DEF EnqueuePop, PutHasRoom, SafeInv, RingInv
    <3> QED
      BY <2>2, <3>1, PopOwn DEF EnqueuePop
  <2>3. CASE DrainPop
    BY <2>3, PopOwn DEF DrainPop
  <2>4. CASE DestroyStop
    <3>1. Entries' = Entries /\ Offsets' = Offsets
      BY <2>4, EntriesUnchanged DEF DestroyStop
    <3> QED
      BY <2>4, <3>1, OwnersUnchanged DEF DestroyStop, slots
  <2> QED
    BY <1>3, <2>1, <2>2, <2>3, <2>4, InlineHashOwn, EnqueuePutOwn, HashApplyOwn,
       DestroyFreeOwn DEF TorrentStep
<1>4. CASE WorkerStep
  <2>1. CASE WorkerWait \/ WorkerExit \/ WorkerTake \/ WorkerHash
    BY <1>1, <2>1 DEF WorkerWait, WorkerExit, WorkerTake, WorkerHash, slots, call
  <2> QED
    BY <1>4, <2>1, WorkerPostOwn DEF WorkerStep
<1>5. CASE SpuriousWakeup
  BY <1>1, <1>5 DEF SpuriousWakeup, slots, call
<1>6. CASE UNCHANGED vars
  BY <1>1, <1>6 DEF vars, slots, call
<1> QED
  BY <1>2, <1>3, <1>4, <1>5, <1>6 DEF Next, Dead

----------------------------------------------------------------------------
(* Slots, verdicts, jobs in flight and the storage.                        *)

\* The slot being enqueued stays open while a full ring is relieved: the job
\* applied meanwhile belongs to another piece or is dropped.
LEMMA SlotInvStep == ASSUME SafeInv, [Next]_vars PROVE SlotInv'
<1> USE RingAssumption DEF SafeInv, SlotInv
<1>1. ASSUME UNCHANGED <<slot, slotbuf, content>>,
             Enqueuing' => Enqueuing /\ cur' = cur
      PROVE  SlotInv'
  BY <1>1
<1>2. CASE Calls
  <2>1. ASSUME NEW p \in Pieces, MarkPending(p) PROVE SlotInv'
    <3>1. slot[p] = "open" /\ tpc' = "run" /\ slot' = slot
      BY <2>1 DEF MarkPending
    <3>2. \A q \in Pieces : q # p => slotbuf'[q] = slotbuf[q]
      BY <2>1 DEF MarkPending, RingInv, TypeOK
    <3> QED
      BY <3>1, <3>2 DEF Enqueuing
  <2>2. ASSUME NEW p \in Pieces, NEW d \in {p, Junk}, GotLastBlock(p, d) PROVE SlotInv'
    <3>1. slotbuf[p] \in Bufs
      BY <2>2 DEF GotLastBlock, RingInv, TypeOK
    <3>2. content'[slotbuf[p]] = d
      BY <2>2, <3>1 DEF GotLastBlock, RingInv, TypeOK
    <3> QED
      BY <2>2, <3>2 DEF GotLastBlock
  <2>3. CASE DrainCall \/ FlushCall \/ DestroyCall
    BY <1>1, <2>3 DEF DrainCall, FlushCall, DestroyCall, Enqueuing, slots
  <2>4. CASE CheckExisting
    <3>1. \A q \in Pieces : slot'[q] = "HASHING" => slot[q] = "HASHING"
      BY <2>4 DEF CheckExisting, RingInv, TypeOK, Pieces
    <3> QED
      BY <2>4, <3>1 DEF CheckExisting, Enqueuing
  <2> QED
    BY <1>2, <2>1, <2>2, <2>3, <2>4 DEF Calls
<1>3. CASE TorrentStep
  <2>1. CASE SpawnWorker \/ EnqueueWait \/ EnqueuePop \/ DrainPop \/ DrainReturn
             \/ FlushWait \/ DestroyStop \/ DestroyJoin
    <3>1. UNCHANGED <<slot, slotbuf, content>>
      BY <2>1 DEF SpawnWorker, EnqueueWait, EnqueuePop, DrainPop, DrainReturn,
                  FlushWait, DestroyStop, DestroyJoin, slots
    <3>2. Enqueuing' => Enqueuing /\ cur' = cur
      BY <2>1 DEF SpawnWorker, EnqueueWait, EnqueuePop, DrainPop, DrainReturn,
                  FlushWait, DestroyStop, DestroyJoin, Enqueuing, call
    <3> QED
      BY <1>1, <3>1, <3>2
  <2>2. CASE InlineHash
    <3>1. /\ tpc' = "run" /\ slotbuf[cur] \in Bufs
          /\ \A q \in Pieces : /\ slot'[q] = "HASHING" => slot[q] = "HASHING"
                               /\ slotbuf'[q] \in {slotbuf[q], NULL}
      BY <2>2 DEF InlineHash, RingInv, TypeOK, JobsHaveBuffers
    <3> QED
      BY <3>1 DEF Enqueuing
  <2>3. CASE EnqueuePut
    <3>1. /\ tpc' = "run" /\ slotbuf'[cur] = NULL
          /\ \A q \in Pieces : q # cur => slot'[q] = slot[q] /\ slotbuf'[q] = slotbuf[q]
      BY <2>3 DEF EnqueuePut, RingInv, TypeOK
    <3> QED
      BY <3>1 DEF Enqueuing
  <2>4. CASE HashApply
    <3>1. hand.idx \in Pieces /\ hand.buf \in Bufs /\ cur \in Pieces
      BY <2>4 DEF HashApply, RingInv, TypeOK, Job, JobsHaveBuffers
    <3>2. /\ \A q \in Pieces : q # hand.idx => slot'[q] = slot[q] /\ slotbuf'[q] = slotbuf[q]
          /\ slot[hand.idx] # "HASHING" => slot' = slot /\ slotbuf' = slotbuf
          /\ slot'[hand.idx] # "HASHING"
      BY <2>4, <3>1 DEF HashApply, RingInv, TypeOK
    <3>3. \A b \in Bufs : b # hand.buf => content'[b] = content[b]
      BY <2>4, <3>1 DEF HashApply, BufPut, RingInv, TypeOK
    <3>4. ASSUME Enqueuing'
          PROVE  slot'[cur'] = "open" /\ content'[slotbuf'[cur']] \in {cur', Junk}
      <4>1. Enqueuing /\ cur' = cur /\ tpc = "apply" /\ ret = "enq_put"
        BY <2>4, <3>4 DEF HashApply, Enqueuing, RingInv, TypeOK
      <4>2. slot'[cur] = "open" /\ slotbuf'[cur] = slotbuf[cur]
        BY <3>1, <3>2, <4>1
      <4>3. slotbuf[cur] \in Bufs /\ slotbuf[cur] # hand.buf
        BY <3>1, <4>1 DEF Apart, RingInv, JobsHaveBuffers
      <4> QED
        BY <3>3, <4>1, <4>2, <4>3
    <3> QED
      BY <3>1, <3>2, <3>4
  <2>5. CASE DestroyFree
    BY <2>5 DEF DestroyFree, Enqueuing
  <2> QED
    BY <1>3, <2>1, <2>2, <2>3, <2>4, <2>5 DEF TorrentStep
<1>4. CASE WorkerStep \/ SpuriousWakeup
  <2>1. UNCHANGED <<slot, slotbuf, content, cur, ret>>
    BY <1>4 DEF WorkerStep, WorkerWait, WorkerExit, WorkerTake, WorkerHash,
                WorkerPost, SpuriousWakeup, slots, call
  <2>2. tpc' = tpc \/ <<tpc, tpc'>> \in {<<"enq_wait", "enq_woken">>, <<"flush_wait", "flush">>}
    BY <1>4 DEF WorkerStep, WorkerWait, WorkerExit, WorkerTake, WorkerHash,
                WorkerPost, SignalTorrent, SpuriousWakeup
  <2> QED
    BY <1>1, <2>1, <2>2 DEF Enqueuing
<1>5. CASE UNCHANGED vars
  BY <1>1, <1>5 DEF vars, slots, call, Enqueuing
<1> QED
  BY <1>2, <1>3, <1>4, <1>5 DEF Next, Dead

\* A verdict stays true until it is applied: the buffers of queued jobs are
\* written by nobody, because nobody else owns them.
LEMMA VerdictsStep == ASSUME SafeInv, [Next]_vars PROVE VerdictsTrue'
<1> USE RingAssumption DEF SafeInv
<1>0. /\ \A k \in Offsets : Entries[k].buf \in Bufs
      /\ \A k \in Offsets : Entries[k].done <=> k < hash_q_hashed
      /\ \A k \in Offsets : Entries[k] = hash_q[Cell(k)]
  BY EntriesType
<1>1. wpc \in {"hash", "post"} =>
        \E k \in Offsets : Entries[k].buf = wjob.buf /\ Entries[k].idx = wjob.idx
  BY <1>0 DEF RingInv, WorkerKeepsEntry, TypeOK, Offsets
\* Only buffers outside the ring and the applied job are written.
<1>2. ASSUME UNCHANGED <<Entries, Offsets>>,
             \/ tpc # "apply" /\ tpc' # "apply"
             \/ tpc = "apply" /\ tpc' # "apply"
             \/ UNCHANGED <<tpc, hand>>,
             \/ UNCHANGED <<wpc, wjob>>
             \/ wpc' # "post",
             NEW W \in SUBSET Bufs,
             \A b \in Bufs \ W : content'[b] = content[b],
             \A k \in Offsets : Entries[k].buf \notin W,
             tpc' = "apply" => hand.buf \notin W
      PROVE  VerdictsTrue'
  <2>1. \A k \in Offsets : content'[Entries[k].buf] = content[Entries[k].buf]
    BY <1>0, <1>2
  <2>2. wpc = "post" => content'[wjob.buf] = content[wjob.buf]
    BY <1>1, <2>1
  <2>3. tpc' = "apply" => content'[hand.buf] = content[hand.buf] /\ hand' = hand /\ tpc = "apply"
    BY <1>2 DEF RingInv, JobsHaveBuffers
  <2> QED
    BY <1>2, <2>1, <2>2, <2>3 DEF VerdictsTrue
<1>3. ASSUME UNCHANGED <<hash_q, hash_q_head, hash_q_count, content>>,
             \/ tpc # "apply" /\ tpc' # "apply"
             \/ UNCHANGED <<tpc, hand>>,
             \/ UNCHANGED <<wpc, wjob>>
             \/ wpc' # "post"
      PROVE  VerdictsTrue'
  <2>1. Entries' = Entries /\ Offsets' = Offsets
    BY <1>3, EntriesUnchanged
  <2> QED
    BY <1>3, <2>1 DEF VerdictsTrue
<1>4. CASE Calls
  <2>1. ASSUME NEW p \in Pieces, MarkPending(p) PROVE VerdictsTrue'
    BY <1>3, <2>1 DEF MarkPending, ring
  <2>2. ASSUME NEW p \in Pieces, NEW d \in {p, Junk}, GotLastBlock(p, d) PROVE VerdictsTrue'
    <3>1. slotbuf[p] \in Bufs
      BY <2>2 DEF GotLastBlock, RingInv, TypeOK
    <3>2. \A b \in Bufs \ {slotbuf[p]} : content'[b] = content[b]
      BY <2>2 DEF GotLastBlock, RingInv, TypeOK
    <3>3. \A k \in Offsets : Entries[k].buf \notin {slotbuf[p]}
      BY DEF Apart
    <3>4. Entries' = Entries /\ Offsets' = Offsets
      BY <2>2, EntriesUnchanged DEF GotLastBlock, ring
    <3>5. tpc # "apply" /\ tpc' # "apply" /\ UNCHANGED <<wpc, wjob>>
      BY <2>2 DEF GotLastBlock, HashPath
    <3> QED
      BY <1>2, <3>1, <3>2, <3>3, <3>4, <3>5
  <2>3. CASE DrainCall \/ FlushCall \/ CheckExisting \/ DestroyCall
    BY <1>3, <2>3 DEF DrainCall, FlushCall, CheckExisting, DestroyCall, ring, slots
  <2> QED
    BY <1>4, <2>1, <2>2, <2>3 DEF Calls
<1>5. CASE TorrentStep
  <2>1. CASE SpawnWorker \/ EnqueueWait \/ DrainReturn \/ FlushWait \/ DestroyStop
             \/ DestroyJoin \/ DestroyFree
    <3>1. UNCHANGED <<hash_q, hash_q_head, hash_q_count, content>>
      BY <2>1 DEF SpawnWorker, EnqueueWait, DrainReturn, FlushWait, DestroyStop,
                  DestroyJoin, DestroyFree, ring, slots
    <3>2. /\ tpc # "apply" /\ tpc' # "apply"
          /\ UNCHANGED <<wpc, wjob>> \/ wpc' # "post"
      BY <2>1 DEF SpawnWorker, EnqueueWait, DrainReturn, FlushWait, DestroyStop,
                  DestroyJoin, DestroyFree, SignalWorker
    <3> QED
      BY <1>3, <3>1, <3>2
  <2>2. ASSUME PopHead, HeadDone, hash_q_count # 0, tpc' = "apply",
               UNCHANGED slots, UNCHANGED <<wpc, wjob>>
        PROVE  VerdictsTrue'
    <3>1. /\ hash_q_count \in 1 .. QMax /\ hand' = Entries[0] /\ Entries[0].done
          /\ \A k \in Offsets' : k + 1 \in Offsets /\ Entries'[k] = Entries[k + 1]
      BY <2>2, PopMoves
    <3>2. 0 \in Offsets /\ content' = content
      BY <2>2, <3>1 DEF Offsets, slots
    <3> QED
      BY <2>2, <3>1, <3>2 DEF VerdictsTrue
  <2>3. CASE EnqueuePop
    <3>1. hash_q_count # 0
      BY <2>3 DEF EnqueuePop, PutHasRoom, RingInv
    <3> QED
      BY <2>2, <2>3, <3>1 DEF EnqueuePop
  <2>4. CASE DrainPop
    BY <2>2, <2>4 DEF DrainPop
  <2>5. CASE EnqueuePut
    <3>1. /\ hash_q_count \in 0 .. QMax - 1 /\ hash_q_count' = hash_q_count + 1
          /\ Entries'[hash_q_count] = NewJob
          /\ \A k \in Offsets : Entries'[k] = Entries[k]
      BY <2>5, PutMoves
    <3>2. Offsets' = Offsets \cup {hash_q_count}
      BY <3>1 DEF Offsets
    <3>3. /\ tpc' # "apply" /\ content' = content /\ ~NewJob.done
          /\ UNCHANGED <<wpc, wjob>> \/ wpc' # "post"
      BY <2>5 DEF EnqueuePut, SignalWorker, NewJob
    <3> QED
      BY <3>1, <3>2, <3>3 DEF VerdictsTrue
  <2>6. ASSUME NEW b \in Bufs, BufPut(b) \/ content' = content,
               \A k \in Offsets : Entries[k].buf # b,
               UNCHANGED ring, tpc' # "apply", UNCHANGED <<wpc, wjob>>
        PROVE  VerdictsTrue'
    <3>1. Entries' = Entries /\ Offsets' = Offsets
      BY <2>6, EntriesUnchanged DEF ring
    <3>2. \A c \in Bufs \ {b} : content'[c] = content[c]
      BY <2>6 DEF BufPut, RingInv, TypeOK
    <3>3. {b} \in SUBSET Bufs /\ \A k \in Offsets : Entries[k].buf \notin {b}
      BY <2>6
    <3> QED
      BY <1>2, <2>6, <3>1, <3>2, <3>3
  <2>7. CASE InlineHash
    <3>1. slotbuf[cur] \in Bufs /\ \A k \in Offsets : Entries[k].buf # slotbuf[cur]
      BY <2>7 DEF InlineHash, RingInv, JobsHaveBuffers, TypeOK, Apart
    <3>2. BufPut(slotbuf[cur]) \/ content' = content
      BY <2>7 DEF InlineHash
    <3> QED
      BY <2>6, <2>7, <3>1, <3>2 DEF InlineHash
  <2>8. CASE HashApply
    <3>1. hand.buf \in Bufs /\ \A k \in Offsets : Entries[k].buf # hand.buf
      BY <2>8 DEF HashApply, RingInv, JobsHaveBuffers, Apart
    <3>2. BufPut(hand.buf) \/ content' = content
      BY <2>8 DEF HashApply
    <3> QED
      BY <2>6, <2>8, <3>1, <3>2 DEF HashApply, RingInv, TypeOK
  <2> QED
    BY <1>5, <2>1, <2>3, <2>4, <2>5, <2>7, <2>8 DEF TorrentStep
<1>6. CASE WorkerStep
  <2>1. CASE WorkerWait \/ WorkerExit \/ WorkerTake
    BY <1>3, <2>1 DEF WorkerWait, WorkerExit, WorkerTake, ring, slots, call
  <2>2. CASE WorkerHash
    <3>1. Entries' = Entries /\ Offsets' = Offsets
      BY <2>2, EntriesUnchanged DEF WorkerHash, ring
    <3>2. /\ UNCHANGED <<content, tpc, hand>>
          /\ wjob' = [wjob EXCEPT !.ok = (content[wjob.buf] = wjob.idx)]
      BY <2>2 DEF WorkerHash, Matches, slots, call
    <3>3. wjob'.ok = (content[wjob.buf] = wjob.idx) /\ wjob'.buf = wjob.buf /\ wjob'.idx = wjob.idx
      BY <3>2 DEF RingInv, TypeOK, WorkerJob
    <3> QED
      BY <3>1, <3>2, <3>3 DEF VerdictsTrue
  <2>3. CASE WorkerPost
    <3>1. /\ hash_q_hashed \in Offsets /\ Offsets' = Offsets
          /\ Entries[hash_q_hashed].idx = wjob.idx
          /\ Entries[hash_q_hashed].buf = wjob.buf
          /\ Entries'[hash_q_hashed].ok = wjob.ok
          /\ \A k \in Offsets : /\ Entries'[k].idx = Entries[k].idx
                                /\ Entries'[k].buf = Entries[k].buf
                                /\ k # hash_q_hashed => Entries'[k] = Entries[k]
      BY <2>3, PostMoves
    <3>2. /\ UNCHANGED <<content, hand>> /\ wpc = "post" /\ wpc' = "loop"
          /\ tpc' = "apply" <=> tpc = "apply"
      BY <2>3 DEF WorkerPost, SignalTorrent, slots, call
    <3> QED
      BY <3>1, <3>2 DEF VerdictsTrue
  <2> QED
    BY <1>6, <2>1, <2>2, <2>3 DEF WorkerStep
<1>7. CASE SpuriousWakeup
  BY <1>3, <1>7 DEF SpuriousWakeup, ring, slots, call
<1>8. CASE UNCHANGED vars
  BY <1>3, <1>8 DEF vars, ring, slots, call
<1> QED
  BY <1>4, <1>5, <1>6, <1>7, <1>8 DEF Next, Dead

\* A piece becomes HASHING in the step that queues its job, and leaves that
\* state in the step that applies one.
LEMMA InFlightStep == ASSUME SafeInv, [Next]_vars PROVE InFlight'
<1> USE RingAssumption DEF SafeInv, InFlight
<1>1. ASSUME UNCHANGED <<hash_q, hash_q_head, hash_q_count>>,
             \A p \in Pieces : slot'[p] = "HASHING" => slot[p] = "HASHING",
             \/ tpc # "apply"
             \/ UNCHANGED <<tpc, hand>>
      PROVE  InFlight'
  <2>1. Entries' = Entries /\ Offsets' = Offsets
    BY <1>1, EntriesUnchanged
  <2> QED
    BY <1>1, <2>1
<1>2. CASE Calls
  <2>1. ASSUME NEW p \in Pieces, MarkPending(p) PROVE InFlight'
    BY <1>1, <2>1 DEF MarkPending, ring
  <2>2. ASSUME NEW p \in Pieces, NEW d \in {p, Junk}, GotLastBlock(p, d) PROVE InFlight'
    BY <1>1, <2>2 DEF GotLastBlock, ring
  <2>3. CASE DrainCall \/ FlushCall \/ DestroyCall
    BY <1>1, <2>3 DEF DrainCall, FlushCall, DestroyCall, ring, slots
  <2>4. CASE CheckExisting
    <3>1. \A q \in Pieces : slot'[q] = "HASHING" => slot[q] = "HASHING"
      BY <2>4 DEF CheckExisting, RingInv, TypeOK, Pieces
    <3> QED
      BY <1>1, <2>4, <3>1 DEF CheckExisting, ring
  <2> QED
    BY <1>2, <2>1, <2>2, <2>3, <2>4 DEF Calls
<1>3. CASE TorrentStep
  <2>1. CASE SpawnWorker \/ EnqueueWait \/ DrainReturn \/ FlushWait \/ DestroyStop
             \/ DestroyJoin \/ DestroyFree
    <3>1. UNCHANGED <<hash_q, hash_q_head, hash_q_count, slot>> /\ tpc # "apply"
      BY <2>1 DEF SpawnWorker, EnqueueWait, DrainReturn, FlushWait, DestroyStop,
                  DestroyJoin, DestroyFree, ring, slots
    <3> QED
      BY <1>1, <3>1
  <2>2. CASE InlineHash
    <3>1. \A q \in Pieces : slot'[q] = "HASHING" => slot[q] = "HASHING"
      BY <2>2 DEF InlineHash, RingInv, TypeOK
    <3> QED
      BY <1>1, <2>2, <3>1 DEF InlineHash, ring
  <2>3. ASSUME PopHead, HeadDone, hash_q_count # 0, tpc # "apply", tpc' = "apply",
               UNCHANGED slots
        PROVE  InFlight'
    <3>1. /\ hash_q_count \in 1 .. QMax /\ hash_q_count' = hash_q_count - 1
          /\ hand' = Entries[0]
          /\ \A k \in Offsets' : Entries'[k] = Entries[k + 1]
      BY <2>3, PopMoves
    <3>2. \A k \in Offsets : k # 0 => k - 1 \in Offsets' /\ (k - 1) + 1 = k
      BY <3>1 DEF Offsets
    <3>3. slot' = slot
      BY <2>3 DEF slots
    <3>4. ASSUME NEW k \in Offsets
          PROVE  \/ \E j \in Offsets' : Entries'[j].idx = Entries[k].idx
                 \/ hand'.idx = Entries[k].idx
      BY <3>1, <3>2
    <3> QED
      BY <2>3, <3>3, <3>4
  <2>4. CASE EnqueuePop
    <3>1. hash_q_count # 0 /\ tpc # "apply"
      BY <2>4 DEF EnqueuePop, PutHasRoom, RingInv
    <3> QED
      BY <2>3, <2>4, <3>1 DEF EnqueuePop
  <2>5. CASE DrainPop
    BY <2>3, <2>5 DEF DrainPop
  <2>6. CASE EnqueuePut
    <3>1. /\ hash_q_count \in 0 .. QMax - 1 /\ hash_q_count' = hash_q_count + 1
          /\ Entries'[hash_q_count] = NewJob
          /\ \A k \in Offsets : Entries'[k] = Entries[k]
      BY <2>6, PutMoves
    <3>2. Offsets' = Offsets \cup {hash_q_count}
      BY <3>1 DEF Offsets
    <3>3. /\ tpc # "apply" /\ NewJob.idx = cur
          /\ \A q \in Pieces : q # cur => slot'[q] = slot[q]
      BY <2>6 DEF EnqueuePut, NewJob, RingInv, TypeOK
    <3> QED
      BY <3>1, <3>2, <3>3
  <2>7. CASE HashApply
    <3>1. Entries' = Entries /\ Offsets' = Offsets /\ hand.idx \in Pieces
      BY <2>7, EntriesUnchanged DEF HashApply, ring, RingInv, TypeOK, Job
    <3>2. /\ slot'[hand.idx] # "HASHING"
          /\ \A q \in Pieces : q # hand.idx => slot'[q] = slot[q]
      BY <2>7, <3>1 DEF HashApply, RingInv, TypeOK
    <3> QED
      BY <3>1, <3>2
  <2> QED
    BY <1>3, <2>1, <2>2, <2>4, <2>5, <2>6, <2>7 DEF TorrentStep
<1>4. CASE WorkerStep
  <2>1. CASE WorkerWait \/ WorkerExit \/ WorkerTake \/ WorkerHash
    BY <1>1, <2>1 DEF WorkerWait, WorkerExit, WorkerTake, WorkerHash, ring, slots, call
  <2>2. CASE WorkerPost
    <3>1. Offsets' = Offsets /\ \A k \in Offsets : Entries'[k].idx = Entries[k].idx
      BY <2>2, PostMoves
    <3>2. UNCHANGED <<slot, hand>> /\ (tpc = "apply" => tpc' = "apply")
      BY <2>2 DEF WorkerPost, SignalTorrent, slots, call
    <3> QED
      BY <3>1, <3>2
  <2> QED
    BY <1>4, <2>1, <2>2 DEF WorkerStep
<1>5. CASE SpuriousWakeup
  BY <1>1, <1>5 DEF SpuriousWakeup, ring, slots, call
<1>6. CASE UNCHANGED vars
  BY <1>1, <1>6 DEF vars, ring, slots, call
<1> QED
  BY <1>2, <1>3, <1>4, <1>5, <1>6 DEF Next, Dead

\* Only the startup scan, the inline path and hash_apply write slots or the
\* storage; the last two finish a piece with the bytes they have just written
\* and otherwise disturb the range of a piece that is not DONE.
LEMMA DoneStep == ASSUME SafeInv, [Next]_vars PROVE DoneIsOnDisk'
<1> USE RingAssumption DEF SafeInv, DoneIsOnDisk
<1>1. ASSUME UNCHANGED disk,
             \A p \in Pieces : slot'[p] = "DONE" => slot[p] = "DONE"
      PROVE  DoneIsOnDisk'
  BY <1>1
<1>2. CASE Calls
  <2>1. CASE CheckExisting
    BY <2>1 DEF CheckExisting, RingInv, TypeOK, Pieces
  <2>2. ASSUME NEW p \in Pieces, MarkPending(p) PROVE DoneIsOnDisk'
    BY <1>1, <2>2 DEF MarkPending
  <2>3. ASSUME NEW p \in Pieces, NEW d \in {p, Junk}, GotLastBlock(p, d) PROVE DoneIsOnDisk'
    BY <1>1, <2>3 DEF GotLastBlock
  <2>4. CASE DrainCall \/ FlushCall \/ DestroyCall
    BY <1>1, <2>4 DEF DrainCall, FlushCall, DestroyCall, slots
  <2> QED
    BY <1>2, <2>1, <2>2, <2>3, <2>4 DEF Calls
<1>3. CASE TorrentStep
  <2>1. CASE SpawnWorker \/ EnqueueWait \/ EnqueuePop \/ DrainPop \/ DrainReturn
             \/ FlushWait \/ DestroyStop \/ DestroyJoin \/ DestroyFree
    <3>1. UNCHANGED <<slot, disk>>
      BY <2>1 DEF SpawnWorker, EnqueueWait, EnqueuePop, DrainPop, DrainReturn,
                  FlushWait, DestroyStop, DestroyJoin, DestroyFree, slots
    <3> QED
      BY <1>1, <3>1
  <2>2. CASE InlineHash
    <3>1. cur \in Pieces /\ slot[cur] = "open"
      BY <2>2 DEF InlineHash, RingInv, TypeOK, SlotInv, Enqueuing
    <3>2. \A q \in Pieces : q # cur => slot'[q] = slot[q] /\ disk'[q] = disk[q]
      BY <2>2, <3>1 DEF InlineHash, WriteFailed, RingInv, TypeOK
    <3>3. slot'[cur] = "DONE" => disk'[cur] = cur
      BY <2>2, <3>1 DEF InlineHash, Matches, RingInv, TypeOK
    <3> QED
      BY <3>1, <3>2, <3>3
  <2>3. CASE EnqueuePut
    <3>1. \A q \in Pieces : slot'[q] = "DONE" => slot[q] = "DONE"
      BY <2>3 DEF EnqueuePut, RingInv, TypeOK
    <3> QED
      BY <1>1, <2>3, <3>1 DEF EnqueuePut
  <2>4. CASE HashApply
    <3> DEFINE p == hand.idx
    <3>1. p \in Pieces /\ (hand.ok => content[hand.buf] = p)
      BY <2>4 DEF HashApply, RingInv, TypeOK, Job, VerdictsTrue
    <3>2. \A q \in Pieces : q # p => slot'[q] = slot[q] /\ disk'[q] = disk[q]
      BY <2>4, <3>1 DEF HashApply, WriteFailed, RingInv, TypeOK
    <3>3. CASE slot[p] # "HASHING"
      BY <1>1, <2>4, <3>3 DEF HashApply
    <3>4. CASE slot[p] = "HASHING"
      <4>1. slot'[p] = "DONE" => disk'[p] = p
        BY <2>4, <3>1, <3>4 DEF HashApply, RingInv, TypeOK
      <4> QED
        BY <3>1, <3>2, <4>1
    <3> QED
      BY <3>3, <3>4
  <2> QED
    BY <1>3, <2>1, <2>2, <2>3, <2>4 DEF TorrentStep
<1>4. CASE WorkerStep \/ SpuriousWakeup
  <2>1. UNCHANGED <<slot, disk>>
    BY <1>4 DEF WorkerStep, WorkerWait, WorkerExit, WorkerTake, WorkerHash,
                WorkerPost, SpuriousWakeup, slots
  <2> QED
    BY <1>1, <2>1
<1>5. CASE UNCHANGED vars
  BY <1>1, <1>5 DEF vars, slots
<1> QED
  BY <1>2, <1>3, <1>4, <1>5 DEF Next, Dead

----------------------------------------------------------------------------
LEMMA SafeInvStep == SafeInv /\ [Next]_vars => SafeInv'
<1> SUFFICES ASSUME SafeInv, [Next]_vars PROVE SafeInv'
  OBVIOUS
<1>1. RingInv'
  BY RingInvStep DEF SafeInv
<1>2. Owned' /\ Apart' /\ NoLeak'
  BY OwnInvStep DEF OwnInv
<1> QED
  BY <1>1, <1>2, ModeInvStep, SlotInvStep, VerdictsStep, InFlightStep, DoneStep
  DEF SafeInv

LEMMA SafeInvHolds == Spec => []SafeInv
BY SafeInvInit, SafeInvStep, PTL DEF Spec

\* The owners of SafeInv, clause by clause, are the holders of BufferOwnedOnce.
LEMMA OwnInvIsBufferOwnedOnce == ASSUME SafeInv PROVE BufferOwnedOnce
<1> USE DEF SafeInv
<1>1. \A k \in Offsets : Entries[k] = hash_q[Cell(k)]
  BY EntriesType
<1>2. ASSUME NEW h \in Holders
      PROVE  \/ \E p \in Pieces : h = <<"slot", p>> /\ slotbuf[p] # NULL /\ Held(h) = slotbuf[p]
             \/ \E k \in Offsets : h = <<"ring", k>> /\ Held(h) = Entries[k].buf
             \/ h = <<"hand", 0>> /\ tpc = "apply" /\ Held(h) = hand.buf
             \/ \E i \in PoolIdx : h = <<"pool", i>> /\ Held(h) = buf_pool[i]
  BY <1>1, <1>2 DEF Holders, Held, Offsets, PoolIdx
<1>3. \A h \in Holders : Held(h) \in heap
  BY <1>2 DEF Owned
<1>4. \A g, h \in Holders : Held(g) = Held(h) => g = h
  BY <1>2 DEF Apart
<1>5. ASSUME NEW b \in heap PROVE \E h \in Holders : Held(h) = b
  <2>0. b # NULL
    BY RingAssumption DEF RingInv, TypeOK
  <2>1. ASSUME NEW p \in Pieces, slotbuf[p] = b PROVE \E h \in Holders : Held(h) = b
    <3>1. <<"slot", p>> \in Holders /\ Held(<<"slot", p>>) = b
      BY <2>0, <2>1 DEF Holders, Held
    <3> QED
      BY <3>1
  <2>2. ASSUME NEW k \in Offsets, Entries[k].buf = b PROVE \E h \in Holders : Held(h) = b
    <3>1. <<"ring", k>> \in Holders /\ Held(<<"ring", k>>) = b
      BY <1>1, <2>2 DEF Holders, Held, Offsets
    <3> QED
      BY <3>1
  <2>3. ASSUME tpc = "apply", hand.buf = b PROVE \E h \in Holders : Held(h) = b
    <3>1. <<"hand", 0>> \in Holders /\ Held(<<"hand", 0>>) = b
      BY <2>3 DEF Holders, Held
    <3> QED
      BY <3>1
  <2>4. ASSUME NEW i \in PoolIdx, buf_pool[i] = b PROVE \E h \in Holders : Held(h) = b
    <3>1. <<"pool", i>> \in Holders /\ Held(<<"pool", i>>) = b
      BY <2>4 DEF Holders, Held, PoolIdx
    <3> QED
      BY <3>1
  <2> QED
    BY <2>1, <2>2, <2>3, <2>4 DEF NoLeak
<1> QED
  BY <1>3, <1>4, <1>5 DEF BufferOwnedOnce

\* Every piece buffer malloc returned has exactly one owner among the slots,
\* the ring, the job being applied and the pool, until destroy has freed it.
THEOREM BuffersAreOwnedOnce == Spec => []BufferOwnedOnce
<1>1. SafeInv => BufferOwnedOnce
  BY OwnInvIsBufferOwnedOnce
<1> QED
  BY <1>1, SafeInvHolds, PTL

\* No piece is stuck in state HASHING without a job in the pipeline.
THEOREM HashingHasAJob == Spec => []HashingIsInFlight
<1>1. SafeInv => HashingIsInFlight
  BY EntriesType DEF SafeInv, InFlight, HashingIsInFlight, Offsets
<1> QED
  BY <1>1, SafeInvHolds, PTL

\* A piece hash_apply, the inline path or the startup scan marked DONE has its
\* verified bytes on the storage.
THEOREM DoneWasStored == Spec => []DoneIsOnDisk
BY SafeInvHolds, PTL DEF SafeInv

\* piece_mgr_destroy applies every verdict before it stops the worker.
THEOREM DestroyLosesNoVerdict == Spec => []DestroyAppliesAll
<1>1. SafeInv => DestroyAppliesAll
  BY DEF SafeInv, ModeInv, InFlight, Offsets, DestroyAppliesAll
<1> QED
  BY <1>1, SafeInvHolds, PTL

----------------------------------------------------------------------------
(***************************************************************************)
(* The two threads of HashRing implement the sequential queue of HashFifo, *)
(* for every number of pieces, ring size and pool size.  The queue of the  *)
(* abstract specification is the job being applied followed by the ring    *)
(* from its head; a pop moves a job across that border and is a stuttering *)
(* step, as is everything the worker does.  The step proofs use SafeInv:   *)
(* the queued bytes do not change because the buffers are owned once, and  *)
(* the verdict applied is the verdict of the bytes that were completed.    *)
(***************************************************************************)

\* What the abstract queue shows of a job when the buffers contain c.
Item(c, j) == [idx |-> j.idx, data |-> c[j.buf]]

\* The abstract queue, without the concatenation of its definition.
PendingShape ==
  /\ tpc # "apply" =>
       Pending = [i \in 1 .. hash_q_count |-> Item(content, Entries[i - 1])]
  /\ tpc = "apply" =>
       Pending = [i \in 1 .. hash_q_count + 1 |->
                    IF i = 1 THEN Item(content, hand) ELSE Item(content, Entries[i - 2])]

LEMMA PendingForm == SafeInv => PendingShape
<1> SUFFICES ASSUME SafeInv PROVE PendingShape
  OBVIOUS
<1> DEFINE inRing == [k \in 1 .. hash_q_count |-> hash_q[Cell(k - 1)]]
<1>1. hash_q_count \in Nat
  BY DEF SafeInv, RingInv, TypeOK
<1>2. \A k \in 1 .. hash_q_count : hash_q[Cell(k - 1)] = Entries[k - 1]
  <2>1. \A k \in 1 .. hash_q_count : k - 1 \in Offsets
    BY <1>1 DEF Offsets
  <2> QED
    BY <2>1, EntriesType DEF SafeInv
<1>3. /\ inRing \in Seq(Job) /\ Len(inRing) = hash_q_count
      /\ \A k \in 1 .. hash_q_count : inRing[k] = Entries[k - 1]
  <2>1. \A k \in 1 .. hash_q_count : Entries[k - 1] \in Job
    BY <1>1, EntriesType DEF SafeInv, Offsets
  <2> QED
    BY <1>1, <1>2, <2>1
<1>4. CASE tpc # "apply"
  <2> DEFINE jobs == <<>> \o inRing
  <2>1. jobs = inRing
    BY <1>3
  <2> HIDE DEF inRing
  <2>2. Pending = [i \in 1 .. Len(jobs) |-> Item(content, jobs[i])]
    BY <1>4 DEF Pending, Item, inRing
  <2> QED
    BY <1>3, <1>4, <2>1, <2>2 DEF PendingShape
<1>5. CASE tpc = "apply"
  <2> DEFINE jobs == <<hand>> \o inRing
  <2>0. hand \in Job
    BY DEF SafeInv, RingInv, TypeOK
  <2> HIDE DEF inRing
  <2>1. /\ Len(jobs) = hash_q_count + 1
        /\ \A i \in 1 .. hash_q_count + 1 :
             jobs[i] = IF i = 1 THEN hand ELSE Entries[i - 2]
    BY <1>1, <1>3, <2>0
  <2>2. Pending = [i \in 1 .. Len(jobs) |-> Item(content, jobs[i])]
    BY <1>5 DEF Pending, Item, inRing
  <2> HIDE DEF jobs
  <2> QED
    BY <1>5, <2>1, <2>2 DEF PendingShape
<1> QED
  BY <1>4, <1>5 DEF PendingShape

LEMMA PendingFormNext == SafeInv' => PendingShape'
BY PendingForm, PTL

\* The same jobs with the same bytes are the same abstract queue.
LEMMA PendingUnchanged ==
  ASSUME SafeInv, SafeInv', UNCHANGED hash_q_count,
         \A k \in Offsets : /\ Entries'[k].idx = Entries[k].idx
                            /\ Entries'[k].buf = Entries[k].buf
                            /\ content'[Entries[k].buf] = content[Entries[k].buf],
         \/ tpc # "apply" /\ tpc' # "apply"
         \/ UNCHANGED <<tpc, hand, content>>
  PROVE  Pending' = Pending
<1>1. hash_q_count \in Nat
  BY DEF SafeInv, RingInv, TypeOK
<1>2. \A k \in Offsets : Item(content, Entries[k]) = Item(content', Entries'[k])
  BY DEF Item
<1>3. CASE tpc # "apply" /\ tpc' # "apply"
  <2>1. Pending = [i \in 1 .. hash_q_count |-> Item(content, Entries[i - 1])]
    BY <1>3, PendingForm DEF PendingShape
  <2>2. Pending' = [i \in 1 .. hash_q_count' |-> Item(content', Entries'[i - 1])]
    BY <1>3, PendingFormNext DEF PendingShape
  <2>3. \A i \in 1 .. hash_q_count : i - 1 \in Offsets
    BY <1>1 DEF Offsets
  <2> QED
    BY <1>2, <2>1, <2>2, <2>3
<1>4. CASE tpc = "apply" /\ UNCHANGED <<tpc, hand, content>>
  <2>1. Pending = [i \in 1 .. hash_q_count + 1 |->
                     IF i = 1 THEN Item(content, hand) ELSE Item(content, Entries[i - 2])]
    BY <1>4, PendingForm DEF PendingShape
  <2>2. Pending' = [i \in 1 .. hash_q_count' + 1 |->
                     IF i = 1 THEN Item(content', hand') ELSE Item(content', Entries'[i - 2])]
    BY <1>4, PendingFormNext DEF PendingShape
  <2>3. \A i \in 1 .. hash_q_count + 1 : i # 1 => i - 2 \in Offsets
    BY <1>1 DEF Offsets
  <2>4. \A i \in 1 .. hash_q_count + 1 :
          (IF i = 1 THEN Item(content, hand) ELSE Item(content, Entries[i - 2]))
          = (IF i = 1 THEN Item(content', hand') ELSE Item(content', Entries'[i - 2]))
    BY <1>2, <1>4, <2>3
  <2> QED
    BY <2>1, <2>2, <2>4
<1> QED
  BY <1>3, <1>4

\* A pop is invisible: the job moves from the ring to the hand.
LEMMA PopIsStutter ==
  ASSUME SafeInv, SafeInv', PopHead, HeadDone, hash_q_count # 0, tpc # "apply",
         tpc' = "apply", UNCHANGED content
  PROVE  Pending' = Pending
<1>1. /\ hash_q_count \in 1 .. QMax /\ hash_q_count' = hash_q_count - 1
      /\ hand' = Entries[0]
      /\ \A k \in Offsets' : Entries'[k] = Entries[k + 1]
  BY PopMoves DEF SafeInv
<1>2. Pending = [i \in 1 .. hash_q_count |-> Item(content, Entries[i - 1])]
  BY PendingForm DEF PendingShape
<1>3. Pending' = [i \in 1 .. hash_q_count' + 1 |->
                   IF i = 1 THEN Item(content', hand') ELSE Item(content', Entries'[i - 2])]
  BY PendingFormNext DEF PendingShape
<1>4. \A i \in 1 .. hash_q_count : i # 1 => i - 2 \in Offsets' /\ (i - 2) + 1 = i - 1
  BY <1>1 DEF Offsets
<1>5. \A i \in 1 .. hash_q_count :
        (IF i = 1 THEN Item(content', hand') ELSE Item(content', Entries'[i - 2]))
        = Item(content, Entries[i - 1])
  <2>1. \A i \in 1 .. hash_q_count : i # 1 => Entries'[i - 2] = Entries[i - 1]
    BY <1>1, <1>4
  <2> QED
    BY <1>1, <2>1
<1>6. 1 .. hash_q_count' + 1 = 1 .. hash_q_count
  BY <1>1
<1> QED
  BY <1>2, <1>3, <1>5, <1>6

\* Appending to a sequence given as a function.
LEMMA AppendForm ==
  ASSUME NEW n \in Nat, NEW s, s = [i \in 1 .. n |-> s[i]], NEW x, NEW t,
         t = [i \in 1 .. n + 1 |-> IF i = n + 1 THEN x ELSE s[i]]
  PROVE  t = Append(s, x) /\ Len(s) = n
<1> DEFINE S == {s[i] : i \in 1 .. n} \cup {x}
<1>1. s \in Seq(S) /\ Len(s) = n
  OBVIOUS
<1>2. Append(s, x) = [i \in 1 .. n + 1 |-> IF i = n + 1 THEN x ELSE s[i]]
  BY <1>1
<1> QED
  BY <1>1, <1>2

\* Dropping the first element of a sequence given as a function.
LEMMA TailForm ==
  ASSUME NEW n \in Nat, NEW s, s = [i \in 1 .. n + 1 |-> s[i]], NEW t,
         t = [i \in 1 .. n |-> s[i + 1]]
  PROVE  s # <<>> /\ Head(s) = s[1] /\ t = Tail(s)
<1> DEFINE S == {s[i] : i \in 1 .. n + 1}
<1>1. s \in Seq(S) /\ Len(s) = n + 1
  OBVIOUS
<1> HIDE DEF S
<1>2. s # <<>> /\ Head(s) = s[1]
  BY <1>1
<1>3. Tail(s) = [i \in 1 .. n |-> s[i + 1]]
  BY <1>1
<1> QED
  BY <1>2, <1>3

----------------------------------------------------------------------------
LEMMA FifoInit == Init => Fifo!Init
<1> SUFFICES ASSUME Init PROVE Fifo!Init
  OBVIOUS
<1>1. SafeInv
  BY SafeInvInit
<1>2. Pending = [i \in 1 .. 0 |-> Item(content, Entries[i - 1])]
  BY <1>1, PendingForm DEF PendingShape, Init
<1>3. Pending = <<>>
  BY <1>2
<1> QED
  BY <1>3 DEF Fifo!Init, Fifo!Pieces, Init, Pieces, Data

\* hash_enqueue filling the tail entry completes a piece.
LEMMA PutCompletes ==
  ASSUME SafeInv, SafeInv', EnqueuePut
  PROVE  Fifo!Next
<1> DEFINE d == content[slotbuf[cur]]
<1>1. /\ hash_q_count \in 0 .. QMax - 1 /\ hash_q_count' = hash_q_count + 1
      /\ Entries'[hash_q_count] = NewJob
      /\ \A k \in Offsets : Entries'[k] = Entries[k]
  BY PutMoves DEF SafeInv
<1>2. Pending = [i \in 1 .. hash_q_count |-> Item(content, Entries[i - 1])]
  BY PendingForm DEF PendingShape, EnqueuePut
<1>3. Pending' = [i \in 1 .. hash_q_count' |-> Item(content', Entries'[i - 1])]
  BY PendingFormNext DEF PendingShape, EnqueuePut
<1>4. content' = content /\ Item(content, NewJob) = [idx |-> cur, data |-> d]
  BY DEF EnqueuePut, Item, NewJob
<1>5. \A i \in 1 .. hash_q_count : i - 1 \in Offsets
  BY <1>1 DEF Offsets
<1>6. Pending' = [i \in 1 .. hash_q_count + 1 |->
                    IF i = hash_q_count + 1 THEN [idx |-> cur, data |-> d] ELSE Pending[i]]
  <2>1. ASSUME NEW i \in 1 .. hash_q_count + 1
        PROVE  Item(content', Entries'[i - 1])
                 = IF i = hash_q_count + 1 THEN [idx |-> cur, data |-> d] ELSE Pending[i]
    <3>1. CASE i = hash_q_count + 1
      BY <1>1, <1>4, <3>1
    <3>2. CASE i \in 1 .. hash_q_count
      BY <1>1, <1>2, <1>4, <1>5, <3>2
    <3> QED
      BY <1>1, <3>1, <3>2
  <2> QED
    BY <1>1, <1>3, <2>1
<1>7. Pending' = Append(Pending, [idx |-> cur, data |-> d]) /\ Len(Pending) = hash_q_count
  BY <1>1, <1>2, <1>6, AppendForm
<1>8. slot[cur] = "open" /\ d \in {cur, Junk} /\ cur \in Pieces
  BY DEF EnqueuePut, SafeInv, SlotInv, Enqueuing, RingInv, TypeOK
<1>9. Fifo!Complete(cur, d)
  BY <1>1, <1>7, <1>8, RingAssumption DEF Fifo!Complete, EnqueuePut
<1> QED
  BY <1>8, <1>9 DEF Fifo!Next, Fifo!Pieces, Pieces

\* hash_apply gives the oldest completed piece its verdict.
LEMMA HashApplyApplies ==
  ASSUME SafeInv, SafeInv', HashApply
  PROVE  Fifo!Apply
<1> DEFINE p == hand.idx
<1>0. hash_q_count \in Nat /\ hash_q_count' = hash_q_count /\ tpc = "apply" /\ tpc' # "apply"
  BY DEF HashApply, ring, SafeInv, RingInv, TypeOK
<1>1. Entries' = Entries /\ Offsets' = Offsets
  BY EntriesUnchanged DEF HashApply, ring
<1>2. hand.buf \in Bufs /\ p \in Pieces /\ \A k \in Offsets : Entries[k].buf # hand.buf
  BY DEF HashApply, SafeInv, RingInv, TypeOK, Job, JobsHaveBuffers, Apart
<1>3. \A k \in Offsets : content'[Entries[k].buf] = content[Entries[k].buf]
  <2>1. \A b \in Bufs : b # hand.buf => content'[b] = content[b]
    BY <1>2 DEF HashApply, BufPut, SafeInv, RingInv, TypeOK
  <2> QED
    BY <1>2, <2>1, EntriesType DEF SafeInv
<1>4. Pending = [i \in 1 .. hash_q_count + 1 |->
                   IF i = 1 THEN Item(content, hand) ELSE Item(content, Entries[i - 2])]
  BY <1>0, PendingForm DEF PendingShape
<1>5. Pending' = [i \in 1 .. hash_q_count |-> Item(content', Entries[i - 1])]
  BY <1>0, <1>1, PendingFormNext DEF PendingShape
<1>6. Pending' = [i \in 1 .. hash_q_count |-> Pending[i + 1]]
  <2>1. ASSUME NEW i \in 1 .. hash_q_count
        PROVE  Item(content', Entries[i - 1]) = Pending[i + 1]
    <3>1. i - 1 \in Offsets /\ i + 1 \in 1 .. hash_q_count + 1 /\ i + 1 # 1 /\ (i + 1) - 2 = i - 1
      BY <1>0 DEF Offsets
    <3>2. Pending[i + 1] = Item(content, Entries[i - 1])
      BY <1>4, <3>1
    <3> QED
      BY <1>3, <3>1, <3>2 DEF Item
  <2> QED
    BY <1>5, <2>1
<1>7. Pending # <<>> /\ Head(Pending) = Pending[1] /\ Pending' = Tail(Pending)
  BY <1>0, <1>4, <1>6, TailForm
<1>8. Head(Pending).idx = p /\ Head(Pending).data = content[hand.buf]
  BY <1>0, <1>4, <1>7 DEF Item
<1>9. hand.ok <=> content[hand.buf] = p
  BY <1>0 DEF SafeInv, VerdictsTrue
<1>10. \/ slot[p] # "HASHING" /\ UNCHANGED <<slot, disk>>
       \/ /\ slot[p] = "HASHING" /\ content[hand.buf] = p
          /\ Fifo!WriteOutcome(p)
       \/ /\ slot[p] = "HASHING" /\ content[hand.buf] # p
          /\ slot' = [slot EXCEPT ![p] = "open"] /\ UNCHANGED disk
  BY <1>9 DEF HashApply, WriteFailed, Fifo!WriteOutcome
<1> QED
  BY <1>7, <1>8, <1>10 DEF Fifo!Apply

\* The inline path verifies and writes with nothing queued.
LEMMA InlineIsInline ==
  ASSUME SafeInv, SafeInv', InlineHash
  PROVE  Fifo!Next \/ UNCHANGED Fifo!vars
<1>1. /\ cur \in Pieces /\ slot[cur] = "open" /\ hash_q_count = 0
      /\ slot \in [Pieces -> {"open", "HASHING", "DONE"}]
  BY DEF InlineHash, SafeInv, RingInv, TypeOK, SlotInv, Enqueuing, ModeInv
<1>2. hash_q_count' = 0 /\ tpc # "apply" /\ tpc' # "apply"
  BY <1>1 DEF InlineHash, ring
<1>3. Pending = <<>> /\ Pending' = <<>>
  <2>1. Pending = [i \in 1 .. 0 |-> Item(content, Entries[i - 1])]
    BY <1>1, <1>2, PendingForm DEF PendingShape
  <2>2. Pending' = [i \in 1 .. 0 |-> Item(content', Entries'[i - 1])]
    BY <1>2, PendingFormNext DEF PendingShape
  <2> QED
    BY <2>1, <2>2
<1>4. CASE UNCHANGED <<slot, disk>>
  BY <1>3, <1>4 DEF Fifo!vars
<1>5. CASE Matches(slotbuf[cur], cur) /\ WriteFailed(cur) /\ slot' = slot
  <2>1. slot' = [slot EXCEPT ![cur] = "open"]
    BY <1>1, <1>5
  <2>2. Fifo!Inline(cur)
    BY <1>1, <1>3, <1>5, <2>1 DEF Fifo!Inline, Fifo!WriteOutcome, WriteFailed
  <2> QED
    BY <1>1, <2>2 DEF Fifo!Next, Fifo!Pieces, Pieces
<1>6. CASE /\ Matches(slotbuf[cur], cur)
           /\ disk' = [disk EXCEPT ![cur] = content[slotbuf[cur]]]
           /\ slot' = [slot EXCEPT ![cur] = "DONE"]
  <2>1. Fifo!Inline(cur)
    BY <1>1, <1>3, <1>6 DEF Fifo!Inline, Fifo!WriteOutcome, Matches
  <2> QED
    BY <1>1, <2>1 DEF Fifo!Next, Fifo!Pieces, Pieces
<1> QED
  BY <1>4, <1>5, <1>6 DEF InlineHash

LEMMA FifoStep ==
  ASSUME SafeInv, SafeInv', [Next]_vars
  PROVE  Fifo!Next \/ UNCHANGED Fifo!vars
<1>0. \A k \in Offsets : Entries[k].buf \in Bufs
  BY EntriesType DEF SafeInv
\* Steps that leave the jobs alone.
<1>1. ASSUME UNCHANGED <<hash_q, hash_q_head, hash_q_count, content>>,
             \/ tpc # "apply" /\ tpc' # "apply"
             \/ UNCHANGED <<tpc, hand>>
      PROVE  Pending' = Pending
  <2>1. Entries' = Entries /\ Offsets' = Offsets
    BY <1>1, EntriesUnchanged
  <2> QED
    BY <1>1, <2>1, PendingUnchanged
<1>2. CASE Calls
  <2>1. ASSUME NEW p \in Pieces, MarkPending(p) PROVE UNCHANGED Fifo!vars
    BY <1>1, <2>1 DEF MarkPending, ring, Fifo!vars
  <2>2. ASSUME NEW p \in Pieces, NEW d \in {p, Junk}, GotLastBlock(p, d)
        PROVE  UNCHANGED Fifo!vars
    <3>1. Entries' = Entries /\ UNCHANGED <<hash_q_count, slot, disk>>
      BY <2>2, EntriesUnchanged DEF GotLastBlock, ring
    <3>2. \A k \in Offsets : content'[Entries[k].buf] = content[Entries[k].buf]
      <4>1. \A b \in Bufs : b # slotbuf[p] => content'[b] = content[b]
        BY <2>2 DEF GotLastBlock, SafeInv, RingInv, TypeOK
      <4>2. \A k \in Offsets : Entries[k].buf # slotbuf[p]
        BY DEF SafeInv, Apart
      <4> QED
        BY <1>0, <4>1, <4>2
    <3>3. tpc # "apply" /\ tpc' # "apply"
      BY <2>2 DEF GotLastBlock, HashPath
    <3>4. Pending' = Pending
      BY <3>1, <3>2, <3>3, PendingUnchanged
    <3> QED
      BY <3>1, <3>4 DEF Fifo!vars
  <2>3. CASE DrainCall \/ FlushCall \/ DestroyCall
    <3>1. /\ UNCHANGED <<hash_q, hash_q_head, hash_q_count, content, slot, disk>>
          /\ tpc # "apply" /\ tpc' # "apply"
      BY <2>3 DEF DrainCall, FlushCall, DestroyCall, ring, slots
    <3> QED
      BY <1>1, <3>1 DEF Fifo!vars
  <2>4. CASE CheckExisting
    <3>1. Pending' = Pending
      BY <1>1, <2>4 DEF CheckExisting, ring
    <3>2. verify_index \in Pieces
      BY <2>4 DEF CheckExisting, Pieces, SafeInv, RingInv, TypeOK
    <3>3. Fifo!Scan(verify_index)
      BY <2>4, <3>1 DEF CheckExisting, Fifo!Scan
    <3> QED
      BY <3>2, <3>3 DEF Fifo!Next, Fifo!Pieces, Pieces
  <2> QED
    BY <1>2, <2>1, <2>2, <2>3, <2>4 DEF Calls
<1>3. CASE TorrentStep
  <2>1. CASE SpawnWorker \/ EnqueueWait \/ DrainReturn \/ FlushWait \/ DestroyStop
             \/ DestroyJoin \/ DestroyFree
    <3>1. UNCHANGED <<hash_q, hash_q_head, hash_q_count, content, slot, disk>>
      BY <2>1 DEF SpawnWorker, EnqueueWait, DrainReturn, FlushWait, DestroyStop,
                  DestroyJoin, DestroyFree, ring, slots
    <3>2. tpc # "apply" /\ tpc' # "apply"
      BY <2>1 DEF SpawnWorker, EnqueueWait, DrainReturn, FlushWait, DestroyStop,
                  DestroyJoin, DestroyFree
    <3> QED
      BY <1>1, <3>1, <3>2 DEF Fifo!vars
  <2>2. CASE EnqueuePop
    <3>1. hash_q_count # 0 /\ tpc # "apply"
      BY <2>2, RingAssumption DEF EnqueuePop, PutHasRoom, SafeInv, RingInv
    <3>2. PopHead /\ HeadDone /\ tpc' = "apply" /\ UNCHANGED <<content, slot, disk>>
      BY <2>2 DEF EnqueuePop, slots
    <3> QED
      BY <3>1, <3>2, PopIsStutter DEF Fifo!vars
  <2>3. CASE DrainPop
    <3>1. /\ PopHead /\ HeadDone /\ hash_q_count # 0 /\ tpc # "apply" /\ tpc' = "apply"
          /\ UNCHANGED <<content, slot, disk>>
      BY <2>3 DEF DrainPop, slots
    <3> QED
      BY <3>1, PopIsStutter DEF Fifo!vars
  <2>4. CASE HashApply
    BY <2>4, HashApplyApplies DEF Fifo!Next
  <2> QED
    BY <1>3, <2>1, <2>2, <2>3, <2>4, InlineIsInline, PutCompletes DEF TorrentStep
<1>4. CASE WorkerStep
  <2>1. CASE WorkerWait \/ WorkerExit \/ WorkerTake \/ WorkerHash
    <3>1. UNCHANGED <<hash_q, hash_q_head, hash_q_count, content, tpc, hand, slot, disk>>
      BY <2>1 DEF WorkerWait, WorkerExit, WorkerTake, WorkerHash, ring, slots, call
    <3> QED
      BY <1>1, <3>1 DEF Fifo!vars
  <2>2. CASE WorkerPost
    <3>1. \A k \in Offsets : Entries'[k].idx = Entries[k].idx /\ Entries'[k].buf = Entries[k].buf
      BY <2>2, PostMoves DEF SafeInv
    <3>2. /\ UNCHANGED <<hash_q_count, content, hand, slot, disk>>
          /\ tpc' = tpc \/ (tpc # "apply" /\ tpc' # "apply")
      BY <2>2 DEF WorkerPost, SignalTorrent, slots, call
    <3>3. Pending' = Pending
      BY <3>1, <3>2, PendingUnchanged
    <3> QED
      BY <3>2, <3>3 DEF Fifo!vars
  <2> QED
    BY <1>4, <2>1, <2>2 DEF WorkerStep
<1>5. CASE SpuriousWakeup
  <2>1. UNCHANGED <<hash_q, hash_q_head, hash_q_count, content, hand, slot, disk>>
    BY <1>5 DEF SpuriousWakeup, ring, slots, call
  <2>2. tpc' = tpc \/ (tpc # "apply" /\ tpc' # "apply")
    BY <1>5 DEF SpuriousWakeup
  <2> QED
    BY <1>1, <2>1, <2>2 DEF Fifo!vars
<1>6. CASE UNCHANGED vars
  BY <1>1, <1>6 DEF vars, ring, slots, call, Fifo!vars
<1> QED
  BY <1>2, <1>3, <1>4, <1>5, <1>6 DEF Next, Dead

\* The ring, the worker, the pool and the locks together behave as one FIFO
\* queue whose verdicts are applied in completion order.
THEOREM RingImplementsFifo == Spec => ImplementsFifo
<1>1. SafeInv /\ SafeInv' /\ [Next]_vars => [Fifo!Next]_Fifo!vars
  BY FifoStep
<1> QED
  BY <1>1, FifoInit, SafeInvHolds, PTL DEF Spec, ImplementsFifo, Fifo!Spec
=============================================================================
