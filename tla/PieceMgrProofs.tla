--------------------------- MODULE PieceMgrProofs ---------------------------
(***************************************************************************)
(* Proofs about the piece manager for any torrent, storage layout,         *)
(* download order, ring size and sequence of calls.                        *)
(*                                                                         *)
(* MgrInv is the invariant: per slot (blocks counted as received are in    *)
(* the buffer, a HASHING piece has a job), for the queue (jobs hold no     *)
(* stale byte), for the counters, and for the cursor.  Each C function is  *)
(* an operator on the record and gets a lemma that it keeps MgrInv; inside *)
(* piece_mgr_got_block one piece is complete and not yet handed on, which  *)
(* is the exempted piece x, and inside piece_reset one slot is between two *)
(* states, which is MgrInvBut.                                             *)
(***************************************************************************)
EXTENDS PieceMgr, DataFacts, FiniteSetTheorems

States == {"EMPTY", "PENDING", "HASHING", "DONE"}

\* Request counts, buffers and jobs of some piece.
AllReqs == UNION {[Blocks(p) -> 0 .. ReqMax] : p \in Pieces}
AllBufs == {NoBuf} \cup UNION {[Blocks(p) -> Tags] : p \in Pieces}
Jobs    == [idx : Pieces, data : AllBufs]

MgrRec ==
  [state : [Pieces -> States], blocks : [Pieces -> SUBSET Nat], reqs : [Pieces -> AllReqs],
   buf : [Pieces -> AllBufs], have_bf : SUBSET Pieces, available_bf : SUBSET Pieces,
   num_done : Nat, completed_bytes : Nat, order_cursor : 0 .. OrderCount,
   strict_order : BOOLEAN, hash_ok : BOOLEAN, queue : Seq(Jobs), hashed : Nat,
   disk : [Pieces -> {"good", "other"}]]
----------------------------------------------------------------------------
(* Sizes, counts and the download order.                                   *)

LEMMA PiecesFinite == IsFiniteSet(Pieces)
BY FS_Interval, MgrAssumption DEF Pieces

LEMMA CardinalityDone ==
  ASSUME NEW S \in SUBSET Pieces, NEW p \in Pieces, p \notin S
  PROVE  /\ IsFiniteSet(S) /\ Cardinality(S) \in Nat
         /\ Cardinality(S \cup {p}) = Cardinality(S) + 1
<1>1. IsFiniteSet(S)
  BY PiecesFinite, FS_Subset
<1> QED
  BY <1>1, FS_CardinalityType, FS_AddElement

LEMMA SizeExists ==
  ASSUME NEW S, NEW N \in Nat
  PROVE  \E f : f = [n \in 0 .. N |-> IF n = 0 THEN 0
                       ELSE f[n - 1] + IF n - 1 \in S THEN BlockCount[n - 1] ELSE 0]
<1> DEFINE Good(k, f) == f = [n \in 0 .. k |-> IF n = 0 THEN 0
                            ELSE f[n - 1] + IF n - 1 \in S THEN BlockCount[n - 1] ELSE 0]
           T == {k \in Nat : \E f : Good(k, f)}
<1>1. 0 \in T
  <2>1. Good(0, [n \in 0 .. 0 |-> 0])
    OBVIOUS
  <2> QED
    BY <2>1
<1>2. ASSUME NEW k \in T PROVE k + 1 \in T
  <2>1. PICK f : Good(k, f)
    OBVIOUS
  <2> DEFINE g == [n \in 0 .. k + 1 |-> IF n = k + 1
                     THEN f[k] + IF k \in S THEN BlockCount[k] ELSE 0 ELSE f[n]]
  <2>2. Good(k + 1, g)
    BY <2>1
  <2> HIDE DEF Good
  <2> QED
    BY <2>2
<1>3. T = Nat
  <2> HIDE DEF T
  <2> QED
    BY <1>1, <1>2, InductionOnNat DEF T
<1> QED
  BY <1>3

LEMMA SizeForm ==
  ASSUME NEW S
  PROVE  \E f : /\ f = [n \in 0 .. NumPieces |-> IF n = 0 THEN 0
                          ELSE f[n - 1] + IF n - 1 \in S THEN BlockCount[n - 1] ELSE 0]
                /\ SizeOf(S) = f[NumPieces]
<1> DEFINE f == CHOOSE g : g = [n \in 0 .. NumPieces |-> IF n = 0 THEN 0
                          ELSE g[n - 1] + IF n - 1 \in S THEN BlockCount[n - 1] ELSE 0]
<1>1. f = [n \in 0 .. NumPieces |-> IF n = 0 THEN 0
                          ELSE f[n - 1] + IF n - 1 \in S THEN BlockCount[n - 1] ELSE 0]
  BY SizeExists, MgrAssumption
<1>2. SizeOf(S) = f[NumPieces]
  BY DEF SizeOf
<1> HIDE DEF f
<1> QED
  BY <1>1, <1>2

\* One more piece adds its size.
LEMMA SizeAdd ==
  ASSUME NEW S \in SUBSET Pieces, NEW p \in Pieces, p \notin S
  PROVE  /\ SizeOf(S) \in Nat
         /\ SizeOf(S \cup {p}) = SizeOf(S) + BlockCount[p]
<1> DEFINE N == NumPieces
           R == S \cup {p}
<1>0. N \in Nat /\ p \in 0 .. N - 1 /\ \A k \in 0 .. N - 1 : BlockCount[k] \in Nat
  BY MgrAssumption DEF Pieces
<1>1. PICK f : /\ f = [n \in 0 .. N |-> IF n = 0 THEN 0
                         ELSE f[n - 1] + IF n - 1 \in S THEN BlockCount[n - 1] ELSE 0]
               /\ SizeOf(S) = f[N]
  BY SizeForm
<1>2. PICK g : /\ g = [n \in 0 .. N |-> IF n = 0 THEN 0
                         ELSE g[n - 1] + IF n - 1 \in R THEN BlockCount[n - 1] ELSE 0]
               /\ SizeOf(R) = g[N]
  BY SizeForm
<1> DEFINE T == {n \in Nat : n <= N => /\ f[n] \in Nat
                                       /\ g[n] = f[n] + IF p < n THEN BlockCount[p] ELSE 0}
<1> HIDE DEF N
<1>3. 0 \in T
  <2>1. f[0] = 0 /\ g[0] = 0
    BY <1>0, <1>1, <1>2
  <2> QED
    BY <1>0, <2>1
<1>4. ASSUME NEW k \in T PROVE k + 1 \in T
  <2> SUFFICES ASSUME k + 1 <= N
               PROVE  /\ f[k + 1] \in Nat
                      /\ g[k + 1] = f[k + 1] + IF p < k + 1 THEN BlockCount[p] ELSE 0
    OBVIOUS
  <2>1. /\ k \in Nat /\ k \in 0 .. N - 1 /\ k + 1 \in 0 .. N /\ k + 1 # 0 /\ (k + 1) - 1 = k
    BY <1>0
  <2>2. f[k + 1] = f[k] + IF k \in S THEN BlockCount[k] ELSE 0
    BY <1>1, <2>1
  <2>3. g[k + 1] = g[k] + IF k \in R THEN BlockCount[k] ELSE 0
    BY <1>2, <2>1
  <2>4. /\ f[k] \in Nat /\ g[k] = f[k] + (IF p < k THEN BlockCount[p] ELSE 0)
        /\ BlockCount[k] \in Nat /\ BlockCount[p] \in Nat
    BY <1>0, <2>1
  <2>5. CASE k = p
    BY <1>0, <2>1, <2>2, <2>3, <2>4, <2>5
  <2>6. CASE k # p
    <3>1. (k \in R <=> k \in S) /\ (p < k <=> p < k + 1)
      BY <1>0, <2>1, <2>6
    <3> QED
      BY <1>0, <2>1, <2>2, <2>3, <2>4, <3>1
  <2> QED
    BY <2>5, <2>6
<1>5. T = Nat
  <2> HIDE DEF T
  <2> QED
    BY <1>3, <1>4, InductionOnNat DEF T
<1>6. N \in T
  BY <1>0, <1>5
<1> QED
  BY <1>0, <1>1, <1>2, <1>6

LEMMA SizeOfNone == SizeOf({}) = 0
<1> DEFINE N == NumPieces
<1>0. N \in Nat
  BY MgrAssumption
<1>1. PICK f : /\ f = [n \in 0 .. N |-> IF n = 0 THEN 0
                         ELSE f[n - 1] + IF n - 1 \in {} THEN BlockCount[n - 1] ELSE 0]
               /\ SizeOf({}) = f[N]
  BY SizeForm
<1> HIDE DEF N
<1> DEFINE X == [n \in 0 .. N |-> {0}]
<1>2. f[0] \in X[0]
  BY <1>0, <1>1
<1>3. ASSUME NEW n \in 0 + 1 .. N, f[n - 1] \in X[n - 1] PROVE f[n] \in X[n]
  <2>1. n \in 0 .. N /\ n - 1 \in 0 .. N /\ n # 0
    BY <1>0
  <2>2. f[n] = f[n - 1] + 0 /\ f[n - 1] = 0
    BY <1>1, <1>3, <2>1
  <2> QED
    BY <2>1, <2>2
<1>4. f[N] \in X[N]
  <2> HIDE DEF X
  <2>1. \A n \in 0 .. N : f[n] \in X[n]
    BY <1>0, <1>2, <1>3, LoopAdmits
  <2> QED
    BY <1>0, <2>1
<1> QED
  BY <1>0, <1>1, <1>4

LEMMA PositionsNat ==
  OrderCount \in Nat /\ \A n \in Positions : n \in Nat /\ n < OrderCount
BY MgrAssumption DEF OrderCount, Positions

\* order_pos names a position of the piece.
LEMMA OrderPosForm ==
  ASSUME NEW p \in Pieces
  PROVE  \/ OrderPos(p) = None /\ \A n \in Positions : OrderPieceAt(n) # p
         \/ /\ OrderPos(p) \in Positions /\ OrderPos(p) # None
            /\ OrderPieceAt(OrderPos(p)) = p
<1> DEFINE at == {n \in Positions : OrderPieceAt(n) = p}
<1>1. CASE at = {}
  BY <1>1 DEF OrderPos
<1>2. CASE at # {}
  <2>1. at \in SUBSET Nat /\ \A n \in at : n <= OrderCount
    BY PositionsNat
  <2>2. Max(at) \in at
    BY <1>2, <2>1, PositionsNat, MaxIsGreatest
  <2>3. OrderPos(p) = Max(at)
    BY <1>2 DEF OrderPos
  <2>4. Max(at) \in Nat
    BY <2>1, <2>2
  <2> QED
    BY <2>2, <2>3, <2>4 DEF None
<1> QED
  BY <1>1, <1>2

\* The cursor moves forward to the first unfinished position.
LEMMA FirstUnfinishedForm ==
  ASSUME NEW m, NEW lo \in 0 .. OrderCount
  PROVE  /\ FirstUnfinished(m, lo) \in lo .. OrderCount
         /\ \A n \in Positions : n >= lo /\ Unfinished(m, n) => FirstUnfinished(m, lo) <= n
<1> DEFINE open == {n \in Positions : n >= lo /\ Unfinished(m, n)}
<1>1. CASE open = {}
  BY <1>1, PositionsNat DEF FirstUnfinished
<1>2. CASE open # {}
  <2>1. open \in SUBSET Nat
    BY PositionsNat
  <2>2. Min(open) \in open /\ \A n \in open : Min(open) <= n
    BY <1>2, <2>1, MinIsLeast
  <2>3. FirstUnfinished(m, lo) = Min(open)
    BY <1>2 DEF FirstUnfinished
  <2>4. Min(open) \in Positions /\ Min(open) >= lo
    BY <2>2
  <2>5. Min(open) \in Nat /\ Min(open) < OrderCount /\ OrderCount \in Nat
    BY <2>4, PositionsNat
  <2> HIDE DEF open
  <2>6. Min(open) \in lo .. OrderCount
    BY <2>4, <2>5
  <2> QED
    BY <2>2, <2>3, <2>6 DEF open
<1> QED
  BY <1>1, <1>2
----------------------------------------------------------------------------
(* The invariant of a manager m.  In the middle of a handler one slot may  *)
(* be between two states: MgrInvBut(m, p, x) says nothing of what slot p   *)
(* means, only of its type.  And while piece_mgr_got_block hands over a    *)
(* piece x whose last block has come, x is PENDING with all its blocks (x  *)
(* is None otherwise).                                                     *)

BufOf(p) == {NoBuf} \cup [Blocks(p) -> Tags]

SlotType(m, p) == /\ m.blocks[p] \in SUBSET Blocks(p)
                  /\ m.reqs[p] \in [Blocks(p) -> 0 .. ReqMax]
                  /\ m.buf[p] \in BufOf(p)

\* What was received since the last reset is in the buffer.
Received(m, p) == \A b \in m.blocks[p] : m.buf[p] # NoBuf /\ m.buf[p][b] # "stale"

HasJob(m, p) == \E i \in 1 .. Len(m.queue) : m.queue[i].idx = p

SlotOK(m, p, x) ==
  /\ SlotType(m, p)
  /\ m.state[p] \in {"EMPTY", "PENDING"} => Received(m, p)
  /\ m.state[p] = "EMPTY" => m.blocks[p] = {}
  /\ (m.state[p] = "PENDING" /\ p # x) => m.blocks[p] # Blocks(p)
  /\ m.state[p] = "HASHING" => HasJob(m, p)

JobOK(j) == /\ j.idx \in Pieces
            /\ j.data \in [Blocks(j.idx) -> Tags]
            /\ \A b \in Blocks(j.idx) : j.data[b] # "stale"

QueueOK(m) == /\ Len(m.queue) <= QMax /\ m.hashed <= Len(m.queue)
              /\ \A i \in 1 .. Len(m.queue) : JobOK(m.queue[i])

DoneOf(m) == {p \in Pieces : m.state[p] = "DONE"}

CountOK(m) == /\ m.have_bf = DoneOf(m)
              /\ m.available_bf = {p \in DoneOf(m) : Readable(p)}
              /\ m.num_done = Cardinality(DoneOf(m))
              /\ m.completed_bytes = SizeOf(DoneOf(m))

\* The position order_pos keeps of an unfinished piece is not behind the cursor.
AheadOK(m) == \A p \in Pieces :
                m.state[p] # "DONE" /\ OrderPos(p) # None => m.order_cursor <= OrderPos(p)

MgrInvBut(m, p, x) ==
  /\ m \in MgrRec /\ SlotType(m, p)
  /\ \A q \in Pieces : q # p => SlotOK(m, q, x)
  /\ QueueOK(m) /\ CountOK(m) /\ AheadOK(m)

MgrInv(m, x) ==
  /\ m \in MgrRec
  /\ \A q \in Pieces : SlotOK(m, q, x)
  /\ QueueOK(m) /\ CountOK(m) /\ AheadOK(m)
----------------------------------------------------------------------------
(* Steps that change one slot.                                             *)

LEMMA InAll ==
  ASSUME NEW p \in Pieces
  PROVE  [Blocks(p) -> 0 .. ReqMax] \subseteq AllReqs /\ BufOf(p) \subseteq AllBufs
BY DEF AllReqs, AllBufs, BufOf

OthersSame(m, r, p) ==
  \A q \in Pieces : q # p => /\ r.state[q] = m.state[q] /\ r.blocks[q] = m.blocks[q]
                             /\ r.reqs[q] = m.reqs[q] /\ r.buf[q] = m.buf[q]

RestSame(m, r) ==
  /\ r.have_bf = m.have_bf /\ r.available_bf = m.available_bf
  /\ r.num_done = m.num_done /\ r.completed_bytes = m.completed_bytes
  /\ r.order_cursor = m.order_cursor

QueueSame(m, r) == r.queue = m.queue /\ r.hashed = m.hashed

\* Another slot is as it was.
LEMMA OtherSlots ==
  ASSUME NEW m, NEW x, NEW r, NEW p \in Pieces, OthersSame(m, r, p), r.queue = m.queue,
         \A q \in Pieces : q # p => SlotOK(m, q, x)
  PROVE  \A q \in Pieces : q # p => SlotOK(r, q, x)
BY DEF OthersSame, SlotOK, SlotType, Received, HasJob

LEMMA SlotStep ==
  ASSUME NEW m, NEW x, NEW r \in MgrRec, NEW p \in Pieces, MgrInvBut(m, p, x),
         OthersSame(m, r, p), RestSame(m, r), QueueSame(m, r), SlotType(r, p),
         r.state[p] = "DONE" <=> m.state[p] = "DONE"
  PROVE  MgrInvBut(r, p, x) /\ (SlotOK(r, p, x) => MgrInv(r, x))
<1>1. \A q \in Pieces : q # p => SlotOK(r, q, x)
  BY OtherSlots DEF MgrInvBut, QueueSame
<1>2. QueueOK(r)
  BY DEF MgrInvBut, QueueSame, QueueOK
<1>3. \A q \in Pieces : r.state[q] = "DONE" <=> m.state[q] = "DONE"
  BY DEF OthersSame
<1>4. DoneOf(r) = DoneOf(m)
  BY <1>3 DEF DoneOf
<1>5. CountOK(r)
  BY <1>4 DEF MgrInvBut, CountOK, RestSame
<1>6. AheadOK(r)
  BY <1>3 DEF MgrInvBut, AheadOK, RestSame
<1> QED
  BY <1>1, <1>2, <1>5, <1>6 DEF MgrInvBut, MgrInv

LEMMA ButOne ==
  ASSUME NEW m, NEW x, NEW p \in Pieces
  PROVE  /\ MgrInv(m, x) => MgrInvBut(m, p, x) /\ SlotOK(m, p, x)
         /\ MgrInvBut(m, p, x) /\ SlotOK(m, p, x) => MgrInv(m, x)
BY DEF MgrInv, MgrInvBut, SlotOK

\* mark_piece_done and mark_done_unhashed: the piece is counted and the cursor
\* moves on.
Marked(m, r, p) ==
  /\ r \in MgrRec /\ r.state[p] = "DONE" /\ OthersSame(m, r, p) /\ QueueSame(m, r)
  /\ r.blocks = m.blocks /\ r.reqs = m.reqs /\ r.buf = m.buf /\ r.disk = m.disk
  /\ r.have_bf = m.have_bf \cup {p}
  /\ r.available_bf = IF Readable(p) THEN m.available_bf \cup {p} ELSE m.available_bf
  /\ r.num_done = m.num_done + 1
  /\ r.completed_bytes = m.completed_bytes + BlockCount[p]
  /\ r.order_cursor \in m.order_cursor .. OrderCount
  /\ \A n \in Positions : n >= m.order_cursor /\ Unfinished(r, n) => r.order_cursor <= n

LEMMA MarkDoneForm ==
  ASSUME NEW m \in MgrRec, NEW p \in Pieces PROVE Marked(m, MarkPieceDone(m, p), p)
<1> DEFINE d == m.num_done + 1
           c == m.completed_bytes + BlockCount[p]
           h == m.have_bf \cup {p}
           a == IF Readable(p) THEN m.available_bf \cup {p} ELSE m.available_bf
           k == [m EXCEPT !.state[p] = "DONE", !.have_bf = h, !.available_bf = a,
                          !.num_done = d, !.completed_bytes = c]
           o == FirstUnfinished(k, k.order_cursor)
           r == [k EXCEPT !.order_cursor = o]
<1>1. MarkPieceDone(m, p) = r
  BY DEF MarkPieceDone, CountDone, OrderCursorAdvance
<1>2. d \in Nat /\ c \in Nat /\ h \in SUBSET Pieces /\ a \in SUBSET Pieces
  BY MgrAssumption DEF MgrRec
<1> HIDE DEF d, c, h, a
<1>3. /\ k \in MgrRec /\ k.state[p] = "DONE" /\ k.order_cursor = m.order_cursor
      /\ k.blocks = m.blocks /\ k.reqs = m.reqs /\ k.buf = m.buf /\ k.disk = m.disk
      /\ k.queue = m.queue /\ k.hashed = m.hashed
      /\ k.have_bf = h /\ k.available_bf = a /\ k.num_done = d /\ k.completed_bytes = c
      /\ \A q \in Pieces : q # p => k.state[q] = m.state[q]
  BY <1>2 DEF MgrRec, States
<1> HIDE DEF k
<1>4. k.order_cursor \in 0 .. OrderCount
  BY <1>3 DEF MgrRec
<1>5. /\ o \in k.order_cursor .. OrderCount
      /\ \A n \in Positions : n >= k.order_cursor /\ Unfinished(k, n) => o <= n
  BY <1>4, FirstUnfinishedForm
<1>6. o \in 0 .. OrderCount
  BY <1>4, <1>5
<1> HIDE DEF o
<1>7. /\ r \in MgrRec /\ r.state = k.state /\ r.order_cursor = o
      /\ r.blocks = k.blocks /\ r.reqs = k.reqs /\ r.buf = k.buf /\ r.disk = k.disk
      /\ r.queue = k.queue /\ r.hashed = k.hashed
      /\ r.have_bf = k.have_bf /\ r.available_bf = k.available_bf
      /\ r.num_done = k.num_done /\ r.completed_bytes = k.completed_bytes
  BY <1>3, <1>6 DEF MgrRec
<1> HIDE DEF r
<1>8. \A n \in Positions : Unfinished(r, n) <=> Unfinished(k, n)
  BY <1>7 DEF Unfinished
<1>9. /\ OthersSame(m, r, p) /\ QueueSame(m, r)
  BY <1>3, <1>7 DEF OthersSame, QueueSame
<1>10. Marked(m, r, p)
  BY <1>3, <1>5, <1>7, <1>8, <1>9 DEF Marked, d, c, h, a
<1> QED
  BY <1>1, <1>10 DEF r

LEMMA MarkDoneKeeps ==
  ASSUME NEW m, NEW x, NEW p \in Pieces, MgrInvBut(m, p, x), m.state[p] # "DONE"
  PROVE  MgrInv(MarkPieceDone(m, p), x)
<1> DEFINE r == MarkPieceDone(m, p)
<1>0. m \in MgrRec
  BY DEF MgrInvBut
<1>1. Marked(m, r, p)
  BY <1>0, MarkDoneForm
<1> HIDE DEF r
<1>2. \A q \in Pieces : q # p => SlotOK(r, q, x)
  BY <1>1, OtherSlots DEF Marked, MgrInvBut, QueueSame
<1>3. SlotOK(r, p, x)
  BY <1>1 DEF Marked, MgrInvBut, SlotOK, SlotType
<1>4. QueueOK(r)
  BY <1>1 DEF Marked, MgrInvBut, QueueSame, QueueOK
<1>5. CountOK(r)
  <2>1. DoneOf(r) = DoneOf(m) \cup {p} /\ p \notin DoneOf(m) /\ DoneOf(m) \in SUBSET Pieces
    BY <1>1 DEF Marked, DoneOf, OthersSame
  <2>2. /\ Cardinality(DoneOf(r)) = Cardinality(DoneOf(m)) + 1
        /\ SizeOf(DoneOf(r)) = SizeOf(DoneOf(m)) + BlockCount[p]
    BY <2>1, CardinalityDone, SizeAdd
  <2> HIDE DEF DoneOf
  <2> QED
    BY <1>1, <2>1, <2>2 DEF Marked, MgrInvBut, CountOK
<1>6. AheadOK(r)
  <2> SUFFICES ASSUME NEW q \in Pieces, r.state[q] # "DONE", OrderPos(q) # None
               PROVE  r.order_cursor <= OrderPos(q)
    BY DEF AheadOK
  <2>1. q # p /\ m.state[q] # "DONE"
    BY <1>1 DEF Marked, OthersSame
  <2>2. OrderPos(q) \in Positions /\ OrderPieceAt(OrderPos(q)) = q
    BY OrderPosForm
  <2>3. Unfinished(r, OrderPos(q))
    BY <2>2 DEF Unfinished
  <2>4. m.order_cursor <= OrderPos(q)
    BY <2>1 DEF MgrInvBut, AheadOK
  <2>5. OrderPos(q) \in Nat /\ m.order_cursor \in Nat
    BY <1>0, <2>2, PositionsNat DEF MgrRec
  <2> QED
    BY <1>1, <2>2, <2>3, <2>4, <2>5 DEF Marked
<1> QED
  BY <1>1, <1>2, <1>3, <1>4, <1>5, <1>6 DEF Marked, MgrInv, r

\* reset_piece: the piece is uncounted if it was DONE, everything received is
\* forgotten, the cursor is pulled back.
Emptied(m, r, p) ==
  /\ r \in MgrRec /\ r.state[p] = "EMPTY" /\ OthersSame(m, r, p) /\ QueueSame(m, r)
  /\ r.blocks[p] = {} /\ r.reqs[p] = [b \in Blocks(p) |-> 0] /\ r.buf[p] = StaleBuf(m.buf[p])
  /\ r.disk = m.disk
  /\ r.have_bf = m.have_bf \ {p} /\ r.available_bf = m.available_bf \ {p}
  /\ r.num_done = IF m.state[p] = "DONE" THEN m.num_done - 1 ELSE m.num_done
  /\ r.completed_bytes = IF m.state[p] = "DONE" THEN m.completed_bytes - BlockCount[p]
                         ELSE m.completed_bytes
  /\ r.order_cursor = IF OrderPos(p) # None /\ OrderPos(p) < m.order_cursor
                      THEN OrderPos(p) ELSE m.order_cursor

LEMMA StaleBufForm ==
  ASSUME NEW p \in Pieces, NEW f \in BufOf(p)
  PROVE  StaleBuf(f) \in BufOf(p)
<1>1. CASE f = NoBuf
  <2>1. StaleBuf(<<>>) = <<>>
    BY DEF StaleBuf
  <2> QED
    BY <1>1, <2>1 DEF BufOf, NoBuf
<1>2. CASE f \in [Blocks(p) -> Tags]
  BY <1>2 DEF StaleBuf, BufOf, Tags
<1> QED
  BY <1>1, <1>2 DEF BufOf

LEMMA UncountForm ==
  ASSUME NEW m, NEW x, NEW p \in Pieces, MgrInvBut(m, p, x), m.state[p] = "DONE"
  PROVE  /\ m.num_done > 0 /\ m.num_done - 1 \in Nat
         /\ m.completed_bytes >= BlockCount[p] /\ m.completed_bytes - BlockCount[p] \in Nat
         /\ m.num_done - 1 = Cardinality(DoneOf(m) \ {p})
         /\ m.completed_bytes - BlockCount[p] = SizeOf(DoneOf(m) \ {p})
<1> DEFINE S == DoneOf(m) \ {p}
<1>1. S \in SUBSET Pieces /\ p \notin S /\ S \cup {p} = DoneOf(m)
  BY DEF DoneOf
<1>2. /\ Cardinality(S) \in Nat /\ Cardinality(DoneOf(m)) = Cardinality(S) + 1
      /\ SizeOf(S) \in Nat /\ SizeOf(DoneOf(m)) = SizeOf(S) + BlockCount[p]
  BY <1>1, CardinalityDone, SizeAdd
<1>3. m.num_done = Cardinality(DoneOf(m)) /\ m.completed_bytes = SizeOf(DoneOf(m))
  BY DEF MgrInvBut, CountOK
<1>4. BlockCount[p] \in Nat
  BY MgrAssumption
<1> HIDE DEF S
<1> QED
  BY <1>2, <1>3, <1>4 DEF S

LEMMA ResetForm ==
  ASSUME NEW m, NEW x, NEW p \in Pieces, MgrInvBut(m, p, x)
  PROVE  Emptied(m, ResetPiece(m, p), p)
<1> DEFINE done == m.state[p] = "DONE"
           d == IF done THEN m.num_done - 1 ELSE m.num_done
           c == IF done THEN m.completed_bytes - BlockCount[p] ELSE m.completed_bytes
           h == m.have_bf \ {p}
           a == m.available_bf \ {p}
           z == [b \in Blocks(p) |-> 0]
           s == StaleBuf(m.buf[p])
           u == [m EXCEPT !.num_done = d, !.completed_bytes = c, !.have_bf = h,
                          !.available_bf = a]
           k == [u EXCEPT !.blocks[p] = {}, !.reqs[p] = z, !.buf[p] = s, !.state[p] = "EMPTY"]
           o == IF OrderPos(p) # None /\ OrderPos(p) < m.order_cursor
                THEN OrderPos(p) ELSE m.order_cursor
           r == [k EXCEPT !.order_cursor = o]
           counted == m.state[p] = "DONE" /\ m.num_done > 0
           v == IF ~counted THEN m
                 ELSE [m EXCEPT !.num_done = @ - 1,
                                !.completed_bytes =
                                   IF @ >= BlockCount[p] THEN @ - BlockCount[p] ELSE 0,
                                !.have_bf = @ \ {p},
                                !.available_bf = @ \ {p}]
<1>0. m \in MgrRec /\ CountOK(m) /\ SlotType(m, p)
  BY DEF MgrInvBut
<1>1. v = u
  <2>1. CASE done
    <3>1. m.num_done > 0 /\ m.completed_bytes >= BlockCount[p]
      BY <2>1, UncountForm
    <3> QED
      BY <2>1, <3>1
  <2>2. CASE ~done
    <3>1. h = m.have_bf /\ a = m.available_bf /\ d = m.num_done /\ c = m.completed_bytes
      BY <1>0, <2>2 DEF CountOK, DoneOf
    <3>2. v = m
      BY <2>2
    <3> QED
      BY <1>0, <3>1, <3>2 DEF MgrRec
  <2> QED
    BY <2>1, <2>2
<1>2. /\ d \in Nat /\ c \in Nat /\ h \in SUBSET Pieces /\ a \in SUBSET Pieces
  BY <1>0, UncountForm DEF MgrRec
<1>3. z \in AllReqs /\ s \in AllBufs
  <2>1. s \in BufOf(p)
    BY <1>0, StaleBufForm DEF SlotType
  <2>2. z \in [Blocks(p) -> 0 .. ReqMax]
    BY MgrAssumption
  <2> QED
    BY <2>1, <2>2, InAll
<1>4. o \in 0 .. OrderCount
  BY <1>0, OrderPosForm, PositionsNat DEF MgrRec
<1>5. ResetPiece(m, p) = OrderCursorRewind([v EXCEPT !.blocks[p] = {}, !.reqs[p] = z,
                              !.buf[p] = StaleBuf(@), !.state[p] = "EMPTY"], p)
  BY Zenon DEF ResetPiece
<1> HIDE DEF v, d, c, h, a
<1>6. /\ u \in MgrRec /\ u.buf = m.buf /\ u.state = m.state /\ u.blocks = m.blocks
      /\ u.reqs = m.reqs /\ u.disk = m.disk /\ u.queue = m.queue /\ u.hashed = m.hashed
      /\ u.order_cursor = m.order_cursor /\ u.num_done = d /\ u.completed_bytes = c
      /\ u.have_bf = h /\ u.available_bf = a
  BY <1>0, <1>2 DEF MgrRec
<1> HIDE DEF u
<1>7. ResetPiece(m, p) = OrderCursorRewind(k, p)
  BY <1>1, <1>5, <1>6
<1> HIDE DEF z, s
<1>8. /\ k \in MgrRec /\ k.state[p] = "EMPTY" /\ k.blocks[p] = {} /\ k.reqs[p] = z
      /\ k.buf[p] = s /\ k.disk = u.disk /\ k.queue = u.queue /\ k.hashed = u.hashed
      /\ k.order_cursor = u.order_cursor /\ k.num_done = u.num_done
      /\ k.completed_bytes = u.completed_bytes /\ k.have_bf = u.have_bf
      /\ k.available_bf = u.available_bf
  BY <1>3, <1>6 DEF MgrRec, States
<1>9. \A q \in Pieces : q # p => /\ k.state[q] = u.state[q] /\ k.blocks[q] = u.blocks[q]
                                 /\ k.reqs[q] = u.reqs[q] /\ k.buf[q] = u.buf[q]
  BY <1>6 DEF MgrRec
<1> HIDE DEF k
<1>10. OrderCursorRewind(k, p) = r
  BY <1>6, <1>8 DEF OrderCursorRewind
<1> HIDE DEF o
<1>11. /\ r \in MgrRec /\ r.state = k.state /\ r.order_cursor = o
       /\ r.blocks = k.blocks /\ r.reqs = k.reqs /\ r.buf = k.buf /\ r.disk = k.disk
       /\ r.queue = k.queue /\ r.hashed = k.hashed
       /\ r.have_bf = k.have_bf /\ r.available_bf = k.available_bf
       /\ r.num_done = k.num_done /\ r.completed_bytes = k.completed_bytes
  BY <1>4, <1>8 DEF MgrRec
<1> HIDE DEF r
<1>12. OthersSame(m, r, p) /\ QueueSame(m, r)
  BY <1>6, <1>8, <1>9, <1>11 DEF OthersSame, QueueSame
<1>13. Emptied(m, r, p)
  BY <1>6, <1>8, <1>11, <1>12 DEF Emptied, d, c, h, a, z, s, o
<1> QED
  BY <1>7, <1>10, <1>13

LEMMA ResetKeeps ==
  ASSUME NEW m, NEW x, NEW p \in Pieces, MgrInvBut(m, p, x)
  PROVE  MgrInv(ResetPiece(m, p), x)
<1> DEFINE r == ResetPiece(m, p)
<1>1. Emptied(m, r, p)
  BY ResetForm
<1> HIDE DEF r
<1>0. m \in MgrRec /\ CountOK(m) /\ SlotType(m, p)
  BY DEF MgrInvBut
<1>2. \A q \in Pieces : q # p => SlotOK(r, q, x)
  BY <1>1, OtherSlots DEF Emptied, MgrInvBut, QueueSame
<1>3. SlotOK(r, p, x)
  <2>1. StaleBuf(m.buf[p]) \in BufOf(p)
    BY <1>0, StaleBufForm DEF SlotType
  <2>2. [b \in Blocks(p) |-> 0] \in [Blocks(p) -> 0 .. ReqMax]
    BY MgrAssumption
  <2> QED
    BY <1>1, <2>1, <2>2 DEF Emptied, SlotOK, SlotType, Received
<1>4. QueueOK(r)
  BY <1>1 DEF Emptied, MgrInvBut, QueueSame, QueueOK
<1>5. CountOK(r)
  <2>1. DoneOf(r) = DoneOf(m) \ {p}
    BY <1>1 DEF Emptied, DoneOf, OthersSame
  <2>2. /\ r.num_done = Cardinality(DoneOf(r)) /\ r.completed_bytes = SizeOf(DoneOf(r))
    <3>1. CASE m.state[p] = "DONE"
      BY <1>1, <2>1, <3>1, UncountForm DEF Emptied
    <3>2. CASE m.state[p] # "DONE"
      <4>1. DoneOf(r) = DoneOf(m)
        BY <2>1, <3>2 DEF DoneOf
      <4> QED
        BY <1>0, <1>1, <3>2, <4>1 DEF Emptied, CountOK
    <3> QED
      BY <3>1, <3>2
  <2>3. r.have_bf = m.have_bf \ {p} /\ r.available_bf = m.available_bf \ {p}
    BY <1>1 DEF Emptied
  <2> QED
    BY <1>0, <2>1, <2>2, <2>3 DEF CountOK
<1>6. AheadOK(r)
  <2> SUFFICES ASSUME NEW q \in Pieces, r.state[q] # "DONE", OrderPos(q) # None
               PROVE  r.order_cursor <= OrderPos(q)
    BY DEF AheadOK
  <2>1. /\ OrderPos(q) \in Nat /\ m.order_cursor \in Nat
        /\ OrderPos(p) # None => OrderPos(p) \in Nat
    BY <1>0, OrderPosForm, PositionsNat DEF MgrRec
  <2>2. r.order_cursor = IF OrderPos(p) # None /\ OrderPos(p) < m.order_cursor
                         THEN OrderPos(p) ELSE m.order_cursor
    BY <1>1 DEF Emptied
  <2>3. CASE q = p
    BY <2>1, <2>2, <2>3
  <2>4. CASE q # p
    <3>1. m.order_cursor <= OrderPos(q)
      BY <1>1, <2>4 DEF Emptied, OthersSame, MgrInvBut, AheadOK
    <3> QED
      BY <2>1, <2>2, <3>1
  <2> QED
    BY <2>3, <2>4
<1> QED
  BY <1>1, <1>2, <1>3, <1>4, <1>5, <1>6 DEF Emptied, MgrInv, r
----------------------------------------------------------------------------
(* The write of a piece and the verdict of the hash worker.                *)

\* A readable piece is DONE only if its bytes were just stored, or it was DONE
\* before and its range of the storage was left alone.
Kept(m, r) ==
  \A q \in Pieces : Readable(q) /\ r.state[q] = "DONE"
    => r.disk[q] = "good" \/ (m.state[q] = "DONE" /\ r.disk[q] = m.disk[q])

LEMMA KeptTrans == ASSUME NEW a, NEW b, NEW c, Kept(a, b), Kept(b, c) PROVE Kept(a, c)
BY DEF Kept

LEMMA KeptSelf == ASSUME NEW a PROVE Kept(a, a)
BY DEF Kept

\* A block that counts as requested has not come yet, and of a piece that is
\* hashed or done every block has.
AskedAt(m, q) ==
  /\ m.state[q] \in {"HASHING", "DONE"} => m.blocks[q] = Blocks(q)
  /\ \A c \in Blocks(q) : m.reqs[q][c] # 0 => c \notin m.blocks[q]

\* That stays so, and requests are only taken back.
EasedAt(m, r, q) ==
  AskedAt(m, q) => /\ AskedAt(r, q)
                   /\ \A c \in Blocks(q) : r.reqs[q][c] \in {0, m.reqs[q][c]}

Eased(m, r) == \A q \in Pieces : EasedAt(m, r, q)

LEMMA EasedTrans == ASSUME NEW a, NEW b, NEW c, Eased(a, b), Eased(b, c) PROVE Eased(a, c)
BY DEF Eased, EasedAt

LEMMA EasedSelf == ASSUME NEW a PROVE Eased(a, a)
BY DEF Eased, EasedAt

\* A step of slot p.
LEMMA EasedSlot ==
  ASSUME NEW m, NEW r, NEW p \in Pieces, OthersSame(m, r, p), EasedAt(m, r, p)
  PROVE  Eased(m, r)
<1>1. ASSUME NEW q \in Pieces, q # p PROVE EasedAt(m, r, q)
  <2>1. r.state[q] = m.state[q] /\ r.blocks[q] = m.blocks[q] /\ r.reqs[q] = m.reqs[q]
    BY <1>1 DEF OthersSame
  <2> QED
    BY <2>1 DEF EasedAt, AskedAt
<1> QED
  BY <1>1 DEF Eased

\* A slot that is reset asks for nothing.
LEMMA EasedReset ==
  ASSUME NEW m, NEW r, NEW p \in Pieces, r.state[p] = "EMPTY",
         r.reqs[p] = [b \in Blocks(p) |-> 0]
  PROVE  EasedAt(m, r, p)
BY DEF EasedAt, AskedAt

\* What blocks, verdicts and web pieces may do: a DONE piece and its bytes are
\* left alone, no block is asked for, and writes that succeed spoil nothing
\* that is on the storage.
Fed(m, r, w) ==
  /\ Kept(m, r)
  /\ Eased(m, r)
  /\ \A q \in Pieces : m.state[q] = "DONE" => r.state[q] = "DONE" /\ r.disk[q] = m.disk[q]
  /\ w = "stored" => \A q \in Pieces : m.disk[q] = "good" => r.disk[q] = "good"

LEMMA FedTrans ==
  ASSUME NEW a, NEW b, NEW c, NEW w, Fed(a, b, w), Fed(b, c, w) PROVE Fed(a, c, w)
BY EasedTrans DEF Fed, Kept

LEMMA FedSelf == ASSUME NEW a, NEW w PROVE Fed(a, a, w)
BY EasedSelf DEF Fed, Kept

\* What matters of the state before.
LEMMA FedSame ==
  ASSUME NEW m, NEW k, NEW r, NEW w, Fed(k, r, w), k.state = m.state, k.blocks = m.blocks,
         k.reqs = m.reqs, k.disk = m.disk
  PROVE  Fed(m, r, w)
<1>1. Eased(m, r)
  BY DEF Fed, Eased, EasedAt, AskedAt
<1> QED
  BY <1>1 DEF Fed, Kept

\* A step that leaves the storage and the DONE pieces alone.
LEMMA FedQuiet ==
  ASSUME NEW m, NEW r, NEW w, r.disk = m.disk, Eased(m, r),
         \A q \in Pieces : r.state[q] = "DONE" <=> m.state[q] = "DONE"
  PROVE  Fed(m, r, w)
BY DEF Fed, Kept

StoredAs(m, r, p, w) ==
  /\ r \in MgrRec /\ RestSame(m, r) /\ QueueSame(m, r)
  /\ r.state = m.state /\ r.blocks = m.blocks /\ r.reqs = m.reqs /\ r.buf = m.buf
  /\ \A q \in Pieces : q # p => r.disk[q] = m.disk[q]
  /\ Readable(p) /\ w = "stored" => r.disk[p] = "good"
  /\ ~Readable(p) => r.disk[p] = m.disk[p]

LEMMA StoreForm ==
  ASSUME NEW m \in MgrRec, NEW p \in Pieces, NEW w \in WriteResults
  PROVE  StoredAs(m, Store(m, p, w), p, w)
<1> DEFINE d == IF ~Readable(p) \/ w = "refused" THEN m.disk[p]
                ELSE IF w = "stored" THEN "good" ELSE "other"
           r == [m EXCEPT !.disk[p] = d]
<1>1. Store(m, p, w) = r
  BY DEF Store
<1>2. /\ d \in {"good", "other"} /\ (Readable(p) /\ w = "stored" => d = "good")
      /\ ~Readable(p) => d = m.disk[p]
  BY DEF MgrRec, WriteResults
<1> HIDE DEF d
<1>3. /\ r \in MgrRec /\ r.disk[p] = d
      /\ r.state = m.state /\ r.blocks = m.blocks /\ r.reqs = m.reqs /\ r.buf = m.buf
      /\ r.queue = m.queue /\ r.hashed = m.hashed
      /\ r.have_bf = m.have_bf /\ r.available_bf = m.available_bf
      /\ r.num_done = m.num_done /\ r.completed_bytes = m.completed_bytes
      /\ r.order_cursor = m.order_cursor
      /\ \A q \in Pieces : q # p => r.disk[q] = m.disk[q]
  BY <1>2 DEF MgrRec
<1> HIDE DEF r
<1>4. StoredAs(m, r, p, w)
  BY <1>2, <1>3 DEF StoredAs, RestSame, QueueSame
<1> QED
  BY <1>1, <1>4 DEF r

LEMMA StoreKeeps ==
  ASSUME NEW m, NEW x, NEW p \in Pieces, NEW w \in WriteResults, MgrInvBut(m, p, x)
  PROVE  MgrInvBut(Store(m, p, w), p, x)
<1> DEFINE r == Store(m, p, w)
<1>1. m \in MgrRec /\ SlotType(m, p)
  BY DEF MgrInvBut
<1>2. StoredAs(m, r, p, w)
  BY <1>1, StoreForm
<1> HIDE DEF r
<1>3. r \in MgrRec /\ OthersSame(m, r, p) /\ RestSame(m, r) /\ QueueSame(m, r)
      /\ SlotType(r, p) /\ r.state[p] = m.state[p]
  BY <1>1, <1>2 DEF StoredAs, OthersSame, SlotType
<1>4. MgrInvBut(r, p, x)
  BY <1>3, SlotStep
<1> QED
  BY <1>4 DEF r

\* The buffer comes back to its slot.
Attached(m, r, p, f) ==
  /\ r \in MgrRec /\ RestSame(m, r) /\ QueueSame(m, r)
  /\ r.state = m.state /\ r.blocks = m.blocks /\ r.reqs = m.reqs /\ r.disk = m.disk
  /\ r.buf[p] = f /\ \A q \in Pieces : q # p => r.buf[q] = m.buf[q]

LEMMA AttachForm ==
  ASSUME NEW m \in MgrRec, NEW p \in Pieces, NEW f \in BufOf(p)
  PROVE  Attached(m, [m EXCEPT !.buf[p] = f], p, f)
<1> DEFINE r == [m EXCEPT !.buf[p] = f]
<1>1. f \in AllBufs
  BY InAll
<1>2. /\ r \in MgrRec /\ r.disk = m.disk
      /\ r.state = m.state /\ r.blocks = m.blocks /\ r.reqs = m.reqs /\ r.buf[p] = f
      /\ r.queue = m.queue /\ r.hashed = m.hashed
      /\ r.have_bf = m.have_bf /\ r.available_bf = m.available_bf
      /\ r.num_done = m.num_done /\ r.completed_bytes = m.completed_bytes
      /\ r.order_cursor = m.order_cursor
      /\ \A q \in Pieces : q # p => r.buf[q] = m.buf[q]
  BY <1>1 DEF MgrRec
<1> HIDE DEF r
<1>3. Attached(m, r, p, f)
  BY <1>2 DEF Attached, RestSame, QueueSame
<1> QED
  BY <1>3 DEF r

LEMMA AttachKeeps ==
  ASSUME NEW m, NEW x, NEW p \in Pieces, NEW f \in BufOf(p), MgrInvBut(m, p, x)
  PROVE  MgrInvBut([m EXCEPT !.buf[p] = f], p, x)
<1> DEFINE r == [m EXCEPT !.buf[p] = f]
<1>1. m \in MgrRec /\ SlotType(m, p)
  BY DEF MgrInvBut
<1>2. Attached(m, r, p, f)
  BY <1>1, AttachForm
<1> HIDE DEF r
<1>3. r \in MgrRec /\ OthersSame(m, r, p) /\ RestSame(m, r) /\ QueueSame(m, r)
      /\ SlotType(r, p) /\ r.state[p] = m.state[p]
  BY <1>1, <1>2 DEF Attached, OthersSame, SlotType
<1>4. MgrInvBut(r, p, x)
  BY <1>3, SlotStep
<1> QED
  BY <1>4 DEF r

\* hash_apply decides one piece.
Applied(m, r, p, w) ==
  /\ r.queue = m.queue /\ r.hashed = m.hashed /\ OthersSame(m, r, p)
  /\ Fed(m, r, w) /\ r.state[p] # "HASHING"
  /\ m.state[p] # "HASHING" => r = m

LEMMA HashApplyKeeps ==
  ASSUME NEW m, NEW x, NEW job, NEW w \in WriteResults, JobOK(job),
         MgrInvBut(m, job.idx, x), m.state[job.idx] # "HASHING" => SlotOK(m, job.idx, x)
  PROVE  /\ MgrInv(HashApply(m, job, w), x)
         /\ Applied(m, HashApply(m, job, w), job.idx, w)
<1> DEFINE p == job.idx
           r == HashApply(m, job, w)
           f == [m EXCEPT !.buf[p] = job.data]
<1>1. p \in Pieces /\ job.data \in BufOf(p) /\ m \in MgrRec
  BY DEF JobOK, BufOf, MgrInvBut
<1>2. CASE m.state[p] # "HASHING"
  <2>1. r = m
    BY <1>2 DEF HashApply
  <2>2. MgrInv(m, x)
    BY <1>1, <1>2, ButOne
  <2>3. Applied(m, m, p, w)
    BY <1>2, FedSelf DEF Applied, OthersSame
  <2> QED
    BY <2>1, <2>2, <2>3
<1>3. CASE m.state[p] = "HASHING" /\ (~GoodData(p, job.data) \/ w # "stored")
  <2>1. PICK k : /\ r = ResetPiece(k, p)
                 /\ k = f \/ (k = Store(f, p, w) /\ w # "stored")
    BY <1>3 DEF HashApply
  <2>2. MgrInvBut(f, p, x) /\ Attached(m, f, p, job.data)
    BY <1>1, AttachKeeps, AttachForm
  <2>3. f \in MgrRec
    BY <2>2 DEF Attached
  <2> HIDE DEF f, r, p
  <2>4. MgrInvBut(k, p, x) /\ (k = f \/ (StoredAs(f, k, p, w) /\ w # "stored"))
    BY <1>1, <2>1, <2>2, <2>3, StoreKeeps, StoreForm
  <2>5. MgrInv(r, x) /\ Emptied(k, r, p)
    BY <1>1, <2>1, <2>4, ResetKeeps, ResetForm
  <2>6. /\ k.queue = m.queue /\ k.hashed = m.hashed /\ OthersSame(m, k, p)
        /\ k.state = m.state /\ \A q \in Pieces : q # p => k.disk[q] = m.disk[q]
        /\ w = "stored" => k.disk = m.disk
    BY <2>2, <2>4 DEF Attached, StoredAs, QueueSame, OthersSame
  <2>7. /\ r.queue = m.queue /\ r.hashed = m.hashed /\ OthersSame(m, r, p)
        /\ r.state[p] = "EMPTY" /\ \A q \in Pieces : q # p => r.disk[q] = m.disk[q]
        /\ w = "stored" => r.disk = m.disk
    BY <2>5, <2>6 DEF Emptied, QueueSame, OthersSame
  <2>7a. Eased(m, r)
    BY <1>1, <2>5, <2>7, EasedReset, EasedSlot DEF Emptied
  <2>8. Fed(m, r, w)
    BY <1>3, <2>7, <2>7a DEF Fed, Kept, OthersSame
  <2>9. Applied(m, r, p, w)
    BY <1>3, <2>7, <2>8 DEF Applied
  <2> QED
    BY <2>5, <2>9 DEF r, p
<1>4. CASE m.state[p] = "HASHING" /\ GoodData(p, job.data) /\ w = "stored"
  <2> DEFINE k == Store(m, p, w)
  <2>1. r = MarkPieceDone(k, p)
    BY <1>4 DEF HashApply
  <2>2. MgrInvBut(k, p, x) /\ StoredAs(m, k, p, w)
    BY <1>1, StoreKeeps, StoreForm
  <2> HIDE DEF k, r, p
  <2>3. k \in MgrRec /\ k.state[p] # "DONE"
    BY <1>4, <2>2 DEF StoredAs
  <2>4. MgrInv(r, x) /\ Marked(k, r, p)
    BY <1>1, <2>1, <2>2, <2>3, MarkDoneKeeps, MarkDoneForm
  <2>5. /\ r.queue = m.queue /\ r.hashed = m.hashed /\ OthersSame(m, r, p)
        /\ r.state[p] = "DONE" /\ (Readable(p) => r.disk[p] = "good")
        /\ ~Readable(p) => r.disk[p] = m.disk[p]
        /\ \A q \in Pieces : q # p => r.disk[q] = m.disk[q]
    BY <1>4, <2>2, <2>4 DEF Marked, StoredAs, QueueSame, OthersSame
  <2>5a. Eased(m, r)
    <3>1. r.blocks = m.blocks /\ r.reqs = m.reqs
      BY <2>2, <2>4 DEF Marked, StoredAs
    <3>2. EasedAt(m, r, p)
      BY <1>4, <2>5, <3>1 DEF EasedAt, AskedAt
    <3> QED
      BY <1>1, <2>5, <3>2, EasedSlot
  <2>6. Fed(m, r, w)
    BY <1>4, <2>5, <2>5a DEF Fed, Kept, OthersSame
  <2>7. Applied(m, r, p, w)
    BY <1>4, <2>5, <2>6 DEF Applied
  <2> QED
    BY <2>4, <2>7 DEF r, p
<1> QED
  BY <1>2, <1>3, <1>4

LEMMA TailForm ==
  ASSUME NEW S, NEW s \in Seq(S), s # <<>>
  PROVE  /\ Tail(s) \in Seq(S) /\ Head(s) = s[1] /\ s[1] \in S
         /\ Len(s) \in Nat \ {0} /\ Len(Tail(s)) = Len(s) - 1
         /\ \A i \in 1 .. Len(s) - 1 : Tail(s)[i] = s[i + 1]
OBVIOUS

\* A slot as it was.
SlotSame(m, r, q) == /\ r.state[q] = m.state[q] /\ r.blocks[q] = m.blocks[q]
                     /\ r.reqs[q] = m.reqs[q] /\ r.buf[q] = m.buf[q]

Popped(m, r, w) ==
  /\ r.queue = Tail(m.queue) /\ r.hashed = m.hashed - 1 /\ Fed(m, r, w)
  /\ \A q \in Pieces : m.state[q] # "HASHING" => SlotSame(m, r, q)

LEMMA PopKeeps ==
  ASSUME NEW m, NEW x, NEW w \in WriteResults, MgrInv(m, x), m.hashed > 0
  PROVE  MgrInv(PopApply(m, w), x) /\ Popped(m, PopApply(m, w), w)
<1> DEFINE t == Tail(m.queue)
           h == m.hashed - 1
           k == [m EXCEPT !.queue = t, !.hashed = h]
           job == m.queue[1]
           p == job.idx
           r == HashApply(k, job, w)
<1>0. m \in MgrRec /\ QueueOK(m) /\ m.queue \in Seq(Jobs) /\ m.hashed \in Nat
  BY DEF MgrInv, MgrRec
<1>1. m.queue # <<>>
  BY <1>0 DEF QueueOK
<1>2. /\ t \in Seq(Jobs) /\ Head(m.queue) = job
      /\ Len(m.queue) \in Nat \ {0} /\ Len(t) = Len(m.queue) - 1
      /\ \A i \in 1 .. Len(m.queue) - 1 : t[i] = m.queue[i + 1]
  BY <1>0, <1>1, TailForm
<1>3. JobOK(job) /\ p \in Pieces
  BY <1>0, <1>2 DEF QueueOK, JobOK
<1>4. PopApply(m, w) = r
  BY <1>2 DEF PopApply
<1>5. h \in Nat /\ h <= Len(t)
  BY <1>0, <1>2 DEF QueueOK
<1> HIDE DEF t, h
<1>6. /\ k \in MgrRec /\ k.disk = m.disk /\ k.queue = t /\ k.hashed = h
      /\ k.state = m.state /\ k.blocks = m.blocks /\ k.reqs = m.reqs /\ k.buf = m.buf
      /\ k.have_bf = m.have_bf /\ k.available_bf = m.available_bf
      /\ k.num_done = m.num_done /\ k.completed_bytes = m.completed_bytes
      /\ k.order_cursor = m.order_cursor
  BY <1>0, <1>2, <1>5 DEF MgrRec
<1> HIDE DEF k
<1>7. QueueOK(k)
  <2>1. Len(t) <= QMax
    BY <1>0, <1>2, MgrAssumption DEF QueueOK
  <2>2. \A i \in 1 .. Len(t) : JobOK(t[i])
    BY <1>0, <1>2 DEF QueueOK
  <2> QED
    BY <1>5, <1>6, <2>1, <2>2 DEF QueueOK
<1>8. CountOK(k) /\ AheadOK(k)
  BY <1>6 DEF MgrInv, CountOK, AheadOK, DoneOf
<1>9. \A q \in Pieces : q # p \/ m.state[q] # "HASHING" => SlotOK(k, q, x)
  <2> SUFFICES ASSUME NEW q \in Pieces, q # p \/ m.state[q] # "HASHING"
               PROVE  SlotOK(k, q, x)
    OBVIOUS
  <2>1. SlotOK(m, q, x)
    BY DEF MgrInv
  <2>2. k.state[q] = "HASHING" => HasJob(k, q)
    <3> SUFFICES ASSUME k.state[q] = "HASHING" PROVE HasJob(k, q)
      OBVIOUS
    <3>1. PICK i \in 1 .. Len(m.queue) : m.queue[i].idx = q
      BY <1>6, <2>1 DEF SlotOK, HasJob
    <3>2. i # 1
      BY <1>6, <3>1
    <3>3. i - 1 \in 1 .. Len(t) /\ t[i - 1] = m.queue[i]
      BY <1>2, <3>1, <3>2
    <3> QED
      BY <1>6, <3>1, <3>3 DEF HasJob
  <2> QED
    BY <1>6, <2>1, <2>2 DEF SlotOK, SlotType, Received
<1>10. MgrInvBut(k, p, x)
  <2>1. SlotType(k, p)
    BY <1>3, <1>6 DEF MgrInv, SlotOK, SlotType
  <2> QED
    BY <1>6, <1>7, <1>8, <1>9, <2>1 DEF MgrInvBut
<1>11. k.state[p] # "HASHING" => SlotOK(k, p, x)
  BY <1>3, <1>6, <1>9
<1> HIDE DEF job
<1>12. MgrInv(r, x) /\ Applied(k, r, p, w)
  BY <1>3, <1>10, <1>11, HashApplyKeeps
<1> HIDE DEF r, p
<1>13. Popped(m, r, w)
  <2>1. r.queue = t /\ r.hashed = h
    BY <1>6, <1>12 DEF Applied
  <2>2. Fed(m, r, w)
    BY <1>6, <1>12, FedSame DEF Applied
  <2>3. ASSUME NEW q \in Pieces, m.state[q] # "HASHING" PROVE SlotSame(m, r, q)
    <3>1. CASE q = p
      BY <1>6, <1>12, <2>3, <3>1 DEF Applied, SlotSame
    <3>2. CASE q # p
      BY <1>6, <1>12, <3>2 DEF Applied, OthersSame, SlotSame
    <3> QED
      BY <3>1, <3>2
  <2> QED
    BY <2>1, <2>2, <2>3 DEF Popped, t, h
<1> QED
  BY <1>4, <1>12, <1>13

LEMMA AppendForm ==
  ASSUME NEW S, NEW s \in Seq(S), NEW e \in S
  PROVE  /\ Append(s, e) \in Seq(S) /\ Len(Append(s, e)) = Len(s) + 1 /\ Len(s) \in Nat
         /\ Append(s, e)[Len(s) + 1] = e
         /\ \A i \in 1 .. Len(s) : Append(s, e)[i] = s[i]
OBVIOUS

LEMMA BlocksNonempty == ASSUME NEW p \in Pieces PROVE 0 \in Blocks(p)
BY MgrAssumption DEF Blocks

\* hash_enqueue of a piece whose last block has come.
LEMMA EnqueueKeeps ==
  ASSUME NEW m, NEW p \in Pieces, NEW w \in WriteResults, MgrInv(m, p),
         m.state[p] = "PENDING", m.blocks[p] = Blocks(p)
  PROVE  MgrInv(HashEnqueue(m, p, w), None) /\ Fed(m, HashEnqueue(m, p, w), w)
<1> DEFINE h == IF m.hashed = 0 THEN 1 ELSE m.hashed
           g == [m EXCEPT !.hashed = h]
           room == IF Len(m.queue) = QMax THEN PopApply(g, w) ELSE m
<1>0. /\ m \in MgrRec /\ QueueOK(m) /\ m.queue \in Seq(Jobs) /\ m.hashed \in Nat
      /\ Len(m.queue) \in Nat /\ QMax \in Nat \ {0}
  BY MgrAssumption DEF MgrInv, MgrRec
<1>1. /\ MgrInv(room, p) /\ Fed(m, room, w) /\ Len(room.queue) < QMax /\ SlotSame(m, room, p)
  <2>1. CASE Len(m.queue) = QMax
    <3>1. h \in Nat /\ h > 0 /\ h <= Len(m.queue)
      BY <1>0, <2>1 DEF QueueOK
    <3> HIDE DEF h
    <3>2. /\ g \in MgrRec /\ g.disk = m.disk /\ g.queue = m.queue /\ g.hashed = h
          /\ g.state = m.state /\ g.blocks = m.blocks /\ g.reqs = m.reqs /\ g.buf = m.buf
          /\ g.have_bf = m.have_bf /\ g.available_bf = m.available_bf
          /\ g.num_done = m.num_done /\ g.completed_bytes = m.completed_bytes
          /\ g.order_cursor = m.order_cursor
      BY <1>0, <3>1 DEF MgrRec
    <3> HIDE DEF g
    <3>3. MgrInv(g, p)
      <4>1. \A q \in Pieces : SlotOK(g, q, p)
        BY <3>2 DEF MgrInv, SlotOK, SlotType, Received, HasJob
      <4>2. QueueOK(g)
        BY <1>0, <3>1, <3>2 DEF QueueOK
      <4>3. CountOK(g) /\ AheadOK(g)
        BY <3>2 DEF MgrInv, CountOK, AheadOK, DoneOf
      <4> QED
        BY <3>2, <4>1, <4>2, <4>3 DEF MgrInv
    <3>4. room = PopApply(g, w)
      BY <2>1
    <3> HIDE DEF room
    <3>5. MgrInv(room, p) /\ Popped(g, room, w)
      BY <3>1, <3>2, <3>3, <3>4, PopKeeps
    <3>6. Fed(m, room, w)
      BY <3>2, <3>5, FedSame DEF Popped
    <3>7. SlotSame(m, room, p)
      BY <3>2, <3>5 DEF Popped, SlotSame
    <3>8. Len(room.queue) < QMax
      <4>1. m.queue # <<>>
        BY <1>0, <2>1
      <4>2. Len(Tail(m.queue)) = Len(m.queue) - 1
        BY <1>0, <4>1, TailForm
      <4> QED
        BY <1>0, <2>1, <3>2, <3>5, <4>2 DEF Popped
    <3> QED
      BY <3>5, <3>6, <3>7, <3>8
  <2>2. CASE Len(m.queue) # QMax
    <3>1. room = m
      BY <2>2
    <3>2. Len(m.queue) < QMax
      BY <1>0, <2>2 DEF QueueOK
    <3> QED
      BY <3>1, <3>2, FedSelf DEF SlotSame
  <2> QED
    BY <2>1, <2>2
<1> DEFINE job == [idx |-> p, data |-> room.buf[p]]
           q2 == Append(room.queue, job)
           e == [room EXCEPT !.queue = q2, !.buf[p] = NoBuf, !.state[p] = "HASHING"]
<1>2. HashEnqueue(m, p, w) = e
  BY DEF HashEnqueue
<1> HIDE DEF room
<1>3. /\ room \in MgrRec /\ SlotOK(room, p, p) /\ room.queue \in Seq(Jobs)
      /\ room.state[p] = "PENDING" /\ room.blocks[p] = Blocks(p) /\ room.hashed \in Nat
      /\ QueueOK(room) /\ room.buf[p] \in AllBufs
  BY <1>1 DEF MgrInv, MgrRec, SlotSame
<1>4. JobOK(job) /\ job \in Jobs /\ job.idx = p
  <2>1. \A b \in Blocks(p) : room.buf[p] # NoBuf /\ room.buf[p][b] # "stale"
    BY <1>3 DEF SlotOK, Received
  <2>2. room.buf[p] # NoBuf
    BY <2>1, BlocksNonempty
  <2>3. room.buf[p] \in [Blocks(p) -> Tags]
    BY <1>3, <2>2 DEF SlotOK, SlotType, BufOf
  <2> QED
    BY <1>3, <2>1, <2>3 DEF JobOK, Jobs
<1> HIDE DEF job
<1>5. /\ q2 \in Seq(Jobs) /\ Len(q2) = Len(room.queue) + 1 /\ Len(room.queue) \in Nat
      /\ q2[Len(room.queue) + 1] = job
      /\ \A i \in 1 .. Len(room.queue) : q2[i] = room.queue[i]
  BY <1>3, <1>4, AppendForm
<1> HIDE DEF q2
<1>6. /\ e \in MgrRec /\ e.queue = q2 /\ e.hashed = room.hashed /\ e.disk = room.disk
      /\ e.state[p] = "HASHING" /\ e.buf[p] = NoBuf /\ e.blocks = room.blocks
      /\ e.reqs = room.reqs
      /\ e.have_bf = room.have_bf /\ e.available_bf = room.available_bf
      /\ e.num_done = room.num_done /\ e.completed_bytes = room.completed_bytes
      /\ e.order_cursor = room.order_cursor
      /\ \A q \in Pieces : q # p => e.state[q] = room.state[q] /\ e.buf[q] = room.buf[q]
  BY <1>3, <1>5 DEF MgrRec, AllBufs, States
<1> HIDE DEF e
<1>7. \A q \in Pieces : SlotOK(e, q, None)
  <2>1. ASSUME NEW q \in Pieces, q # p PROVE SlotOK(e, q, None)
    <3>1. SlotOK(room, q, p)
      BY <1>1 DEF MgrInv
    <3>2. e.state[q] = "HASHING" => HasJob(e, q)
      <4> SUFFICES ASSUME e.state[q] = "HASHING" PROVE HasJob(e, q)
        OBVIOUS
      <4>1. PICK i \in 1 .. Len(room.queue) : room.queue[i].idx = q
        BY <1>6, <2>1, <3>1 DEF SlotOK, HasJob
      <4>2. i \in 1 .. Len(q2) /\ q2[i].idx = q
        BY <1>5, <4>1
      <4> QED
        BY <1>6, <4>2 DEF HasJob
    <3> QED
      BY <1>6, <2>1, <3>1, <3>2 DEF SlotOK, SlotType, Received
  <2>2. SlotOK(e, p, None)
    <3>1. HasJob(e, p)
      <4>1. Len(q2) \in 1 .. Len(q2) /\ q2[Len(q2)].idx = p
        BY <1>4, <1>5
      <4> QED
        BY <1>6, <4>1 DEF HasJob
    <3> QED
      BY <1>3, <1>6, <3>1 DEF SlotOK, SlotType, BufOf
  <2> QED
    BY <2>1, <2>2
<1>8. QueueOK(e)
  <2>1. ASSUME NEW i \in 1 .. Len(q2) PROVE JobOK(q2[i])
    <3>1. CASE i = Len(room.queue) + 1
      BY <1>4, <1>5, <3>1
    <3>2. CASE i # Len(room.queue) + 1
      <4>1. i \in 1 .. Len(room.queue)
        BY <1>5, <3>2
      <4> QED
        BY <1>3, <1>5, <4>1 DEF QueueOK
    <3> QED
      BY <3>1, <3>2
  <2>2. Len(q2) <= QMax /\ room.hashed <= Len(q2)
    BY <1>0, <1>1, <1>3, <1>5 DEF QueueOK
  <2> QED
    BY <1>6, <2>1, <2>2 DEF QueueOK
<1>9. \A q \in Pieces : e.state[q] = "DONE" <=> room.state[q] = "DONE"
  BY <1>3, <1>6
<1>10. CountOK(e)
  <2>1. DoneOf(e) = DoneOf(room)
    BY <1>9 DEF DoneOf
  <2> QED
    BY <1>1, <1>6, <2>1 DEF MgrInv, CountOK
<1>11. AheadOK(e)
  BY <1>1, <1>6, <1>9 DEF MgrInv, AheadOK
<1>12. Fed(m, e, w)
  <2>0. Eased(room, e)
    <3>1. \A q \in Pieces : EasedAt(room, e, q)
      BY <1>3, <1>6 DEF EasedAt, AskedAt
    <3> QED
      BY <3>1 DEF Eased
  <2>1. Fed(room, e, w)
    BY <1>6, <1>9, <2>0, FedQuiet
  <2> QED
    BY <1>1, <2>1, FedTrans
<1> QED
  BY <1>2, <1>6, <1>7, <1>8, <1>10, <1>11, <1>12 DEF MgrInv

\* A step that changes slot p and nothing else.
Slotted(m, r, p) ==
  /\ r \in MgrRec /\ RestSame(m, r) /\ QueueSame(m, r) /\ OthersSame(m, r, p)
  /\ r.disk = m.disk /\ r.hash_ok = m.hash_ok

LEMMA SlottedKeeps ==
  ASSUME NEW m, NEW x, NEW r, NEW p \in Pieces, MgrInvBut(m, p, x), Slotted(m, r, p),
         SlotType(r, p), r.state[p] # "DONE", m.state[p] # "DONE", EasedAt(m, r, p)
  PROVE  MgrInvBut(r, p, x) /\ (SlotOK(r, p, x) => MgrInv(r, x)) /\ \A w : Fed(m, r, w)
<1>1. MgrInvBut(r, p, x) /\ (SlotOK(r, p, x) => MgrInv(r, x))
  BY SlotStep DEF Slotted
<1>2. \A w : Fed(m, r, w)
  <2>1. r.disk = m.disk /\ \A q \in Pieces : r.state[q] = "DONE" <=> m.state[q] = "DONE"
    BY DEF Slotted, OthersSame
  <2>2. Eased(m, r)
    BY EasedSlot DEF Slotted
  <2> QED
    BY <2>1, <2>2, FedQuiet
<1> QED
  BY <1>1, <1>2

\* Once the piece handed over is decided, no slot is between two states.
LEMMA HandedOver ==
  ASSUME NEW m, NEW p \in Pieces, MgrInv(m, p), m.state[p] # "PENDING"
  PROVE  MgrInv(m, None)
BY DEF MgrInv, SlotOK

\* The inline tail of piece_mgr_got_block.
LEMMA InlineKeeps ==
  ASSUME NEW m, NEW p \in Pieces, NEW w \in WriteResults, MgrInvBut(m, p, p),
         m.state[p] = "PENDING", m.blocks[p] = Blocks(p)
  PROVE  MgrInv(HashInline(m, p, w), None) /\ Fed(m, HashInline(m, p, w), w)
<1> DEFINE r == HashInline(m, p, w)
           s == Store(m, p, w)
<1>0. m \in MgrRec
  BY DEF MgrInvBut
<1>1. MgrInvBut(s, p, p) /\ StoredAs(m, s, p, w)
  BY <1>0, StoreKeeps, StoreForm
<1>2. s \in MgrRec /\ s.state[p] = "PENDING"
  BY <1>1 DEF StoredAs
<1>3. CASE ~GoodData(p, m.buf[p]) \/ w # "stored"
  <2>1. PICK k : r = ResetPiece(k, p) /\ (k = m \/ (k = s /\ w # "stored"))
    BY <1>3 DEF HashInline
  <2> HIDE DEF r, s
  <2>2. /\ MgrInvBut(k, p, p) /\ k.state = m.state /\ (w = "stored" => k.disk = m.disk)
        /\ \A q \in Pieces : q # p => k.disk[q] = m.disk[q]
    BY <1>1, <2>1 DEF StoredAs
  <2>3. MgrInv(r, p) /\ Emptied(k, r, p)
    BY <2>1, <2>2, ResetKeeps, ResetForm
  <2>4. r.state[p] = "EMPTY"
    BY <2>3 DEF Emptied
  <2>5. Fed(m, r, w)
    <3>1. /\ r.state[p] # "DONE" /\ m.state[p] # "DONE" /\ (w = "stored" => r.disk = m.disk)
          /\ \A q \in Pieces : q # p => r.state[q] = m.state[q] /\ r.disk[q] = m.disk[q]
      BY <2>2, <2>3 DEF Emptied, OthersSame
    <3>2. OthersSame(m, r, p)
      BY <1>1, <2>1, <2>3 DEF StoredAs, Emptied, OthersSame
    <3>3. Eased(m, r)
      BY <2>3, <3>2, EasedReset, EasedSlot DEF Emptied
    <3> QED
      BY <3>1, <3>3 DEF Fed, Kept
  <2>6. MgrInv(r, None)
    BY <2>3, <2>4, HandedOver
  <2> QED
    BY <2>5, <2>6 DEF r
<1>4. CASE GoodData(p, m.buf[p]) /\ w = "stored"
  <2> DEFINE k == MarkPieceDone(s, p)
  <2>1. r = [k EXCEPT !.buf[p] = NoBuf]
    BY <1>4 DEF HashInline
  <2> HIDE DEF r, s
  <2>2. MgrInv(k, p) /\ Marked(s, k, p)
    BY <1>1, <1>2, MarkDoneKeeps, MarkDoneForm
  <2> HIDE DEF k
  <2>3. MgrInvBut(k, p, p) /\ NoBuf \in BufOf(p) /\ k \in MgrRec
    BY <2>2, ButOne DEF BufOf, MgrInv
  <2>4. MgrInvBut(r, p, p) /\ Attached(k, r, p, NoBuf)
    BY <2>1, <2>3, AttachKeeps, AttachForm
  <2>5. r.state[p] = "DONE"
    BY <2>2, <2>4 DEF Marked, Attached
  <2>6. SlotOK(r, p, p)
    BY <2>4, <2>5 DEF MgrInvBut, SlotOK
  <2>7. MgrInv(r, None)
    BY <2>4, <2>5, <2>6, ButOne, HandedOver
  <2>8. /\ r.state = k.state /\ r.disk = s.disk
        /\ \A q \in Pieces : q # p => r.state[q] = m.state[q] /\ r.disk[q] = m.disk[q]
        /\ Readable(p) => r.disk[p] = "good"
        /\ ~Readable(p) => r.disk[p] = m.disk[p]
    BY <1>1, <1>4, <2>2, <2>4 DEF Marked, Attached, StoredAs, OthersSame
  <2>8a. Eased(m, r)
    <3>1. r.blocks = m.blocks /\ r.reqs = m.reqs /\ OthersSame(m, r, p)
      BY <1>1, <2>2, <2>4 DEF Marked, Attached, StoredAs, OthersSame
    <3>2. EasedAt(m, r, p)
      BY <3>1 DEF EasedAt, AskedAt
    <3> QED
      BY <3>1, <3>2, EasedSlot
  <2>9. Fed(m, r, w)
    BY <2>8, <2>8a DEF Fed, Kept
  <2> QED
    BY <2>7, <2>9 DEF r
<1> QED
  BY <1>3, <1>4

LEMMA WithBufForm ==
  ASSUME NEW p \in Pieces, NEW f \in BufOf(p), NEW a \in BOOLEAN
  PROVE  /\ WithBuf(p, f, a) \in BufOf(p)
         /\ f # NoBuf => WithBuf(p, f, a) = f
BY DEF WithBuf, BufOf, Tags

\* piece_mgr_mark_pending
LEMMA PendingKeeps ==
  ASSUME NEW m, NEW p \in Pieces, NEW a \in BOOLEAN, MgrInv(m, None)
  PROVE  MgrInv(MarkPending(m, p, a), None) /\ \A w : Fed(m, MarkPending(m, p, a), w)
<1> DEFINE f == WithBuf(p, m.buf[p], a)
           r == [m EXCEPT !.state[p] = "PENDING", !.buf[p] = f]
<1>1. CASE m.state[p] \in {"DONE", "HASHING"}
  <2>1. MarkPending(m, p, a) = m
    BY <1>1 DEF MarkPending
  <2> QED
    BY <2>1, FedSelf
<1>2. CASE m.state[p] \notin {"DONE", "HASHING"}
  <2>0. /\ m \in MgrRec /\ SlotOK(m, p, None) /\ MgrInvBut(m, p, None) /\ m.buf[p] \in BufOf(p)
        /\ m.state[p] \in {"EMPTY", "PENDING"}
    BY <1>2, ButOne DEF MgrInv, SlotOK, SlotType, MgrRec, States
  <2>1. MarkPending(m, p, a) = r
    BY <1>2 DEF MarkPending
  <2>2. f \in BufOf(p) /\ (m.buf[p] # NoBuf => f = m.buf[p])
    BY <2>0, WithBufForm
  <2>3. f \in AllBufs
    BY <2>2, InAll
  <2> HIDE DEF f
  <2>4. /\ r \in MgrRec /\ r.state[p] = "PENDING" /\ r.buf[p] = f
        /\ r.blocks = m.blocks /\ r.reqs = m.reqs /\ r.disk = m.disk /\ r.hash_ok = m.hash_ok
        /\ r.queue = m.queue /\ r.hashed = m.hashed
        /\ r.have_bf = m.have_bf /\ r.available_bf = m.available_bf
        /\ r.num_done = m.num_done /\ r.completed_bytes = m.completed_bytes
        /\ r.order_cursor = m.order_cursor
        /\ \A q \in Pieces : q # p => r.state[q] = m.state[q] /\ r.buf[q] = m.buf[q]
    BY <2>0, <2>3 DEF MgrRec, States
  <2> HIDE DEF r
  <2>5. Slotted(m, r, p)
    BY <2>4 DEF Slotted, RestSame, QueueSame, OthersSame
  <2>6. SlotType(r, p)
    BY <2>0, <2>2, <2>4 DEF SlotOK, SlotType
  <2>7. SlotOK(r, p, None)
    <3>1. Received(r, p)
      BY <2>0, <2>2, <2>4 DEF SlotOK, Received
    <3>2. r.blocks[p] # Blocks(p)
      <4>1. CASE m.state[p] = "EMPTY"
        BY <2>0, <2>4, <4>1, BlocksNonempty DEF SlotOK
      <4>2. CASE m.state[p] = "PENDING"
        <5>1. p # None
          BY DEF Pieces, None
        <5> QED
          BY <2>0, <2>4, <4>2, <5>1 DEF SlotOK
      <4> QED
        BY <2>0, <4>1, <4>2
    <3> QED
      BY <2>4, <2>6, <3>1, <3>2 DEF SlotOK
  <2>8. r.state[p] # "DONE" /\ m.state[p] # "DONE"
    BY <1>2, <2>4
  <2>8a. EasedAt(m, r, p)
    BY <2>4 DEF EasedAt, AskedAt
  <2>9. MgrInv(r, None) /\ \A w : Fed(m, r, w)
    BY <2>0, <2>5, <2>6, <2>7, <2>8, <2>8a, SlottedKeeps
  <2> QED
    BY <2>1, <2>9
<1> QED
  BY <1>1, <1>2

\* A request count changes.
LEMMA CountingKeeps ==
  ASSUME NEW m, NEW p \in Pieces, NEW b \in Blocks(p), NEW n \in 0 .. ReqMax, MgrInv(m, None)
  PROVE  /\ MgrInv([m EXCEPT !.reqs[p][b] = n], None)
         /\ Kept(m, [m EXCEPT !.reqs[p][b] = n])
<1> DEFINE c == [m.reqs[p] EXCEPT ![b] = n]
           r == [m EXCEPT !.reqs[p] = c]
<1>0. m \in MgrRec /\ SlotOK(m, p, None) /\ MgrInvBut(m, p, None) /\ SlotType(m, p)
  BY ButOne DEF MgrInv, SlotOK
<1>1. c \in [Blocks(p) -> 0 .. ReqMax]
  BY <1>0 DEF SlotType
<1>2. c \in AllReqs
  BY <1>1, InAll
<1>3. [m EXCEPT !.reqs[p][b] = n] = r
  OBVIOUS
<1> HIDE DEF c
<1>4. /\ r \in MgrRec /\ r.reqs[p] = c /\ r.state = m.state /\ r.buf = m.buf
      /\ r.blocks = m.blocks /\ r.disk = m.disk
      /\ r.queue = m.queue /\ r.hashed = m.hashed
      /\ r.have_bf = m.have_bf /\ r.available_bf = m.available_bf
      /\ r.num_done = m.num_done /\ r.completed_bytes = m.completed_bytes
      /\ r.order_cursor = m.order_cursor
      /\ \A q \in Pieces : q # p => r.reqs[q] = m.reqs[q]
  BY <1>0, <1>2 DEF MgrRec
<1> HIDE DEF r
<1>5. OthersSame(m, r, p) /\ RestSame(m, r) /\ QueueSame(m, r)
  BY <1>4 DEF OthersSame, RestSame, QueueSame
<1>6. SlotOK(r, p, None) /\ SlotType(r, p)
  BY <1>0, <1>1, <1>4 DEF SlotOK, SlotType, Received, HasJob
<1>7. MgrInv(r, None)
  BY <1>0, <1>4, <1>5, <1>6, SlotStep
<1>8. Kept(m, r)
  BY <1>4 DEF Kept
<1> QED
  BY <1>3, <1>7, <1>8

\* piece_mgr_mark_block_requested and piece_mgr_clear_block_requested stay
\* within the counter.
LEMMA RequestKeeps ==
  ASSUME NEW m, NEW p \in Pieces, NEW b \in Blocks(p), MgrInv(m, None)
  PROVE  /\ MgrInv(MarkBlockRequested(m, p, b), None) /\ Kept(m, MarkBlockRequested(m, p, b))
         /\ MgrInv(ClearBlockRequested(m, p, b), None) /\ Kept(m, ClearBlockRequested(m, p, b))
<1> DEFINE n == m.reqs[p][b]
           up == IF n # ReqMax THEN n + 1 ELSE n
           down == IF n > 0 THEN n - 1 ELSE n
<1>1. n \in 0 .. ReqMax
  BY DEF MgrInv, SlotOK, SlotType
<1>2. up \in 0 .. ReqMax /\ down \in 0 .. ReqMax
  <2> HIDE DEF n
  <2>1. n \in Int /\ ReqMax \in Nat /\ 0 <= n /\ n <= ReqMax
    BY <1>1, MgrAssumption
  <2> QED
    BY <2>1
<1>3. /\ MarkBlockRequested(m, p, b) = [m EXCEPT !.reqs[p][b] = up]
      /\ ClearBlockRequested(m, p, b) = [m EXCEPT !.reqs[p][b] = down]
  BY DEF MarkBlockRequested, ClearBlockRequested
<1> HIDE DEF up, down
<1>4. /\ MgrInv([m EXCEPT !.reqs[p][b] = up], None) /\ Kept(m, [m EXCEPT !.reqs[p][b] = up])
  BY <1>2, CountingKeeps, Zenon
<1>5. /\ MgrInv([m EXCEPT !.reqs[p][b] = down], None) /\ Kept(m, [m EXCEPT !.reqs[p][b] = down])
  BY <1>2, CountingKeeps, Zenon
<1> QED
  BY <1>3, <1>4, <1>5, Zenon

\* piece_mgr_got_block: one more block, and the hand-over of the last one.
LEMMA GotBlockKeeps ==
  ASSUME NEW m, NEW p \in Pieces, NEW b \in Blocks(p), NEW tag \in {"good", "bad"},
         NEW w \in WriteResults, NEW a \in BOOLEAN, MgrInv(m, None)
  PROVE  /\ MgrInv(GotBlock(m, p, b, tag, w, a), None) /\ Fed(m, GotBlock(m, p, b, tag, w, a), w)
         /\ a /\ AskedAt(m, p) => GotBlock(m, p, b, tag, w, a).reqs[p][b] = 0
<1> DEFINE f == WithBuf(p, m.buf[p], a)
           g == [f EXCEPT ![b] = tag]
           s == m.blocks[p] \cup {b}
           c == [m.reqs[p] EXCEPT ![b] = 0]
           r == [m EXCEPT !.state[p] = "PENDING", !.buf[p] = g, !.blocks[p] = s, !.reqs[p] = c]
           rest == IF r.blocks[p] # Blocks(p) THEN r
                   ELSE IF m.hash_ok THEN HashEnqueue(r, p, w)
                   ELSE HashInline(r, p, w)
<1>1. CASE m.state[p] \in {"DONE", "HASHING"} \/ f = NoBuf
  <2>1. GotBlock(m, p, b, tag, w, a) = m
    BY <1>1 DEF GotBlock
  <2>2. a /\ f = NoBuf => FALSE
    <3>1. ASSUME a, f = NoBuf PROVE FALSE
      <4> DEFINE fresh == [d \in Blocks(p) |-> "stale"]
      <4>1. m.buf[p] = NoBuf /\ fresh = NoBuf
        BY <3>1 DEF WithBuf
      <4>2. DOMAIN fresh = Blocks(p) /\ DOMAIN NoBuf = {}
        BY DEF NoBuf
      <4> QED
        BY <4>1, <4>2, BlocksNonempty
    <3> QED
      BY <3>1
  <2>3. a /\ AskedAt(m, p) => m.reqs[p][b] = 0
    BY <1>1, <2>2 DEF AskedAt
  <2> QED
    BY <2>1, <2>3, FedSelf
<1>2. CASE ~(m.state[p] \in {"DONE", "HASHING"} \/ f = NoBuf)
  <2>0. /\ m \in MgrRec /\ SlotOK(m, p, None) /\ MgrInvBut(m, p, None) /\ SlotType(m, p)
        /\ m.state[p] \in {"EMPTY", "PENDING"}
    BY <1>2, ButOne DEF MgrInv, SlotOK, MgrRec, States
  <2>1. GotBlock(m, p, b, tag, w, a) = rest
    BY <1>2 DEF GotBlock
  <2>2. f \in BufOf(p) /\ f # NoBuf /\ (m.buf[p] # NoBuf => f = m.buf[p])
    BY <1>2, <2>0, WithBufForm DEF SlotType
  <2>3. f \in [Blocks(p) -> Tags]
    BY <2>2 DEF BufOf
  <2> HIDE DEF f
  <2>4. /\ g \in [Blocks(p) -> Tags] /\ g[b] # "stale" /\ g # NoBuf
        /\ \A d \in Blocks(p) : d # b => g[d] = f[d]
    <3>1. g \in [Blocks(p) -> Tags] /\ g[b] = tag /\ \A d \in Blocks(p) : d # b => g[d] = f[d]
      BY <2>3 DEF Tags
    <3>2. DOMAIN g = Blocks(p) /\ DOMAIN NoBuf = {}
      BY <3>1 DEF NoBuf
    <3> QED
      BY <3>1, <3>2
  <2>5. /\ s \in SUBSET Blocks(p) /\ c \in [Blocks(p) -> 0 .. ReqMax]
        /\ g \in AllBufs /\ c \in AllReqs /\ s \in SUBSET Nat
    <3>1. s \in SUBSET Blocks(p) /\ c \in [Blocks(p) -> 0 .. ReqMax] /\ g \in BufOf(p)
      BY <2>0, <2>4, MgrAssumption DEF SlotType, BufOf
    <3>2. Blocks(p) \in SUBSET Nat
      BY MgrAssumption DEF Blocks
    <3> QED
      BY <3>1, <3>2, InAll
  <2> HIDE DEF g, c, s
  <2>6. /\ r \in MgrRec /\ r.state[p] = "PENDING" /\ r.buf[p] = g /\ r.blocks[p] = s
        /\ r.reqs[p] = c /\ r.disk = m.disk /\ r.hash_ok = m.hash_ok
        /\ r.queue = m.queue /\ r.hashed = m.hashed
        /\ r.have_bf = m.have_bf /\ r.available_bf = m.available_bf
        /\ r.num_done = m.num_done /\ r.completed_bytes = m.completed_bytes
        /\ r.order_cursor = m.order_cursor
    BY <2>0, <2>5 DEF MgrRec, States
  <2>7. \A q \in Pieces : q # p => /\ r.state[q] = m.state[q] /\ r.blocks[q] = m.blocks[q]
                                   /\ r.reqs[q] = m.reqs[q] /\ r.buf[q] = m.buf[q]
    BY <2>0 DEF MgrRec
  <2> HIDE DEF r
  <2>8. Slotted(m, r, p)
    BY <2>6, <2>7 DEF Slotted, RestSame, QueueSame, OthersSame
  <2>9. SlotType(r, p)
    BY <2>4, <2>5, <2>6 DEF SlotType, BufOf
  <2>10. Received(r, p)
    <3> SUFFICES ASSUME NEW d \in s PROVE g # NoBuf /\ g[d] # "stale"
      BY <2>6 DEF Received
    <3>1. CASE d = b
      BY <2>4, <3>1
    <3>2. CASE d # b
      <4>1. d \in m.blocks[p] /\ d \in Blocks(p)
        BY <2>0, <3>2 DEF s, SlotType
      <4>2. f = m.buf[p] /\ f[d] # "stale"
        BY <2>0, <2>2, <4>1 DEF SlotOK, Received
      <4> QED
        BY <2>4, <3>2, <4>1, <4>2
    <3> QED
      BY <3>1, <3>2
  <2>11. MgrInvBut(m, p, p)
    <3>1. \A q \in Pieces : q # None
      BY DEF Pieces, None
    <3>2. \A q \in Pieces : SlotOK(m, q, None) => SlotOK(m, q, p)
      BY <3>1 DEF SlotOK
    <3> QED
      BY <2>0, <3>2 DEF MgrInvBut
  <2>12. r.state[p] # "DONE" /\ m.state[p] # "DONE"
    BY <2>0, <2>6
  <2>12a. EasedAt(m, r, p) /\ r.reqs[p][b] = 0
    <3>1. c[b] = 0 /\ \A d \in Blocks(p) : d # b => c[d] = m.reqs[p][d]
      BY <2>0 DEF c, SlotType
    <3>2. \A d \in Blocks(p) : d # b /\ d \in s => d \in m.blocks[p]
      BY DEF s
    <3> QED
      BY <2>6, <3>1, <3>2 DEF EasedAt, AskedAt
  <2>13. Fed(m, r, w)
    BY <2>0, <2>8, <2>9, <2>12, <2>12a, SlottedKeeps
  <2>14. CASE r.blocks[p] # Blocks(p)
    <3>1. SlotOK(r, p, None)
      BY <2>6, <2>9, <2>10, <2>14 DEF SlotOK
    <3>2. MgrInv(r, None)
      BY <2>0, <2>8, <2>9, <2>12, <2>12a, <3>1, SlottedKeeps
    <3> QED
      BY <2>1, <2>12a, <2>13, <2>14, <3>2
  <2>15. CASE r.blocks[p] = Blocks(p)
    <3>1. SlotOK(r, p, p)
      BY <2>6, <2>9, <2>10 DEF SlotOK
    <3>2. MgrInv(r, p) /\ MgrInvBut(r, p, p)
      BY <2>8, <2>9, <2>11, <2>12, <2>12a, <3>1, SlottedKeeps
    <3>3. /\ MgrInv(HashEnqueue(r, p, w), None) /\ Fed(r, HashEnqueue(r, p, w), w)
          /\ MgrInv(HashInline(r, p, w), None) /\ Fed(r, HashInline(r, p, w), w)
      BY <2>6, <2>15, <3>2, EnqueueKeeps, InlineKeeps
    <3>4. rest \in {HashEnqueue(r, p, w), HashInline(r, p, w)}
      BY <2>15
    <3> HIDE DEF rest
    <3>5. Fed(r, rest, w) /\ MgrInv(rest, None)
      BY <3>3, <3>4
    <3>6. AskedAt(m, p) => rest.reqs[p][b] = 0
      <4>1. AskedAt(m, p) => AskedAt(r, p)
        BY <2>12a DEF EasedAt
      <4>2. EasedAt(r, rest, p)
        BY <3>5 DEF Fed, Eased
      <4> QED
        BY <2>12a, <4>1, <4>2 DEF EasedAt
    <3> QED
      BY <2>1, <2>13, <3>5, <3>6, FedTrans
  <2> QED
    BY <2>14, <2>15
<1> QED
  BY <1>1, <1>2

\* A verdict without a write: the storage, the queue and the other pieces stay.
Decided(m, r, p) == /\ r.disk = m.disk /\ r.queue = m.queue
                    /\ \A q \in Pieces : q # p => r.state[q] = m.state[q]

\* mark_done_unhashed, over a range that is either readable or not offered.
LEMMA UnhashedKeeps ==
  ASSUME NEW m, NEW p \in Pieces, NEW v \in BOOLEAN, MgrInv(m, None), m.state[p] # "DONE",
         v <=> Readable(p)
  PROVE  /\ MgrInv(MarkDoneUnhashed(m, p, v), None)
         /\ (Readable(p) => m.disk[p] = "good") => Kept(m, MarkDoneUnhashed(m, p, v))
         /\ Decided(m, MarkDoneUnhashed(m, p, v), p) /\ MarkDoneUnhashed(m, p, v).state[p] = "DONE"
<1> DEFINE s == Blocks(p)
           k == [m EXCEPT !.blocks[p] = s]
           r == MarkPieceDone(k, p)
<1>1. MarkDoneUnhashed(m, p, v) = r
  <2>1. CASE v = TRUE
    BY <2>1 DEF MarkDoneUnhashed, MarkPieceDone, CountDone
  <2>2. CASE v = FALSE
    BY <2>2 DEF MarkDoneUnhashed, MarkPieceDone, CountDone
  <2> QED
    BY <2>1, <2>2
<1>2. /\ m \in MgrRec /\ MgrInvBut(m, p, None) /\ SlotType(m, p)
      /\ s \in SUBSET Nat /\ s = Blocks(p)
  BY ButOne, MgrAssumption DEF MgrInv, SlotOK, Blocks
<1> HIDE DEF s
<1>3. /\ k \in MgrRec /\ k.blocks[p] = s /\ k.state = m.state /\ k.buf = m.buf
      /\ k.reqs = m.reqs /\ k.disk = m.disk /\ k.queue = m.queue /\ k.hashed = m.hashed
      /\ k.have_bf = m.have_bf /\ k.available_bf = m.available_bf
      /\ k.num_done = m.num_done /\ k.completed_bytes = m.completed_bytes
      /\ k.order_cursor = m.order_cursor
      /\ \A q \in Pieces : q # p => k.blocks[q] = m.blocks[q]
  BY <1>2 DEF MgrRec
<1> HIDE DEF k
<1>4. OthersSame(m, k, p) /\ RestSame(m, k) /\ QueueSame(m, k) /\ SlotType(k, p)
  BY <1>2, <1>3 DEF OthersSame, RestSame, QueueSame, SlotType
<1>5. MgrInvBut(k, p, None)
  BY <1>2, <1>3, <1>4, SlotStep
<1>6. MgrInv(r, None) /\ Marked(k, r, p)
  BY <1>3, <1>5, MarkDoneKeeps, MarkDoneForm
<1> HIDE DEF r
<1>7. /\ r.disk = m.disk /\ r.queue = m.queue /\ r.state[p] = "DONE"
      /\ \A q \in Pieces : q # p => r.state[q] = m.state[q]
  BY <1>3, <1>6 DEF Marked, OthersSame, QueueSame
<1>8. (Readable(p) => m.disk[p] = "good") => Kept(m, r)
  BY <1>7 DEF Kept
<1> QED
  BY <1>1, <1>6, <1>7, <1>8 DEF Decided

LEMMA ResetStep ==
  ASSUME NEW m, NEW p \in Pieces, MgrInv(m, None)
  PROVE  /\ MgrInv(ResetPiece(m, p), None) /\ Kept(m, ResetPiece(m, p))
         /\ Decided(m, ResetPiece(m, p), p)
<1> DEFINE r == ResetPiece(m, p)
<1>1. MgrInvBut(m, p, None)
  BY ButOne
<1>2. MgrInv(r, None) /\ Emptied(m, r, p)
  BY <1>1, ResetKeeps, ResetForm
<1> HIDE DEF r
<1>3. Kept(m, r) /\ Decided(m, r, p)
  BY <1>2 DEF Emptied, OthersSame, QueueSame, Kept, Decided
<1> QED
  BY <1>2, <1>3 DEF r

\* piece_mgr_check_existing
LEMMA CheckKeeps ==
  ASSUME NEW m, NEW p \in Pieces, NEW v \in BOOLEAN, MgrInv(m, None)
  PROVE  /\ MgrInv(CheckExisting(m, p, v), None) /\ Kept(m, CheckExisting(m, p, v))
         /\ Decided(m, CheckExisting(m, p, v), p)
<1> DEFINE found == Skipped(p) \/ (Readable(p) /\ v /\ m.disk[p] = "good")
<1>1. CASE ~found
  <2>1. CheckExisting(m, p, v) = ResetPiece(m, p)
    BY <1>1 DEF CheckExisting
  <2> QED
    BY <2>1, ResetStep
<1>2. CASE found /\ m.state[p] = "DONE"
  <2>1. CheckExisting(m, p, v) = m
    BY <1>2 DEF CheckExisting
  <2> QED
    BY <2>1, KeptSelf DEF Decided
<1>3. CASE found /\ m.state[p] # "DONE"
  <2>1. PICK u \in BOOLEAN : u <=> Readable(p)
    OBVIOUS
  <2>2. ~Skipped(p) <=> Readable(p)
    BY <1>3 DEF Skipped, Readable
  <2>3. CheckExisting(m, p, v) = MarkDoneUnhashed(m, p, u)
    <3>1. CASE u = TRUE
      BY <1>3, <2>1, <2>2, <3>1 DEF CheckExisting, MarkDoneUnhashed, CountDone
    <3>2. CASE u = FALSE
      BY <1>3, <2>1, <2>2, <3>2 DEF CheckExisting, MarkDoneUnhashed, CountDone
    <3> QED
      BY <3>1, <3>2
  <2>4. Readable(p) => m.disk[p] = "good"
    BY <1>3, <2>2
  <2> QED
    BY <1>3, <2>1, <2>3, <2>4, UnhashedKeeps
<1> QED
  BY <1>1, <1>2, <1>3

\* piece_mgr_verify_piece
LEMMA VerifyKeeps ==
  ASSUME NEW m, NEW p \in Pieces, NEW v \in BOOLEAN, MgrInv(m, None)
  PROVE  /\ MgrInv(VerifyPiece(m, p, v), None) /\ Kept(m, VerifyPiece(m, p, v))
         /\ Decided(m, VerifyPiece(m, p, v), p)
<1>1. VerifyPiece(m, p, v) \in {m, ResetPiece(m, p)}
  BY DEF VerifyPiece
<1> QED
  BY <1>1, ResetStep, KeptSelf DEF Decided

\* A preset marks no other piece than the ones of the bitfield.
Preset(m, r, bf) ==
  /\ r.disk = m.disk /\ r.queue = m.queue
  /\ \A q \in Pieces : r.state[q] = "DONE" => m.state[q] = "DONE" \/ q \in bf

\* One bit of piece_mgr_preset_have.
LEMMA PresetPieceKeeps ==
  ASSUME NEW m, NEW bf, NEW p \in Pieces, MgrInv(m, None)
  PROVE  MgrInv(PresetPiece(m, bf, p), None) /\ Preset(m, PresetPiece(m, bf, p), bf)
<1>1. PICK u \in BOOLEAN : u <=> Readable(p)
  OBVIOUS
<1>2. \/ PresetPiece(m, bf, p) = m
      \/ /\ PresetPiece(m, bf, p) = MarkDoneUnhashed(m, p, u)
         /\ m.state[p] # "DONE" /\ p \in bf
  <2>1. CASE u = TRUE
    BY <1>1, <2>1 DEF PresetPiece, MarkDoneUnhashed, CountDone
  <2>2. CASE u = FALSE
    BY <1>1, <2>2 DEF PresetPiece, MarkDoneUnhashed, CountDone
  <2> QED
    BY <2>1, <2>2
<1> QED
  BY <1>1, <1>2, UnhashedKeeps DEF Preset, Decided
----------------------------------------------------------------------------
(* The handlers that loop.                                                 *)

Sound(m) == {r \in MgrRec : MgrInv(r, None) /\ Kept(m, r)}

LEMMA SoundSelf == ASSUME NEW m, MgrInv(m, None) PROVE m \in Sound(m)
BY KeptSelf DEF Sound, MgrInv

FedFrom(m, w) == {r \in MgrRec : MgrInv(r, None) /\ Fed(m, r, w)}

LEMMA FedFromSelf == ASSUME NEW m, NEW w, MgrInv(m, None) PROVE m \in FedFrom(m, w)
BY FedSelf DEF FedFrom, MgrInv
\* piece_mgr_drain_hash_results
LEMMA DrainKeeps ==
  ASSUME NEW m, NEW w, \A n \in 1 .. m.hashed : w[n] \in WriteResults, MgrInv(m, None),
         NEW v, v = "stored" => \A n \in 1 .. m.hashed : w[n] = "stored"
  PROVE  /\ MgrInv(Drain(m, w), None) /\ Fed(m, Drain(m, w), v)
         /\ Len(Drain(m, w).queue) = Len(m.queue) - m.hashed
<1> DEFINE N == m.hashed
           X == [n \in 0 .. N |-> {r \in FedFrom(m, v) : /\ r.hashed = N - n
                                                           /\ Len(r.queue) = Len(m.queue) - n}]
           G == [n \in 1 .. N |-> [r \in X[n - 1] |-> PopApply(r, w[n])]]
           Loop(f) == f = [n \in 0 .. N |-> IF n = 0 THEN m ELSE PopApply(f[n - 1], w[n])]
           f == CHOOSE g : Loop(g)
<1>0. N \in Nat /\ m \in X[0] /\ Len(m.queue) \in Nat
  BY FedFromSelf DEF MgrInv, MgrRec
<1>1. ASSUME NEW n \in 1 .. N, NEW r \in X[n - 1] PROVE PopApply(r, w[n]) \in X[n]
  <2> HIDE DEF N
  <2>1. n - 1 \in 0 .. N /\ n \in 0 .. N /\ n \in Nat
    BY <1>0, <1>1
  <2>2. /\ MgrInv(r, None) /\ Fed(m, r, v) /\ r.hashed = N - (n - 1)
        /\ Len(r.queue) = Len(m.queue) - (n - 1)
    BY <1>1, <2>1 DEF FedFrom
  <2>3. r.hashed > 0 /\ w[n] \in WriteResults
    BY <1>0, <1>1, <2>2 DEF N
  <2>4. MgrInv(PopApply(r, w[n]), None) /\ Popped(r, PopApply(r, w[n]), w[n])
    BY <2>2, <2>3, PopKeeps
  <2>4a. Fed(r, PopApply(r, w[n]), v)
    <3>1. v = "stored" => w[n] = "stored"
      BY <1>1 DEF N
    <3> QED
      BY <2>4, <3>1 DEF Popped, Fed
  <2>4b. Len(PopApply(r, w[n]).queue) = Len(m.queue) - n
    <3>1. r.queue \in Seq(Jobs) /\ r.queue # <<>>
      BY <2>2, <2>3 DEF MgrInv, MgrRec, QueueOK
    <3>2. Len(Tail(r.queue)) = Len(r.queue) - 1
      BY <3>1, TailForm
    <3>3. PopApply(r, w[n]).queue = Tail(r.queue)
      BY <2>4 DEF Popped
    <3>4. \A i, k, l \in Nat : k = l - (i - 1) => k - 1 = l - i
      OBVIOUS
    <3>5. Len(r.queue) \in Nat
      BY <3>1
    <3>6. Len(r.queue) - 1 = Len(m.queue) - n
      BY <1>0, <2>1, <2>2, <3>4, <3>5
    <3> QED
      BY <3>2, <3>3, <3>6
  <2>5. PopApply(r, w[n]).hashed = N - n
    BY <1>0, <2>1, <2>2, <2>4 DEF Popped
  <2>6. PopApply(r, w[n]) \in FedFrom(m, v)
    BY <2>2, <2>4, <2>4a, FedTrans DEF FedFrom, MgrInv
  <2> QED
    BY <2>1, <2>4b, <2>5, <2>6
<1>2. Loop(f)
  <2>1. \A n \in 0 + 1 .. N : G[n] \in [X[n - 1] -> X[n]]
    <3> HIDE DEF X, N
    <3>1. ASSUME NEW n \in 0 + 1 .. N PROVE G[n] \in [X[n - 1] -> X[n]]
      <4>1. n \in 1 .. N
        OBVIOUS
      <4>2. G[n] = [r \in X[n - 1] |-> PopApply(r, w[n])]
        BY <4>1
      <4> QED
        BY <1>1, <4>1, <4>2
    <3> QED
      BY <3>1
  <2> HIDE DEF X, G, N
  <2>2. PICK g : LoopOf(0, N, X, m, G, g)
    <3>1. 0 \in Nat /\ 0 <= N
      BY <1>0
    <3> HIDE DEF Loop, f
    <3> QED
      BY <1>0, <2>1, <3>1, LoopExists
  <2>3. /\ g[0] = m /\ (\A n \in 0 + 1 .. N : g[n] = G[n][g[n - 1]])
         /\ \A n \in 0 .. N : g[n] \in X[n]
    BY <2>2 DEF LoopOf
  <2>4. ASSUME NEW n \in 0 .. N PROVE g[n] = IF n = 0 THEN m ELSE PopApply(g[n - 1], w[n])
    <3>1. CASE n = 0
      BY <2>3, <3>1
    <3>2. CASE n # 0
      <4>1. n \in 1 .. N /\ n - 1 \in 0 .. N
        BY <1>0, <3>2
      <4>2. g[n] = G[n][g[n - 1]] /\ g[n - 1] \in X[n - 1]
        BY <2>3, <3>2, <4>1
      <4> QED
        BY <3>2, <4>1, <4>2 DEF G
    <3> QED
      BY <3>1, <3>2
  <2>5. g = [n \in 0 .. N |-> g[n]]
    BY <2>2 DEF LoopOf
  <2>6. Loop(g)
    BY <2>4, <2>5
  <2> HIDE DEF Loop
  <2> QED
    BY <2>6
<1>3. Drain(m, w) = f[N]
  BY DEF Drain
<1> HIDE DEF f
<1>4. f[0] = m
  BY <1>0, <1>2
<1>5. ASSUME NEW n \in 0 + 1 .. N, f[n - 1] \in X[n - 1] PROVE f[n] \in X[n]
  <2>1. f[n] = PopApply(f[n - 1], w[n]) /\ n \in 1 .. N
    BY <1>0, <1>2, <1>5
  <2> HIDE DEF X, N
  <2> QED
    BY <1>1, <1>5, <2>1
<1>6. f[N] \in X[N]
  <2> HIDE DEF X, N
  <2>1. \A n \in 0 .. N : f[n] \in X[n]
    BY <1>0, <1>4, <1>5, LoopAdmits
  <2> QED
    BY <1>0, <2>1
<1>7. f[N] \in FedFrom(m, v) /\ Len(f[N].queue) = Len(m.queue) - N
  BY <1>0, <1>6
<1> QED
  BY <1>3, <1>7 DEF FedFrom

\* piece_mgr_hash_flush
LEMMA FlushKeeps ==
  ASSUME NEW m, NEW w, \A n \in 1 .. Len(m.queue) : w[n] \in WriteResults, MgrInv(m, None),
         NEW v, v = "stored" => \A n \in 1 .. Len(m.queue) : w[n] = "stored"
  PROVE  /\ MgrInv(HashFlush(m, w), None) /\ Fed(m, HashFlush(m, w), v)
         /\ HashFlush(m, w).queue = <<>>
<1> DEFINE l == Len(m.queue)
           g == [m EXCEPT !.hashed = l]
<1>1. /\ m \in MgrRec /\ l \in Nat /\ HashFlush(m, w) = Drain(g, w)
      /\ (\A n \in 1 .. l : w[n] \in WriteResults)
      /\ v = "stored" => \A n \in 1 .. l : w[n] = "stored"
  BY DEF MgrInv, MgrRec, HashFlush
<1>2. QueueOK(m)
  BY DEF MgrInv
<1> HIDE DEF l
<1>3. /\ g \in MgrRec /\ g.disk = m.disk /\ g.queue = m.queue /\ g.hashed = l
      /\ g.state = m.state /\ g.blocks = m.blocks /\ g.reqs = m.reqs /\ g.buf = m.buf
      /\ g.have_bf = m.have_bf /\ g.available_bf = m.available_bf
      /\ g.num_done = m.num_done /\ g.completed_bytes = m.completed_bytes
      /\ g.order_cursor = m.order_cursor
  BY <1>1 DEF MgrRec
<1> HIDE DEF g
<1>4. MgrInv(g, None)
  <2>1. \A q \in Pieces : SlotOK(g, q, None)
    BY <1>3 DEF MgrInv, SlotOK, SlotType, Received, HasJob
  <2>2. QueueOK(g)
    BY <1>1, <1>2, <1>3 DEF QueueOK, l
  <2>3. CountOK(g) /\ AheadOK(g)
    BY <1>3 DEF MgrInv, CountOK, AheadOK, DoneOf
  <2> QED
    BY <1>3, <2>1, <2>2, <2>3 DEF MgrInv
<1>5. /\ MgrInv(Drain(g, w), None) /\ Fed(g, Drain(g, w), v)
      /\ Len(Drain(g, w).queue) = Len(g.queue) - g.hashed
  BY <1>1, <1>3, <1>4, DrainKeeps
<1>6. Fed(m, Drain(g, w), v)
  BY <1>3, <1>5, FedSame
<1>7. Drain(g, w).queue = <<>>
  <2>1. Len(g.queue) = l
    BY <1>3 DEF l
  <2>2. Drain(g, w).queue \in Seq(Jobs) /\ Len(Drain(g, w).queue) = 0
    BY <1>1, <1>3, <1>5, <2>1 DEF MgrInv, MgrRec
  <2> QED
    BY <2>2
<1> QED
  BY <1>1, <1>5, <1>6, <1>7

\* piece_mgr_verify_all
LEMMA VerifyAllKeeps ==
  ASSUME NEW m, NEW w, \A n \in 1 .. Len(m.queue) : w[n] \in WriteResults,
         NEW v \in BOOLEAN, MgrInv(m, None)
  PROVE  MgrInv(VerifyAll(m, w, v), None) /\ Kept(m, VerifyAll(m, w, v))
<1> DEFINE N == NumPieces
           S == Sound(m)
           x0 == HashFlush(m, w)
           Turn(r, n) == VerifyPiece(r, n - 1, v)
           X == [n \in 0 .. N |-> S]
           G == [n \in 1 .. N |-> [x \in S |-> Turn(x, n)]]
           Loop(h) == h = [n \in 0 .. N |-> IF n = 0 THEN x0 ELSE Turn(h[n - 1], n)]
           f == CHOOSE h : Loop(h)
<1>0. N \in Nat /\ x0 \in S
  <2>1. MgrInv(x0, None) /\ Fed(m, x0, "torn")
    BY FlushKeeps
  <2> QED
    BY <2>1, MgrAssumption DEF Sound, MgrInv, Fed
<1>1. ASSUME NEW n \in 1 .. N, NEW r \in S PROVE Turn(r, n) \in S
  <2>1. n - 1 \in Pieces /\ MgrInv(r, None) /\ Kept(m, r)
    BY MgrAssumption DEF Pieces, Sound
  <2>2. MgrInv(Turn(r, n), None) /\ Kept(r, Turn(r, n))
    BY <2>1, VerifyKeeps
  <2> HIDE DEF Turn
  <2> QED
    BY <2>1, <2>2, KeptTrans DEF Sound, MgrInv
<1>2. Loop(f)
  <2>1. \A n \in 0 + 1 .. N : G[n] \in [X[n - 1] -> X[n]]
    <3> HIDE DEF N, S, Turn
    <3>1. ASSUME NEW n \in 0 + 1 .. N PROVE G[n] \in [X[n - 1] -> X[n]]
      <4>1. n \in 1 .. N /\ n \in 0 .. N /\ n - 1 \in 0 .. N
        BY <1>0
      <4>2. X[n - 1] = S /\ X[n] = S /\ G[n] = [x \in S |-> Turn(x, n)]
        BY <4>1
      <4> QED
        BY <1>1, <4>1, <4>2
    <3> QED
      BY <3>1
  <2>2. PICK g : LoopOf(0, N, X, x0, G, g)
    <3>1. x0 \in X[0]
      <4> HIDE DEF N, S, x0
      <4> QED
        BY <1>0
    <3>2. 0 \in Nat /\ 0 <= N
      BY <1>0
    <3> HIDE DEF X, G, N, x0, S, Turn, Loop, f
    <3> QED
      BY <1>0, <2>1, <3>1, <3>2, LoopExists
  <2> HIDE DEF N, S, x0, Turn
  <2>3. /\ g[0] = x0 /\ (\A n \in 0 + 1 .. N : g[n] = G[n][g[n - 1]])
        /\ \A n \in 0 .. N : g[n] \in S
    BY <2>2 DEF LoopOf
  <2>4. ASSUME NEW n \in 0 .. N PROVE g[n] = IF n = 0 THEN x0 ELSE Turn(g[n - 1], n)
    <3>1. CASE n = 0
      BY <2>3, <3>1
    <3>2. CASE n # 0
      <4>1. n \in 1 .. N /\ n - 1 \in 0 .. N
        BY <1>0, <3>2
      <4>2. g[n] = G[n][g[n - 1]] /\ g[n - 1] \in S
        BY <2>3, <3>2, <4>1
      <4> QED
        BY <3>2, <4>1, <4>2
    <3> QED
      BY <3>1, <3>2
  <2>5. g = [n \in 0 .. N |-> g[n]]
    BY <2>2 DEF LoopOf
  <2>6. Loop(g)
    BY <2>4, <2>5
  <2> HIDE DEF Loop
  <2> QED
    BY <2>6
<1>3. f[N] \in S
  <2> HIDE DEF f, S, N, x0, Turn
  <2>1. f[0] = x0 /\ \A n \in 1 .. N : f[n] = Turn(f[n - 1], n)
    BY <1>0, <1>2
  <2>2. \A n \in 0 .. N : f[n] \in X[n]
    <3>1. f[0] \in X[0]
      BY <1>0, <2>1
    <3>2. ASSUME NEW n \in 0 + 1 .. N, f[n - 1] \in X[n - 1] PROVE f[n] \in X[n]
      BY <1>0, <1>1, <2>1, <3>2
    <3> HIDE DEF X
    <3> QED
      BY <1>0, <3>1, <3>2, LoopAdmits
  <2> QED
    BY <1>0, <2>2
<1>4. VerifyAll(m, w, v) = f[N]
  BY DEF VerifyAll
<1> HIDE DEF f
<1> QED
  BY <1>3, <1>4 DEF Sound

\* piece_mgr_preset_have
LEMMA PresetKeeps ==
  ASSUME NEW m, NEW bf, MgrInv(m, None)
  PROVE  MgrInv(PresetHave(m, bf), None) /\ Preset(m, PresetHave(m, bf), bf)
<1> DEFINE N == NumPieces
           S == {r \in MgrRec : MgrInv(r, None) /\ Preset(m, r, bf)}
           x0 == m
           Turn(r, n) == PresetPiece(r, bf, n - 1)
           X == [n \in 0 .. N |-> S]
           G == [n \in 1 .. N |-> [x \in S |-> Turn(x, n)]]
           Loop(h) == h = [n \in 0 .. N |-> IF n = 0 THEN x0 ELSE Turn(h[n - 1], n)]
           f == CHOOSE h : Loop(h)
<1>0. N \in Nat /\ x0 \in S
  BY MgrAssumption DEF MgrInv, Preset
<1>1. ASSUME NEW n \in 1 .. N, NEW r \in S PROVE Turn(r, n) \in S
  <2>1. n - 1 \in Pieces /\ MgrInv(r, None) /\ Preset(m, r, bf)
    BY MgrAssumption DEF Pieces
  <2>2. MgrInv(Turn(r, n), None) /\ Preset(r, Turn(r, n), bf)
    BY <2>1, PresetPieceKeeps
  <2> HIDE DEF Turn
  <2>3. Preset(m, Turn(r, n), bf)
    BY <2>1, <2>2 DEF Preset
  <2> QED
    BY <2>2, <2>3 DEF MgrInv
<1>2. Loop(f)
  <2>1. \A n \in 0 + 1 .. N : G[n] \in [X[n - 1] -> X[n]]
    <3> HIDE DEF N, S, Turn
    <3>1. ASSUME NEW n \in 0 + 1 .. N PROVE G[n] \in [X[n - 1] -> X[n]]
      <4>1. n \in 1 .. N /\ n \in 0 .. N /\ n - 1 \in 0 .. N
        BY <1>0
      <4>2. X[n - 1] = S /\ X[n] = S /\ G[n] = [x \in S |-> Turn(x, n)]
        BY <4>1
      <4> QED
        BY <1>1, <4>1, <4>2
    <3> QED
      BY <3>1
  <2>2. PICK g : LoopOf(0, N, X, x0, G, g)
    <3>1. x0 \in X[0]
      <4> HIDE DEF N, S, x0
      <4> QED
        BY <1>0
    <3>2. 0 \in Nat /\ 0 <= N
      BY <1>0
    <3> HIDE DEF X, G, N, x0, S, Turn, Loop, f
    <3> QED
      BY <1>0, <2>1, <3>1, <3>2, LoopExists
  <2> HIDE DEF N, S, x0, Turn
  <2>3. /\ g[0] = x0 /\ (\A n \in 0 + 1 .. N : g[n] = G[n][g[n - 1]])
        /\ \A n \in 0 .. N : g[n] \in S
    BY <2>2 DEF LoopOf
  <2>4. ASSUME NEW n \in 0 .. N PROVE g[n] = IF n = 0 THEN x0 ELSE Turn(g[n - 1], n)
    <3>1. CASE n = 0
      BY <2>3, <3>1
    <3>2. CASE n # 0
      <4>1. n \in 1 .. N /\ n - 1 \in 0 .. N
        BY <1>0, <3>2
      <4>2. g[n] = G[n][g[n - 1]] /\ g[n - 1] \in S
        BY <2>3, <3>2, <4>1
      <4> QED
        BY <3>2, <4>1, <4>2
    <3> QED
      BY <3>1, <3>2
  <2>5. g = [n \in 0 .. N |-> g[n]]
    BY <2>2 DEF LoopOf
  <2>6. Loop(g)
    BY <2>4, <2>5
  <2> HIDE DEF Loop
  <2> QED
    BY <2>6
<1>3. f[N] \in S
  <2> HIDE DEF f, S, N, x0, Turn
  <2>1. f[0] = x0 /\ \A n \in 1 .. N : f[n] = Turn(f[n - 1], n)
    BY <1>0, <1>2
  <2>2. \A n \in 0 .. N : f[n] \in X[n]
    <3>1. f[0] \in X[0]
      BY <1>0, <2>1
    <3>2. ASSUME NEW n \in 0 + 1 .. N, f[n - 1] \in X[n - 1] PROVE f[n] \in X[n]
      BY <1>0, <1>1, <2>1, <3>2
    <3> HIDE DEF X
    <3> QED
      BY <1>0, <3>1, <3>2, LoopAdmits
  <2> QED
    BY <1>0, <2>2
<1>4. PresetHave(m, bf) = f[N]
  BY DEF PresetHave
<1> HIDE DEF f
<1> QED
  BY <1>3, <1>4

\* torrent_submit_web_piece
LEMMA WebPieceKeeps ==
  ASSUME NEW m, NEW p \in Pieces, NEW tag \in {"good", "bad"}, NEW w \in WriteResults,
         NEW a \in BOOLEAN, MgrInv(m, None)
  PROVE  /\ MgrInv(SubmitWebPiece(m, p, tag, w, a).m, None)
         /\ Fed(m, SubmitWebPiece(m, p, tag, w, a).m, w)
<1> DEFINE N == BlockCount[p]
           S == [m : FedFrom(m, w), failed : BOOLEAN]
           x0 == [m |-> MarkPending(m, p, a), failed |-> FALSE]
           turn(acc, b) == IF acc.failed \/ b \in acc.m.blocks[p] THEN acc
                           ELSE [m |-> GotBlock(acc.m, p, b, tag, w, a),
                                 failed |-> GotBlockFails(acc.m, p, b, tag, w, a)]
           Turn(acc, n) == turn(acc, n - 1)
           X == [n \in 0 .. N |-> S]
           G == [n \in 1 .. N |-> [x \in S |-> Turn(x, n)]]
           Loop(h) == h = [n \in 0 .. N |-> IF n = 0 THEN x0 ELSE Turn(h[n - 1], n)]
           f == CHOOSE h : Loop(h)
<1>0. N \in Nat /\ x0 \in S
  BY PendingKeeps, MgrAssumption DEF FedFrom, MgrInv
<1>1. ASSUME NEW n \in 1 .. N, NEW r \in S PROVE Turn(r, n) \in S
  <2>1. n - 1 \in Blocks(p) /\ MgrInv(r.m, None) /\ Fed(m, r.m, w)
    BY MgrAssumption DEF Blocks, FedFrom
  <2> DEFINE g == GotBlock(r.m, p, n - 1, tag, w, a)
             e == GotBlockFails(r.m, p, n - 1, tag, w, a)
  <2>2. MgrInv(g, None) /\ Fed(r.m, g, w)
    BY <2>1, GotBlockKeeps
  <2>3. e \in BOOLEAN
    BY DEF GotBlockFails
  <2>4. Turn(r, n) = r \/ Turn(r, n) = [m |-> g, failed |-> e]
    OBVIOUS
  <2> HIDE DEF g, e, Turn
  <2>5. g \in FedFrom(m, w)
    BY <2>1, <2>2, FedTrans DEF FedFrom, MgrInv
  <2> QED
    BY <2>3, <2>4, <2>5
<1>2. Loop(f)
  <2>1. \A n \in 0 + 1 .. N : G[n] \in [X[n - 1] -> X[n]]
    <3> HIDE DEF N, S, Turn
    <3>1. ASSUME NEW n \in 0 + 1 .. N PROVE G[n] \in [X[n - 1] -> X[n]]
      <4>1. n \in 1 .. N /\ n \in 0 .. N /\ n - 1 \in 0 .. N
        BY <1>0
      <4>2. X[n - 1] = S /\ X[n] = S /\ G[n] = [x \in S |-> Turn(x, n)]
        BY <4>1
      <4> QED
        BY <1>1, <4>1, <4>2
    <3> QED
      BY <3>1
  <2>2. PICK g : LoopOf(0, N, X, x0, G, g)
    <3>1. x0 \in X[0]
      <4> HIDE DEF N, S, x0
      <4> QED
        BY <1>0
    <3>2. 0 \in Nat /\ 0 <= N
      BY <1>0
    <3> HIDE DEF X, G, N, x0, S, Turn, Loop, f
    <3> QED
      BY <1>0, <2>1, <3>1, <3>2, LoopExists
  <2> HIDE DEF N, S, x0, Turn
  <2>3. /\ g[0] = x0 /\ (\A n \in 0 + 1 .. N : g[n] = G[n][g[n - 1]])
        /\ \A n \in 0 .. N : g[n] \in S
    BY <2>2 DEF LoopOf
  <2>4. ASSUME NEW n \in 0 .. N PROVE g[n] = IF n = 0 THEN x0 ELSE Turn(g[n - 1], n)
    <3>1. CASE n = 0
      BY <2>3, <3>1
    <3>2. CASE n # 0
      <4>1. n \in 1 .. N /\ n - 1 \in 0 .. N
        BY <1>0, <3>2
      <4>2. g[n] = G[n][g[n - 1]] /\ g[n - 1] \in S
        BY <2>3, <3>2, <4>1
      <4> QED
        BY <3>2, <4>1, <4>2
    <3> QED
      BY <3>1, <3>2
  <2>5. g = [n \in 0 .. N |-> g[n]]
    BY <2>2 DEF LoopOf
  <2>6. Loop(g)
    BY <2>4, <2>5
  <2> HIDE DEF Loop
  <2> QED
    BY <2>6
<1>3. f[N] \in S
  <2> HIDE DEF f, S, N, x0, Turn
  <2>1. f[0] = x0 /\ \A n \in 1 .. N : f[n] = Turn(f[n - 1], n)
    BY <1>0, <1>2
  <2>2. \A n \in 0 .. N : f[n] \in X[n]
    <3>1. f[0] \in X[0]
      BY <1>0, <2>1
    <3>2. ASSUME NEW n \in 0 + 1 .. N, f[n - 1] \in X[n - 1] PROVE f[n] \in X[n]
      BY <1>0, <1>1, <2>1, <3>2
    <3> HIDE DEF X
    <3> QED
      BY <1>0, <3>1, <3>2, LoopAdmits
  <2> QED
    BY <1>0, <2>2
<1>4. SubmitWebPiece(m, p, tag, w, a) = IF p \in m.have_bf THEN [m |-> m, failed |-> FALSE]
                                      ELSE f[N]
  BY DEF SubmitWebPiece
<1> HIDE DEF f, N
<1>5. SubmitWebPiece(m, p, tag, w, a).m \in FedFrom(m, w)
  BY <1>3, <1>4, FedFromSelf
<1> QED
  BY <1>5 DEF FedFrom

\* schedule_requests for a piece
LEMMA ScheduleKeeps ==
  ASSUME NEW p \in Pieces, NEW k, NEW a \in BOOLEAN, MgrInv(pm, None), Schedule(p, k, a)
  PROVE  MgrInv(pm', None) /\ Kept(pm, pm')
<1> DEFINE N == BlockCount[p]
           S == Sound(pm)
           x0 == MarkPending(pm, p, a)
           free == {b \in Blocks(p) : b \notin x0.blocks[p] /\ x0.reqs[p][b] = 0}
           sent == {b \in free : Cardinality({c \in free : c < b}) < k}
           Turn(r, n) == IF n - 1 \in sent THEN MarkBlockRequested(r, p, n - 1) ELSE r
           X == [n \in 0 .. N |-> S]
           G == [n \in 1 .. N |-> [x \in S |-> Turn(x, n)]]
           Loop(h) == h = [n \in 0 .. N |-> IF n = 0 THEN x0 ELSE Turn(h[n - 1], n)]
           f == CHOOSE h : Loop(h)
<1>0. N \in Nat /\ x0 \in S
  BY PendingKeeps, MgrAssumption DEF Sound, MgrInv, Fed
<1>1. ASSUME NEW n \in 1 .. N, NEW r \in S PROVE Turn(r, n) \in S
  <2>1. n - 1 \in Blocks(p) /\ MgrInv(r, None) /\ Kept(pm, r)
    BY MgrAssumption DEF Blocks, Sound
  <2> DEFINE g == MarkBlockRequested(r, p, n - 1)
  <2>2. MgrInv(g, None) /\ Kept(r, g)
    BY <2>1, RequestKeeps
  <2>3. Turn(r, n) = r \/ Turn(r, n) = g
    BY Zenon
  <2> HIDE DEF g, Turn
  <2> QED
    BY <2>1, <2>2, <2>3, KeptTrans DEF Sound, MgrInv
<1>2. Loop(f)
  <2>1. \A n \in 0 + 1 .. N : G[n] \in [X[n - 1] -> X[n]]
    <3> HIDE DEF N, S, Turn
    <3>1. ASSUME NEW n \in 0 + 1 .. N PROVE G[n] \in [X[n - 1] -> X[n]]
      <4>1. n \in 1 .. N /\ n \in 0 .. N /\ n - 1 \in 0 .. N
        BY <1>0
      <4>2. X[n - 1] = S /\ X[n] = S /\ G[n] = [x \in S |-> Turn(x, n)]
        BY <4>1
      <4> QED
        BY <1>1, <4>1, <4>2
    <3> QED
      BY <3>1
  <2>2. PICK g : LoopOf(0, N, X, x0, G, g)
    <3>1. x0 \in X[0]
      <4> HIDE DEF N, S, x0
      <4> QED
        BY <1>0
    <3>2. 0 \in Nat /\ 0 <= N
      BY <1>0
    <3> HIDE DEF X, G, N, x0, S, Turn, Loop, f
    <3> QED
      BY <1>0, <2>1, <3>1, <3>2, LoopExists
  <2> HIDE DEF N, S, x0, Turn
  <2>3. /\ g[0] = x0 /\ (\A n \in 0 + 1 .. N : g[n] = G[n][g[n - 1]])
        /\ \A n \in 0 .. N : g[n] \in S
    BY <2>2 DEF LoopOf
  <2>4. ASSUME NEW n \in 0 .. N PROVE g[n] = IF n = 0 THEN x0 ELSE Turn(g[n - 1], n)
    <3>1. CASE n = 0
      BY <2>3, <3>1
    <3>2. CASE n # 0
      <4>1. n \in 1 .. N /\ n - 1 \in 0 .. N
        BY <1>0, <3>2
      <4>2. g[n] = G[n][g[n - 1]] /\ g[n - 1] \in S
        BY <2>3, <3>2, <4>1
      <4> QED
        BY <3>2, <4>1, <4>2
    <3> QED
      BY <3>1, <3>2
  <2>5. g = [n \in 0 .. N |-> g[n]]
    BY <2>2 DEF LoopOf
  <2>6. Loop(g)
    BY <2>4, <2>5
  <2> HIDE DEF Loop
  <2> QED
    BY <2>6
<1>3. f[N] \in S
  <2> HIDE DEF f, S, N, x0, Turn
  <2>1. f[0] = x0 /\ \A n \in 1 .. N : f[n] = Turn(f[n - 1], n)
    BY <1>0, <1>2
  <2>2. \A n \in 0 .. N : f[n] \in X[n]
    <3>1. f[0] \in X[0]
      BY <1>0, <2>1
    <3>2. ASSUME NEW n \in 0 + 1 .. N, f[n - 1] \in X[n - 1] PROVE f[n] \in X[n]
      BY <1>0, <1>1, <2>1, <3>2
    <3> HIDE DEF X
    <3> QED
      BY <1>0, <3>1, <3>2, LoopAdmits
  <2> QED
    BY <1>0, <2>2
<1>4. pm' = f[N]
  BY DEF Schedule
<1> HIDE DEF f
<1> QED
  BY <1>3, <1>4 DEF Sound
----------------------------------------------------------------------------
(* The picker.                                                             *)

Choice == Pieces \cup {None}
Scans  == [left : Nat, pending : Choice, empty : Choice, ret : Choice]
Start(la) == [left |-> la, pending |-> None, empty |-> None, ret |-> None]
Chosen(acc) == IF acc.ret # None THEN acc.ret
               ELSE IF acc.pending # None THEN acc.pending ELSE acc.empty

CanResume(m, have, i) == i \in have /\ m.state[i] = "PENDING" /\ Requestable(m, i)
CanStart(m, have, i)  == i \in have /\ m.state[i] = "EMPTY"
Passes(m, acc, n) == acc.ret # None \/ acc.left = 0 \/ ~Unfinished(m, n)

\* The turn at a position admits one more piece, and perhaps chooses it.
Admitted(m, have, ff, acc, i, r) ==
  /\ r.left = acc.left - 1
  /\ r.pending = IF CanResume(m, have, i) /\ acc.pending = None THEN i ELSE acc.pending
  /\ r.empty = IF CanStart(m, have, i) /\ acc.empty = None THEN i ELSE acc.empty
  /\ ff => r.ret = IF CanResume(m, have, i) /\ acc.pending = None THEN i ELSE None
  /\ ~ff => r.ret = IF CanStart(m, have, i) /\ acc.empty = None THEN i ELSE None

\* Or it closes the window.
Closed(acc, r) ==
  r.left = 0 /\ r.pending = acc.pending /\ r.empty = acc.empty /\ r.ret = acc.ret

LEMMA TurnForm ==
  ASSUME NEW m, NEW have, NEW gate, NEW ff \in BOOLEAN, NEW acc \in Scans, NEW n \in Positions
  PROVE  LET i == OrderPieceAt(n)
             r == PickTurn(m, have, gate, ff, acc, n)
         IN  /\ r \in Scans
             /\ Passes(m, acc, n) => r = acc
             /\ ~Passes(m, acc, n) /\ i \notin gate => Closed(acc, r)
             /\ ~Passes(m, acc, n) /\ i \in gate => Admitted(m, have, ff, acc, i, r)
<1> DEFINE i == OrderPieceAt(n)
           r == PickTurn(m, have, gate, ff, acc, n)
           resume == CanResume(m, have, i)
           fresh == CanStart(m, have, i)
           skip == Passes(m, acc, n)
           l == acc.left - 1
           next == [acc EXCEPT !.left = l]
<1>0. ~skip => l \in Nat /\ acc.ret = None /\ i \in Pieces
  BY DEF Scans, Passes, Unfinished
<1>1. CASE skip
  BY <1>1 DEF PickTurn, Passes
<1>2. CASE ~skip /\ i \notin gate
  <2>1. r = [acc EXCEPT !.left = 0]
    BY <1>2 DEF PickTurn, Passes
  <2> HIDE DEF r
  <2>2. r \in Scans /\ Closed(acc, r)
    BY <2>1 DEF Scans, Closed
  <2> QED
    BY <1>2, <2>2 DEF r
<1>3. CASE ~skip /\ i \in gate
  <2>1. i \in Choice /\ l \in Nat /\ acc.ret = None
    BY <1>0, <1>3 DEF Choice
  <2>2. r = IF resume /\ acc.pending = None
            THEN [next EXCEPT !.pending = i, !.ret = IF ff THEN i ELSE @]
            ELSE IF fresh /\ acc.empty = None
            THEN [next EXCEPT !.empty = i, !.ret = IF ff THEN @ ELSE i]
            ELSE next
    BY <1>3 DEF PickTurn, Passes, CanResume, CanStart
  <2>3. ~(resume /\ fresh)
    BY DEF CanResume, CanStart
  <2> HIDE DEF l
  <2>4. /\ next \in Scans /\ next.left = l /\ next.pending = acc.pending
        /\ next.empty = acc.empty /\ next.ret = None
    BY <2>1 DEF Scans
  <2> HIDE DEF next, r
  <2>5. r \in Scans /\ Admitted(m, have, ff, acc, i, r)
    <3>1. CASE resume /\ acc.pending = None /\ ff
      <4>1. r = [next EXCEPT !.pending = i, !.ret = i]
        BY <2>2, <3>1
      <4>2. r \in Scans /\ r.left = l /\ r.pending = i /\ r.empty = acc.empty /\ r.ret = i
        BY <2>1, <2>4, <4>1 DEF Scans
      <4> QED
        BY <2>3, <3>1, <4>2 DEF Admitted, l
    <3>2. CASE resume /\ acc.pending = None /\ ~ff
      <4>1. r = [next EXCEPT !.pending = i, !.ret = next.ret]
        BY <2>2, <3>2
      <4>2. r \in Scans /\ r.left = l /\ r.pending = i /\ r.empty = acc.empty /\ r.ret = None
        BY <2>1, <2>4, <4>1 DEF Scans
      <4> QED
        BY <2>3, <3>2, <4>2 DEF Admitted, l
    <3>3. CASE ~(resume /\ acc.pending = None) /\ fresh /\ acc.empty = None /\ ff
      <4>1. r = [next EXCEPT !.empty = i, !.ret = next.ret]
        BY <2>2, <3>3
      <4>2. r \in Scans /\ r.left = l /\ r.pending = acc.pending /\ r.empty = i /\ r.ret = None
        BY <2>1, <2>4, <4>1 DEF Scans
      <4> QED
        BY <3>3, <4>2 DEF Admitted, l
    <3>4. CASE ~(resume /\ acc.pending = None) /\ fresh /\ acc.empty = None /\ ~ff
      <4>1. r = [next EXCEPT !.empty = i, !.ret = i]
        BY <2>2, <3>4
      <4>2. r \in Scans /\ r.left = l /\ r.pending = acc.pending /\ r.empty = i /\ r.ret = i
        BY <2>1, <2>4, <4>1 DEF Scans
      <4> QED
        BY <3>4, <4>2 DEF Admitted, l
    <3>5. CASE ~(resume /\ acc.pending = None) /\ ~(fresh /\ acc.empty = None)
      <4>1. r = next
        BY <2>2, <3>5
      <4> QED
        BY <2>4, <3>5, <4>1 DEF Admitted, l
    <3> QED
      BY <3>1, <3>2, <3>3, <3>4, <3>5
  <2> QED
    BY <1>3, <2>5 DEF r
<1> QED
  BY <1>1, <1>2, <1>3

\* The scan of piece_mgr_pick, position by position.
ScanOf(m, have, gate, la, ff, f) ==
  /\ f[m.order_cursor] = Start(la)
  /\ \A n \in m.order_cursor .. OrderCount : f[n] \in Scans
  /\ \A n \in m.order_cursor .. OrderCount - 1 :
       f[n + 1] = PickTurn(m, have, gate, ff, f[n], n)

LEMMA ScanForm ==
  ASSUME NEW m, NEW have, NEW gate, NEW la \in Nat, NEW ff \in BOOLEAN,
         m.order_cursor \in 0 .. OrderCount
  PROVE  \E f : /\ ScanOf(m, have, gate, la, ff, f)
                /\ PickStrict(m, have, gate, la, ff) = Chosen(f[OrderCount])
<1> DEFINE L == m.order_cursor
           N == OrderCount
           x0 == Start(la)
           Turn(acc, n) == PickTurn(m, have, gate, ff, acc, n - 1)
           X == [n \in L .. N |-> Scans]
           G == [n \in L + 1 .. N |-> [x \in Scans |-> Turn(x, n)]]
           Loop(h) == h = [n \in L .. N |-> IF n = L THEN x0 ELSE Turn(h[n - 1], n)]
           f == CHOOSE h : Loop(h)
<1>0. L \in Nat /\ N \in Nat /\ L <= N /\ x0 \in Scans
  BY PositionsNat DEF Start, Scans, Choice
<1>1. ASSUME NEW n \in L + 1 .. N, NEW acc \in Scans PROVE Turn(acc, n) \in Scans
  <2>1. n - 1 \in Positions
    BY <1>0 DEF Positions
  <2> QED
    BY <2>1, TurnForm
<1>2. PickStrict(m, have, gate, la, ff) = Chosen(f[N])
  BY DEF PickStrict, Start, Chosen
<1> HIDE DEF L, N, x0, Turn
<1>3. Loop(f)
  <2>1. \A n \in L + 1 .. N : G[n] \in [X[n - 1] -> X[n]]
    <3>1. ASSUME NEW n \in L + 1 .. N PROVE G[n] \in [X[n - 1] -> X[n]]
      <4>1. n \in L .. N /\ n - 1 \in L .. N
        BY <1>0
      <4>2. X[n - 1] = Scans /\ X[n] = Scans /\ G[n] = [x \in Scans |-> Turn(x, n)]
        BY <4>1
      <4> QED
        BY <1>1, <4>2
    <3> QED
      BY <3>1
  <2>2. x0 \in X[L]
    BY <1>0
  <2>3. PICK g : LoopOf(L, N, X, x0, G, g)
    <3> HIDE DEF X, G, Loop, f
    <3> QED
      BY <1>0, <2>1, <2>2, LoopExists
  <2>4. /\ g[L] = x0 /\ (\A n \in L + 1 .. N : g[n] = G[n][g[n - 1]])
        /\ \A n \in L .. N : g[n] \in Scans
    BY <2>3 DEF LoopOf
  <2>5. ASSUME NEW n \in L .. N PROVE g[n] = IF n = L THEN x0 ELSE Turn(g[n - 1], n)
    <3>1. CASE n = L
      BY <2>4, <3>1
    <3>2. CASE n # L
      <4>1. n \in L + 1 .. N /\ n - 1 \in L .. N
        BY <1>0, <3>2
      <4>2. g[n] = G[n][g[n - 1]] /\ g[n - 1] \in Scans
        BY <2>4, <4>1
      <4> QED
        BY <3>2, <4>1, <4>2
    <3> QED
      BY <3>1, <3>2
  <2>6. g = [n \in L .. N |-> g[n]]
    BY <2>3 DEF LoopOf
  <2>7. Loop(g)
    BY <2>5, <2>6
  <2> HIDE DEF Loop
  <2> QED
    BY <2>7
<1> HIDE DEF f
<1>4. f[L] = x0 /\ \A n \in L + 1 .. N : f[n] = Turn(f[n - 1], n)
  BY <1>0, <1>3
<1>5. \A n \in L .. N : f[n] \in Scans
  <2>1. f[L] \in X[L]
    BY <1>0, <1>4
  <2>2. ASSUME NEW n \in L + 1 .. N, f[n - 1] \in X[n - 1] PROVE f[n] \in X[n]
    BY <1>0, <1>1, <1>4, <2>2
  <2>3. \A n \in L .. N : f[n] \in X[n]
    <3> HIDE DEF X
    <3> QED
      BY <1>0, <2>1, <2>2, LoopAdmits
  <2> QED
    BY <1>0, <2>3
<1>6. ASSUME NEW n \in L .. N - 1 PROVE f[n + 1] = PickTurn(m, have, gate, ff, f[n], n)
  <2>1. n + 1 \in L + 1 .. N /\ (n + 1) - 1 = n
    BY <1>0
  <2> QED
    BY <1>4, <2>1 DEF Turn
<1>7. ScanOf(m, have, gate, la, ff, f)
  BY <1>4, <1>5, <1>6 DEF ScanOf, L, N, x0
<1> QED
  BY <1>2, <1>7 DEF N

\* piece_mgr_pick names a piece of the torrent or none.
LEMMA PickInRange ==
  ASSUME NEW m, MgrInv(m, None), NEW have \in SUBSET Pieces, NEW gate \in SUBSET Pieces,
         NEW la \in Nat, NEW ff \in BOOLEAN
  PROVE  Pick(m, have, gate, la, ff) \in Choice
<1>1. PickStrict(m, have, gate, la, ff) \in Choice
  <2>1. m.order_cursor \in 0 .. OrderCount
    BY DEF MgrInv, MgrRec
  <2>2. PICK f : /\ ScanOf(m, have, gate, la, ff, f)
                 /\ PickStrict(m, have, gate, la, ff) = Chosen(f[OrderCount])
    BY <2>1, ScanForm
  <2>3. OrderCount \in m.order_cursor .. OrderCount
    BY <2>1, PositionsNat
  <2>4. f[OrderCount] \in Scans
    BY <2>2, <2>3 DEF ScanOf
  <2> QED
    BY <2>2, <2>4 DEF Chosen, Scans
<1>2. PickAny(m, have, gate) \in Choice
  <2> DEFINE fresh == {p \in have \cap gate : m.state[p] = "EMPTY" /\ p \notin m.have_bf}
             again == {p \in have \cap gate : /\ m.state[p] \notin {"DONE", "HASHING"}
                                              /\ p \notin m.have_bf}
  <2>0. Pieces \in SUBSET Nat
    BY MgrAssumption DEF Pieces
  <2>1. fresh \in SUBSET Pieces /\ again \in SUBSET Pieces
    OBVIOUS
  <2>2. PickAny(m, have, gate) = IF fresh # {} THEN Min(fresh)
                                 ELSE IF again # {} THEN Min(again) ELSE None
    BY DEF PickAny
  <2> HIDE DEF fresh, again
  <2>3. (fresh # {} => Min(fresh) \in fresh) /\ (again # {} => Min(again) \in again)
    BY <2>0, <2>1, MinIsLeast
  <2> QED
    BY <2>1, <2>2, <2>3 DEF Choice
<1> QED
  BY <1>1, <1>2 DEF Pick
----------------------------------------------------------------------------
(* The invariant is inductive.                                             *)

LEMMA FreshSound ==
  ASSUME NEW d \in [Pieces -> {"good", "other"}], NEW strict \in BOOLEAN, NEW async \in BOOLEAN
  PROVE  MgrInv(Fresh(d, strict, async), None)
<1> DEFINE m == Fresh(d, strict, async)
<1>1. /\ m.state = [p \in Pieces |-> "EMPTY"] /\ m.blocks = [p \in Pieces |-> {}]
      /\ m.reqs = [p \in Pieces |-> [b \in Blocks(p) |-> 0]]
      /\ m.buf = [p \in Pieces |-> NoBuf]
      /\ m.have_bf = {} /\ m.available_bf = {} /\ m.num_done = 0 /\ m.completed_bytes = 0
      /\ m.order_cursor = 0 /\ m.queue = <<>> /\ m.hashed = 0
  BY DEF Fresh
<1>2. \A p \in Pieces : [b \in Blocks(p) |-> 0] \in [Blocks(p) -> 0 .. ReqMax]
  BY MgrAssumption
<1>3. m \in MgrRec
  <2>1. m.reqs \in [Pieces -> AllReqs]
    BY <1>1, <1>2, InAll
  <2>2. m.buf \in [Pieces -> AllBufs]
    BY <1>1 DEF AllBufs
  <2>3. 0 \in 0 .. OrderCount
    BY PositionsNat
  <2>4. <<>> \in Seq(Jobs)
    OBVIOUS
  <2>5. m.state \in [Pieces -> States] /\ m.blocks \in [Pieces -> SUBSET Nat]
    BY <1>1 DEF States
  <2> QED
    BY <2>1, <2>2, <2>3, <2>4, <2>5 DEF Fresh, MgrRec
<1> HIDE DEF m
<1>4. \A q \in Pieces : SlotOK(m, q, None)
  <2> SUFFICES ASSUME NEW q \in Pieces PROVE SlotOK(m, q, None)
    OBVIOUS
  <2>1. m.state[q] = "EMPTY" /\ m.blocks[q] = {} /\ m.buf[q] = NoBuf
    BY <1>1
  <2>2. m.reqs[q] \in [Blocks(q) -> 0 .. ReqMax]
    BY <1>1, <1>2
  <2> QED
    BY <2>1, <2>2 DEF SlotOK, SlotType, Received, BufOf
<1>5. QueueOK(m)
  BY <1>1, MgrAssumption DEF QueueOK
<1>6. CountOK(m)
  <2>1. DoneOf(m) = {}
    BY <1>1 DEF DoneOf
  <2>2. Cardinality({}) = 0
    BY FS_EmptySet
  <2>3. SizeOf({}) = 0
    BY SizeOfNone
  <2> QED
    BY <1>1, <2>1, <2>2, <2>3 DEF CountOK
<1>7. AheadOK(m)
  <2>1. \A p \in Pieces : OrderPos(p) # None => 0 <= OrderPos(p)
    BY OrderPosForm, PositionsNat
  <2> QED
    BY <1>1, <2>1 DEF AheadOK
<1> QED
  BY <1>3, <1>4, <1>5, <1>6, <1>7 DEF MgrInv, m

\* The hash worker's step.
LEMMA WorkerKeeps ==
  ASSUME MgrInv(pm, None), WorkerDone
  PROVE  MgrInv(pm', None) /\ Kept(pm, pm')
<1> DEFINE h == pm.hashed + 1
           g == [pm EXCEPT !.hashed = h]
<1>1. pm \in MgrRec /\ QueueOK(pm) /\ h \in Nat /\ h <= Len(pm.queue) /\ pm' = g
  BY DEF MgrInv, MgrRec, WorkerDone
<1> HIDE DEF h
<1>2. /\ g \in MgrRec /\ g.disk = pm.disk /\ g.queue = pm.queue /\ g.hashed = h
      /\ g.state = pm.state /\ g.blocks = pm.blocks /\ g.reqs = pm.reqs /\ g.buf = pm.buf
      /\ g.have_bf = pm.have_bf /\ g.available_bf = pm.available_bf
      /\ g.num_done = pm.num_done /\ g.completed_bytes = pm.completed_bytes
      /\ g.order_cursor = pm.order_cursor
  BY <1>1 DEF MgrRec
<1> HIDE DEF g
<1>3. MgrInv(g, None)
  <2>1. \A q \in Pieces : SlotOK(g, q, None)
    BY <1>2 DEF MgrInv, SlotOK, SlotType, Received, HasJob
  <2>2. QueueOK(g)
    BY <1>1, <1>2 DEF QueueOK
  <2>3. CountOK(g) /\ AheadOK(g)
    BY <1>2 DEF MgrInv, CountOK, AheadOK, DoneOf
  <2> QED
    BY <1>2, <2>1, <2>2, <2>3 DEF MgrInv
<1>4. Kept(pm, g)
  BY <1>2 DEF Kept
<1> QED
  BY <1>1, <1>3, <1>4

\* The storage changes under the manager.
LEMMA CorruptKeeps ==
  ASSUME NEW p \in Pieces, MgrInv(pm, None), Corrupt(p)
  PROVE  MgrInv(pm', None) /\ pm'.state = pm.state
<1> DEFINE d == "other"
           g == [pm EXCEPT !.disk[p] = d]
<1>1. pm \in MgrRec /\ pm' = g /\ d \in {"good", "other"}
  BY DEF MgrInv, Corrupt
<1> HIDE DEF d
<1>2. /\ g \in MgrRec /\ g.queue = pm.queue /\ g.hashed = pm.hashed
      /\ g.state = pm.state /\ g.blocks = pm.blocks /\ g.reqs = pm.reqs /\ g.buf = pm.buf
      /\ g.have_bf = pm.have_bf /\ g.available_bf = pm.available_bf
      /\ g.num_done = pm.num_done /\ g.completed_bytes = pm.completed_bytes
      /\ g.order_cursor = pm.order_cursor
  BY <1>1 DEF MgrRec
<1> HIDE DEF g
<1>3. MgrInv(g, None)
  <2>1. \A q \in Pieces : SlotOK(g, q, None)
    BY <1>2 DEF MgrInv, SlotOK, SlotType, Received, HasJob
  <2>2. QueueOK(g) /\ CountOK(g) /\ AheadOK(g)
    BY <1>2 DEF MgrInv, QueueOK, CountOK, AheadOK, DoneOf
  <2> QED
    BY <1>2, <2>1, <2>2 DEF MgrInv
<1> QED
  BY <1>1, <1>2, <1>3

\* The inductive invariant of the manager.
MgrSound == MgrInv(pm, None)

\* What a step may do to the DONE pieces.
StepKept == Kept(pm, pm') \/ pm'.state = pm.state

LEMMA InitSound == Init => MgrSound
BY FreshSound, PresetKeeps DEF Init, MgrSound, Disks

LEMMA PicksArePieces == MgrSound => Picks \ {None} \subseteq Pieces
<1> SUFFICES ASSUME MgrSound, NEW q \in Picks, q # None PROVE q \in Pieces
  OBVIOUS
<1>1. PICK have \in SUBSET Pieces, gate \in SUBSET Pieces, la \in 1 .. Lookahead, f \in BOOLEAN :
        q = Pick(pm, have, gate, la, f)
  BY DEF Picks
<1>2. la \in Nat
  BY MgrAssumption
<1>3. q \in Choice
  BY <1>1, <1>2, PickInRange DEF MgrSound
<1> QED
  BY <1>3 DEF Choice

LEMMA NextSound == MgrSound /\ [Next]_pm => MgrSound' /\ StepKept
<1> SUFFICES ASSUME MgrSound, [Next]_pm PROVE MgrSound' /\ StepKept
  OBVIOUS
<1>0. /\ MgrInv(pm, None)
      /\ MgrInv(pm', None) /\ Kept(pm, pm') => MgrSound' /\ StepKept
  BY DEF MgrSound, StepKept
<1>1. ASSUME NEW p \in Picks \ {None}, NEW a \in BOOLEAN, NEW n \in 1 .. BlockCount[p],
             Schedule(p, n, a)
      PROVE  MgrSound' /\ StepKept
  <2>1. p \in Pieces
    BY PicksArePieces
  <2> QED
    BY <1>0, <1>1, <2>1, ScheduleKeeps
<1>2. ASSUME NEW p \in Pieces, NEW b \in Blocks(p), Hedge(p, b) PROVE MgrSound' /\ StepKept
  BY <1>0, <1>2, RequestKeeps DEF Hedge
<1>3. ASSUME NEW p \in Pieces, NEW b \in Blocks(p), Forget(p, b) PROVE MgrSound' /\ StepKept
  BY <1>0, <1>3, RequestKeeps DEF Forget
<1>4. ASSUME NEW p \in Pieces, NEW b \in Blocks(p), NEW tag \in {"good", "bad"},
             NEW w \in WriteResults, NEW a \in BOOLEAN, Receive(p, b, tag, w, a)
      PROVE  MgrSound' /\ StepKept
  BY <1>0, <1>4, GotBlockKeeps DEF Receive, Fed
<1>5. ASSUME NEW p \in Pieces, NEW tag \in {"good", "bad"},
             NEW w \in WriteResults, NEW a \in BOOLEAN, WebPiece(p, tag, w, a)
      PROVE  MgrSound' /\ StepKept
  BY <1>0, <1>5, WebPieceKeeps DEF WebPiece, Fed
<1>6. CASE WorkerDone
  BY <1>0, <1>6, WorkerKeeps
<1>7. ASSUME NEW w \in Writes(pm.hashed), DrainResults(w) PROVE MgrSound' /\ StepKept
  <2>1. \A n \in 1 .. pm.hashed : w[n] \in WriteResults
    BY DEF Writes
  <2>2. MgrInv(Drain(pm, w), None) /\ Fed(pm, Drain(pm, w), "torn")
    BY <1>0, <2>1, DrainKeeps
  <2> QED
    BY <1>0, <1>7, <2>2 DEF DrainResults, Fed
<1>8. ASSUME NEW w \in Writes(Len(pm.queue)), FlushResults(w) PROVE MgrSound' /\ StepKept
  <2>1. \A n \in 1 .. Len(pm.queue) : w[n] \in WriteResults
    BY DEF Writes
  <2>2. MgrInv(HashFlush(pm, w), None) /\ Fed(pm, HashFlush(pm, w), "torn")
    BY <1>0, <2>1, FlushKeeps
  <2> QED
    BY <1>0, <1>8, <2>2 DEF FlushResults, Fed
<1>9. ASSUME NEW w \in Writes(Len(pm.queue)), NEW r \in BOOLEAN, FinalAll(w, r)
      PROVE  MgrSound' /\ StepKept
  <2>1. \A n \in 1 .. Len(pm.queue) : w[n] \in WriteResults
    BY DEF Writes
  <2> QED
    BY <1>0, <1>9, <2>1, VerifyAllKeeps DEF FinalAll
<1>10. ASSUME NEW p \in Pieces, NEW r \in BOOLEAN, ScanPiece(p, r) PROVE MgrSound' /\ StepKept
  BY <1>0, <1>10, CheckKeeps DEF ScanPiece
<1>11. ASSUME NEW p \in Pieces, NEW r \in BOOLEAN, FinalPiece(p, r) PROVE MgrSound' /\ StepKept
  BY <1>0, <1>11, VerifyKeeps DEF FinalPiece
<1>12. ASSUME NEW p \in Pieces, Corrupt(p) PROVE MgrSound' /\ StepKept
  BY <1>0, <1>12, CorruptKeeps DEF MgrSound, StepKept
<1>13. CASE UNCHANGED pm
  BY <1>13 DEF MgrSound, StepKept
<1> QED
  BY <1>1, <1>2, <1>3, <1>4, <1>5, <1>6, <1>7, <1>8, <1>9, <1>10, <1>11, <1>12, <1>13, Zenon
     DEF Next

\* Between two calls, types, slots, queue, counters and cursor fit together.
THEOREM AlwaysSound == Spec => []MgrSound
<1>1. MgrSound /\ [Next]_pm => MgrSound'
  BY NextSound
<1> QED
  BY InitSound, <1>1, PTL DEF Spec

\* The type invariant.
THEOREM TypeCorrect == Spec => []TypeOK
<1>1. MgrSound => TypeOK
  <2> SUFFICES ASSUME MgrSound PROVE TypeOK
    OBVIOUS
  <2>1. pm \in MgrRec /\ QueueOK(pm) /\ \A p \in Pieces : SlotType(pm, p)
    BY DEF MgrSound, MgrInv, SlotOK
  <2>2. pm.state \in [Pieces -> {"EMPTY", "PENDING", "HASHING", "DONE"}]
    BY <2>1 DEF MgrRec, States
  <2>3. pm.order_cursor \in 0 .. OrderCount
    BY <2>1 DEF MgrRec
  <2>4. Len(pm.queue) <= QMax /\ pm.hashed \in 0 .. Len(pm.queue)
    BY <2>1 DEF MgrRec, QueueOK
  <2> QED
    BY <2>1, <2>2, <2>3, <2>4 DEF TypeOK, SlotType, BufOf
<1> QED
  BY AlwaysSound, <1>1, PTL

\* No stale byte of a reused buffer is ever handed to the hash.
THEOREM StaleBytesNeverHashed == Spec => []NoStaleByte
<1>1. MgrSound => NoStaleByte
  BY DEF MgrSound, MgrInv, QueueOK, JobOK, NoStaleByte
<1> QED
  BY AlwaysSound, <1>1, PTL

\* An unfinished piece always has a block to ask for or a verdict under way.
THEOREM PiecesNeverStuck == Spec => []NeverStuck
<1>1. MgrSound => NeverStuck
  <2> SUFFICES ASSUME MgrSound, NEW p \in Pieces
               PROVE  CASE pm.state[p] = "DONE"    -> TRUE
                        [] pm.state[p] = "HASHING" -> HasJob(pm, p)
                        [] pm.state[p] = "EMPTY"   -> pm.blocks[p] = {}
                        [] pm.state[p] = "PENDING" -> pm.blocks[p] # Blocks(p)
    BY DEF NeverStuck, HasJob
  <2>1. SlotOK(pm, p, None) /\ pm.state[p] \in States /\ p # None
    <3>1. p # None
      BY DEF Pieces, None
    <3> QED
      BY <3>1 DEF MgrSound, MgrInv, MgrRec
  <2> QED
    BY <2>1 DEF SlotOK, States
<1> QED
  BY AlwaysSound, <1>1, PTL

\* The counters and bitfields describe the set of DONE pieces.
THEOREM CountersAgree == Spec => []Accounting
<1>1. MgrSound => Accounting
  <2>1. Done = DoneOf(pm)
    BY DEF Done, DoneOf
  <2> QED
    BY <2>1 DEF MgrSound, MgrInv, CountOK, Accounting
<1> QED
  BY AlwaysSound, <1>1, PTL

\* A piece of a disk file only becomes DONE when its bytes are on the storage.
THEOREM DoneWasWritten == Spec => DoneOnlyIfStored
<1> DEFINE Stored == \A p \in Pieces :
                       Readable(p) /\ pm.state[p] # "DONE" /\ pm'.state[p] = "DONE"
                         => pm'.disk[p] = "good"
<1>1. MgrSound /\ [Next]_pm => [Stored]_pm
  <2>1. StepKept => Stored
    BY DEF StepKept, Kept
  <2> QED
    BY <2>1, NextSound
<1> QED
  BY AlwaysSound, <1>1, PTL DEF Spec, DoneOnlyIfStored

\* The order lists no piece of the torrent twice.
OrderOnce == \A n, k \in Positions :
               OrderPieceAt(n) \in Pieces /\ OrderPieceAt(n) = OrderPieceAt(k) => n = k

LEMMA FrontierOf ==
  ASSUME NEW m, MgrInv(m, None), OrderOnce
  PROVE  \A n \in Positions : Unfinished(m, n) => m.order_cursor <= n
<1> SUFFICES ASSUME NEW n \in Positions, Unfinished(m, n) PROVE m.order_cursor <= n
  OBVIOUS
<1>1. OrderPieceAt(n) \in Pieces /\ m.state[OrderPieceAt(n)] # "DONE"
  BY DEF Unfinished
<1>2. /\ OrderPos(OrderPieceAt(n)) # None /\ OrderPos(OrderPieceAt(n)) \in Positions
      /\ OrderPieceAt(OrderPos(OrderPieceAt(n))) = OrderPieceAt(n)
  BY <1>1, OrderPosForm
<1>3. OrderPos(OrderPieceAt(n)) = n
  BY <1>1, <1>2 DEF OrderOnce
<1> QED
  BY <1>1, <1>2, <1>3 DEF MgrInv, AheadOK

\* When the order lists no piece twice, the cursor is a frontier: nothing
\* unfinished is behind it.
THEOREM CursorIsFrontier == OrderOnce => (Spec => []FrontierSound)
<1> SUFFICES ASSUME OrderOnce PROVE Spec => []FrontierSound
  OBVIOUS
<1>1. MgrSound => FrontierSound
  <2> SUFFICES ASSUME MgrSound, NEW n \in Positions, n < pm.order_cursor, Unfinished(pm, n)
               PROVE  FALSE
    BY DEF FrontierSound
  <2>1. pm.order_cursor <= n /\ pm.order_cursor \in 0 .. OrderCount /\ n \in Nat
    BY FrontierOf, PositionsNat DEF MgrSound, MgrInv, MgrRec
  <2> QED
    BY <2>1, PositionsNat
<1> QED
  BY AlwaysSound, <1>1, PTL
----------------------------------------------------------------------------
(* The one-pass scan of piece_mgr_pick against the policy.  S is a set of   *)
(* positions; the scan keeps the piece at the first one it has passed.      *)

FirstIn(S, n, i) ==
  \/ i = None /\ \A k \in S : n <= k
  \/ i # None /\ \E k \in S : k < n /\ i = OrderPieceAt(k) /\ \A j \in S : k <= j

LEMMA FirstSkip ==
  ASSUME NEW S \in SUBSET Nat, NEW n \in Nat, n \notin S, NEW i, FirstIn(S, n, i)
  PROVE  FirstIn(S, n + 1, i)
<1>1. CASE i = None /\ \A k \in S : n <= k
  <2>1. ASSUME NEW k \in S PROVE n + 1 <= k
    BY <1>1
  <2> QED
    BY <1>1, <2>1 DEF FirstIn
<1>2. CASE i # None /\ \E k \in S : k < n /\ i = OrderPieceAt(k) /\ \A j \in S : k <= j
  <2>1. PICK k \in S : k < n /\ i = OrderPieceAt(k) /\ \A j \in S : k <= j
    BY <1>2
  <2>2. k < n + 1
    BY <2>1
  <2> QED
    BY <1>2, <2>1, <2>2 DEF FirstIn
<1> QED
  BY <1>1, <1>2 DEF FirstIn

LEMMA FirstTake ==
  ASSUME NEW S \in SUBSET Nat, NEW n \in S, OrderPieceAt(n) # None, NEW i, FirstIn(S, n, i)
  PROVE  FirstIn(S, n + 1, IF i = None THEN OrderPieceAt(n) ELSE i)
<1>1. CASE i = None /\ \A k \in S : n <= k
  <2>1. n < n + 1
    OBVIOUS
  <2>2. FirstIn(S, n + 1, OrderPieceAt(n))
    BY <1>1, <2>1 DEF FirstIn
  <2> QED
    BY <1>1, <2>2
<1>2. CASE i # None /\ \E k \in S : k < n /\ i = OrderPieceAt(k) /\ \A j \in S : k <= j
  <2>1. PICK k \in S : k < n /\ i = OrderPieceAt(k) /\ \A j \in S : k <= j
    BY <1>2
  <2>2. k < n + 1
    BY <2>1
  <2>3. FirstIn(S, n + 1, i)
    BY <1>2, <2>1, <2>2 DEF FirstIn
  <2> QED
    BY <1>2, <2>3
<1> QED
  BY <1>1, <1>2 DEF FirstIn

LEMMA LeastIsMin ==
  ASSUME NEW S \in SUBSET Nat, NEW k \in S, \A j \in S : k <= j
  PROVE  Min(S) = k
<1>1. Min(S) \in S /\ \A j \in S : Min(S) <= j
  BY MinIsLeast
<1>2. Min(S) <= k /\ k <= Min(S) /\ k \in Nat /\ Min(S) \in Nat
  BY <1>1
<1> QED
  BY <1>2

\* At the end of the scan.
LEMMA FirstEnd ==
  ASSUME NEW S \in SUBSET Nat, NEW n \in Nat, \A k \in S : k < n, NEW i, FirstIn(S, n, i)
  PROVE  /\ S = {} => i = None
         /\ S # {} => i # None /\ i = OrderPieceAt(Min(S))
<1>1. CASE i = None /\ \A k \in S : n <= k
  <2>1. S = {}
    BY <1>1
  <2> QED
    BY <1>1, <2>1
<1>2. CASE i # None /\ \E k \in S : k < n /\ i = OrderPieceAt(k) /\ \A j \in S : k <= j
  <2>1. PICK k \in S : k < n /\ i = OrderPieceAt(k) /\ \A j \in S : k <= j
    BY <1>2
  <2> QED
    BY <1>2, <2>1, LeastIsMin
<1> QED
  BY <1>1, <1>2 DEF FirstIn

OpenAt(m) == {n \in Positions : Unfinished(m, n)}
Before(m, n) == {k \in OpenAt(m) : k < n}
ResumeAt(m, have, gate, la) ==
  {n \in Window(m, gate, la) : CanResume(m, have, OrderPieceAt(n))}
StartAt(m, have, gate, la) ==
  {n \in Window(m, gate, la) : CanStart(m, have, OrderPieceAt(n))}

\* The window is open before position n with this many pieces left, or closed.
WindowOK(m, gate, la, n, left) ==
  /\ left > 0 => /\ left = la - Cardinality(Before(m, n))
                 /\ \A k \in Before(m, n) : OrderPieceAt(k) \in gate
  /\ left = 0 => \A k \in Window(m, gate, la) : k < n

Least(S, i) == i # None /\ \E k \in S : i = OrderPieceAt(k) /\ \A j \in S : k <= j

\* The invariant of the scan before position n; R and T are the positions it may
\* resume or start.
ScanOK(m, gate, la, R, T, ff, n, acc) ==
  IF acc.ret = None
  THEN /\ WindowOK(m, gate, la, n, acc.left)
       /\ FirstIn(R, n, acc.pending) /\ FirstIn(T, n, acc.empty)
       /\ ff => acc.pending = None
       /\ ~ff => acc.empty = None
  ELSE (ff => Least(R, acc.ret)) /\ (~ff => Least(T, acc.ret))

LEMMA OpenFacts ==
  ASSUME NEW m, NEW gate, NEW la, NEW have
  PROVE  /\ OpenAt(m) \in SUBSET Nat /\ IsFiniteSet(OpenAt(m))
         /\ Window(m, gate, la) \in SUBSET OpenAt(m)
         /\ \A n \in OpenAt(m) : OrderPieceAt(n) \in Pieces /\ OrderPieceAt(n) # None
         /\ \A n : IsFiniteSet(Before(m, n)) /\ Cardinality(Before(m, n)) \in Nat
         /\ ResumeAt(m, have, gate, la) \in SUBSET Window(m, gate, la)
         /\ StartAt(m, have, gate, la) \in SUBSET Window(m, gate, la)
<1>1. OpenAt(m) \in SUBSET Positions /\ Positions \in SUBSET Nat
  BY PositionsNat DEF OpenAt
<1>2. IsFiniteSet(Positions)
  BY PositionsNat, FS_Interval DEF Positions
<1>3. IsFiniteSet(OpenAt(m))
  BY <1>1, <1>2, FS_Subset
<1>4. ASSUME NEW n PROVE IsFiniteSet(Before(m, n)) /\ Cardinality(Before(m, n)) \in Nat
  <2>1. Before(m, n) \in SUBSET OpenAt(m)
    BY DEF Before
  <2> QED
    BY <1>3, <2>1, FS_Subset, FS_CardinalityType
<1>5. \A n \in OpenAt(m) : OrderPieceAt(n) \in Pieces
  BY DEF OpenAt, Unfinished
<1>6. \A p \in Pieces : p # None
  BY DEF Pieces, None
<1>7. Window(m, gate, la) \in SUBSET OpenAt(m)
  BY DEF Window, OpenAt
<1>8. /\ ResumeAt(m, have, gate, la) \in SUBSET Window(m, gate, la)
      /\ StartAt(m, have, gate, la) \in SUBSET Window(m, gate, la)
  BY DEF ResumeAt, StartAt
<1> QED
  BY <1>1, <1>3, <1>4, <1>5, <1>6, <1>7, <1>8

LEMMA InWindow ==
  ASSUME NEW m, NEW gate, NEW la, NEW n
  PROVE  n \in Window(m, gate, la) <=>
           /\ n \in OpenAt(m) /\ Cardinality(Before(m, n)) < la
           /\ \A k \in OpenAt(m) : k <= n => OrderPieceAt(k) \in gate
BY DEF Window, OpenAt, Before

\* One turn keeps the window.
LEMMA WindowStep ==
  ASSUME NEW m, NEW gate, NEW la \in Nat, NEW n \in Positions, NEW left \in Nat,
         WindowOK(m, gate, la, n, left)
  PROVE  /\ left = 0 => WindowOK(m, gate, la, n + 1, left) /\ n \notin Window(m, gate, la)
         /\ ~Unfinished(m, n) => WindowOK(m, gate, la, n + 1, left) /\ n \notin Window(m, gate, la)
         /\ left # 0 /\ Unfinished(m, n) /\ OrderPieceAt(n) \notin gate
              => WindowOK(m, gate, la, n + 1, 0) /\ n \notin Window(m, gate, la)
         /\ left # 0 /\ Unfinished(m, n) /\ OrderPieceAt(n) \in gate
              => WindowOK(m, gate, la, n + 1, left - 1) /\ n \in Window(m, gate, la)
<1> DEFINE W == Window(m, gate, la)
           c(k) == Cardinality(Before(m, k))
<1>0. /\ n \in Nat /\ OpenAt(m) \in SUBSET Nat /\ W \in SUBSET OpenAt(m)
      /\ \A k : IsFiniteSet(Before(m, k)) /\ c(k) \in Nat
      /\ n \in OpenAt(m) <=> Unfinished(m, n)
  BY PositionsNat, OpenFacts DEF OpenAt
<1>1. CASE left = 0
  <2>1. \A k \in W : k < n
    BY <1>1 DEF WindowOK
  <2>2. n \notin W /\ \A k \in W : k < n + 1
    BY <1>0, <2>1
  <2>3. WindowOK(m, gate, la, n + 1, left)
    BY <1>1, <2>2 DEF WindowOK
  <2> QED
    BY <1>1, <2>2, <2>3
<1>2. CASE ~Unfinished(m, n)
  <2>1. n \notin W /\ n \notin OpenAt(m)
    BY <1>0, <1>2
  <2>2. Before(m, n + 1) = Before(m, n)
    BY <1>0, <2>1 DEF Before
  <2>3. (\A k \in W : k < n) => \A k \in W : k < n + 1
    BY <1>0
  <2>4. WindowOK(m, gate, la, n + 1, left)
    BY <2>2, <2>3 DEF WindowOK
  <2> QED
    BY <1>2, <2>1, <2>4
<1>3. CASE left # 0 /\ Unfinished(m, n) /\ OrderPieceAt(n) \notin gate
  <2>1. n \in OpenAt(m)
    BY <1>0, <1>3
  <2>2. n \notin W
    BY <1>0, <1>3, <2>1, InWindow
  <2>3. ASSUME NEW k \in W PROVE k < n + 1
    <3>1. k \in Nat /\ ~(n <= k)
      BY <1>0, <1>3, <2>1, <2>3, InWindow
    <3> QED
      BY <1>0, <3>1
  <2>4. WindowOK(m, gate, la, n + 1, 0)
    BY <2>3 DEF WindowOK
  <2> QED
    BY <1>3, <2>2, <2>4
<1>4. CASE left # 0 /\ Unfinished(m, n) /\ OrderPieceAt(n) \in gate
  <2>1. n \in OpenAt(m) /\ left > 0
    BY <1>0, <1>4
  <2>2. left = la - c(n) /\ \A k \in Before(m, n) : OrderPieceAt(k) \in gate
    BY <2>1 DEF WindowOK
  <2>3. Before(m, n + 1) = Before(m, n) \cup {n} /\ n \notin Before(m, n)
    BY <1>0, <2>1 DEF Before
  <2>4. c(n + 1) = c(n) + 1
    BY <1>0, <2>3, FS_AddElement
  <2>5. n \in W
    <3>1. c(n) < la
      BY <1>0, <2>1, <2>2
    <3>2. \A k \in OpenAt(m) : k <= n => OrderPieceAt(k) \in gate
      BY <1>0, <1>4, <2>2 DEF Before
    <3> QED
      BY <2>1, <3>1, <3>2, InWindow
  <2>6. \A k \in Before(m, n + 1) : OrderPieceAt(k) \in gate
    BY <1>4, <2>2, <2>3
  <2>7. left - 1 = la - c(n + 1)
    BY <1>0, <2>2, <2>4
  <2>8. ASSUME left - 1 = 0, NEW k \in W PROVE k < n + 1
    <3> SUFFICES ASSUME n + 1 <= k PROVE FALSE
      BY <1>0, <2>8
    <3>1. k \in Nat /\ c(k) < la
      BY <1>0, <2>8, InWindow
    <3>2. Before(m, n + 1) \in SUBSET Before(m, k)
      BY <1>0, <3>1 DEF Before
    <3>3. c(n + 1) <= c(k)
      BY <1>0, <3>2, FS_Subset
    <3> HIDE DEF c
    <3>4. la = c(n + 1) /\ c(n + 1) \in Nat /\ c(k) \in Nat
      BY <1>0, <2>7, <2>8
    <3> QED
      BY <3>1, <3>3, <3>4
  <2>9. WindowOK(m, gate, la, n + 1, left - 1)
    BY <2>6, <2>7, <2>8 DEF WindowOK
  <2> QED
    BY <1>4, <2>5, <2>9
<1> QED
  BY <1>1, <1>2, <1>3, <1>4

\* One turn of the scan keeps its invariant.
LEMMA ScanStep ==
  ASSUME NEW m, NEW have, NEW gate, NEW la \in Nat, NEW ff \in BOOLEAN, NEW n \in Positions,
         NEW R, R = ResumeAt(m, have, gate, la), NEW T, T = StartAt(m, have, gate, la),
         NEW acc \in Scans, ScanOK(m, gate, la, R, T, ff, n, acc)
  PROVE  ScanOK(m, gate, la, R, T, ff, n + 1, PickTurn(m, have, gate, ff, acc, n))
<1> DEFINE r == PickTurn(m, have, gate, ff, acc, n)
           i == OrderPieceAt(n)
           W == Window(m, gate, la)
<1>0. /\ n \in Nat /\ acc.left \in Nat /\ R \in SUBSET W /\ T \in SUBSET W /\ W \in SUBSET Nat
      /\ R \in SUBSET Nat /\ T \in SUBSET Nat
  BY PositionsNat, OpenFacts DEF Scans
<1>1. /\ Passes(m, acc, n) => r = acc
      /\ ~Passes(m, acc, n) /\ i \notin gate => Closed(acc, r)
      /\ ~Passes(m, acc, n) /\ i \in gate => Admitted(m, have, ff, acc, i, r)
  BY TurnForm
<1> HIDE DEF r
<1>2. CASE acc.ret # None
  <2>1. r = acc
    BY <1>1, <1>2 DEF Passes
  <2> QED
    BY <1>2, <2>1 DEF ScanOK, r
<1>3. CASE acc.ret = None
  <2>0. /\ WindowOK(m, gate, la, n, acc.left)
        /\ FirstIn(R, n, acc.pending) /\ FirstIn(T, n, acc.empty)
        /\ ff => acc.pending = None
        /\ ~ff => acc.empty = None
    BY <1>3 DEF ScanOK
  <2>1. n \notin W => FirstIn(R, n + 1, acc.pending) /\ FirstIn(T, n + 1, acc.empty)
    BY <1>0, <2>0, FirstSkip
  <2>2. CASE Passes(m, acc, n)
    <3>1. acc.left = 0 \/ ~Unfinished(m, n)
      BY <1>3, <2>2 DEF Passes
    <3>2. WindowOK(m, gate, la, n + 1, acc.left) /\ n \notin W
      BY <1>0, <2>0, <3>1, WindowStep
    <3>3. r = acc
      BY <1>1, <2>2
    <3> QED
      BY <1>3, <2>0, <2>1, <3>2, <3>3 DEF ScanOK, r
  <2>3. CASE ~Passes(m, acc, n) /\ i \notin gate
    <3>1. acc.left # 0 /\ Unfinished(m, n)
      BY <2>3 DEF Passes
    <3>2. WindowOK(m, gate, la, n + 1, 0) /\ n \notin W
      BY <1>0, <2>0, <2>3, <3>1, WindowStep
    <3>3. Closed(acc, r)
      BY <1>1, <2>3
    <3>4. ScanOK(m, gate, la, R, T, ff, n + 1, r)
      BY <1>3, <2>0, <2>1, <3>2, <3>3 DEF ScanOK, Closed
    <3> QED
      BY <3>4 DEF r
  <2>4. CASE ~Passes(m, acc, n) /\ i \in gate
    <3>1. acc.left # 0 /\ Unfinished(m, n)
      BY <2>4 DEF Passes
    <3>2. WindowOK(m, gate, la, n + 1, acc.left - 1) /\ n \in W
      BY <1>0, <2>0, <2>4, <3>1, WindowStep
    <3>3. Admitted(m, have, ff, acc, i, r)
      BY <1>1, <2>4
    <3>4. /\ n \in R <=> CanResume(m, have, i)
          /\ n \in T <=> CanStart(m, have, i)
      BY <3>2 DEF ResumeAt, StartAt
    <3>5. i # None
      <4>1. n \in OpenAt(m)
        BY <3>1 DEF OpenAt
      <4> QED
        BY <4>1, OpenFacts
    <3>6. FirstIn(R, n + 1, r.pending)
      <4>1. CASE n \in R
        <5>1. r.pending = IF acc.pending = None THEN i ELSE acc.pending
          BY <3>3, <3>4, <4>1 DEF Admitted
        <5> QED
          BY <1>0, <2>0, <3>5, <4>1, <5>1, FirstTake
      <4>2. CASE n \notin R
        <5>1. r.pending = acc.pending
          BY <3>3, <3>4, <4>2 DEF Admitted
        <5> QED
          BY <1>0, <2>0, <4>2, <5>1, FirstSkip
      <4> QED
        BY <4>1, <4>2
    <3>7. FirstIn(T, n + 1, r.empty)
      <4>1. CASE n \in T
        <5>1. r.empty = IF acc.empty = None THEN i ELSE acc.empty
          BY <3>3, <3>4, <4>1 DEF Admitted
        <5> QED
          BY <1>0, <2>0, <3>5, <4>1, <5>1, FirstTake
      <4>2. CASE n \notin T
        <5>1. r.empty = acc.empty
          BY <3>3, <3>4, <4>2 DEF Admitted
        <5> QED
          BY <1>0, <2>0, <4>2, <5>1, FirstSkip
      <4> QED
        BY <4>1, <4>2
    <3>8. /\ acc.pending = None /\ n \in R => Least(R, i)
          /\ acc.empty = None /\ n \in T => Least(T, i)
      <4>1. /\ acc.pending = None => \A k \in R : n <= k
            /\ acc.empty = None => \A k \in T : n <= k
        BY <2>0 DEF FirstIn
      <4> QED
        BY <3>5, <4>1 DEF Least
    <3>9. CASE ff
      <4>1. r.ret = IF n \in R THEN i ELSE None
        BY <2>0, <3>3, <3>4, <3>9 DEF Admitted
      <4>2. CASE n \in R
        <5>1. r.ret # None /\ Least(R, r.ret)
          BY <2>0, <3>5, <3>8, <3>9, <4>1, <4>2
        <5> QED
          BY <3>9, <5>1 DEF ScanOK, r
      <4>3. CASE n \notin R
        <5>1. r.ret = None /\ r.pending = None /\ r.left = acc.left - 1
          BY <2>0, <3>3, <3>4, <3>9, <4>1, <4>3 DEF Admitted
        <5> QED
          BY <3>2, <3>6, <3>7, <3>9, <5>1 DEF ScanOK, r
      <4> QED
        BY <4>2, <4>3
    <3>10. CASE ~ff
      <4>1. r.ret = IF n \in T THEN i ELSE None
        BY <2>0, <3>3, <3>4, <3>10 DEF Admitted
      <4>2. CASE n \in T
        <5>1. r.ret # None /\ Least(T, r.ret)
          BY <2>0, <3>5, <3>8, <3>10, <4>1, <4>2
        <5> QED
          BY <3>10, <5>1 DEF ScanOK, r
      <4>3. CASE n \notin T
        <5>1. r.ret = None /\ r.empty = None /\ r.left = acc.left - 1
          BY <2>0, <3>3, <3>4, <3>10, <4>1, <4>3 DEF Admitted
        <5> QED
          BY <3>2, <3>6, <3>7, <3>10, <5>1 DEF ScanOK, r
      <4> QED
        BY <4>2, <4>3
    <3> QED
      BY <3>9, <3>10
  <2> QED
    BY <2>2, <2>3, <2>4
<1> QED
  BY <1>2, <1>3

\* piece_mgr_pick returns what the policy says.
LEMMA ScanIsPolicy ==
  ASSUME NEW m, MgrInv(m, None), OrderOnce, NEW have, NEW gate, NEW la \in Nat \ {0},
         NEW ff \in BOOLEAN
  PROVE  PickStrict(m, have, gate, la, ff) = StrictPick(m, have, gate, la, ff)
<1> DEFINE L == m.order_cursor
           N == OrderCount
           R == ResumeAt(m, have, gate, la)
           T == StartAt(m, have, gate, la)
           X == [n \in L .. N |-> {acc \in Scans : ScanOK(m, gate, la, R, T, ff, n, acc)}]
<1>0. L \in Nat /\ N \in Nat /\ L <= N /\ L \in 0 .. N /\ la \in Nat /\ la > 0
  BY PositionsNat DEF MgrInv, MgrRec
<1>1. PICK f : /\ ScanOf(m, have, gate, la, ff, f)
               /\ PickStrict(m, have, gate, la, ff) = Chosen(f[N])
  BY <1>0, ScanForm
<1>2. \A n \in OpenAt(m) : L <= n
  BY FrontierOf DEF OpenAt
<1>3. /\ R \in SUBSET OpenAt(m) /\ T \in SUBSET OpenAt(m) /\ OpenAt(m) \in SUBSET Nat
      /\ \A n \in OpenAt(m) : n < N
  BY OpenFacts, PositionsNat DEF OpenAt
<1> HIDE DEF R, T, L, N
<1>4. f[L] \in X[L]
  <2>1. f[L] = Start(la) /\ Start(la) \in Scans
    BY <1>0, <1>1 DEF ScanOf, Start, Scans, Choice, L
  <2>2. Before(m, L) = {}
    BY <1>0, <1>2, <1>3 DEF Before
  <2>3. Cardinality(Before(m, L)) = 0
    BY <2>2, FS_EmptySet
  <2>4. WindowOK(m, gate, la, L, la)
    BY <1>0, <2>2, <2>3 DEF WindowOK
  <2>5. FirstIn(R, L, None) /\ FirstIn(T, L, None)
    BY <1>2, <1>3 DEF FirstIn
  <2>6. ScanOK(m, gate, la, R, T, ff, L, Start(la))
    BY <2>4, <2>5 DEF ScanOK, Start
  <2> QED
    BY <1>0, <2>1, <2>6
<1>5. ASSUME NEW n \in L + 1 .. N, f[n - 1] \in X[n - 1] PROVE f[n] \in X[n]
  <2> DEFINE k == n - 1
  <2>1. /\ k \in Positions /\ k \in L .. N - 1 /\ k \in L .. N /\ n \in L .. N /\ k + 1 = n
    BY <1>0 DEF Positions, N
  <2> HIDE DEF k
  <2>2. f[k] \in Scans /\ ScanOK(m, gate, la, R, T, ff, k, f[k])
    BY <1>5, <2>1 DEF k
  <2>3. f[n] = PickTurn(m, have, gate, ff, f[k], k) /\ f[n] \in Scans
    BY <1>1, <2>1 DEF ScanOf, L, N
  <2>4. ScanOK(m, gate, la, R, T, ff, n, f[n])
    BY <1>0, <2>1, <2>2, <2>3, ScanStep DEF R, T
  <2> QED
    BY <2>1, <2>3, <2>4
<1>6. f[N] \in Scans /\ ScanOK(m, gate, la, R, T, ff, N, f[N])
  <2>1. \A n \in L .. N : f[n] \in X[n]
    <3> HIDE DEF X
    <3> QED
      BY <1>0, <1>4, <1>5, LoopAdmits
  <2> QED
    BY <1>0, <2>1
<1> DEFINE acc == f[N]
           one(S) == OrderPieceAt(Min(S))
<1>7. StrictPick(m, have, gate, la, ff) =
        IF R \cup T = {} THEN None
        ELSE IF ff THEN IF R # {} THEN one(R) ELSE one(T)
        ELSE IF T # {} THEN one(T) ELSE one(R)
  <2> DEFINE offered == {n \in Window(m, gate, la) : OrderPieceAt(n) \in have}
  <2>1. /\ R = {n \in offered : /\ m.state[OrderPieceAt(n)] = "PENDING"
                                /\ Requestable(m, OrderPieceAt(n))}
        /\ T = {n \in offered : m.state[OrderPieceAt(n)] = "EMPTY"}
    BY DEF R, T, ResumeAt, StartAt, CanResume, CanStart
  <2> QED
    BY <2>1 DEF StrictPick
<1>8. /\ \A i : Least(R, i) => R # {} /\ i # None /\ i = one(R)
      /\ \A i : Least(T, i) => T # {} /\ i # None /\ i = one(T)
  BY <1>3, LeastIsMin DEF Least
<1>9. CASE acc.ret # None
  <2>1. (ff => Least(R, acc.ret)) /\ (~ff => Least(T, acc.ret))
    BY <1>6, <1>9 DEF ScanOK
  <2>2. Chosen(acc) = acc.ret
    BY <1>9 DEF Chosen
  <2> HIDE DEF acc, one
  <2>3. CASE ff
    <3>1. R # {} /\ acc.ret = one(R)
      BY <1>8, <2>1, <2>3
    <3> QED
      BY <1>1, <1>7, <2>2, <2>3, <3>1 DEF acc
  <2>4. CASE ~ff
    <3>1. T # {} /\ acc.ret = one(T)
      BY <1>8, <2>1, <2>4
    <3> QED
      BY <1>1, <1>7, <2>2, <2>4, <3>1 DEF acc
  <2> QED
    BY <2>3, <2>4
<1>10. CASE acc.ret = None
  <2>1. /\ FirstIn(R, N, acc.pending) /\ FirstIn(T, N, acc.empty)
        /\ ff => acc.pending = None
        /\ ~ff => acc.empty = None
    BY <1>6, <1>10 DEF ScanOK
  <2>2. /\ R = {} => acc.pending = None
        /\ R # {} => acc.pending # None /\ acc.pending = one(R)
        /\ T = {} => acc.empty = None
        /\ T # {} => acc.empty # None /\ acc.empty = one(T)
    <3>1. /\ R \in SUBSET Nat /\ T \in SUBSET Nat
          /\ (\A k \in R : k < N) /\ (\A k \in T : k < N)
      BY <1>3
    <3> HIDE DEF acc
    <3>2. /\ R = {} => acc.pending = None
          /\ R # {} => acc.pending # None /\ acc.pending = one(R)
      BY <1>0, <2>1, <3>1, FirstEnd
    <3>3. /\ T = {} => acc.empty = None
          /\ T # {} => acc.empty # None /\ acc.empty = one(T)
      BY <1>0, <2>1, <3>1, FirstEnd
    <3> QED
      BY <3>2, <3>3
  <2>3. Chosen(acc) = IF acc.pending # None THEN acc.pending ELSE acc.empty
    BY <1>10 DEF Chosen
  <2> HIDE DEF acc, one
  <2>4. CASE ff
    <3>1. R = {} /\ Chosen(acc) = acc.empty
      BY <2>1, <2>2, <2>3, <2>4
    <3> QED
      BY <1>1, <1>7, <2>2, <2>4, <3>1 DEF acc
  <2>5. CASE ~ff
    <3>1. T = {}
      BY <2>1, <2>2, <2>5
    <3> QED
      BY <1>1, <1>7, <2>2, <2>3, <2>5, <3>1 DEF acc
  <2> QED
    BY <2>4, <2>5
<1> QED
  BY <1>9, <1>10

\* When the order lists no piece twice, the cached frontier and the one-pass
\* scan of piece_mgr_pick find what the policy defines over the whole order,
\* for every peer, gate, lookahead and fill setting.
THEOREM PickIsThePolicy == OrderOnce => (Spec => []PickMatchesPolicy)
<1> SUFFICES ASSUME OrderOnce PROVE Spec => []PickMatchesPolicy
  OBVIOUS
<1>1. MgrSound => PickMatchesPolicy
  <2> SUFFICES ASSUME MgrSound, NEW have \in SUBSET Pieces, NEW gate \in SUBSET Pieces,
                      NEW la \in 1 .. Lookahead, NEW f \in BOOLEAN
               PROVE  PickStrict(pm, have, gate, la, f) = StrictPick(pm, have, gate, la, f)
    BY DEF PickMatchesPolicy
  <2>1. la \in Nat \ {0}
    BY MgrAssumption
  <2> QED
    BY <2>1, ScanIsPolicy DEF MgrSound
<1> QED
  BY AlwaysSound, <1>1, PTL
=============================================================================
