--------------------------- MODULE RequestsProofs ---------------------------
(***************************************************************************)
(* Proofs about block requests, for any torrent, any number of peers and   *)
(* any sizes of pipelines and rings.                                       *)
(*                                                                         *)
(* ReqInv is the invariant: the piece manager is sound, a block that       *)
(* counts as requested has not come (AskedAt of PieceMgrProofs: without it *)
(* the answer of a HASHING piece would leave its count behind), pipelines  *)
(* hold no request twice, and every count is backed by as many pipelines.  *)
(* For the strikes of honest remotes it keeps a book of the answers that   *)
(* may still come (Book): each is to a request in the pipeline, to one in  *)
(* the ring of dropped ones, or to one that left the ring or was released  *)
(* by a choke.  The last two and the strikes so far never outnumber the    *)
(* requests that left that way.                                            *)
(***************************************************************************)
EXTENDS Requests, PieceMgrProofs

PipeMax == Max({MaxPipe, Bootstrap})

\* The requests for blocks that exist.
Asks == {r \in Req : r[2] \in Blocks(r[1])}

PeerRec ==
  [active : BOOLEAN, choked : BOOLEAN, have : SUBSET Pieces, pipe : Seq(Asks),
   dropped : Seq(Asks), unsol : Nat, strikes : Nat, cool : BOOLEAN, proven : BOOLEAN,
   drops : Nat, forgot : Nat]
----------------------------------------------------------------------------
(* Requests and pipelines.                                                 *)

LEMMA Sizes ==
  /\ PipeMax \in Nat /\ MaxPipe <= PipeMax /\ Bootstrap <= PipeMax
  /\ MaxPipe \in Nat \ {0} /\ Bootstrap \in Nat \ {0} /\ MinPipe \in Nat \ {0}
  /\ RecentDropped \in Nat \ {0} /\ MaxUnsolicited \in Nat \ {0} /\ DropStrikes \in Nat \ {0}
  /\ MaxFaults \in Nat /\ IsFiniteSet(Conns)
<1>1. /\ MaxPipe \in Nat \ {0} /\ Bootstrap \in Nat \ {0} /\ MinPipe \in Nat \ {0}
      /\ RecentDropped \in Nat \ {0} /\ MaxUnsolicited \in Nat \ {0}
      /\ DropStrikes \in Nat \ {0} /\ MaxFaults \in Nat /\ IsFiniteSet(Conns)
  BY RequestsAssumption
<1> DEFINE T == {MaxPipe, Bootstrap}
<1>2. \A y \in T : y <= MaxPipe + Bootstrap
  BY <1>1
<1>3. T \in SUBSET Nat /\ T # {} /\ MaxPipe + Bootstrap \in Nat
  BY <1>1
<1>4. Max(T) \in T /\ \A y \in T : y <= Max(T)
  <2> HIDE DEF T
  <2> QED
    BY <1>2, <1>3, MaxIsGreatest
<1> QED
  BY <1>1, <1>4 DEF PipeMax

\* The blocks of a piece are within the largest number of blocks.
LEMMA MostBlocks ==
  ASSUME NEW p \in Pieces
  PROVE  /\ BlockCount[p] <= Max({BlockCount[q] : q \in Pieces})
         /\ Max({BlockCount[q] : q \in Pieces}) \in Nat
<1> DEFINE T == {BlockCount[q] : q \in Pieces}
           U == {n \in Nat : \E u \in Nat : \A q \in Pieces : q < n => BlockCount[q] <= u}
<1>1. 0 \in U
  <2>1. \A q \in Pieces : ~(q < 0)
    BY DEF Pieces
  <2> QED
    BY <2>1
<1>2. ASSUME NEW n \in U PROVE n + 1 \in U
  <2>1. PICK u \in Nat : \A q \in Pieces : q < n => BlockCount[q] <= u
    OBVIOUS
  <2>2. CASE n \in Pieces
    <3>1. BlockCount[n] \in Nat
      BY <2>2, MgrAssumption
    <3>2. u + BlockCount[n] \in Nat
      BY <3>1
    <3>3. ASSUME NEW q \in Pieces, q < n + 1 PROVE BlockCount[q] <= u + BlockCount[n]
      <4>1. BlockCount[q] \in Nat /\ q \in Nat
        BY MgrAssumption DEF Pieces
      <4>2. q < n \/ q = n
        BY <3>3, <4>1
      <4> QED
        BY <2>1, <3>1, <4>1, <4>2
    <3> QED
      BY <3>2, <3>3
  <2>3. CASE n \notin Pieces
    <3>1. \A q \in Pieces : q < n + 1 => q < n
      BY <2>3 DEF Pieces
    <3> QED
      BY <2>1, <3>1
  <2> QED
    BY <2>2, <2>3
<1>3. U = Nat
  <2> HIDE DEF U
  <2> QED
    BY <1>1, <1>2, InductionOnNat DEF U
<1>4. NumPieces \in U
  <2> HIDE DEF U
  <2> QED
    BY <1>3, MgrAssumption
<1>5. PICK u \in Nat : \A q \in Pieces : q < NumPieces => BlockCount[q] <= u
  BY <1>4
<1>6. \A y \in T : y <= u
  BY <1>5, MgrAssumption DEF Pieces
<1>7. T \in SUBSET Nat /\ BlockCount[p] \in T
  BY MgrAssumption
<1>8. Max(T) \in T /\ \A y \in T : y <= Max(T)
  <2> HIDE DEF T
  <2> QED
    BY <1>6, <1>7, MaxIsGreatest
<1> QED
  BY <1>7, <1>8

LEMMA AskForm ==
  /\ \A p \in Pieces : \A b \in Blocks(p) : <<p, b>> \in Asks
  /\ \A r \in Asks : /\ r \in Req /\ r = <<r[1], r[2]>>
                     /\ r[1] \in Pieces /\ r[2] \in Blocks(r[1])
<1>1. ASSUME NEW p \in Pieces, NEW b \in Blocks(p) PROVE <<p, b>> \in Asks
  <2> DEFINE top == Max({BlockCount[q] : q \in Pieces})
  <2>1. BlockCount[p] <= top /\ BlockCount[p] \in Nat /\ top \in Nat
    BY MostBlocks, MgrAssumption
  <2>2. Req = {<<q, d>> : q \in Pieces, d \in 0 .. top - 1}
    BY DEF Req
  <2> HIDE DEF top
  <2>3. b \in 0 .. top - 1
    BY <2>1 DEF Blocks
  <2>4. <<p, b>> \in Req
    BY <2>2, <2>3
  <2> QED
    BY <2>4 DEF Asks
<1>2. ASSUME NEW r \in Asks
      PROVE r \in Req /\ r = <<r[1], r[2]>> /\ r[1] \in Pieces /\ r[2] \in Blocks(r[1])
  <2>1. r \in Req /\ r[2] \in Blocks(r[1])
    BY DEF Asks
  <2> DEFINE top == Max({BlockCount[q] : q \in Pieces})
  <2>1a. Req = {<<p, b>> : p \in Pieces, b \in 0 .. top - 1}
    BY DEF Req
  <2> HIDE DEF top
  <2>2. PICK p \in Pieces, b \in 0 .. top - 1 : r = <<p, b>>
    BY <2>1, <2>1a
  <2> QED
    BY <2>1, <2>2
<1> QED
  BY <1>1, <1>2

\* A pipeline: no request twice, and within the limits.
PipeOK(q) == q \in Seq(Asks) /\ IsInjective(q) /\ Len(q) <= PipeMax

LEMMA HoldsForm == ASSUME NEW pr, NEW r PROVE Holds(pr, r) <=> r \in ToSet(pr.pipe)
BY DEF Holds, ToSet

LEMMA EmptyPipe == PipeOK(<<>>) /\ ToSet(<<>>) = {}
BY Sizes DEF PipeOK, IsInjective, ToSet

LEMMA RemoveForm ==
  ASSUME NEW q, NEW r, PipeOK(q)
  PROVE  PipeOK(RemoveFirst(q, r)) /\ ToSet(RemoveFirst(q, r)) = ToSet(q) \ {r}
<1>0. q \in Seq(Asks) /\ DOMAIN q = 1 .. Len(q) /\ Len(q) \in Nat /\ Len(q) <= PipeMax
  BY DEF PipeOK
<1>1. CASE r \in ToSet(q)
  <2>1. /\ RemoveFirst(q, r) \in Seq(Asks) /\ Len(RemoveFirst(q, r)) = Len(q) - 1
        /\ ToSet(RemoveFirst(q, r)) = ToSet(q) \ {r} /\ IsInjective(RemoveFirst(q, r))
    BY <1>1, RemoveFirstForm DEF PipeOK
  <2>2. Len(q) - 1 <= PipeMax
    BY <1>0, Sizes
  <2> QED
    BY <2>1, <2>2 DEF PipeOK
<1>2. CASE r \notin ToSet(q)
  <2>1. \A i \in 1 .. Len(q) : q[i] # r
    BY <1>0, <1>2 DEF ToSet
  <2>2. RemoveFirst(q, r) = q
    BY <2>1 DEF RemoveFirst
  <2> QED
    BY <1>2, <2>2
<1> QED
  BY <1>1, <1>2

LEMMA AppendPipe ==
  ASSUME NEW q, NEW r \in Asks, PipeOK(q), r \notin ToSet(q), Len(q) < PipeMax
  PROVE  PipeOK(Append(q, r)) /\ ToSet(Append(q, r)) = ToSet(q) \cup {r}
<1> DEFINE a == Append(q, r)
           n == Len(q)
<1>1. /\ a \in Seq(Asks) /\ Len(a) = n + 1 /\ n \in Nat /\ a[n + 1] = r
      /\ \A i \in 1 .. n : a[i] = q[i]
  BY AppendForm DEF PipeOK
<1>2. DOMAIN a = 1 .. n + 1 /\ DOMAIN q = 1 .. n
  BY <1>1 DEF PipeOK
<1> HIDE DEF a, n
<1>3. \A i \in 1 .. n + 1 : i = n + 1 \/ i \in 1 .. n
  BY <1>1
<1>4. \A i \in 1 .. n : q[i] # r
  BY <1>2 DEF ToSet
<1>5. IsInjective(a)
  BY <1>1, <1>2, <1>3, <1>4 DEF PipeOK, IsInjective
<1>6. ToSet(a) = ToSet(q) \cup {r}
  <2>1. n + 1 \in 1 .. n + 1 /\ \A i \in 1 .. n : i \in 1 .. n + 1
    BY <1>1
  <2> QED
    BY <1>1, <1>2, <1>3, <2>1 DEF ToSet
<1>7. n + 1 <= PipeMax
  BY <1>1, Sizes DEF n
<1> QED
  BY <1>1, <1>5, <1>6, <1>7 DEF PipeOK, a

\* The k oldest requests of a pipeline and the others.
LEMMA SplitForm ==
  ASSUME NEW q, PipeOK(q), NEW k \in 1 .. Len(q)
  PROVE  LET old == SubSeq(q, 1, k)
             rest == SubSeq(q, k + 1, Len(q))
         IN  /\ PipeOK(old) /\ PipeOK(rest) /\ Len(old) = k
             /\ ToSet(old) = ToSet(q) \ ToSet(rest) /\ ToSet(rest) = ToSet(q) \ ToSet(old)
<1> DEFINE n == Len(q)
           old == SubSeq(q, 1, k)
           rest == SubSeq(q, k + 1, n)
<1>0. n \in Nat /\ q \in Seq(Asks) /\ DOMAIN q = 1 .. n /\ n <= PipeMax /\ k \in Nat /\ k <= n
  BY DEF PipeOK
<1>1. old \in Seq(Asks) /\ Len(old) = k /\ \A i \in 1 .. k : old[i] = q[i]
  BY <1>0, CutForm
<1>2. rest \in Seq(Asks) /\ Len(rest) = n - k /\ \A i \in 1 .. n - k : rest[i] = q[i + k]
  BY <1>0, CutForm
<1> HIDE DEF n, old, rest
<1>3. DOMAIN old = 1 .. k /\ DOMAIN rest = 1 .. n - k
  BY <1>1, <1>2
<1>4. \A i \in 1 .. k : i \in 1 .. n
  BY <1>0
<1>5. \A i \in 1 .. n - k : i + k \in 1 .. n /\ i + k \notin 1 .. k
  BY <1>0
<1>6. \A i, j \in 1 .. n : q[i] = q[j] => i = j
  BY <1>0 DEF PipeOK, IsInjective
<1>7. IsInjective(old)
  BY <1>1, <1>3, <1>4, <1>6 DEF IsInjective
<1>8. IsInjective(rest)
  <2>1. \A i, j \in 1 .. n - k : i + k = j + k => i = j
    BY <1>0
  <2> QED
    BY <1>2, <1>3, <1>5, <1>6, <2>1 DEF IsInjective
<1>9. ASSUME NEW i \in 1 .. n PROVE i \in 1 .. k \/ \E j \in 1 .. n - k : i = j + k
  <2>1. i \notin 1 .. k => i - k \in 1 .. n - k /\ i = (i - k) + k
    BY <1>0
  <2> QED
    BY <2>1
<1>10. ToSet(q) = {q[i] : i \in 1 .. n} /\ ToSet(old) = {q[i] : i \in 1 .. k}
  BY <1>0, <1>1, <1>3 DEF ToSet
<1>11. ToSet(rest) = {q[i + k] : i \in 1 .. n - k}
  BY <1>2, <1>3 DEF ToSet
<1>12. ToSet(q) = ToSet(old) \cup ToSet(rest)
  BY <1>4, <1>5, <1>9, <1>10, <1>11
<1>13. ToSet(old) \cap ToSet(rest) = {}
  BY <1>4, <1>5, <1>6, <1>10, <1>11
<1>14. k <= PipeMax /\ n - k <= PipeMax
  BY <1>0, Sizes
<1>15. /\ PipeOK(old) /\ PipeOK(rest) /\ Len(old) = k
       /\ ToSet(old) = ToSet(q) \ ToSet(rest) /\ ToSet(rest) = ToSet(q) \ ToSet(old)
  BY <1>1, <1>2, <1>7, <1>8, <1>12, <1>13, <1>14 DEF PipeOK
<1> QED
  BY <1>15 DEF n, old, rest
----------------------------------------------------------------------------
(* Request counts.                                                         *)

Asked(m) == \A q \in Pieces : AskedAt(m, q)

Count(m, r) == m.reqs[r[1]][r[2]]

LEMMA CountType ==
  ASSUME NEW m, MgrInv(m, None), NEW r \in Asks PROVE Count(m, r) \in 0 .. ReqMax
BY AskForm DEF Count, MgrInv, SlotOK, SlotType

LEMMA AskedForm ==
  ASSUME NEW m
  PROVE  Asked(m) <=> /\ \A q \in Pieces : m.state[q] \in {"HASHING", "DONE"}
                                             => m.blocks[q] = Blocks(q)
                      /\ \A r \in Asks : Count(m, r) # 0 => r[2] \notin m.blocks[r[1]]
<1>1. ASSUME Asked(m), NEW r \in Asks, Count(m, r) # 0 PROVE r[2] \notin m.blocks[r[1]]
  BY <1>1, AskForm DEF Asked, AskedAt, Count
<1>2. ASSUME \A r \in Asks : Count(m, r) # 0 => r[2] \notin m.blocks[r[1]],
             NEW q \in Pieces, NEW c \in Blocks(q), m.reqs[q][c] # 0
      PROVE  c \notin m.blocks[q]
  <2>1. <<q, c>> \in Asks
    BY AskForm
  <2>2. Count(m, <<q, c>>) = m.reqs[q][c]
    BY DEF Count
  <2> QED
    BY <1>2, <2>1, <2>2
<1>3. Asked(m) => \A q \in Pieces : m.state[q] \in {"HASHING", "DONE"} => m.blocks[q] = Blocks(q)
  BY DEF Asked, AskedAt
<1> QED
  BY <1>1, <1>2, <1>3 DEF Asked, AskedAt

\* The count of r becomes n.
Recounted(m, k, r, n) ==
  /\ MgrInv(k, None) /\ k.state = m.state /\ k.blocks = m.blocks
  /\ Count(k, r) = n /\ \A q \in Asks : q # r => Count(k, q) = Count(m, q)

LEMMA RecountForm ==
  ASSUME NEW m, MgrInv(m, None), NEW r \in Asks, NEW n \in 0 .. ReqMax
  PROVE  Recounted(m, [m EXCEPT !.reqs[r[1]][r[2]] = n], r, n)
<1> DEFINE p == r[1]
           b == r[2]
           c == [m.reqs[p] EXCEPT ![b] = n]
           k == [m EXCEPT !.reqs[p] = c]
<1>0. p \in Pieces /\ b \in Blocks(p) /\ r = <<p, b>>
  BY AskForm
<1> HIDE DEF p, b
<1>1. m \in MgrRec /\ SlotType(m, p) /\ m.reqs \in [Pieces -> AllReqs]
  BY <1>0 DEF MgrInv, SlotOK, MgrRec
<1>2. /\ c[b] = n /\ (\A d \in Blocks(p) : d # b => c[d] = m.reqs[p][d])
  BY <1>0, <1>1 DEF SlotType
<1>3. [m EXCEPT !.reqs[p][b] = n] = k
  OBVIOUS
<1>4. MgrInv(k, None)
  BY <1>0, <1>3, CountingKeeps, Zenon
<1> HIDE DEF c
<1>5. /\ k.state = m.state /\ k.blocks = m.blocks /\ k.reqs[p] = c
      /\ \A q \in Pieces : q # p => k.reqs[q] = m.reqs[q]
  BY <1>0, <1>1 DEF MgrRec
<1> HIDE DEF k
<1>6. Count(k, r) = n
  BY <1>0, <1>2, <1>5 DEF Count
<1>7. ASSUME NEW q \in Asks, q # r PROVE Count(k, q) = Count(m, q)
  <2>1. q = <<q[1], q[2]>> /\ q[1] \in Pieces /\ q[2] \in Blocks(q[1])
    BY AskForm
  <2>2. q[1] # p \/ q[2] # b
    BY <1>0, <1>7, <2>1
  <2> QED
    BY <1>2, <1>5, <2>1, <2>2 DEF Count
<1>8. Recounted(m, k, r, n)
  BY <1>4, <1>5, <1>6, <1>7 DEF Recounted
<1> QED
  BY <1>3, <1>8 DEF p, b

\* piece_mgr_mark_block_requested of a block that has not come.
LEMMA MarkForm ==
  ASSUME NEW m, MgrInv(m, None), Asked(m), NEW r \in Asks, r[2] \notin m.blocks[r[1]]
  PROVE  LET k == MarkBlockRequested(m, r[1], r[2])
         IN  /\ MgrInv(k, None) /\ Asked(k) /\ Count(k, r) <= Count(m, r) + 1
             /\ \A q \in Asks : q # r => Count(k, q) = Count(m, q)
<1> DEFINE x == Count(m, r)
           n == IF x # ReqMax THEN x + 1 ELSE x
           k == MarkBlockRequested(m, r[1], r[2])
<1>1. x \in 0 .. ReqMax /\ ReqMax \in Nat
  BY CountType, MgrAssumption
<1>2. k = [m EXCEPT !.reqs[r[1]][r[2]] = n]
  BY DEF MarkBlockRequested, Count
<1> HIDE DEF x, k
<1>3. n \in 0 .. ReqMax /\ n <= x + 1
  BY <1>1
<1> HIDE DEF n
<1>4. Recounted(m, k, r, n)
  BY <1>2, <1>3, RecountForm
<1>5. ASSUME NEW q \in Asks, Count(k, q) # 0 PROVE q[2] \notin k.blocks[q[1]]
  <2>1. CASE q = r
    BY <1>4, <2>1 DEF Recounted
  <2>2. CASE q # r
    BY <1>4, <1>5, <2>2, AskedForm DEF Recounted
  <2> QED
    BY <2>1, <2>2
<1>6. Asked(k)
  BY <1>4, <1>5, AskedForm DEF Recounted
<1> QED
  BY <1>3, <1>4, <1>6 DEF Recounted, x, k

\* y is what is left of a count x after one of its requests was taken back.
Less(x, y) == y = 0 \/ y < x

\* piece_mgr_clear_block_requested
LEMMA ClearForm ==
  ASSUME NEW m, MgrInv(m, None), Asked(m), NEW r \in Asks
  PROVE  LET k == ClearBlockRequested(m, r[1], r[2])
         IN  /\ MgrInv(k, None) /\ Asked(k) /\ Less(Count(m, r), Count(k, r))
             /\ \A q \in Asks : q # r => Count(k, q) = Count(m, q)
<1> DEFINE x == Count(m, r)
           n == IF x > 0 THEN x - 1 ELSE x
           k == ClearBlockRequested(m, r[1], r[2])
<1>1. x \in 0 .. ReqMax /\ ReqMax \in Nat
  BY CountType, MgrAssumption
<1>2. k = [m EXCEPT !.reqs[r[1]][r[2]] = n]
  BY DEF ClearBlockRequested, Count
<1> HIDE DEF x, k
<1>3. n \in 0 .. ReqMax /\ Less(x, n) /\ (n # 0 => x # 0)
  BY <1>1 DEF Less
<1> HIDE DEF n
<1>4. Recounted(m, k, r, n)
  BY <1>2, <1>3, RecountForm
<1>5. ASSUME NEW q \in Asks, Count(k, q) # 0 PROVE q[2] \notin k.blocks[q[1]]
  <2>1. Count(m, q) # 0
    BY <1>3, <1>4, <1>5 DEF Recounted, x
  <2> QED
    BY <1>4, <2>1, AskedForm DEF Recounted
<1>6. Asked(k)
  BY <1>4, <1>5, AskedForm DEF Recounted
<1> QED
  BY <1>3, <1>4, <1>6 DEF Recounted, x, k

\* The requests of A were taken back once each.
TakenBack(m, k, A) ==
  /\ MgrInv(k, None) /\ Asked(k)
  /\ \A q \in Asks : IF q \in A THEN Less(Count(m, q), Count(k, q))
                     ELSE Count(k, q) = Count(m, q)

\* clear_request for each request of a pipeline.
LEMMA ClearKeeps ==
  ASSUME NEW m, MgrInv(m, None), Asked(m), NEW rs \in Seq(Asks)
  PROVE  TakenBack(m, ClearRequests(m, rs), ToSet(rs))
<1> DEFINE N == Len(rs)
           First(n) == {rs[i] : i \in 1 .. n}
           Turn(n, k) == ClearBlockRequested(k, rs[n][1], rs[n][2])
           X == [n \in 0 .. N |-> {k \in MgrRec : TakenBack(m, k, First(n))}]
           G == [n \in 1 .. N |-> [k \in X[n - 1] |-> Turn(n, k)]]
           Loop(g) == g = [n \in 0 .. N |-> IF n = 0 THEN m ELSE Turn(n, g[n - 1])]
           f == CHOOSE g : Loop(g)
<1>0. N \in Nat /\ m \in MgrRec
  BY DEF MgrInv
<1>1. m \in X[0]
  <2>1. First(0) = {}
    OBVIOUS
  <2>2. TakenBack(m, m, First(0))
    BY <2>1 DEF TakenBack
  <2> QED
    BY <1>0, <2>2
<1>2. ASSUME NEW n \in 1 .. N, NEW k \in X[n - 1] PROVE Turn(n, k) \in X[n]
  <2>1. n - 1 \in 0 .. N /\ n \in 0 .. N /\ rs[n] \in Asks
    OBVIOUS
  <2>2. TakenBack(m, k, First(n - 1))
    BY <2>1
  <2>3. First(n) = First(n - 1) \cup {rs[n]}
    <3>1. \A i \in 1 .. n : i = n \/ i \in 1 .. n - 1
      BY <2>1
    <3>2. n \in 1 .. n /\ \A i \in 1 .. n - 1 : i \in 1 .. n
      BY <2>1
    <3> QED
      BY <3>1, <3>2
  <2> DEFINE r == rs[n]
             A == First(n - 1)
             t == Turn(n, k)
  <2>4. r \in Asks
    BY <2>1
  <2>5. /\ MgrInv(t, None) /\ Asked(t) /\ Less(Count(k, r), Count(t, r))
        /\ \A q \in Asks : q # r => Count(t, q) = Count(k, q)
    BY <2>2, <2>4, ClearForm DEF TakenBack
  <2> HIDE DEF First, r, A, t
  <2>6. ASSUME NEW q \in Asks
        PROVE  IF q \in A \cup {r} THEN Less(Count(m, q), Count(t, q))
               ELSE Count(t, q) = Count(m, q)
    <3>1. IF q \in A THEN Less(Count(m, q), Count(k, q)) ELSE Count(k, q) = Count(m, q)
      BY <2>2 DEF TakenBack, A
    <3>2. CASE q # r
      BY <2>5, <3>1, <3>2
    <3>3. CASE q = r
      <4>1. Less(Count(k, q), Count(t, q))
        BY <2>5, <3>3
      <4>2. Count(m, q) \in Nat /\ Count(k, q) \in Nat /\ Count(t, q) \in Nat
        BY <2>2, <2>5, CountType, MgrAssumption DEF TakenBack
      <4>3. \A x, y, z \in Nat : (Less(x, y) \/ x = y) /\ Less(y, z) => Less(x, z)
        BY DEF Less
      <4>4. Less(Count(m, q), Count(t, q))
        BY <3>1, <4>1, <4>2, <4>3
      <4> QED
        BY <3>3, <4>4
    <3> QED
      BY <3>2, <3>3
  <2>7. t \in MgrRec
    BY <2>5 DEF MgrInv
  <2>8. TakenBack(m, t, First(n))
    BY <2>3, <2>5, <2>6 DEF TakenBack, A, r
  <2> QED
    BY <2>1, <2>7, <2>8 DEF t
<1> HIDE DEF X, Turn
<1>3. Loop(f)
  <2>1. \A n \in 1 .. N : G[n] \in [X[n - 1] -> X[n]]
    BY <1>2
  <2> HIDE DEF G, Loop, f, N
  <2>2. PICK g : LoopRun(N, X, m, G, g)
    BY <1>0, <1>1, <2>1, LoopRuns
  <2>3. ASSUME NEW n \in 1 .. N PROVE G[n][g[n - 1]] = Turn(n, g[n - 1])
    <3>1. g[n - 1] \in X[n - 1]
      BY <1>0, <2>2 DEF LoopRun
    <3> QED
      BY <3>1 DEF G
  <2>4. Loop(g)
    BY <1>0, <2>2, <2>3 DEF Loop, LoopRun
  <2> QED
    BY <2>4 DEF f
<1>4. ClearRequests(m, rs) = f[N]
  BY DEF ClearRequests, Turn
<1> HIDE DEF f, N
<1>5. f[0] = m /\ \A n \in 1 .. N : f[n] = Turn(n, f[n - 1])
  BY <1>0, <1>3
<1> HIDE DEF Loop
<1>6. f[N] \in X[N]
  BY <1>0, <1>1, <1>2, <1>5, LoopKeeps
<1>7. First(N) = ToSet(rs)
  BY DEF ToSet, N
<1> HIDE DEF First
<1>8. N \in 0 .. N
  BY <1>0
<1> QED
  BY <1>4, <1>6, <1>7, <1>8 DEF X
----------------------------------------------------------------------------
(* Counts and pipelines.                                                   *)

HoldersIn(prs, r) == {s \in Conns : r \in ToSet(prs[s].pipe)}

\* Each count is backed by as many pipelines.
Backed(m, prs) == \A r \in Asks : Count(m, r) <= Cardinality(HoldersIn(prs, r))

LEMMA HoldersFinite ==
  ASSUME NEW prs, NEW r
  PROVE  IsFiniteSet(HoldersIn(prs, r)) /\ Cardinality(HoldersIn(prs, r)) \in Nat
<1>1. HoldersIn(prs, r) \in SUBSET Conns
  BY DEF HoldersIn
<1>2. IsFiniteSet(HoldersIn(prs, r))
  BY <1>1, FS_Subset, Sizes
<1> QED
  BY <1>2, FS_CardinalityType

\* A count x becomes y while a pipeline of requests A becomes one of B.
Follows(x, y, A, B, r) ==
  IF r \in A /\ r \notin B THEN Less(x, y)
  ELSE IF r \in B /\ r \notin A THEN y <= x + 1
  ELSE y <= x

\* The pipeline of one peer changes.
LEMMA BackedStep ==
  ASSUME NEW m, NEW k, MgrInv(m, None), MgrInv(k, None), NEW prs, NEW qrs, NEW s \in Conns,
         Backed(m, prs), \A c \in Conns : c # s => qrs[c].pipe = prs[c].pipe,
         \A r \in Asks : Follows(Count(m, r), Count(k, r), ToSet(prs[s].pipe),
                                 ToSet(qrs[s].pipe), r)
  PROVE  Backed(k, qrs)
<1> SUFFICES ASSUME NEW r \in Asks PROVE Count(k, r) <= Cardinality(HoldersIn(qrs, r))
  BY DEF Backed
<1> DEFINE H == HoldersIn(prs, r)
           J == HoldersIn(qrs, r)
           x == Count(m, r)
           y == Count(k, r)
           A == ToSet(prs[s].pipe)
           B == ToSet(qrs[s].pipe)
<1>1. x \in Nat /\ y \in Nat /\ x <= Cardinality(H) /\ Follows(x, y, A, B, r)
  BY CountType, MgrAssumption DEF Backed
<1>2. IsFiniteSet(H) /\ Cardinality(H) \in Nat /\ Cardinality(J) \in Nat
  BY HoldersFinite
<1>3. (s \in H <=> r \in A) /\ (s \in J <=> r \in B)
  BY DEF HoldersIn
<1>4. \A c \in Conns : c # s => (c \in H <=> c \in J)
  BY DEF HoldersIn
<1>5. H \subseteq Conns /\ J \subseteq Conns
  BY DEF HoldersIn
<1> HIDE DEF H, J, x, y, A, B
<1>6. CASE r \in A /\ r \notin B
  <2>1. J = H \ {s}
    BY <1>3, <1>4, <1>5, <1>6
  <2>2. Cardinality(J) = Cardinality(H) - 1
    BY <1>2, <1>3, <1>6, <2>1, FS_RemoveElement
  <2>3. Less(x, y)
    BY <1>1, <1>6 DEF Follows
  <2> QED
    BY <1>1, <1>2, <2>2, <2>3 DEF Less, y, J
<1>7. CASE r \in B /\ r \notin A
  <2>1. J = H \cup {s}
    BY <1>3, <1>4, <1>5, <1>7
  <2>2. Cardinality(J) = Cardinality(H) + 1
    BY <1>2, <1>3, <1>7, <2>1, FS_AddElement
  <2>3. y <= x + 1
    BY <1>1, <1>7 DEF Follows
  <2> QED
    BY <1>1, <1>2, <2>2, <2>3 DEF y, J
<1>8. CASE r \in A <=> r \in B
  <2>0. \A c \in Conns : c \in H <=> c \in J
    BY <1>3, <1>4, <1>8
  <2>1. J = H
    BY <1>5, <2>0
  <2>2. y <= x
    BY <1>1, <1>8 DEF Follows
  <2> QED
    BY <1>1, <1>2, <2>1, <2>2 DEF y, J
<1> QED
  BY <1>6, <1>7, <1>8

\* Pipelines lose r, which does not count any more.
LEMMA BackedDrop ==
  ASSUME NEW m, NEW k, MgrInv(m, None), MgrInv(k, None), NEW prs, NEW qrs, NEW r \in Asks,
         Backed(m, prs), Count(k, r) = 0, \A q \in Asks : Count(k, q) <= Count(m, q),
         \A c \in Conns : ToSet(prs[c].pipe) \ {r} \subseteq ToSet(qrs[c].pipe)
  PROVE  Backed(k, qrs)
<1> SUFFICES ASSUME NEW q \in Asks PROVE Count(k, q) <= Cardinality(HoldersIn(qrs, q))
  BY DEF Backed
<1>1. /\ Cardinality(HoldersIn(qrs, q)) \in Nat /\ Cardinality(HoldersIn(prs, q)) \in Nat
      /\ IsFiniteSet(HoldersIn(qrs, q))
  BY HoldersFinite
<1>2. CASE q = r
  BY <1>1, <1>2
<1>3. CASE q # r
  <2>1. HoldersIn(prs, q) \in SUBSET HoldersIn(qrs, q)
    BY <1>3 DEF HoldersIn
  <2>2. Cardinality(HoldersIn(prs, q)) <= Cardinality(HoldersIn(qrs, q))
    BY <1>1, <2>1, FS_Subset
  <2>3. Count(m, q) <= Cardinality(HoldersIn(prs, q)) /\ Count(k, q) <= Count(m, q)
    BY DEF Backed
  <2>4. Count(m, q) \in Nat /\ Count(k, q) \in Nat
    BY CountType, MgrAssumption
  <2> QED
    BY <1>1, <2>2, <2>3, <2>4
<1> QED
  BY <1>2, <1>3

\* Counts only go down.
LEMMA BackedEase ==
  ASSUME NEW m, NEW k, MgrInv(m, None), MgrInv(k, None), NEW prs, Backed(m, prs),
         \A q \in Asks : Count(k, q) <= Count(m, q)
  PROVE  Backed(k, prs)
<1> SUFFICES ASSUME NEW q \in Asks PROVE Count(k, q) <= Cardinality(HoldersIn(prs, q))
  BY DEF Backed
<1>1. Cardinality(HoldersIn(prs, q)) \in Nat /\ Count(m, q) \in Nat /\ Count(k, q) \in Nat
  BY HoldersFinite, CountType, MgrAssumption
<1> QED
  BY <1>1 DEF Backed

\* A step of the piece manager that only takes requests back.
LEMMA EasedForm ==
  ASSUME NEW m, NEW k, MgrInv(m, None), MgrInv(k, None), Asked(m), Eased(m, k)
  PROVE  Asked(k) /\ \A q \in Asks : Count(k, q) <= Count(m, q)
<1>1. \A q \in Pieces : AskedAt(k, q)
  BY DEF Asked, Eased, EasedAt
<1>2. ASSUME NEW q \in Asks PROVE Count(k, q) <= Count(m, q)
  <2>1. q[1] \in Pieces /\ q[2] \in Blocks(q[1])
    BY AskForm
  <2>2. Count(k, q) = 0 \/ Count(k, q) = Count(m, q)
    BY <2>1 DEF Asked, Eased, EasedAt, Count
  <2>3. Count(k, q) \in Nat /\ Count(m, q) \in Nat
    BY CountType, MgrAssumption
  <2> QED
    BY <2>2, <2>3
<1> QED
  BY <1>1, <1>2 DEF Asked
----------------------------------------------------------------------------
(* What an honest remote may still answer.  Requests that were given up are *)
(* numbered: 1 .. drops in the order of the ring, the ones a choke released *)
(* below 0.  A token of such a number stands for an answer that may come:   *)
(* the ones in the ring are forgiven, the others cost a strike each.        *)

\* How many requests fell out of the ring, and the numbers of those in it.
Fell(pr)   == pr.drops - Len(pr.dropped)
InRing(pr) == Fell(pr) + 1 .. pr.drops

RingOK(pr) == Len(pr.dropped) = IF pr.drops < RecentDropped THEN pr.drops ELSE RecentDropped

Tokens(T, lab, q) == {t \in T : lab[t] = q}

\* f[q] answers to requests for q that were given up may come.
BookOf(pr, f, T, lab) ==
  /\ T \in SUBSET ((-pr.forgot) .. (-1) \cup 1 .. pr.drops)
  /\ \A t \in InRing(pr) : t \in T /\ lab[t] = pr.dropped[t - Fell(pr)]
  /\ Cardinality(T \ InRing(pr)) + pr.unsol <= pr.forgot + Fell(pr)
  /\ \A q \in Req : f[q] <= Cardinality(Tokens(T, lab, q))

Book(pr, f) == \E T, lab : BookOf(pr, f, T, lab)

\* The same ring, and all other fields but the pipeline's.
SameBook(pr, k) == /\ k.dropped = pr.dropped /\ k.drops = pr.drops
                   /\ k.forgot = pr.forgot /\ k.unsol = pr.unsol

LEMMA SameBookKeeps ==
  ASSUME NEW pr, NEW k, NEW f, SameBook(pr, k)
  PROVE  (Book(pr, f) => Book(k, f)) /\ (RingOK(pr) => RingOK(k))
<1>1. Fell(k) = Fell(pr)
  BY DEF SameBook, Fell
<1>2. InRing(k) = InRing(pr)
  BY <1>1 DEF SameBook, InRing
<1>3. ASSUME NEW T, NEW lab, BookOf(pr, f, T, lab) PROVE BookOf(k, f, T, lab)
  BY <1>1, <1>2, <1>3 DEF BookOf, SameBook
<1> QED
  BY <1>3 DEF Book, RingOK, SameBook

LEMMA RingForm ==
  ASSUME NEW pr \in PeerRec, RingOK(pr)
  PROVE  /\ Fell(pr) \in Nat /\ Len(pr.dropped) \in Nat /\ pr.drops \in Nat /\ pr.forgot \in Nat
         /\ pr.unsol \in Nat /\ Len(pr.dropped) <= RecentDropped
         /\ pr.drops = Fell(pr) + Len(pr.dropped)
         /\ Fell(pr) = IF pr.drops < RecentDropped THEN 0 ELSE pr.drops - RecentDropped
         /\ InRing(pr) \subseteq Int /\ pr.dropped \in Seq(Asks)
<1>1. /\ Len(pr.dropped) \in Nat /\ pr.drops \in Nat /\ pr.forgot \in Nat /\ pr.unsol \in Nat
      /\ pr.dropped \in Seq(Asks)
  BY DEF PeerRec
<1> QED
  BY <1>1, Sizes DEF RingOK, Fell, InRing

\* The tokens are finitely many numbers.
LEMMA TokensFinite ==
  ASSUME NEW pr \in PeerRec, RingOK(pr), NEW f, NEW T, NEW lab, BookOf(pr, f, T, lab)
  PROVE  /\ T \subseteq Int /\ IsFiniteSet(T) /\ \A t \in T : t <= pr.drops /\ t >= -pr.forgot
         /\ \A S \in SUBSET T : IsFiniteSet(S) /\ Cardinality(S) \in Nat
<1>1. pr.drops \in Nat /\ pr.forgot \in Nat
  BY RingForm
<1> DEFINE U == (-pr.forgot) .. pr.drops
<1>2. T \in SUBSET U /\ T \subseteq Int
  <2>1. \A t \in (-pr.forgot) .. (-1) \cup 1 .. pr.drops : t \in U /\ t \in Int
    BY <1>1
  <2> HIDE DEF U
  <2> QED
    BY <2>1 DEF BookOf
<1>3. IsFiniteSet(U)
  <2>1. -pr.forgot \in Int /\ pr.drops \in Int
    BY <1>1
  <2> QED
    BY <2>1, FS_Interval, Zenon
<1>4. \A t \in T : t <= pr.drops /\ t >= -pr.forgot
  BY <1>1, <1>2
<1> HIDE DEF U
<1>5. IsFiniteSet(T)
  BY <1>2, <1>3, FS_Subset
<1>6. \A S \in SUBSET T : IsFiniteSet(S) /\ Cardinality(S) \in Nat
  BY <1>5, FS_Subset, FS_CardinalityType
<1> QED
  BY <1>2, <1>4, <1>5, <1>6

\* remember_dropped
Remembered(pr, k, r) ==
  /\ k \in PeerRec /\ RingOK(k) /\ k.drops = pr.drops + 1
  /\ k.active = pr.active /\ k.pipe = pr.pipe /\ k.unsol = pr.unsol /\ k.forgot = pr.forgot
  /\ k.have = pr.have /\ k.choked = pr.choked /\ k.strikes = pr.strikes /\ k.cool = pr.cool
  /\ k.proven = pr.proven
  /\ Fell(k) \in {Fell(pr), Fell(pr) + 1}
  /\ \A t \in Fell(k) + 1 .. pr.drops : k.dropped[t - Fell(k)] = pr.dropped[t - Fell(pr)]
  /\ k.dropped[k.drops - Fell(k)] = r

LEMMA RememberForm ==
  ASSUME NEW pr \in PeerRec, RingOK(pr), NEW r \in Asks
  PROVE  Remembered(pr, RememberDropped(pr, r), r)
<1> DEFINE s == pr.dropped
           d == Len(s)
           n == pr.drops
           a == Append(s, r)
           z == IF Len(a) > RecentDropped THEN Tail(a) ELSE a
           e == n + 1
           k == [pr EXCEPT !.dropped = z, !.drops = e]
<1>0. RememberDropped(pr, r) = k
  BY DEF RememberDropped
<1>1. s \in Seq(Asks) /\ d \in Nat /\ n \in Nat /\ RecentDropped \in Nat \ {0}
  BY RingForm, Sizes
<1>2. /\ a \in Seq(Asks) /\ Len(a) = d + 1 /\ a[d + 1] = r /\ \A i \in 1 .. d : a[i] = s[i]
  BY <1>1, AppendForm
<1>3. a # <<>>
  BY <1>1, <1>2
<1>4. /\ Tail(a) \in Seq(Asks) /\ Len(Tail(a)) = d /\ \A i \in 1 .. d : Tail(a)[i] = a[i + 1]
  <2> HIDE DEF a, d
  <2>1. /\ Tail(a) \in Seq(Asks) /\ Len(Tail(a)) = Len(a) - 1
        /\ \A i \in 1 .. Len(a) - 1 : Tail(a)[i] = a[i + 1]
    BY <1>2, <1>3, TailForm
  <2>2. Len(a) - 1 = d
    BY <1>1, <1>2
  <2> QED
    BY <2>1, <2>2
<1> DEFINE full == d + 1 > RecentDropped
<1>5. d = IF n < RecentDropped THEN n ELSE RecentDropped
  BY DEF RingOK
<1>6. z = IF full THEN Tail(a) ELSE a
  BY <1>2
<1> HIDE DEF a, d, z, s, n
<1>7. z \in Seq(Asks) /\ Len(z) = IF full THEN d ELSE d + 1
  BY <1>2, <1>4, <1>6
<1>8. e \in Nat
  BY <1>1
<1> HIDE DEF e
<1>9. /\ k \in PeerRec /\ k.dropped = z /\ k.drops = e
      /\ k.active = pr.active /\ k.pipe = pr.pipe /\ k.unsol = pr.unsol /\ k.forgot = pr.forgot
      /\ k.have = pr.have /\ k.choked = pr.choked /\ k.strikes = pr.strikes /\ k.cool = pr.cool
      /\ k.proven = pr.proven
  BY <1>7, <1>8 DEF PeerRec
<1> HIDE DEF k
<1>10. /\ Fell(pr) = n - d /\ Fell(k) = e - Len(z)
  BY <1>9 DEF Fell, n, d, s
<1>11. /\ Fell(k) = IF full THEN n - d + 1 ELSE n - d
  BY <1>1, <1>7, <1>10 DEF e
<1>12. RingOK(k)
  BY <1>1, <1>5, <1>7, <1>9 DEF RingOK, e
<1>13. \A t \in Fell(k) + 1 .. n : z[t - Fell(k)] = s[t - Fell(pr)]
  <2>1. CASE full
    <3> SUFFICES ASSUME NEW t \in (n - d + 1) + 1 .. n
                 PROVE  z[t - (n - d + 1)] = s[t - (n - d)]
      BY <1>10, <1>11, <2>1
    <3> DEFINE i == t - (n - d + 1)
    <3>1. i \in 1 .. d /\ i + 1 \in 1 .. d /\ i + 1 = t - (n - d)
      BY <1>1
    <3> HIDE DEF i
    <3>2. z[i] = a[i + 1] /\ a[i + 1] = s[i + 1]
      BY <1>2, <1>4, <1>6, <2>1, <3>1
    <3> QED
      BY <3>1, <3>2 DEF i
  <2>2. CASE ~full
    <3> SUFFICES ASSUME NEW t \in (n - d) + 1 .. n PROVE z[t - (n - d)] = s[t - (n - d)]
      BY <1>10, <1>11, <2>2
    <3>1. t - (n - d) \in 1 .. d
      BY <1>1
    <3> QED
      BY <1>2, <1>6, <2>2, <3>1
  <2> QED
    BY <2>1, <2>2
<1>14. z[e - Fell(k)] = r
  <2>1. CASE full
    <3>1. e - Fell(k) = d /\ d \in 1 .. d
      BY <1>1, <1>5, <1>11, <2>1 DEF e
    <3> QED
      BY <1>2, <1>4, <1>6, <2>1, <3>1
  <2>2. CASE ~full
    <3>1. e - Fell(k) = d + 1
      BY <1>1, <1>11, <2>2 DEF e
    <3> QED
      BY <1>2, <1>6, <2>2, <3>1
  <2> QED
    BY <2>1, <2>2
<1>15. Remembered(pr, k, r)
  BY <1>9, <1>10, <1>11, <1>12, <1>13, <1>14 DEF Remembered, e, n, s
<1> QED
  BY <1>0, <1>15

\* A request that is remembered may be answered once more.
LEMMA RememberBook ==
  ASSUME NEW pr \in PeerRec, RingOK(pr), NEW r \in Asks, NEW k, Remembered(pr, k, r),
         NEW f \in [Req -> Nat], Book(pr, f)
  PROVE  Book(k, [f EXCEPT ![r] = @ + 1])
<1> DEFINE g == [f EXCEPT ![r] = @ + 1]
           e == pr.drops + 1
<1>1. PICK T, lab : BookOf(pr, f, T, lab)
  BY DEF Book
<1>2. /\ T \subseteq Int /\ IsFiniteSet(T) /\ (\A t \in T : t <= pr.drops /\ t >= -pr.forgot)
      /\ \A S \in SUBSET T : IsFiniteSet(S) /\ Cardinality(S) \in Nat
  BY <1>1, TokensFinite
<1>3. r \in Req /\ g \in [Req -> Nat] /\ g[r] = f[r] + 1 /\ \A q \in Req : q # r => g[q] = f[q]
  BY AskForm
<1>4. /\ Fell(pr) \in Nat /\ pr.drops \in Nat /\ pr.forgot \in Nat /\ pr.unsol \in Nat
      /\ Fell(k) \in Nat /\ Fell(k) <= pr.drops /\ Fell(k) \in {Fell(pr), Fell(pr) + 1}
      /\ k.drops = e /\ k.forgot = pr.forgot /\ k.unsol = pr.unsol
  <2>1. k \in PeerRec /\ RingOK(k) /\ k.drops = e /\ k.forgot = pr.forgot /\ k.unsol = pr.unsol
    BY DEF Remembered
  <2>2. Fell(k) = IF k.drops < RecentDropped THEN 0 ELSE k.drops - RecentDropped
    BY <2>1, RingForm
  <2> QED
    BY <2>1, <2>2, RingForm, Sizes DEF Remembered
<1> DEFINE U == T \cup {e}
           l == [t \in Int |-> IF t = e THEN r ELSE lab[t]]
<1>5. e \in Int /\ e \notin T /\ e \in InRing(k)
  BY <1>2, <1>4 DEF InRing
<1>6. l[e] = r /\ \A t \in T : l[t] = lab[t]
  BY <1>2, <1>5
<1>7. U \in SUBSET ((-k.forgot) .. (-1) \cup 1 .. k.drops)
  <2>1. \A t \in (-pr.forgot) .. (-1) \cup 1 .. pr.drops :
          t \in (-k.forgot) .. (-1) \cup 1 .. k.drops
    BY <1>4
  <2>2. e \in 1 .. k.drops
    BY <1>4
  <2>3. T \in SUBSET ((-pr.forgot) .. (-1) \cup 1 .. pr.drops)
    BY <1>1 DEF BookOf
  <2> HIDE DEF e
  <2> QED
    BY <2>1, <2>2, <2>3
<1>8. \A t \in InRing(k) : t = e \/ (t \in Fell(k) + 1 .. pr.drops /\ t \in InRing(pr))
  <2> SUFFICES ASSUME NEW t \in Fell(k) + 1 .. k.drops, t # e
               PROVE  t \in Fell(k) + 1 .. pr.drops /\ t \in Fell(pr) + 1 .. pr.drops
    BY DEF InRing
  <2>1. t \in Int /\ t <= pr.drops /\ t >= Fell(k) + 1 /\ Fell(k) >= Fell(pr)
    BY <1>4
  <2> QED
    BY <1>4, <2>1
<1>9. ASSUME NEW t \in InRing(k) PROVE t \in U /\ l[t] = k.dropped[t - Fell(k)]
  <2>1. CASE t = e
    BY <1>4, <1>6, <2>1 DEF Remembered
  <2>2. CASE t # e
    <3>1. t \in T /\ lab[t] = pr.dropped[t - Fell(pr)]
      BY <1>1, <1>8, <2>2 DEF BookOf
    <3>2. k.dropped[t - Fell(k)] = pr.dropped[t - Fell(pr)]
      BY <1>8, <2>2 DEF Remembered
    <3> QED
      BY <1>6, <3>1, <3>2
  <2> QED
    BY <2>1, <2>2
<1>10. Cardinality(U \ InRing(k)) + k.unsol <= k.forgot + Fell(k)
  <2> DEFINE A == T \ InRing(pr)
             B == U \ InRing(k)
  <2>1. Cardinality(A) + pr.unsol <= pr.forgot + Fell(pr)
    BY <1>1 DEF BookOf
  <2>2. IsFiniteSet(A) /\ Cardinality(A) \in Nat
    BY <1>2
  <2>3. B \subseteq T
    BY <1>5
  <2>4. IsFiniteSet(B) /\ Cardinality(B) \in Nat
    BY <1>2, <2>3
  <2>5. CASE Fell(k) = Fell(pr)
    <3>1. \A t \in Int : t \in InRing(pr) => t \in InRing(k)
      BY <1>4, <2>5 DEF InRing
    <3>2. B \in SUBSET A
      BY <1>2, <2>3, <3>1
    <3>3. Cardinality(B) <= Cardinality(A)
      <4> HIDE DEF A, B
      <4> QED
        BY <2>2, <3>2, FS_Subset
    <3> HIDE DEF A, B
    <3>4. Cardinality(B) + k.unsol <= k.forgot + Fell(k)
      BY <1>4, <2>1, <2>2, <2>4, <2>5, <3>3
    <3> QED
      BY <3>4 DEF B
  <2>6. CASE Fell(k) = Fell(pr) + 1
    <3> DEFINE w == Fell(pr) + 1
               C == A \cup {w}
    <3>1. \A t \in Int : t \in InRing(pr) => t \in InRing(k) \/ t = w
      BY <1>4, <2>6 DEF InRing
    <3>2. B \in SUBSET C
      BY <1>2, <2>3, <3>1
    <3>3. IsFiniteSet(C) /\ Cardinality(C) <= Cardinality(A) + 1
      <4> HIDE DEF A, w
      <4>1. /\ IsFiniteSet(C)
            /\ Cardinality(C) = IF w \in A THEN Cardinality(A) ELSE Cardinality(A) + 1
        BY <2>2, FS_AddElement
      <4> QED
        BY <2>2, <4>1
    <3>4. Cardinality(B) <= Cardinality(C) /\ Cardinality(C) \in Nat
      <4> HIDE DEF C, B
      <4> QED
        BY <3>2, <3>3, FS_Subset, FS_CardinalityType
    <3> HIDE DEF A, B, C
    <3>5. Cardinality(B) + k.unsol <= k.forgot + Fell(k)
      BY <1>4, <2>1, <2>2, <2>4, <2>6, <3>3, <3>4
    <3> QED
      BY <3>5 DEF B
  <2> QED
    BY <1>4, <2>5, <2>6
<1>11. ASSUME NEW q \in Req PROVE g[q] <= Cardinality(Tokens(U, l, q))
  <2> DEFINE A == Tokens(T, lab, q)
             B == Tokens(U, l, q)
  <2>1. A \in SUBSET T
    BY DEF Tokens
  <2>2. IsFiniteSet(A) /\ Cardinality(A) \in Nat /\ f[q] <= Cardinality(A) /\ f[q] \in Nat
    BY <1>1, <1>2, <2>1 DEF BookOf
  <2>3. CASE q = r
    <3>1. B = A \cup {e} /\ e \notin A
      BY <1>5, <1>6, <2>3 DEF Tokens
    <3> HIDE DEF A, B
    <3>2. Cardinality(B) = Cardinality(A) + 1
      BY <2>2, <3>1, FS_AddElement
    <3>3. g[q] <= Cardinality(B)
      <4> HIDE DEF g
      <4> QED
        BY <1>3, <2>2, <2>3, <3>2
    <3> QED
      BY <3>3 DEF B
  <2>4. CASE q # r
    <3>1. B = A
      BY <1>5, <1>6, <2>4 DEF Tokens
    <3> HIDE DEF A, B, g
    <3>2. g[q] <= Cardinality(B)
      BY <1>3, <2>2, <2>4, <3>1
    <3> QED
      BY <3>2 DEF B
  <2> QED
    BY <2>3, <2>4
<1> HIDE DEF U, l, g
<1>12. BookOf(k, g, U, l)
  BY <1>7, <1>9, <1>10, <1>11 DEF BookOf
<1> QED
  BY <1>12 DEF Book, g

\* A piece nobody waits for costs a strike: the token of its request fell
\* out of the ring or was never in it.
LEMMA StrikeBook ==
  ASSUME NEW pr \in PeerRec, RingOK(pr), NEW r \in Req, ~WasRecentlyDropped(pr, r), NEW k,
         k.dropped = pr.dropped, k.drops = pr.drops, k.forgot = pr.forgot,
         k.unsol = pr.unsol + 1, NEW f \in [Req -> Nat], f[r] > 0, Book(pr, f)
  PROVE  Book(k, [f EXCEPT ![r] = @ - 1])
<1> DEFINE g == [f EXCEPT ![r] = @ - 1]
<1>1. PICK T, lab : BookOf(pr, f, T, lab)
  BY DEF Book
<1>2. \A S \in SUBSET T : IsFiniteSet(S) /\ Cardinality(S) \in Nat
  BY <1>1, TokensFinite
<1>3. g[r] = f[r] - 1 /\ \A q \in Req : q # r => g[q] = f[q]
  OBVIOUS
<1>4. /\ Fell(pr) \in Nat /\ pr.drops \in Nat /\ pr.forgot \in Nat /\ pr.unsol \in Nat
      /\ pr.drops = Fell(pr) + Len(pr.dropped) /\ Len(pr.dropped) \in Nat
      /\ pr.dropped \in Seq(Asks)
  BY RingForm
<1>5. Fell(k) = Fell(pr) /\ InRing(k) = InRing(pr)
  BY DEF Fell, InRing
<1>6. PICK z \in T : lab[z] = r
  <2> DEFINE A == Tokens(T, lab, r)
  <2>1. f[r] <= Cardinality(A) /\ f[r] \in Nat
    BY <1>1 DEF BookOf
  <2>2. A # {}
    <3>1. Cardinality({}) = 0
      BY FS_EmptySet
    <3> HIDE DEF A
    <3> QED
      BY <2>1, <3>1
  <2> QED
    BY <2>2 DEF Tokens
<1>7. z \notin InRing(pr)
  <2> SUFFICES ASSUME z \in InRing(pr) PROVE FALSE
    OBVIOUS
  <2>1. pr.dropped[z - Fell(pr)] = r
    BY <1>1, <1>6 DEF BookOf
  <2>2. z \in Fell(pr) + 1 .. pr.drops
    BY DEF InRing
  <2>3. z - Fell(pr) \in DOMAIN pr.dropped
    BY <1>4, <2>2
  <2> QED
    BY <2>1, <2>3 DEF WasRecentlyDropped
<1> DEFINE U == T \ {z}
<1>8. U \in SUBSET ((-k.forgot) .. (-1) \cup 1 .. k.drops)
  BY <1>1 DEF BookOf
<1>9. \A t \in InRing(k) : t \in U /\ lab[t] = k.dropped[t - Fell(k)]
  BY <1>1, <1>5, <1>7 DEF BookOf
<1>10. Cardinality(U \ InRing(k)) + k.unsol <= k.forgot + Fell(k)
  <2> DEFINE A == T \ InRing(pr)
             B == U \ InRing(k)
  <2>1. Cardinality(A) + pr.unsol <= pr.forgot + Fell(pr)
    BY <1>1 DEF BookOf
  <2>2. IsFiniteSet(A) /\ Cardinality(A) \in Nat /\ z \in A /\ B = A \ {z}
    BY <1>2, <1>5, <1>7
  <2> HIDE DEF A, B
  <2>3. Cardinality(B) = Cardinality(A) - 1
    BY <2>2, FS_RemoveElement
  <2>4. Cardinality(B) + k.unsol <= k.forgot + Fell(k)
    BY <1>4, <1>5, <2>1, <2>2, <2>3
  <2> QED
    BY <2>4 DEF B
<1>11. ASSUME NEW q \in Req PROVE g[q] <= Cardinality(Tokens(U, lab, q))
  <2> DEFINE A == Tokens(T, lab, q)
             B == Tokens(U, lab, q)
  <2>1. A \in SUBSET T
    BY DEF Tokens
  <2>2. IsFiniteSet(A) /\ Cardinality(A) \in Nat /\ f[q] <= Cardinality(A) /\ f[q] \in Nat
    BY <1>1, <1>2, <2>1 DEF BookOf
  <2>3. CASE q = r
    <3>1. B = A \ {z} /\ z \in A
      BY <1>6, <2>3 DEF Tokens
    <3> HIDE DEF A, B, g
    <3>2. Cardinality(B) = Cardinality(A) - 1
      BY <2>2, <3>1, FS_RemoveElement
    <3>3. g[q] <= Cardinality(B)
      BY <1>3, <2>2, <2>3, <3>2
    <3> QED
      BY <3>3 DEF B
  <2>4. CASE q # r
    <3>1. B = A
      BY <1>6, <2>4 DEF Tokens
    <3> HIDE DEF A, B, g
    <3>2. g[q] <= Cardinality(B)
      BY <1>3, <2>2, <2>4, <3>1
    <3> QED
      BY <3>2 DEF B
  <2> QED
    BY <2>3, <2>4
<1> HIDE DEF U, g
<1>12. BookOf(k, g, U, lab)
  BY <1>8, <1>9, <1>10, <1>11 DEF BookOf
<1> QED
  BY <1>12 DEF Book, g

\* The requests that a choke releases may be answered, without the ring.
LEMMA ForgetBook ==
  ASSUME NEW pr \in PeerRec, RingOK(pr), PipeOK(pr.pipe), NEW k,
         k.dropped = pr.dropped, k.drops = pr.drops, k.unsol = pr.unsol,
         k.forgot = pr.forgot + Len(pr.pipe), NEW f \in [Req -> Nat], Book(pr, f)
  PROVE  Book(k, [q \in Req |-> f[q] + (IF q \in ToSet(pr.pipe) THEN 1 ELSE 0)])
<1> DEFINE g == [q \in Req |-> f[q] + (IF q \in ToSet(pr.pipe) THEN 1 ELSE 0)]
           p == pr.pipe
           N == Len(p)
           o == pr.forgot
           V == -(o + N) .. -(o + 1)
<1>1. PICK T, lab : BookOf(pr, f, T, lab)
  BY DEF Book
<1>2. /\ \A S \in SUBSET T : IsFiniteSet(S) /\ Cardinality(S) \in Nat
      /\ T \subseteq Int /\ \A t \in T : t >= -o
  BY <1>1, TokensFinite
<1>3. /\ Fell(pr) \in Nat /\ pr.drops \in Nat /\ o \in Nat /\ pr.unsol \in Nat
      /\ N \in Nat /\ DOMAIN p = 1 .. N
  BY RingForm DEF PipeOK
<1>4. Fell(k) = Fell(pr) /\ InRing(k) = InRing(pr)
  BY DEF Fell, InRing
<1>5. IsFiniteSet(V) /\ Cardinality(V) = N
  <2>1. -(o + N) \in Int /\ -(o + 1) \in Int
    BY <1>3
  <2>2. /\ IsFiniteSet(V)
        /\ Cardinality(V) = IF -(o + N) > -(o + 1) THEN 0 ELSE -(o + 1) - (-(o + N)) + 1
    BY <2>1, FS_Interval, Zenon
  <2> HIDE DEF V
  <2> QED
    BY <1>3, <2>2
<1>6. \A t \in V : t \in Int /\ t < -o /\ t \notin InRing(pr) /\ t \in -(o + N) .. -1
  BY <1>3 DEF InRing
<1>7. V \cap T = {}
  <2>1. \A t \in V : t \in Int /\ t < -o
    BY <1>6
  <2> HIDE DEF V
  <2> QED
    BY <1>2, <1>3, <2>1
<1> DEFINE U == T \cup V
           l == [t \in Int |-> IF t < -o THEN p[-t - o] ELSE lab[t]]
<1>8. ASSUME NEW t \in T PROVE l[t] = lab[t]
  <2>1. t \in Int /\ t >= -o
    BY <1>2
  <2>2. ~(t < -o)
    <3> HIDE DEF o
    <3> QED
      BY <1>3, <2>1
  <2> QED
    BY <2>1, <2>2
<1>9. \A i \in 1 .. N : -(o + i) \in V /\ l[-(o + i)] = p[i]
  <2> SUFFICES ASSUME NEW i \in 1 .. N PROVE -(o + i) \in V /\ l[-(o + i)] = p[i]
    OBVIOUS
  <2>1. -(o + i) \in V /\ -(o + i) \in Int /\ -(o + i) < -o /\ -(-(o + i)) - o = i
    BY <1>3
  <2> QED
    BY <2>1
<1>10. U \in SUBSET ((-k.forgot) .. (-1) \cup 1 .. k.drops)
  <2>1. \A t \in (-pr.forgot) .. (-1) \cup 1 .. pr.drops :
          t \in (-k.forgot) .. (-1) \cup 1 .. k.drops
    BY <1>3
  <2>2. \A t \in V : t \in (-k.forgot) .. (-1)
    BY <1>3
  <2>3. T \in SUBSET ((-pr.forgot) .. (-1) \cup 1 .. pr.drops)
    BY <1>1 DEF BookOf
  <2> HIDE DEF V
  <2> QED
    BY <2>1, <2>2, <2>3
<1>11. \A t \in InRing(k) : t \in U /\ l[t] = k.dropped[t - Fell(k)]
  BY <1>1, <1>4, <1>8 DEF BookOf
<1> HIDE DEF V, N, p, o
<1>12. Cardinality(U \ InRing(k)) + k.unsol <= k.forgot + Fell(k)
  <2> DEFINE A == T \ InRing(pr)
             B == U \ InRing(k)
  <2>1. Cardinality(A) + pr.unsol <= pr.forgot + Fell(pr)
    BY <1>1 DEF BookOf
  <2>2. IsFiniteSet(A) /\ Cardinality(A) \in Nat /\ B = A \cup V /\ A \cap V = {}
    BY <1>2, <1>4, <1>6, <1>7
  <2> HIDE DEF A, B
  <2>3. Cardinality(B) = Cardinality(A) + Cardinality(V) - Cardinality(A \cap V)
    BY <1>5, <2>2, FS_Union
  <2>4. Cardinality(A \cap V) = 0
    BY <2>2, FS_EmptySet
  <2>5. Cardinality(B) + k.unsol <= k.forgot + Fell(k)
    BY <1>3, <1>4, <1>5, <2>1, <2>2, <2>3, <2>4 DEF N, p, o
  <2> QED
    BY <2>5 DEF B
<1>13. ASSUME NEW q \in Req PROVE g[q] <= Cardinality(Tokens(U, l, q))
  <2> DEFINE A == Tokens(T, lab, q)
             B == Tokens(U, l, q)
  <2>1. A \in SUBSET T /\ A \subseteq B
    BY <1>8 DEF Tokens
  <2>2. IsFiniteSet(A) /\ Cardinality(A) \in Nat /\ f[q] <= Cardinality(A) /\ f[q] \in Nat
    BY <1>1, <1>2, <2>1 DEF BookOf
  <2>3. IsFiniteSet(B) /\ Cardinality(B) \in Nat
    <3>1. B \in SUBSET U /\ T \in SUBSET T
      BY DEF Tokens
    <3>2. IsFiniteSet(U)
      BY <1>2, <1>5, <3>1, FS_Union
    <3> HIDE DEF B
    <3> QED
      BY <3>1, <3>2, FS_Subset, FS_CardinalityType
  <2>4. CASE q \in ToSet(p)
    <3>1. PICK i \in 1 .. N : p[i] = q
      BY <1>3, <2>4 DEF ToSet
    <3> DEFINE z == -(o + i)
    <3>2. z \in B /\ z \notin A
      BY <1>7, <1>9, <3>1 DEF Tokens
    <3> HIDE DEF A, B, z
    <3>3. Cardinality(A \cup {z}) = Cardinality(A) + 1 /\ A \cup {z} \in SUBSET B
      BY <2>1, <2>2, <3>2, FS_AddElement
    <3>4. Cardinality(A) + 1 <= Cardinality(B)
      BY <2>3, <3>3, FS_Subset
    <3>5. g[q] = f[q] + 1
      BY <2>4 DEF p
    <3> HIDE DEF g
    <3>6. g[q] <= Cardinality(B)
      BY <2>2, <2>3, <3>4, <3>5
    <3> QED
      BY <3>6 DEF B
  <2>5. CASE q \notin ToSet(p)
    <3>1. g[q] = f[q]
      BY <2>2, <2>5 DEF p
    <3> HIDE DEF A, B, g
    <3>2. Cardinality(A) <= Cardinality(B)
      BY <2>1, <2>3, FS_Subset
    <3>3. g[q] <= Cardinality(B)
      BY <2>2, <2>3, <3>1, <3>2
    <3> QED
      BY <3>3 DEF B
  <2> QED
    BY <2>4, <2>5
<1> HIDE DEF U, l, g
<1>14. BookOf(k, g, U, l)
  BY <1>10, <1>11, <1>12, <1>13 DEF BookOf
<1> QED
  BY <1>14 DEF Book, g

\* All but the ring is as it was.
Ringed(pr, k) ==
  /\ k \in PeerRec /\ RingOK(k)
  /\ k.active = pr.active /\ k.pipe = pr.pipe /\ k.unsol = pr.unsol /\ k.forgot = pr.forgot
  /\ k.have = pr.have /\ k.choked = pr.choked /\ k.strikes = pr.strikes /\ k.cool = pr.cool
  /\ k.proven = pr.proven

Plus(f, A) == [q \in Req |-> f[q] + (IF q \in A THEN 1 ELSE 0)]

\* The requests that peer_expire_requests gives up.
LEMMA RememberAllBook ==
  ASSUME NEW pr \in PeerRec, RingOK(pr), NEW rs, PipeOK(rs), NEW f \in [Req -> Nat], Book(pr, f)
  PROVE  Ringed(pr, RememberAll(pr, rs)) /\ Book(RememberAll(pr, rs), Plus(f, ToSet(rs)))
<1> DEFINE N == Len(rs)
           First(n) == {rs[i] : i \in 1 .. n}
           Turn(n, k) == RememberDropped(k, rs[n])
           X == [n \in 0 .. N |-> {k \in PeerRec : Ringed(pr, k) /\ Book(k, Plus(f, First(n)))}]
           G == [n \in 1 .. N |-> [k \in X[n - 1] |-> Turn(n, k)]]
           Loop(g) == g = [n \in 0 .. N |-> IF n = 0 THEN pr ELSE Turn(n, g[n - 1])]
           g0 == CHOOSE g : Loop(g)
<1>0. N \in Nat /\ rs \in Seq(Asks) /\ \A i, j \in 1 .. N : rs[i] = rs[j] => i = j
  BY DEF PipeOK, IsInjective
<1>1. pr \in X[0]
  <2>1. Plus(f, First(0)) = f
    BY DEF Plus
  <2>2. Ringed(pr, pr)
    BY DEF Ringed
  <2> QED
    BY <1>0, <2>1, <2>2
<1>2. ASSUME NEW n \in 1 .. N, NEW k \in X[n - 1] PROVE Turn(n, k) \in X[n]
  <2>1. n - 1 \in 0 .. N /\ n \in 0 .. N /\ rs[n] \in Asks
    BY <1>0
  <2>2. k \in PeerRec /\ Ringed(pr, k) /\ Book(k, Plus(f, First(n - 1)))
    BY <2>1
  <2>3. First(n) = First(n - 1) \cup {rs[n]} /\ rs[n] \notin First(n - 1)
    <3>1. \A i \in 1 .. n : i = n \/ i \in 1 .. n - 1
      BY <2>1
    <3>2. n \in 1 .. n /\ \A i \in 1 .. n - 1 : i \in 1 .. n /\ i # n /\ i \in 1 .. N
      BY <2>1
    <3> QED
      BY <1>0, <3>1, <3>2
  <2> DEFINE r == rs[n]
             A == First(n - 1)
             t == Turn(n, k)
             h == Plus(f, A)
  <2>4. r \in Asks /\ r \in Req
    BY <2>1, AskForm
  <2>5. Remembered(k, t, r)
    BY <2>2, <2>4, RememberForm DEF Ringed
  <2> HIDE DEF First, r, A, t
  <2>6. h \in [Req -> Nat]
    BY DEF Plus
  <2>7. [h EXCEPT ![r] = @ + 1] = Plus(f, A \cup {r})
    <3>1. \A q \in Req : [h EXCEPT ![r] = @ + 1][q] = Plus(f, A \cup {r})[q]
      BY <2>3, <2>4 DEF Plus, A, r
    <3>2. /\ [h EXCEPT ![r] = @ + 1] = [q \in Req |-> [h EXCEPT ![r] = @ + 1][q]]
          /\ Plus(f, A \cup {r}) = [q \in Req |-> Plus(f, A \cup {r})[q]]
      BY <2>6 DEF Plus
    <3> HIDE DEF h
    <3> QED
      BY <3>1, <3>2
  <2>8. Book(t, [h EXCEPT ![r] = @ + 1])
    <3>1. Book(k, h)
      BY <2>2 DEF A
    <3> HIDE DEF h
    <3> QED
      BY <2>2, <2>4, <2>5, <2>6, <3>1, RememberBook DEF Ringed
  <2>9. Book(t, Plus(f, First(n)))
    BY <2>3, <2>7, <2>8 DEF A, r
  <2>10. Ringed(pr, t) /\ t \in PeerRec
    BY <2>2, <2>5 DEF Ringed, Remembered
  <2> QED
    BY <2>1, <2>9, <2>10 DEF t
<1> HIDE DEF X, Turn
<1>3. Loop(g0)
  <2>1. \A n \in 1 .. N : G[n] \in [X[n - 1] -> X[n]]
    BY <1>2
  <2> HIDE DEF G, Loop, g0, N
  <2>2. PICK g : LoopRun(N, X, pr, G, g)
    BY <1>0, <1>1, <2>1, LoopRuns
  <2>3. ASSUME NEW n \in 1 .. N PROVE G[n][g[n - 1]] = Turn(n, g[n - 1])
    <3>1. g[n - 1] \in X[n - 1]
      BY <1>0, <2>2 DEF LoopRun
    <3> QED
      BY <3>1 DEF G
  <2>4. Loop(g)
    BY <1>0, <2>2, <2>3 DEF Loop, LoopRun
  <2> QED
    BY <2>4 DEF g0
<1>4. RememberAll(pr, rs) = g0[N]
  BY DEF RememberAll, Turn
<1> HIDE DEF g0, N
<1>5. g0[0] = pr /\ \A n \in 1 .. N : g0[n] = Turn(n, g0[n - 1])
  BY <1>0, <1>3
<1> HIDE DEF Loop
<1>6. g0[N] \in X[N]
  <2>1. N \in Nat
    BY <1>0
  <2> QED
    BY <1>1, <1>2, <1>5, <2>1, LoopKeeps
<1>7. First(N) = ToSet(rs)
  BY <1>0 DEF ToSet, N
<1> HIDE DEF First
<1>8. N \in 0 .. N
  BY <1>0
<1> QED
  BY <1>4, <1>6, <1>7, <1>8 DEF X
----------------------------------------------------------------------------
(* A peer and what its remote may still answer.                            *)

In(q, A) == IF q \in A THEN 1 ELSE 0

\* An answer that may come is to a request in the pipeline or to one that
\* was given up.
Settled(pr, ow) ==
  \E f \in [Req -> Nat] : /\ Book(pr, f)
                          /\ \A q \in Req : ow[q] <= f[q] + In(q, ToSet(pr.pipe))

PeerOK(pr, ow) ==
  /\ pr \in PeerRec /\ PipeOK(pr.pipe) /\ RingOK(pr) /\ pr.unsol < MaxUnsolicited
  /\ ~pr.active => pr = NewPeer
  /\ ow \in [Req -> Nat] /\ Settled(pr, ow)

LEMMA NewPeerOK == PeerOK(NewPeer, NoneOwed) /\ NewPeer.pipe = <<>>
<1>1. NewPeer \in PeerRec /\ NewPeer.pipe = <<>> /\ NewPeer.unsol = 0
  BY DEF NewPeer, PeerRec
<1>2. /\ NewPeer.dropped = <<>> /\ NewPeer.drops = 0 /\ NewPeer.forgot = 0
  BY DEF NewPeer
<1>3. RingOK(NewPeer)
  BY <1>2, Sizes DEF RingOK
<1>4. Fell(NewPeer) = 0 /\ InRing(NewPeer) = {}
  <2>0. Len(NewPeer.dropped) = 0 /\ 0 - 0 = 0
    BY <1>2
  <2>1. Fell(NewPeer) = 0
    BY <1>2, <2>0, Zenon DEF Fell
  <2>2. 0 + 1 .. 0 = {}
    OBVIOUS
  <2> QED
    BY <1>2, <2>1, <2>2 DEF InRing
<1>5. NoneOwed \in [Req -> Nat] /\ \A q \in Req : NoneOwed[q] = 0
  BY DEF NoneOwed
<1>6. BookOf(NewPeer, NoneOwed, {}, NoneOwed)
  <2>1. Cardinality({}) = 0
    BY FS_EmptySet
  <2>2. \A q : Tokens({}, NoneOwed, q) = {}
    BY DEF Tokens
  <2>3. Cardinality({} \ InRing(NewPeer)) + NewPeer.unsol <= NewPeer.forgot + Fell(NewPeer)
    <3>1. {} \ InRing(NewPeer) = {}
      OBVIOUS
    <3> QED
      BY <1>1, <1>2, <1>4, <2>1, <3>1
  <2>4. \A q \in Req : NoneOwed[q] <= Cardinality(Tokens({}, NoneOwed, q))
    BY <1>5, <2>1, <2>2
  <2>5. {} \in SUBSET ((-NewPeer.forgot) .. (-1) \cup 1 .. NewPeer.drops)
    OBVIOUS
  <2> QED
    BY <1>4, <2>3, <2>4, <2>5 DEF BookOf
<1>7. Settled(NewPeer, NoneOwed)
  <2>1. Book(NewPeer, NoneOwed)
    BY <1>6 DEF Book
  <2>2. \A q \in Req : NoneOwed[q] <= NoneOwed[q] + In(q, ToSet(NewPeer.pipe))
    BY <1>5 DEF In
  <2> QED
    BY <1>5, <2>1, <2>2 DEF Settled
<1> QED
  BY <1>1, <1>3, <1>5, <1>7, EmptyPipe, Sizes DEF PeerOK

LEMMA GoneOK == ASSUME NEW pr, NEW ow, PeerOK(pr, ow) PROVE PeerOK(pr, NoneOwed)
<1>1. PICK f \in [Req -> Nat] : Book(pr, f)
  BY DEF PeerOK, Settled
<1>2. NoneOwed \in [Req -> Nat] /\ \A q \in Req : NoneOwed[q] = 0
  BY DEF NoneOwed
<1>3. \A q \in Req : NoneOwed[q] <= f[q] + In(q, ToSet(pr.pipe))
  BY <1>2 DEF In
<1> QED
  BY <1>1, <1>2, <1>3 DEF PeerOK, Settled

\* The pipeline changes together with what the remote may answer.
LEMMA SameOK ==
  ASSUME NEW pr, NEW ow, PeerOK(pr, ow), NEW k \in PeerRec, SameBook(pr, k), PipeOK(k.pipe),
         k.active = TRUE, NEW v \in [Req -> Nat],
         \A q \in Req : v[q] + In(q, ToSet(pr.pipe)) <= ow[q] + In(q, ToSet(k.pipe))
  PROVE  PeerOK(k, v)
<1>1. PICK f \in [Req -> Nat] : /\ Book(pr, f)
                                /\ \A q \in Req : ow[q] <= f[q] + In(q, ToSet(pr.pipe))
  BY DEF PeerOK, Settled
<1>2. Book(k, f) /\ RingOK(k)
  BY <1>1, SameBookKeeps DEF PeerOK
<1>3. ASSUME NEW q \in Req PROVE v[q] <= f[q] + In(q, ToSet(k.pipe))
  <2>1. In(q, ToSet(pr.pipe)) \in Nat /\ In(q, ToSet(k.pipe)) \in Nat
    BY DEF In
  <2>2. v[q] \in Nat /\ ow[q] \in Nat /\ f[q] \in Nat
    BY DEF PeerOK
  <2>3. \A a, b, c, x, y \in Nat : a + x <= b + y /\ b <= c + x => a <= c + y
    OBVIOUS
  <2> QED
    BY <1>1, <2>1, <2>2, <2>3
<1>4. Settled(k, v)
  BY <1>2, <1>3 DEF Settled
<1>5. k.unsol < MaxUnsolicited
  BY DEF PeerOK, SameBook
<1> QED
  BY <1>2, <1>4, <1>5 DEF PeerOK

\* A piece nobody waits for, short of the limit.
LEMMA StrikeOK ==
  ASSUME NEW pr, NEW ow, PeerOK(pr, ow), NEW r \in Req, r \notin ToSet(pr.pipe), ow[r] > 0,
         ~WasRecentlyDropped(pr, r), pr.unsol + 1 < MaxUnsolicited, pr.active
  PROVE  /\ PeerOK([pr EXCEPT !.unsol = @ + 1], [ow EXCEPT ![r] = @ - 1])
         /\ [pr EXCEPT !.unsol = @ + 1].pipe = pr.pipe
<1> DEFINE e == pr.unsol + 1
           k == [pr EXCEPT !.unsol = e]
           v == [ow EXCEPT ![r] = @ - 1]
<1>0. pr \in PeerRec /\ pr.unsol \in Nat /\ ow \in [Req -> Nat]
  BY DEF PeerOK, PeerRec
<1>1. e \in Nat
  BY <1>0
<1> HIDE DEF e
<1>2. /\ k \in PeerRec /\ k.unsol = e /\ k.pipe = pr.pipe /\ k.dropped = pr.dropped
      /\ k.drops = pr.drops /\ k.forgot = pr.forgot /\ k.active = pr.active
  BY <1>0, <1>1 DEF PeerRec
<1> HIDE DEF k
<1>3. PICK f \in [Req -> Nat] : /\ Book(pr, f)
                                /\ \A q \in Req : ow[q] <= f[q] + In(q, ToSet(pr.pipe))
  BY DEF PeerOK, Settled
<1>4. f[r] > 0 /\ f[r] \in Nat /\ ow[r] \in Nat
  BY <1>0, <1>3 DEF In
<1> DEFINE g == [f EXCEPT ![r] = @ - 1]
<1>5. Book(k, g)
  BY <1>0, <1>2, <1>3, <1>4, StrikeBook DEF PeerOK, e
<1>6. /\ g \in [Req -> Nat] /\ g[r] = f[r] - 1 /\ (\A q \in Req : q # r => g[q] = f[q])
      /\ v \in [Req -> Nat] /\ v[r] = ow[r] - 1 /\ (\A q \in Req : q # r => v[q] = ow[q])
  BY <1>0, <1>4
<1> HIDE DEF g, v
<1>7. ASSUME NEW q \in Req PROVE v[q] <= g[q] + In(q, ToSet(k.pipe))
  <2>1. CASE q = r
    <3>1. ow[r] <= f[r] + 0
      BY <1>3 DEF In
    <3> QED
      BY <1>2, <1>4, <1>6, <2>1, <3>1 DEF In
  <2>2. CASE q # r
    BY <1>2, <1>3, <1>6, <2>2
  <2> QED
    BY <2>1, <2>2
<1>8. Settled(k, v)
  BY <1>5, <1>6, <1>7 DEF Settled
<1>9. RingOK(k) /\ k.unsol < MaxUnsolicited
  BY <1>2 DEF PeerOK, RingOK, e
<1>10. PeerOK(k, v)
  BY <1>2, <1>6, <1>8, <1>9 DEF PeerOK
<1> QED
  BY <1>2, <1>10 DEF k, e, v

\* A choke releases the whole pipeline.
LEMMA ReleasedOK ==
  ASSUME NEW pr, NEW ow, PeerOK(pr, ow), pr.active
  PROVE  PeerOK(Released(pr), ow) /\ Released(pr).pipe = <<>>
<1> DEFINE e == pr.forgot + Len(pr.pipe)
           z == <<>>
           k == [pr EXCEPT !.pipe = z, !.cool = TRUE, !.forgot = e]
<1>0. pr \in PeerRec /\ pr.forgot \in Nat /\ ow \in [Req -> Nat] /\ Len(pr.pipe) \in Nat
  BY DEF PeerOK, PeerRec, PipeOK
<1>1. e \in Nat /\ z \in Seq(Asks) /\ Released(pr) = k
  BY <1>0 DEF Released
<1> HIDE DEF e, z
<1>2. /\ k \in PeerRec /\ k.unsol = pr.unsol /\ k.pipe = z /\ k.dropped = pr.dropped
      /\ k.drops = pr.drops /\ k.forgot = e /\ k.active = pr.active
  BY <1>0, <1>1 DEF PeerRec
<1> HIDE DEF k
<1>3. PICK f \in [Req -> Nat] : /\ Book(pr, f)
                                /\ \A q \in Req : ow[q] <= f[q] + In(q, ToSet(pr.pipe))
  BY DEF PeerOK, Settled
<1> DEFINE g == Plus(f, ToSet(pr.pipe))
<1>4. Book(k, g)
  <2>1. Book(k, [q \in Req |-> f[q] + (IF q \in ToSet(pr.pipe) THEN 1 ELSE 0)])
    BY <1>0, <1>2, <1>3, ForgetBook DEF PeerOK, e
  <2> QED
    BY <2>1 DEF Plus
<1>5. g \in [Req -> Nat] /\ \A q \in Req : g[q] = f[q] + In(q, ToSet(pr.pipe))
  BY DEF Plus, In
<1> HIDE DEF g
<1>6. ASSUME NEW q \in Req PROVE ow[q] <= g[q] + In(q, ToSet(k.pipe))
  <2>1. ow[q] <= g[q] /\ ow[q] \in Nat /\ g[q] \in Nat
    BY <1>0, <1>3, <1>5
  <2> QED
    BY <2>1 DEF In
<1>7. Settled(k, ow)
  BY <1>4, <1>5, <1>6 DEF Settled
<1>8. RingOK(k) /\ k.unsol < MaxUnsolicited
  BY <1>2 DEF PeerOK, RingOK
<1>9. PeerOK(k, ow)
  BY <1>0, <1>2, <1>7, <1>8, EmptyPipe DEF PeerOK, z
<1> QED
  BY <1>1, <1>2, <1>9 DEF z

\* Requests are remembered and taken from the pipeline.
LEMMA GivenUpOK ==
  ASSUME NEW pr, NEW ow, PeerOK(pr, ow), NEW h, NEW A, Ringed(pr, h),
         \A f \in [Req -> Nat] : Book(pr, f) => Book(h, Plus(f, A)),
         NEW k \in PeerRec, SameBook(h, k), PipeOK(k.pipe), k.active = TRUE,
         ToSet(k.pipe) = ToSet(pr.pipe) \ A
  PROVE  PeerOK(k, ow)
<1>1. PICK f \in [Req -> Nat] : /\ Book(pr, f)
                                /\ \A q \in Req : ow[q] <= f[q] + In(q, ToSet(pr.pipe))
  BY DEF PeerOK, Settled
<1> DEFINE g == Plus(f, A)
<1>2. Ringed(pr, h) /\ Book(h, g)
  BY <1>1
<1>3. g \in [Req -> Nat] /\ \A q \in Req : g[q] = f[q] + In(q, A)
  BY DEF Plus, In
<1> HIDE DEF g
<1>4. Book(k, g) /\ RingOK(k)
  BY <1>2, SameBookKeeps DEF Ringed
<1>5. ASSUME NEW q \in Req PROVE ow[q] <= g[q] + In(q, ToSet(k.pipe))
  <2>1. ow[q] <= f[q] + In(q, ToSet(pr.pipe)) /\ ow[q] \in Nat /\ f[q] \in Nat
    BY <1>1 DEF PeerOK
  <2>2. In(q, ToSet(pr.pipe)) <= In(q, A) + In(q, ToSet(k.pipe))
    BY DEF In
  <2>3. /\ In(q, ToSet(pr.pipe)) \in Nat /\ In(q, A) \in Nat
        /\ In(q, ToSet(k.pipe)) \in Nat
    BY DEF In
  <2>4. \A a, b, x, y, z \in Nat : a <= b + x /\ x <= y + z => a <= (b + y) + z
    OBVIOUS
  <2> QED
    BY <1>3, <2>1, <2>2, <2>3, <2>4
<1>6. Settled(k, ow)
  BY <1>3, <1>4, <1>5 DEF Settled
<1>7. k.unsol < MaxUnsolicited
  BY <1>2 DEF PeerOK, SameBook, Ringed
<1> QED
  BY <1>4, <1>6, <1>7 DEF PeerOK

\* peer_cancel_block of a request in the pipeline
LEMMA CancelOK ==
  ASSUME NEW pr, NEW ow, PeerOK(pr, ow), NEW r \in Asks, r \in ToSet(pr.pipe)
  PROVE  /\ PeerOK(CancelBlock(pr, r), ow)
         /\ ToSet(CancelBlock(pr, r).pipe) = ToSet(pr.pipe) \ {r}
<1> DEFINE h == RememberDropped(pr, r)
           z == RemoveFirst(h.pipe, r)
           k == [h EXCEPT !.pipe = z]
<1>1. CancelBlock(pr, r) = k
  BY DEF CancelBlock, RemovePipeline
<1>2. pr \in PeerRec /\ RingOK(pr) /\ PipeOK(pr.pipe)
  BY DEF PeerOK
<1>3. Remembered(pr, h, r)
  BY <1>2, RememberForm
<1> HIDE DEF h
<1>4. Ringed(pr, h) /\ h.pipe = pr.pipe /\ h \in PeerRec
  BY <1>3 DEF Ringed, Remembered
<1>5. PipeOK(z) /\ ToSet(z) = ToSet(pr.pipe) \ {r}
  BY <1>2, <1>4, RemoveForm
<1>6. z \in Seq(Asks)
  BY <1>5 DEF PipeOK
<1> HIDE DEF z
<1>7. /\ k \in PeerRec /\ k.pipe = z /\ k.active = h.active /\ SameBook(h, k)
  BY <1>4, <1>6 DEF PeerRec, SameBook
<1> HIDE DEF k
<1>8. ASSUME NEW f \in [Req -> Nat], Book(pr, f) PROVE Book(h, Plus(f, {r}))
  <2>1. Book(h, [f EXCEPT ![r] = @ + 1])
    BY <1>2, <1>3, <1>8, RememberBook
  <2>2. r \in Req
    BY AskForm
  <2> DEFINE a == [f EXCEPT ![r] = @ + 1]
             b == Plus(f, {r})
  <2>3. \A q \in Req : a[q] = b[q]
    BY <2>2 DEF Plus
  <2>4. a \in [Req -> Nat] /\ b \in [Req -> Nat]
    <3>1. a \in [Req -> Nat]
      BY <2>2
    <3>2. b \in [Req -> Nat]
      BY DEF Plus
    <3> QED
      BY <3>1, <3>2
  <2>5. a = b
    <3> HIDE DEF a, b
    <3> QED
      BY <2>3, <2>4
  <2> QED
    BY <2>1, <2>5
<1>9. pr.active = TRUE
  <2>1. ToSet(NewPeer.pipe) = {}
    BY NewPeerOK, EmptyPipe
  <2> QED
    BY <1>2, <2>1 DEF PeerOK, PeerRec
<1>10. k.active = TRUE
  BY <1>4, <1>7, <1>9 DEF Ringed
<1>11. PeerOK(k, ow)
  BY <1>4, <1>5, <1>7, <1>8, <1>10, GivenUpOK
<1> QED
  BY <1>1, <1>5, <1>7, <1>11

\* What the timeout sweep makes of a peer it does not drop.
Swept(pr, k, graced) ==
  LET kept == [RememberAll(pr, SubSeq(pr.pipe, 1, k))
                 EXCEPT !.pipe = SubSeq(@, k + 1, Len(@))]
  IN  IF graced THEN kept ELSE [kept EXCEPT !.strikes = @ + 1, !.cool = TRUE]

LEMMA SweptOK ==
  ASSUME NEW pr, NEW ow, PeerOK(pr, ow), pr.active, NEW n \in 1 .. Len(pr.pipe),
         NEW graced \in BOOLEAN
  PROVE  /\ PeerOK(Swept(pr, n, graced), ow)
         /\ PipeOK(SubSeq(pr.pipe, 1, n))
         /\ ToSet(SubSeq(pr.pipe, 1, n)) \subseteq ToSet(pr.pipe)
         /\ ToSet(Swept(pr, n, graced).pipe) = ToSet(pr.pipe) \ ToSet(SubSeq(pr.pipe, 1, n))
<1> DEFINE p == pr.pipe
           old == SubSeq(p, 1, n)
           rest == SubSeq(p, n + 1, Len(p))
           h == RememberAll(pr, old)
           k == [h EXCEPT !.pipe = rest]
           e == k.strikes + 1
           j == [k EXCEPT !.strikes = e, !.cool = TRUE]
<1>1. pr \in PeerRec /\ RingOK(pr) /\ PipeOK(p)
  BY DEF PeerOK
<1>2. /\ PipeOK(old) /\ PipeOK(rest)
      /\ ToSet(old) = ToSet(p) \ ToSet(rest) /\ ToSet(rest) = ToSet(p) \ ToSet(old)
  BY <1>1, SplitForm
<1>3. \A f \in [Req -> Nat] : Book(pr, f) => Ringed(pr, h) /\ Book(h, Plus(f, ToSet(old)))
  <2> HIDE DEF old
  <2> QED
    BY <1>1, <1>2, RememberAllBook
<1>4. Ringed(pr, h)
  <2>1. \E f \in [Req -> Nat] : Book(pr, f)
    BY DEF PeerOK, Settled
  <2> HIDE DEF h
  <2> QED
    BY <1>3, <2>1
<1>5. h.pipe = p
  BY <1>4 DEF Ringed
<1>6. Swept(pr, n, graced) = IF graced THEN k ELSE j
  <2> HIDE DEF h
  <2>1. k = [h EXCEPT !.pipe = SubSeq(@, n + 1, Len(@))]
    BY <1>5
  <2> QED
    BY <2>1 DEF Swept, h, old
<1> HIDE DEF h
<1>7. h \in PeerRec /\ h.active = pr.active /\ rest \in Seq(Asks)
  BY <1>2, <1>4 DEF Ringed, PipeOK
<1> HIDE DEF rest
<1>8. k \in PeerRec /\ SameBook(h, k) /\ k.pipe = rest /\ k.active = TRUE
  <2>1. k \in PeerRec /\ SameBook(h, k) /\ k.pipe = rest /\ k.active = h.active
    BY <1>7 DEF PeerRec, SameBook
  <2>2. pr.active = TRUE
    BY <1>1 DEF PeerRec
  <2> QED
    BY <1>7, <2>1, <2>2
<1> HIDE DEF k
<1>9. e \in Nat
  BY <1>8 DEF PeerRec
<1> HIDE DEF e
<1>10. j \in PeerRec /\ SameBook(h, j) /\ j.pipe = rest /\ j.active = TRUE
  BY <1>8, <1>9 DEF PeerRec, SameBook
<1> HIDE DEF j, old
<1>11. PeerOK(k, ow)
  BY <1>2, <1>3, <1>4, <1>8, GivenUpOK
<1>12. PeerOK(j, ow)
  BY <1>2, <1>3, <1>4, <1>10, GivenUpOK
<1> QED
  BY <1>2, <1>6, <1>8, <1>10, <1>11, <1>12 DEF old, rest
----------------------------------------------------------------------------
(* Scheduling.                                                             *)

Accs == [m : MgrRec, pr : PeerRec, room : Nat, go : BOOLEAN]

\* The pipeline of pr has grown, and the counts of m with it.
Filled(m, pr, acc) ==
  /\ acc \in Accs /\ MgrInv(acc.m, None) /\ Asked(acc.m) /\ PipeOK(acc.pr.pipe)
  /\ acc.pr.active = pr.active /\ SameBook(pr, acc.pr)
  /\ ToSet(pr.pipe) \subseteq ToSet(acc.pr.pipe)
  /\ \A r \in Asks : Follows(Count(m, r), Count(acc.m, r), ToSet(pr.pipe), ToSet(acc.pr.pipe), r)

\* The manager changes and takes requests back at most.
LEMMA FilledEase ==
  ASSUME NEW m, MgrInv(m, None), NEW pr, NEW acc, Filled(m, pr, acc),
         NEW k, MgrInv(k, None), Asked(k),
         \A r \in Asks : Count(k, r) <= Count(acc.m, r), NEW g \in BOOLEAN
  PROVE  Filled(m, pr, [acc EXCEPT !.m = k, !.go = g])
<1> DEFINE a == [acc EXCEPT !.m = k, !.go = g]
<1>1. acc \in Accs /\ k \in MgrRec
  BY DEF Filled, MgrInv
<1>2. a \in Accs /\ a.m = k /\ a.pr = acc.pr
  BY <1>1 DEF Accs
<1> HIDE DEF a
<1>3. ASSUME NEW r \in Asks
      PROVE  Follows(Count(m, r), Count(k, r), ToSet(pr.pipe), ToSet(acc.pr.pipe), r)
  <2>1. Count(m, r) \in Nat /\ Count(acc.m, r) \in Nat /\ Count(k, r) \in Nat
    BY CountType, MgrAssumption DEF Filled
  <2>2. Follows(Count(m, r), Count(acc.m, r), ToSet(pr.pipe), ToSet(acc.pr.pipe), r)
    BY DEF Filled
  <2>3. \A x, y, z \in Nat : \A A, B : Follows(x, y, A, B, r) /\ z <= y => Follows(x, z, A, B, r)
    BY DEF Follows, Less
  <2>4. Count(k, r) <= Count(acc.m, r)
    OBVIOUS
  <2> QED
    BY <2>1, <2>2, <2>3, <2>4
<1>4. Filled(m, pr, a)
  BY <1>2, <1>3 DEF Filled
<1> QED
  BY <1>4 DEF a

\* One block.
LEMMA BlockFills ==
  ASSUME NEW m, MgrInv(m, None), NEW pr, NEW acc, Filled(m, pr, acc),
         NEW p \in Pieces, NEW b \in Blocks(p), NEW limit \in Nat, limit <= PipeMax
  PROVE  Filled(m, pr, ScheduleBlock(acc, p, b, limit))
<1>1. CASE ~(Len(acc.pr.pipe) < limit /\ acc.room > 0 /\ b \in Unasked(acc.m, acc.pr, p))
  <2>1. ScheduleBlock(acc, p, b, limit) = acc
    BY <1>1 DEF ScheduleBlock
  <2> QED
    BY <2>1
<1>2. CASE Len(acc.pr.pipe) < limit /\ acc.room > 0 /\ b \in Unasked(acc.m, acc.pr, p)
  <2> DEFINE r == <<p, b>>
             n == acc.m
             q == acc.pr
             k == MarkBlockRequested(n, p, b)
             z == Append(q.pipe, r)
             j == [q EXCEPT !.pipe = z]
             e == acc.room - 1
             a == [m |-> k, pr |-> j, room |-> e, go |-> TRUE]
  <2>1. ScheduleBlock(acc, p, b, limit) = a
    BY <1>2 DEF ScheduleBlock
  <2>2. r \in Asks /\ r[1] = p /\ r[2] = b
    BY AskForm
  <2> HIDE DEF r
  <2>3. /\ MgrInv(n, None) /\ Asked(n) /\ PipeOK(q.pipe) /\ q \in PeerRec /\ acc.room \in Nat
    BY DEF Filled, Accs
  <2>4. b \notin n.blocks[p] /\ r \notin ToSet(q.pipe)
    BY <1>2, HoldsForm DEF Unasked, r
  <2>5. Len(q.pipe) < PipeMax
    BY <1>2, <2>3, Sizes DEF PipeOK
  <2>6. /\ MgrInv(k, None) /\ Asked(k) /\ Count(k, r) <= Count(n, r) + 1
        /\ \A c \in Asks : c # r => Count(k, c) = Count(n, c)
    <3>1. LET K == MarkBlockRequested(n, r[1], r[2])
          IN  /\ MgrInv(K, None) /\ Asked(K) /\ Count(K, r) <= Count(n, r) + 1
              /\ \A c \in Asks : c # r => Count(K, c) = Count(n, c)
      <4> HIDE DEF n
      <4> QED
        BY <2>2, <2>3, <2>4, MarkForm
    <3> QED
      BY <2>2, <3>1
  <2>7. PipeOK(z) /\ ToSet(z) = ToSet(q.pipe) \cup {r}
    <3> HIDE DEF q
    <3> QED
      BY <2>2, <2>3, <2>4, <2>5, AppendPipe
  <2>8. z \in Seq(Asks) /\ e \in Nat /\ k \in MgrRec
    BY <1>2, <2>3, <2>6, <2>7 DEF PipeOK, MgrInv
  <2> HIDE DEF z, e, k, q
  <2>9. /\ j \in PeerRec /\ j.pipe = z /\ j.active = q.active /\ SameBook(q, j)
    BY <2>3, <2>8 DEF PeerRec, SameBook
  <2> HIDE DEF j
  <2>10. a \in Accs /\ a.m = k /\ a.pr = j
    BY <2>8, <2>9 DEF Accs
  <2> HIDE DEF a, n
  <2>11. /\ q.active = pr.active /\ SameBook(pr, q) /\ ToSet(pr.pipe) \subseteq ToSet(q.pipe)
         /\ \A c \in Asks : Follows(Count(m, c), Count(n, c), ToSet(pr.pipe), ToSet(q.pipe), c)
    BY DEF Filled, q, n
  <2>12. ASSUME NEW c \in Asks
         PROVE  Follows(Count(m, c), Count(k, c), ToSet(pr.pipe), ToSet(z), c)
    <3> DEFINE x == Count(m, c)
               y == Count(n, c)
               w == Count(k, c)
               A == ToSet(pr.pipe)
               B == ToSet(q.pipe)
    <3>1. x \in Nat /\ y \in Nat /\ w \in Nat
      BY <2>3, <2>6, CountType, MgrAssumption
    <3>2. Follows(x, y, A, B, c) /\ ToSet(z) = B \cup {r} /\ A \subseteq B /\ r \notin B
      BY <2>4, <2>7, <2>11
    <3>3. IF c = r THEN w <= y + 1 ELSE w = y
      BY <2>6
    <3> HIDE DEF x, y, w, A, B
    <3>4. Follows(x, w, A, B \cup {r}, c)
      BY <3>1, <3>2, <3>3 DEF Follows, Less
    <3> QED
      BY <3>2, <3>4 DEF x, w, A
  <2>13. /\ j.active = pr.active /\ SameBook(pr, j) /\ ToSet(pr.pipe) \subseteq ToSet(z)
    BY <2>7, <2>9, <2>11 DEF SameBook
  <2>14. Filled(m, pr, a)
    BY <2>6, <2>7, <2>9, <2>10, <2>12, <2>13 DEF Filled
  <2> QED
    BY <2>1, <2>14
<1> QED
  BY <1>1, <1>2

\* The blocks of a piece.
LEMMA PieceFills ==
  ASSUME NEW m, MgrInv(m, None), NEW pr, NEW acc, Filled(m, pr, acc), NEW p \in Pieces,
         NEW limit \in Nat, limit <= PipeMax
  PROVE  Filled(m, pr, SchedulePiece(acc, p, limit))
<1> DEFINE N == BlockCount[p]
           k == MarkPending(acc.m, p, TRUE)
           a == [acc EXCEPT !.m = k, !.go = FALSE]
           Turn(n, c) == ScheduleBlock(c, p, n - 1, limit)
           D == {c \in Accs : Filled(m, pr, c)}
           X == [n \in 0 .. N |-> D]
           G == [n \in 1 .. N |-> [c \in X[n - 1] |-> Turn(n, c)]]
           Loop(g) == g = [n \in 0 .. N |-> IF n = 0 THEN a ELSE Turn(n, g[n - 1])]
           f == CHOOSE g : Loop(g)
<1>0. N \in Nat
  BY MgrAssumption
<1>1. a \in X[0]
  <2>1. MgrInv(acc.m, None) /\ Asked(acc.m)
    BY DEF Filled
  <2>2. MgrInv(k, None) /\ Eased(acc.m, k)
    BY <2>1, PendingKeeps DEF Fed
  <2>3. Asked(k) /\ \A r \in Asks : Count(k, r) <= Count(acc.m, r)
    BY <2>1, <2>2, EasedForm
  <2> HIDE DEF k
  <2>4. Filled(m, pr, a)
    BY <2>2, <2>3, FilledEase
  <2>5. a \in Accs
    BY <2>4 DEF Filled
  <2> HIDE DEF a
  <2> QED
    BY <1>0, <2>4, <2>5
<1> HIDE DEF a
<1>2. ASSUME NEW n \in 1 .. N, NEW c \in X[n - 1] PROVE Turn(n, c) \in X[n]
  <2>1. n - 1 \in 0 .. N /\ n \in 0 .. N /\ n - 1 \in Blocks(p)
    BY <1>0 DEF Blocks
  <2>2. Filled(m, pr, c)
    BY <2>1
  <2>3. Filled(m, pr, Turn(n, c))
    BY <2>1, <2>2, BlockFills
  <2> HIDE DEF Turn
  <2>4. Turn(n, c) \in Accs
    BY <2>3 DEF Filled
  <2> QED
    BY <2>1, <2>3, <2>4
<1> HIDE DEF X, Turn
<1>3. Loop(f)
  <2>1. \A n \in 1 .. N : G[n] \in [X[n - 1] -> X[n]]
    BY <1>2
  <2> HIDE DEF G, Loop, f, N
  <2>2. PICK g : LoopRun(N, X, a, G, g)
    BY <1>0, <1>1, <2>1, LoopRuns
  <2>3. ASSUME NEW n \in 1 .. N PROVE G[n][g[n - 1]] = Turn(n, g[n - 1])
    <3>1. g[n - 1] \in X[n - 1]
      BY <1>0, <2>2 DEF LoopRun
    <3> QED
      BY <3>1 DEF G
  <2>4. Loop(g)
    BY <1>0, <2>2, <2>3 DEF Loop, LoopRun
  <2> QED
    BY <2>4 DEF f
<1>4. SchedulePiece(acc, p, limit) = f[N]
  BY DEF SchedulePiece, Turn, a
<1> HIDE DEF f, N
<1>5. f[0] = a /\ \A n \in 1 .. N : f[n] = Turn(n, f[n - 1])
  BY <1>0, <1>3
<1> HIDE DEF Loop
<1>6. f[N] \in X[N]
  BY <1>0, <1>1, <1>2, <1>5, LoopKeeps
<1>8. N \in 0 .. N
  BY <1>0
<1> QED
  BY <1>4, <1>6, <1>8 DEF X

\* One round.
LEMMA RoundFills ==
  ASSUME NEW m, MgrInv(m, None), NEW pr, NEW acc, Filled(m, pr, acc),
         NEW limit \in Nat, limit <= PipeMax
  PROVE  Filled(m, pr, ScheduleRound(acc, limit))
<1> DEFINE p == IF acc.go /\ Len(acc.pr.pipe) < limit
                THEN Pick(acc.m, acc.pr.have, Pieces, Lookahead, TRUE) ELSE None
           a == [acc EXCEPT !.go = FALSE]
<1>1. /\ MgrInv(acc.m, None) /\ Asked(acc.m) /\ acc \in Accs /\ acc.pr.have \in SUBSET Pieces
  BY DEF Filled, Accs, PeerRec
<1>2. p \in Pieces \cup {None}
  <2>1. Pick(acc.m, acc.pr.have, Pieces, Lookahead, TRUE) \in Pieces \cup {None}
    <3>1. Lookahead \in Nat
      BY MgrAssumption
    <3> QED
      BY <1>1, <3>1, PickInRange DEF Choice
  <2> QED
    BY <2>1
<1>3. ScheduleRound(acc, limit) = IF p = None THEN a ELSE SchedulePiece(acc, p, limit)
  BY DEF ScheduleRound
<1> HIDE DEF p
<1>4. CASE p = None
  <2>1. a = [acc EXCEPT !.m = acc.m, !.go = FALSE]
    BY <1>1 DEF Accs
  <2>2. \A r \in Asks : Count(acc.m, r) <= Count(acc.m, r)
    <3>1. \A r \in Asks : Count(acc.m, r) \in Nat
      BY <1>1, CountType, MgrAssumption
    <3> QED
      BY <3>1
  <2>3. Filled(m, pr, [acc EXCEPT !.m = acc.m, !.go = FALSE])
    BY <1>1, <2>2, FilledEase
  <2> QED
    BY <1>3, <1>4, <2>1, <2>3
<1>5. CASE p # None
  BY <1>2, <1>3, <1>5, PieceFills
<1> QED
  BY <1>4, <1>5

\* schedule_requests
LEMMA ScheduleFills ==
  ASSUME MgrInv(pm, None), Asked(pm), NEW pr \in PeerRec, PipeOK(pr.pipe),
         NEW limit \in Nat, limit <= PipeMax, NEW room \in Nat
  PROVE  Filled(pm, pr, ScheduleResult(pr, limit, room))
<1> DEFINE N == limit
           a == [m |-> pm, pr |-> pr, room |-> room, go |-> TRUE]
           Turn(n, c) == ScheduleRound(c, limit)
           D == {c \in Accs : Filled(pm, pr, c)}
           X == [n \in 0 .. N |-> D]
           G == [n \in 1 .. N |-> [c \in X[n - 1] |-> Turn(n, c)]]
           Loop(g) == g = [n \in 0 .. N |-> IF n = 0 THEN a ELSE Turn(n, g[n - 1])]
           f == CHOOSE g : Loop(g)
<1>0. N \in Nat
  OBVIOUS
<1>1. a \in X[0]
  <2>1. pm \in MgrRec
    BY DEF MgrInv
  <2>2. a \in Accs /\ a.m = pm /\ a.pr = pr
    BY <2>1 DEF Accs
  <2>3. \A r \in Asks : Follows(Count(pm, r), Count(pm, r), ToSet(pr.pipe), ToSet(pr.pipe), r)
    <3>1. \A r \in Asks : Count(pm, r) \in Nat
      BY CountType, MgrAssumption
    <3> QED
      BY <3>1 DEF Follows
  <2> HIDE DEF a
  <2>4. Filled(pm, pr, a)
    BY <2>2, <2>3 DEF Filled, SameBook
  <2> QED
    BY <1>0, <2>2, <2>4
<1> HIDE DEF a
<1>2. ASSUME NEW n \in 1 .. N, NEW c \in X[n - 1] PROVE Turn(n, c) \in X[n]
  <2>1. n - 1 \in 0 .. N /\ n \in 0 .. N
    BY <1>0
  <2>2. Filled(pm, pr, c)
    BY <2>1
  <2>3. Filled(pm, pr, Turn(n, c))
    BY <2>2, RoundFills
  <2> HIDE DEF Turn
  <2>4. Turn(n, c) \in Accs
    BY <2>3 DEF Filled
  <2> QED
    BY <2>1, <2>3, <2>4
<1> HIDE DEF X, Turn
<1>3. Loop(f)
  <2>1. \A n \in 1 .. N : G[n] \in [X[n - 1] -> X[n]]
    BY <1>2
  <2> HIDE DEF G, Loop, f, N
  <2>2. PICK g : LoopRun(N, X, a, G, g)
    BY <1>0, <1>1, <2>1, LoopRuns
  <2>3. ASSUME NEW n \in 1 .. N PROVE G[n][g[n - 1]] = Turn(n, g[n - 1])
    <3>1. g[n - 1] \in X[n - 1]
      BY <1>0, <2>2 DEF LoopRun
    <3> QED
      BY <3>1 DEF G
  <2>4. Loop(g)
    BY <1>0, <2>2, <2>3 DEF Loop, LoopRun
  <2> QED
    BY <2>4 DEF f
<1>4. ScheduleResult(pr, limit, room) = f[N]
  BY DEF ScheduleResult, Turn, a
<1> HIDE DEF f, N
<1>5. f[0] = a /\ \A n \in 1 .. N : f[n] = Turn(n, f[n - 1])
  BY <1>0, <1>3
<1> HIDE DEF Loop
<1>6. f[N] \in X[N]
  BY <1>0, <1>1, <1>2, <1>5, LoopKeeps
<1>8. N \in 0 .. N
  BY <1>0
<1> QED
  BY <1>4, <1>6, <1>8 DEF X
----------------------------------------------------------------------------
(* The invariant.                                                          *)

StateOK(m, prs, ow) ==
  /\ MgrInv(m, None) /\ Asked(m)
  /\ prs \in [Conns -> PeerRec] /\ ow \in [Conns -> [Req -> Nat]]
  /\ \A c \in Conns : PeerOK(prs[c], ow[c])
  /\ Backed(m, prs)

ReqInv == /\ StateOK(pm, peer, owed)
          /\ burst \in Conns \cup {None} /\ faults \in 0 .. MaxFaults

\* A step of one peer.
LEMMA OneStep ==
  ASSUME NEW m, NEW prs, NEW ow, StateOK(m, prs, ow), NEW s \in Conns,
         NEW k, MgrInv(k, None), Asked(k), NEW j, NEW v, PeerOK(j, v),
         \A r \in Asks : Follows(Count(m, r), Count(k, r), ToSet(prs[s].pipe), ToSet(j.pipe), r)
  PROVE  StateOK(k, [prs EXCEPT ![s] = j], [ow EXCEPT ![s] = v])
<1> DEFINE qrs == [prs EXCEPT ![s] = j]
           vow == [ow EXCEPT ![s] = v]
<1>1. /\ MgrInv(m, None) /\ Backed(m, prs)
      /\ prs \in [Conns -> PeerRec] /\ ow \in [Conns -> [Req -> Nat]]
      /\ \A c \in Conns : PeerOK(prs[c], ow[c])
  BY DEF StateOK
<1>2. j \in PeerRec /\ v \in [Req -> Nat]
  BY DEF PeerOK
<1>3. qrs \in [Conns -> PeerRec] /\ qrs[s] = j /\ \A c \in Conns : c # s => qrs[c] = prs[c]
  BY <1>1, <1>2
<1>4. vow \in [Conns -> [Req -> Nat]] /\ vow[s] = v /\ \A c \in Conns : c # s => vow[c] = ow[c]
  BY <1>1, <1>2
<1> HIDE DEF qrs, vow
<1>5. \A c \in Conns : PeerOK(qrs[c], vow[c])
  BY <1>1, <1>3, <1>4
<1>6. Backed(k, qrs)
  <2>1. \A c \in Conns : c # s => qrs[c].pipe = prs[c].pipe
    BY <1>3
  <2>2. \A r \in Asks : Follows(Count(m, r), Count(k, r), ToSet(prs[s].pipe), ToSet(qrs[s].pipe), r)
    BY <1>3
  <2> QED
    BY <1>1, <2>1, <2>2, BackedStep
<1>7. StateOK(k, qrs, vow)
  BY <1>3, <1>4, <1>5, <1>6 DEF StateOK
<1> QED
  BY <1>7 DEF qrs, vow

LEMMA FollowsSame ==
  ASSUME NEW m, MgrInv(m, None), NEW A
  PROVE  \A r \in Asks : Follows(Count(m, r), Count(m, r), A, A, r)
<1>1. \A r \in Asks : Count(m, r) \in Nat
  BY CountType, MgrAssumption
<1> QED
  BY <1>1 DEF Follows

\* Requests are taken back and leave the pipeline.
LEMMA TakenFollows ==
  ASSUME NEW m, MgrInv(m, None), NEW k, NEW A, NEW O \in SUBSET A, TakenBack(m, k, O)
  PROVE  \A r \in Asks : Follows(Count(m, r), Count(k, r), A, A \ O, r)
<1> SUFFICES ASSUME NEW r \in Asks PROVE Follows(Count(m, r), Count(k, r), A, A \ O, r)
  OBVIOUS
<1>1. Count(m, r) \in Nat /\ Count(k, r) \in Nat
  BY CountType, MgrAssumption DEF TakenBack
<1>2. IF r \in O THEN Less(Count(m, r), Count(k, r)) ELSE Count(k, r) = Count(m, r)
  BY DEF TakenBack
<1> QED
  BY <1>1, <1>2 DEF Follows

\* A step of one peer that leaves its pipeline and the ring alone.
LEMMA Touched ==
  ASSUME NEW m, NEW prs, NEW ow, StateOK(m, prs, ow), NEW s \in Conns, NEW j \in PeerRec,
         SameBook(prs[s], j), j.pipe = prs[s].pipe, j.active = TRUE
  PROVE  StateOK(m, [prs EXCEPT ![s] = j], ow)
<1>1. /\ MgrInv(m, None) /\ Asked(m) /\ PeerOK(prs[s], ow[s]) /\ ow \in [Conns -> [Req -> Nat]]
      /\ ow[s] \in [Req -> Nat]
  BY DEF StateOK
<1>2. PeerOK(j, ow[s])
  <2>1. PipeOK(j.pipe)
    BY <1>1 DEF PeerOK
  <2>2. \A q \in Req : ow[s][q] + In(q, ToSet(prs[s].pipe)) <= ow[s][q] + In(q, ToSet(j.pipe))
    BY <1>1 DEF In
  <2> QED
    BY <1>1, <2>1, <2>2, SameOK
<1>3. \A r \in Asks : Follows(Count(m, r), Count(m, r), ToSet(prs[s].pipe), ToSet(j.pipe), r)
  BY <1>1, FollowsSame
<1>4. StateOK(m, [prs EXCEPT ![s] = j], [ow EXCEPT ![s] = ow[s]])
  BY <1>1, <1>2, <1>3, OneStep
<1>5. [ow EXCEPT ![s] = ow[s]] = ow
  BY <1>1
<1> QED
  BY <1>4, <1>5

\* The remote forgets what it was asked.
LEMMA GoneStep ==
  ASSUME NEW m, NEW prs, NEW ow, StateOK(m, prs, ow), NEW s \in Conns
  PROVE  StateOK(m, prs, [ow EXCEPT ![s] = NoneOwed])
<1>1. /\ MgrInv(m, None) /\ Asked(m) /\ PeerOK(prs[s], ow[s]) /\ prs \in [Conns -> PeerRec]
  BY DEF StateOK
<1>2. PeerOK(prs[s], NoneOwed)
  BY <1>1, GoneOK
<1>3. \A r \in Asks : Follows(Count(m, r), Count(m, r), ToSet(prs[s].pipe), ToSet(prs[s].pipe), r)
  BY <1>1, FollowsSame
<1>4. StateOK(m, [prs EXCEPT ![s] = prs[s]], [ow EXCEPT ![s] = NoneOwed])
  BY <1>1, <1>2, <1>3, OneStep
<1>5. [prs EXCEPT ![s] = prs[s]] = prs
  BY <1>1
<1> QED
  BY <1>4, <1>5

\* clear_peer_requests and peer_destroy
LEMMA LostStep ==
  ASSUME NEW m, NEW prs, NEW ow, StateOK(m, prs, ow), NEW s \in Conns
  PROVE  StateOK(ClearRequests(m, prs[s].pipe), [prs EXCEPT ![s] = NewPeer],
                 [ow EXCEPT ![s] = NoneOwed])
<1> DEFINE p == prs[s].pipe
           k == ClearRequests(m, p)
<1>1. MgrInv(m, None) /\ Asked(m) /\ p \in Seq(Asks)
  BY DEF StateOK, PeerOK, PipeOK
<1>2. TakenBack(m, k, ToSet(p))
  BY <1>1, ClearKeeps
<1>3. MgrInv(k, None) /\ Asked(k)
  BY <1>2 DEF TakenBack
<1> HIDE DEF k
<1>4. ToSet(NewPeer.pipe) = ToSet(p) \ ToSet(p)
  BY NewPeerOK, EmptyPipe
<1>5. \A r \in Asks : Follows(Count(m, r), Count(k, r), ToSet(p), ToSet(NewPeer.pipe), r)
  <2> DEFINE A == ToSet(p)
  <2>1. A \in SUBSET A /\ TakenBack(m, k, A)
    BY <1>2
  <2> HIDE DEF A
  <2>2. \A r \in Asks : Follows(Count(m, r), Count(k, r), A, A \ A, r)
    BY <1>1, <2>1, TakenFollows
  <2> QED
    BY <1>4, <2>2 DEF A
<1>6. StateOK(k, [prs EXCEPT ![s] = NewPeer], [ow EXCEPT ![s] = NoneOwed])
  BY <1>3, <1>5, NewPeerOK, OneStep
<1> QED
  BY <1>6 DEF k

\* The end of a burst.
LEMMA BurstStep ==
  ASSUME NEW m, NEW prs, NEW ow, StateOK(m, prs, ow), NEW s \in Conns, prs[s].active,
         NEW last \in BOOLEAN, EndOfBurst(s, m, prs, last)
  PROVE  StateOK(pm', peer', ow) /\ burst' \in Conns \cup {None}
<1> DEFINE p == prs[s].pipe
           k == ClearRequests(m, p)
           j == Released(prs[s])
<1>1. /\ MgrInv(m, None) /\ Asked(m) /\ PeerOK(prs[s], ow[s]) /\ p \in Seq(Asks)
      /\ ow \in [Conns -> [Req -> Nat]]
  BY DEF StateOK, PeerOK, PipeOK
<1>2. CASE s \notin UtpConns /\ prs[s].choked /\ prs[s].pipe # <<>> /\ last
  <2>1. /\ pm' = k /\ burst' = None
        /\ peer' = [prs EXCEPT ![s] = j]
    BY <1>2 DEF EndOfBurst
  <2>3. TakenBack(m, k, ToSet(p))
    BY <1>1, ClearKeeps
  <2>4. MgrInv(k, None) /\ Asked(k)
    BY <2>3 DEF TakenBack
  <2>5. PeerOK(j, ow[s]) /\ j.pipe = <<>>
    BY <1>1, ReleasedOK
  <2> HIDE DEF k, j
  <2>6. \A r \in Asks : Follows(Count(m, r), Count(k, r), ToSet(p), ToSet(j.pipe), r)
    <3> DEFINE A == ToSet(p)
    <3>1. A \in SUBSET A /\ TakenBack(m, k, A)
      BY <2>3
    <3>2. ToSet(j.pipe) = A \ A
      BY <2>5, EmptyPipe
    <3> HIDE DEF A
    <3>3. \A r \in Asks : Follows(Count(m, r), Count(k, r), A, A \ A, r)
      BY <1>1, <3>1, TakenFollows
    <3> QED
      BY <3>2, <3>3 DEF A
  <2>7. StateOK(k, [prs EXCEPT ![s] = j], [ow EXCEPT ![s] = ow[s]])
    BY <2>4, <2>5, <2>6, OneStep
  <2>8. [ow EXCEPT ![s] = ow[s]] = ow
    BY <1>1
  <2> QED
    BY <2>1, <2>7, <2>8
<1>3. CASE ~(s \notin UtpConns /\ prs[s].choked /\ prs[s].pipe # <<>> /\ last)
  <2>1. pm' = m /\ peer' = prs /\ burst' \in {s, None}
    BY <1>3 DEF EndOfBurst
  <2> QED
    BY <2>1
<1> QED
  BY <1>2, <1>3
----------------------------------------------------------------------------
(* The actions.                                                            *)

LEMMA StateForm ==
  ASSUME ReqInv, NEW s \in Conns
  PROVE  /\ MgrInv(pm, None) /\ Asked(pm) /\ StateOK(pm, peer, owed)
         /\ PeerOK(peer[s], owed[s]) /\ peer[s] \in PeerRec /\ PipeOK(peer[s].pipe)
         /\ owed[s] \in [Req -> Nat] /\ (peer[s].active => peer[s].active = TRUE)
BY DEF ReqInv, StateOK, PeerOK, PeerRec

\* The requests that are new in a pipeline are sent.
LEMMA AskStep ==
  ASSUME ReqInv, NEW s \in Conns, NEW k, MgrInv(k, None), Asked(k), NEW j \in PeerRec,
         SameBook(peer[s], j), PipeOK(j.pipe), j.active = TRUE,
         ToSet(peer[s].pipe) \subseteq ToSet(j.pipe),
         \A r \in Asks : Follows(Count(pm, r), Count(k, r), ToSet(peer[s].pipe), ToSet(j.pipe), r),
         pm' = k, peer' = [peer EXCEPT ![s] = j], Ask(s, j)
  PROVE  StateOK(pm', peer', owed')
<1> DEFINE v == [r \in Req |-> IF Holds(j, r) /\ ~Holds(peer[s], r)
                               THEN owed[s][r] + 1 ELSE owed[s][r]]
<1>1. /\ StateOK(pm, peer, owed) /\ PeerOK(peer[s], owed[s]) /\ owed[s] \in [Req -> Nat]
  BY StateForm
<1>2. owed' = [owed EXCEPT ![s] = v]
  BY DEF Ask
<1>3. v \in [Req -> Nat]
  BY <1>1
<1>4. \A q \in Req : v[q] + In(q, ToSet(peer[s].pipe)) <= owed[s][q] + In(q, ToSet(j.pipe))
  BY <1>1, HoldsForm DEF In
<1> HIDE DEF v
<1>5. PeerOK(j, v)
  BY <1>1, <1>3, <1>4, SameOK
<1>6. StateOK(k, [peer EXCEPT ![s] = j], [owed EXCEPT ![s] = v])
  BY <1>1, <1>5, OneStep
<1> QED
  BY <1>2, <1>6

LEMMA LimitForm ==
  ASSUME NEW pr \in PeerRec, NEW limit \in Limits(pr) PROVE limit \in Nat /\ limit <= PipeMax
BY Sizes DEF Limits

\* schedule_requests
LEMMA ScheduleStep ==
  ASSUME ReqInv, NEW s \in Conns, NEW limit \in Limits(peer[s]), NEW room \in 1 .. limit,
         ScheduleRequests(s, limit, room)
  PROVE  ReqInv'
<1>1. /\ MgrInv(pm, None) /\ Asked(pm) /\ peer[s] \in PeerRec /\ PipeOK(peer[s].pipe)
      /\ (peer[s].active => peer[s].active = TRUE)
  BY StateForm
<1>2. limit \in Nat /\ limit <= PipeMax /\ room \in Nat
  BY <1>1, LimitForm, Sizes
<1> DEFINE res == ScheduleResult(peer[s], limit, room)
<1>3. /\ peer[s].active /\ pm' = res.m /\ peer' = [peer EXCEPT ![s] = res.pr]
      /\ Ask(s, res.pr) /\ burst' = burst /\ faults' = faults
  BY DEF ScheduleRequests
<1>4. Filled(pm, peer[s], res)
  BY <1>1, <1>2, ScheduleFills
<1> HIDE DEF res
<1>5. /\ MgrInv(res.m, None) /\ Asked(res.m) /\ res.pr \in PeerRec /\ SameBook(peer[s], res.pr)
      /\ PipeOK(res.pr.pipe) /\ res.pr.active = TRUE
      /\ ToSet(peer[s].pipe) \subseteq ToSet(res.pr.pipe)
      /\ \A r \in Asks : Follows(Count(pm, r), Count(res.m, r), ToSet(peer[s].pipe),
                                 ToSet(res.pr.pipe), r)
  BY <1>1, <1>3, <1>4 DEF Filled, Accs
<1>6. StateOK(pm', peer', owed')
  BY <1>3, <1>5, AskStep
<1> QED
  BY <1>3, <1>6 DEF ReqInv

\* schedule_hedged_requests
LEMMA HedgeStep ==
  ASSUME ReqInv, NEW s \in Conns, NEW r \in Req, NEW c \in Conns, HedgeRequest(s, r, c)
  PROVE  ReqInv'
<1> DEFINE q == peer[c]
           z == Append(q.pipe, r)
           j == [q EXCEPT !.pipe = z]
           k == MarkBlockRequested(pm, r[1], r[2])
<1>1. /\ MgrInv(pm, None) /\ Asked(pm) /\ q \in PeerRec /\ PipeOK(q.pipe)
      /\ (q.active => q.active = TRUE) /\ PipeOK(peer[s].pipe)
  BY StateForm
<1>2. /\ Holds(peer[s], r) /\ r[2] \notin pm.blocks[r[1]] /\ c \in HedgePeers(s, r)
      /\ pm' = k /\ peer' = [peer EXCEPT ![c] = j] /\ Ask(c, j)
      /\ burst' = burst /\ faults' = faults
  BY DEF HedgeRequest
<1>3. r \in Asks
  <2>1. r \in ToSet(peer[s].pipe)
    BY <1>2, HoldsForm
  <2> QED
    BY <1>1, <2>1 DEF PipeOK, ToSet
<1>4. /\ q.active /\ ~Holds(q, r) /\ \E limit \in Limits(q) : Len(q.pipe) < limit
  BY <1>2 DEF HedgePeers
<1>5. Len(q.pipe) < PipeMax /\ r \notin ToSet(q.pipe)
  <2>1. Len(q.pipe) \in Nat
    BY <1>1 DEF PipeOK
  <2>2. \A limit \in Limits(q) : limit \in Nat /\ limit <= PipeMax
    BY <1>1, LimitForm
  <2>3. r \notin ToSet(q.pipe)
    BY <1>4, HoldsForm
  <2> QED
    BY <1>4, <2>1, <2>2, <2>3, Sizes
<1>6. PipeOK(z) /\ ToSet(z) = ToSet(q.pipe) \cup {r}
  BY <1>1, <1>3, <1>5, AppendPipe
<1>7. /\ MgrInv(k, None) /\ Asked(k) /\ Count(k, r) <= Count(pm, r) + 1
      /\ \A d \in Asks : d # r => Count(k, d) = Count(pm, d)
  BY <1>1, <1>2, <1>3, MarkForm
<1> HIDE DEF k, q
<1>8. z \in Seq(Asks)
  BY <1>6 DEF PipeOK
<1> HIDE DEF z
<1>9. j \in PeerRec /\ j.pipe = z /\ j.active = q.active /\ SameBook(q, j)
  BY <1>1, <1>8 DEF PeerRec, SameBook
<1>10. ASSUME NEW d \in Asks
       PROVE  Follows(Count(pm, d), Count(k, d), ToSet(q.pipe), ToSet(z), d)
  <2>1. Count(pm, d) \in Nat /\ Count(k, d) \in Nat
    BY <1>1, <1>7, CountType, MgrAssumption
  <2>2. CASE d = r
    BY <1>5, <1>6, <1>7, <2>1, <2>2 DEF Follows
  <2>3. CASE d # r
    BY <1>6, <1>7, <2>1, <2>3 DEF Follows
  <2> QED
    BY <2>2, <2>3
<1> HIDE DEF j
<1>11. StateOK(pm', peer', owed')
  <2>1. j.active = TRUE /\ ToSet(q.pipe) \subseteq ToSet(j.pipe)
    BY <1>1, <1>4, <1>6, <1>9
  <2>2. \A d \in Asks : Follows(Count(pm, d), Count(k, d), ToSet(q.pipe), ToSet(j.pipe), d)
    BY <1>9, <1>10
  <2> QED
    BY <1>2, <1>6, <1>7, <1>9, <2>1, <2>2, AskStep DEF q
<1> QED
  BY <1>2, <1>11 DEF ReqInv
----------------------------------------------------------------------------

LEMMA DropStep ==
  ASSUME ReqInv, NEW s \in Conns, DropPeer(s)
  PROVE  StateOK(pm', peer', owed') /\ burst' \in Conns \cup {None}
<1>1. StateOK(pm, peer, owed)
  BY StateForm
<1>2. /\ pm' = ClearRequests(pm, peer[s].pipe) /\ peer' = [peer EXCEPT ![s] = NewPeer]
      /\ burst' = None /\ owed' = [owed EXCEPT ![s] = NoneOwed]
  BY DEF DropPeer, Gone
<1> QED
  BY <1>1, <1>2, LostStep

\* A message that leaves pipeline, counts and ring alone.
LEMMA QuietStep ==
  ASSUME ReqInv, NEW s \in Conns, peer[s].active, NEW j \in PeerRec, SameBook(peer[s], j),
         j.pipe = peer[s].pipe, j.active = TRUE, NEW last \in BOOLEAN,
         EndOfBurst(s, pm, [peer EXCEPT ![s] = j], last)
  PROVE  StateOK(pm', peer', owed) /\ burst' \in Conns \cup {None}
<1> DEFINE prs == [peer EXCEPT ![s] = j]
<1>1. StateOK(pm, peer, owed)
  BY StateForm
<1>2. StateOK(pm, prs, owed)
  BY <1>1, Touched
<1>3. prs[s] = j
  BY <1>1 DEF StateOK
<1> HIDE DEF prs
<1>4. EndOfBurst(s, pm, prs, last)
  BY DEF prs
<1> QED
  BY <1>2, <1>3, <1>4, BurstStep

LEMMA ChokeStep ==
  ASSUME ReqInv, NEW s \in Conns, NEW keeps \in BOOLEAN, NEW last \in BOOLEAN,
         Choke(s, keeps, last)
  PROVE  ReqInv'
<1> DEFINE j == [peer[s] EXCEPT !.choked = TRUE]
<1>1. peer[s] \in PeerRec /\ (peer[s].active => peer[s].active = TRUE)
  BY StateForm
<1>2. /\ peer[s].active /\ faults' \in 0 .. MaxFaults
      /\ EndOfBurst(s, pm, [peer EXCEPT ![s] = j], last)
      /\ owed' = owed \/ owed' = [owed EXCEPT ![s] = NoneOwed]
  BY Sizes DEF Choke, Talks, Spoil, Gone, ReqInv
<1>3. /\ j \in PeerRec /\ SameBook(peer[s], j) /\ j.pipe = peer[s].pipe /\ j.active = TRUE
  BY <1>1, <1>2 DEF PeerRec, SameBook
<1> HIDE DEF j
<1>4. StateOK(pm', peer', owed) /\ burst' \in Conns \cup {None}
  BY <1>2, <1>3, QuietStep
<1>5. StateOK(pm', peer', owed')
  BY <1>2, <1>4, GoneStep
<1> QED
  BY <1>2, <1>4, <1>5 DEF ReqInv

LEMMA UnchokeStep ==
  ASSUME ReqInv, NEW s \in Conns, Unchoke(s) PROVE ReqInv'
<1> DEFINE j == [peer[s] EXCEPT !.choked = FALSE]
<1>1. peer[s] \in PeerRec /\ (peer[s].active => peer[s].active = TRUE)
  BY StateForm
<1>2. /\ peer[s].active /\ faults' = faults /\ owed' = owed
      /\ EndOfBurst(s, pm, [peer EXCEPT ![s] = j], TRUE)
  BY DEF Unchoke, Talks
<1>3. /\ j \in PeerRec /\ SameBook(peer[s], j) /\ j.pipe = peer[s].pipe /\ j.active = TRUE
  BY <1>1, <1>2 DEF PeerRec, SameBook
<1> HIDE DEF j
<1>4. StateOK(pm', peer', owed) /\ burst' \in Conns \cup {None}
  BY <1>2, <1>3, QuietStep
<1> QED
  BY <1>2, <1>4 DEF ReqInv

LEMMA AnnounceStep ==
  ASSUME ReqInv, NEW s \in Conns, NEW ps \in SUBSET Pieces, Announce(s, ps) PROVE ReqInv'
<1> DEFINE e == peer[s].have \cup ps
           j == [peer[s] EXCEPT !.have = e]
<1>1. peer[s] \in PeerRec /\ (peer[s].active => peer[s].active = TRUE)
  BY StateForm
<1>2. /\ peer[s].active /\ faults' = faults /\ owed' = owed
      /\ EndOfBurst(s, pm, [peer EXCEPT ![s] = j], TRUE)
  BY DEF Announce, Talks
<1>3. e \in SUBSET Pieces
  BY <1>1 DEF PeerRec
<1> HIDE DEF e
<1>4. /\ j \in PeerRec /\ SameBook(peer[s], j) /\ j.pipe = peer[s].pipe /\ j.active = TRUE
  BY <1>1, <1>2, <1>3 DEF PeerRec, SameBook
<1> HIDE DEF j
<1>5. StateOK(pm', peer', owed) /\ burst' \in Conns \cup {None}
  BY <1>2, <1>4, QuietStep
<1> QED
  BY <1>2, <1>5 DEF ReqInv

\* A PIECE that matches an outstanding request, and cb_block.
LEMMA WantedStep ==
  ASSUME ReqInv, NEW s \in Conns, NEW r \in Req, NEW tag \in {"good", "bad"},
         NEW sent, NEW last \in BOOLEAN, peer[s].active, owed[s][r] > 0, Holds(peer[s], r),
         BlockWanted(s, r, tag, sent, last), owed' = [owed EXCEPT ![s][r] = @ - 1]
  PROVE  StateOK(pm', peer', owed') /\ burst' \in Conns \cup {None}
<1> DEFINE m == GotBlock(pm, r[1], r[2], tag, "stored", TRUE)
           others == IF pm.reqs[r[1]][r[2]] > 1 /\ ~(m.state[r[1]] = "EMPTY")
                     THEN (Holders(r) \ {s}) \cap sent ELSE {}
           q == RemovePipeline(peer[s], r)
           e == IF q.strikes > 0 THEN q.strikes - 1 ELSE 0
           j == [q EXCEPT !.proven = TRUE, !.strikes = e]
           prs == [c \in Conns |-> IF c = s THEN j
                                   ELSE IF c \in others THEN CancelBlock(peer[c], r)
                                   ELSE peer[c]]
           v == [owed[s] EXCEPT ![r] = @ - 1]
           ow == [owed EXCEPT ![s] = v]
<1>1. /\ MgrInv(pm, None) /\ Asked(pm) /\ PeerOK(peer[s], owed[s]) /\ peer[s] \in PeerRec
      /\ PipeOK(peer[s].pipe) /\ owed[s] \in [Req -> Nat] /\ peer[s].active = TRUE
      /\ peer \in [Conns -> PeerRec] /\ owed \in [Conns -> [Req -> Nat]] /\ Backed(pm, peer)
      /\ \A c \in Conns : PeerOK(peer[c], owed[c])
  BY StateForm DEF ReqInv, StateOK
<1>2. owed' = ow
  BY <1>1
<1>3. r \in Asks /\ r \in ToSet(peer[s].pipe)
  <2>1. r \in ToSet(peer[s].pipe)
    BY HoldsForm
  <2> QED
    BY <1>1, <2>1 DEF PipeOK, ToSet
<1>4. EndOfBurst(s, m, prs, last)
  BY DEF BlockWanted
<1>5. MgrInv(m, None) /\ Asked(m) /\ Count(m, r) = 0 /\ \A d \in Asks : Count(m, d) <= Count(pm, d)
  <2>1. r[1] \in Pieces /\ r[2] \in Blocks(r[1]) /\ AskedAt(pm, r[1])
    BY <1>1, <1>3, AskForm DEF Asked
  <2>2. "stored" \in WriteResults
    BY DEF WriteResults
  <2>3. MgrInv(m, None) /\ Fed(pm, m, "stored") /\ m.reqs[r[1]][r[2]] = 0
    <3> DEFINE p == r[1]
               b == r[2]
               w == "stored"
               a == TRUE
               g == GotBlock(pm, p, b, tag, w, a)
    <3>1. p \in Pieces /\ b \in Blocks(p) /\ w \in WriteResults /\ a \in BOOLEAN
      BY <2>1, <2>2
    <3> HIDE DEF p, b, w, a
    <3>2. MgrInv(g, None) /\ Fed(pm, g, w) /\ (a /\ AskedAt(pm, p) => g.reqs[p][b] = 0)
      BY <1>1, <3>1, GotBlockKeeps
    <3> QED
      BY <2>1, <3>2, Zenon DEF p, b, w, a
  <2> HIDE DEF m
  <2>4. Eased(pm, m)
    BY <2>3 DEF Fed
  <2> QED
    BY <1>1, <2>3, <2>4, EasedForm DEF Count
<1> HIDE DEF m
<1>6. /\ q \in PeerRec /\ SameBook(peer[s], q) /\ PipeOK(q.pipe) /\ q.active = TRUE
      /\ ToSet(q.pipe) = ToSet(peer[s].pipe) \ {r}
  <2> DEFINE z == RemoveFirst(peer[s].pipe, r)
  <2>1. q = [peer[s] EXCEPT !.pipe = z]
    BY DEF RemovePipeline
  <2>2. PipeOK(z) /\ ToSet(z) = ToSet(peer[s].pipe) \ {r}
    BY <1>1, RemoveForm
  <2>3. z \in Seq(Asks)
    BY <2>2 DEF PipeOK
  <2> HIDE DEF z, q
  <2>4. q \in PeerRec /\ q.pipe = z /\ q.active = peer[s].active /\ SameBook(peer[s], q)
    BY <1>1, <2>1, <2>3 DEF PeerRec, SameBook
  <2> QED
    BY <1>1, <2>2, <2>4
<1> HIDE DEF q
<1>7. e \in Nat
  BY <1>6 DEF PeerRec
<1> HIDE DEF e
<1>8. j \in PeerRec /\ SameBook(q, j) /\ j.pipe = q.pipe /\ j.active = q.active
  BY <1>6, <1>7 DEF PeerRec, SameBook
<1> HIDE DEF j
<1>9. v \in [Req -> Nat] /\ v[r] = owed[s][r] - 1 /\ \A d \in Req : d # r => v[d] = owed[s][d]
  BY <1>1
<1> HIDE DEF v
<1>10. PeerOK(j, v)
  <2>1. SameBook(peer[s], j)
    BY <1>6, <1>8 DEF SameBook
  <2>2. ASSUME NEW d \in Req
        PROVE  v[d] + In(d, ToSet(peer[s].pipe)) <= owed[s][d] + In(d, ToSet(j.pipe))
    <3>1. owed[s][d] \in Nat /\ owed[s][r] \in Nat
      BY <1>1
    <3>2. CASE d = r
      BY <1>3, <1>6, <1>8, <1>9, <3>1, <3>2 DEF In
    <3>3. CASE d # r
      <4>1. In(d, ToSet(peer[s].pipe)) = In(d, ToSet(j.pipe)) /\ In(d, ToSet(j.pipe)) \in Nat
        BY <1>6, <1>8, <3>3 DEF In
      <4> QED
        BY <1>9, <3>1, <3>3, <4>1
    <3> QED
      BY <3>2, <3>3
  <2> QED
    BY <1>1, <1>6, <1>8, <1>9, <2>1, <2>2, SameOK
<1>11. ASSUME NEW c \in Conns, c # s
       PROVE  PeerOK(prs[c], owed[c]) /\ ToSet(peer[c].pipe) \ {r} \subseteq ToSet(prs[c].pipe)
  <2>1. CASE c \in others
    <3>1. r \in ToSet(peer[c].pipe)
      BY <2>1, HoldsForm DEF Holders
    <3>2. PeerOK(CancelBlock(peer[c], r), owed[c])
          /\ ToSet(CancelBlock(peer[c], r).pipe) = ToSet(peer[c].pipe) \ {r}
      BY <1>1, <1>3, <3>1, CancelOK
    <3>3. prs[c] = CancelBlock(peer[c], r)
      BY <1>11, <2>1
    <3> HIDE DEF prs
    <3> QED
      BY <3>2, <3>3
  <2>2. CASE c \notin others
    <3>1. prs[c] = peer[c]
      BY <1>11, <2>2
    <3> HIDE DEF prs
    <3> QED
      BY <1>1, <3>1
  <2> QED
    BY <2>1, <2>2
<1>12. prs[s] = j /\ prs = [c \in Conns |-> prs[c]]
  OBVIOUS
<1> HIDE DEF prs
<1>13. ow \in [Conns -> [Req -> Nat]] /\ ow[s] = v /\ \A c \in Conns : c # s => ow[c] = owed[c]
  BY <1>1, <1>9
<1> HIDE DEF ow
<1>14. \A c \in Conns : PeerOK(prs[c], ow[c])
  BY <1>10, <1>11, <1>12, <1>13
<1>15. prs \in [Conns -> PeerRec]
  BY <1>12, <1>14 DEF PeerOK
<1>16. Backed(m, prs)
  <2>1. \A c \in Conns : ToSet(peer[c].pipe) \ {r} \subseteq ToSet(prs[c].pipe)
    BY <1>6, <1>8, <1>11, <1>12
  <2> QED
    BY <1>1, <1>3, <1>5, <2>1, BackedDrop
<1>17. StateOK(m, prs, ow)
  BY <1>5, <1>13, <1>14, <1>15, <1>16 DEF StateOK
<1>18. prs[s].active = TRUE
  BY <1>6, <1>8, <1>12
<1>19. StateOK(pm', peer', ow) /\ burst' \in Conns \cup {None}
  <2> HIDE DEF others
  <2> QED
    BY <1>4, <1>17, <1>18, BurstStep
<1> QED
  BY <1>2, <1>19

\* A PIECE nobody waits for.
LEMMA UnwantedStep ==
  ASSUME ReqInv, NEW s \in Conns, NEW r \in Req, NEW last \in BOOLEAN, peer[s].active,
         owed[s][r] > 0, ~Holds(peer[s], r), BlockUnwanted(s, r, last)
  PROVE  StateOK(pm', peer', owed') /\ burst' \in Conns \cup {None}
<1> DEFINE k == [peer[s] EXCEPT !.unsol = @ + 1]
           j == IF WasRecentlyDropped(peer[s], r) THEN peer[s] ELSE k
           v == [owed[s] EXCEPT ![r] = @ - 1]
           prs == [peer EXCEPT ![s] = j]
           ow == [owed EXCEPT ![s] = v]
<1>1. /\ MgrInv(pm, None) /\ Asked(pm) /\ StateOK(pm, peer, owed) /\ PeerOK(peer[s], owed[s])
      /\ peer[s] \in PeerRec /\ owed[s] \in [Req -> Nat] /\ peer[s].active = TRUE
      /\ peer \in [Conns -> PeerRec] /\ owed \in [Conns -> [Req -> Nat]]
  BY StateForm DEF ReqInv, StateOK
<1>2. CASE j.unsol >= MaxUnsolicited
  <2>1. DropPeer(s)
    BY <1>2, Zenon DEF BlockUnwanted
  <2> QED
    BY <2>1, DropStep
<1>3. CASE ~(j.unsol >= MaxUnsolicited)
  <2>1. EndOfBurst(s, pm, prs, last) /\ owed' = [owed EXCEPT ![s][r] = @ - 1]
    BY <1>3, Zenon DEF BlockUnwanted
  <2>2. owed' = ow
    BY <1>1, <2>1
  <2>3. PeerOK(j, v) /\ j.pipe = peer[s].pipe
    <3>1. CASE WasRecentlyDropped(peer[s], r)
      <4>1. v \in [Req -> Nat] /\ \A q \in Req : v[q] <= owed[s][q]
        BY <1>1
      <4>2. \A q \in Req : v[q] + In(q, ToSet(peer[s].pipe))
                              <= owed[s][q] + In(q, ToSet(peer[s].pipe))
        <5>1. \A q \in Req : owed[s][q] \in Nat /\ v[q] \in Nat
          BY <1>1, <4>1
        <5> HIDE DEF v
        <5> QED
          BY <4>1, <5>1 DEF In
      <4>3. PipeOK(peer[s].pipe) /\ SameBook(peer[s], peer[s])
        BY <1>1 DEF PeerOK, SameBook
      <4> HIDE DEF v
      <4>4. PeerOK(peer[s], v)
        BY <1>1, <4>1, <4>2, <4>3, SameOK
      <4> QED
        BY <3>1, <4>4
    <3>2. CASE ~WasRecentlyDropped(peer[s], r)
      <4>1. k.unsol = peer[s].unsol + 1 /\ j = k
        BY <1>1, <3>2 DEF PeerRec
      <4>2. peer[s].unsol + 1 < MaxUnsolicited
        <5>1. peer[s].unsol \in Nat
          BY <1>1 DEF PeerRec
        <5> HIDE DEF j, k
        <5> QED
          BY <1>3, <4>1, <5>1, Sizes
      <4>3. r \notin ToSet(peer[s].pipe)
        BY HoldsForm
      <4>4. PeerOK(k, v) /\ k.pipe = peer[s].pipe
        BY <1>1, <3>2, <4>2, <4>3, StrikeOK
      <4> QED
        BY <4>1, <4>4
    <3> QED
      BY <3>1, <3>2
  <2> HIDE DEF j, v
  <2>4. \A d \in Asks : Follows(Count(pm, d), Count(pm, d), ToSet(peer[s].pipe), ToSet(j.pipe), d)
    BY <1>1, <2>3, FollowsSame
  <2>5. StateOK(pm, prs, ow)
    BY <1>1, <2>3, <2>4, OneStep
  <2>6. prs[s] = j
    BY <1>1
  <2>8. prs[s].active = TRUE
    BY <1>1, <2>6 DEF j, k, PeerRec
  <2> HIDE DEF prs, ow
  <2>9. StateOK(pm', peer', ow) /\ burst' \in Conns \cup {None}
    BY <2>1, <2>5, <2>8, BurstStep
  <2> QED
    BY <2>2, <2>9
<1> QED
  BY <1>2, <1>3

LEMMA DeliverStep ==
  ASSUME ReqInv, NEW s \in Conns, NEW r \in Req, NEW tag \in {"good", "bad"},
         NEW sent, NEW last \in BOOLEAN, Deliver(s, r, tag, sent, last)
  PROVE  ReqInv'
<1>1. /\ peer[s].active /\ owed[s][r] > 0
      /\ IF tag = "bad" THEN Spoil(1) ELSE UNCHANGED faults
      /\ IF Holds(peer[s], r)
         THEN BlockWanted(s, r, tag, sent, last) /\ owed' = [owed EXCEPT ![s][r] = @ - 1]
         ELSE BlockUnwanted(s, r, last)
  BY DEF Deliver, Talks
<1>2. faults' \in 0 .. MaxFaults
  BY <1>1, Sizes DEF Spoil, ReqInv
<1>3. StateOK(pm', peer', owed') /\ burst' \in Conns \cup {None}
  <2>1. CASE Holds(peer[s], r)
    BY <1>1, <2>1, WantedStep
  <2>2. CASE ~Holds(peer[s], r)
    BY <1>1, <2>2, UnwantedStep
  <2> QED
    BY <2>1, <2>2
<1> QED
  BY <1>2, <1>3 DEF ReqInv
----------------------------------------------------------------------------

\* The timeout sweep.
LEMMA ExpireStep ==
  ASSUME ReqInv, NEW s \in Conns, NEW k \in 1 .. Len(peer[s].pipe), NEW graced \in BOOLEAN,
         NEW idle \in BOOLEAN, Expire(s, k, graced, idle)
  PROVE  ReqInv'
<1> DEFINE old == SubSeq(peer[s].pipe, 1, k)
           pr == Swept(peer[s], k, graced)
           n == Cardinality({i \in 1 .. k : owed[s][old[i]] > 0})
<1>1. /\ MgrInv(pm, None) /\ Asked(pm) /\ StateOK(pm, peer, owed) /\ PeerOK(peer[s], owed[s])
      /\ PipeOK(peer[s].pipe) /\ owed \in [Conns -> [Req -> Nat]]
  BY StateForm DEF ReqInv, StateOK
<1>2. /\ peer[s].active /\ burst' = burst /\ Spoil(n)
      /\ \/ /\ pm' = ClearRequests(pm, peer[s].pipe) /\ peer' = [peer EXCEPT ![s] = NewPeer]
            /\ owed' = [owed EXCEPT ![s] = NoneOwed]
         \/ /\ pm' = ClearRequests(pm, old) /\ peer' = [peer EXCEPT ![s] = pr] /\ owed' = owed
  BY DEF Expire, Swept, Gone
<1>3. faults' \in 0 .. MaxFaults
  <2>1. n \in Nat
    <3> DEFINE S == {i \in 1 .. k : owed[s][old[i]] > 0}
    <3>1. S \in SUBSET (1 .. k)
      OBVIOUS
    <3>2. IsFiniteSet(1 .. k)
      <4>1. 1 \in Int /\ k \in Int
        OBVIOUS
      <4> QED
        BY <4>1, FS_Interval, Zenon
    <3> HIDE DEF S
    <3>3. Cardinality(S) \in Nat
      BY <3>1, <3>2, FS_Subset, FS_CardinalityType
    <3> QED
      BY <3>3 DEF S
  <2> HIDE DEF n
  <2> QED
    BY <1>2, <2>1, Sizes DEF Spoil, ReqInv
<1>4. StateOK(ClearRequests(pm, peer[s].pipe), [peer EXCEPT ![s] = NewPeer],
              [owed EXCEPT ![s] = NoneOwed])
  BY <1>1, LostStep
<1>5. StateOK(ClearRequests(pm, old), [peer EXCEPT ![s] = pr], owed)
  <2> DEFINE c == ClearRequests(pm, old)
             A == ToSet(peer[s].pipe)
             O == ToSet(old)
  <2>1. PeerOK(pr, owed[s]) /\ PipeOK(old) /\ O \subseteq A /\ ToSet(pr.pipe) = A \ O
    BY <1>1, <1>2, SweptOK
  <2> HIDE DEF pr, old
  <2>2. TakenBack(pm, c, O)
    BY <1>1, <2>1, ClearKeeps DEF PipeOK
  <2>3. MgrInv(c, None) /\ Asked(c) /\ O \in SUBSET A
    BY <2>1, <2>2 DEF TakenBack
  <2> HIDE DEF c, A, O
  <2>4. \A r \in Asks : Follows(Count(pm, r), Count(c, r), A, A \ O, r)
    BY <1>1, <2>2, <2>3, TakenFollows
  <2>5. \A r \in Asks : Follows(Count(pm, r), Count(c, r), ToSet(peer[s].pipe), ToSet(pr.pipe), r)
    BY <2>1, <2>4 DEF A
  <2>6. StateOK(c, [peer EXCEPT ![s] = pr], [owed EXCEPT ![s] = owed[s]])
    BY <1>1, <2>1, <2>3, <2>5, OneStep
  <2>7. [owed EXCEPT ![s] = owed[s]] = owed
    BY <1>1
  <2> QED
    BY <2>6, <2>7 DEF c
<1> HIDE DEF old, pr
<1>6. StateOK(pm', peer', owed')
  BY <1>2, <1>4, <1>5
<1> QED
  BY <1>2, <1>3, <1>6 DEF ReqInv

LEMMA CoolStep == ASSUME ReqInv, NEW s \in Conns, CoolEnds(s) PROVE ReqInv'
<1> DEFINE j == [peer[s] EXCEPT !.cool = FALSE]
<1>1. /\ peer[s] \in PeerRec /\ StateOK(pm, peer, owed) /\ PeerOK(peer[s], owed[s])
  BY StateForm
<1>2. /\ peer' = [peer EXCEPT ![s] = j] /\ pm' = pm /\ owed' = owed /\ burst' = burst
      /\ faults' = faults /\ peer[s].cool
  BY DEF CoolEnds
<1>3. peer[s].active = TRUE
  <2>1. NewPeer.cool = FALSE
    BY DEF NewPeer
  <2> QED
    BY <1>1, <1>2, <2>1 DEF PeerOK, PeerRec
<1>4. /\ j \in PeerRec /\ SameBook(peer[s], j) /\ j.pipe = peer[s].pipe /\ j.active = TRUE
  BY <1>1, <1>3 DEF PeerRec, SameBook
<1> HIDE DEF j
<1>5. StateOK(pm, [peer EXCEPT ![s] = j], owed)
  BY <1>1, <1>4, Touched
<1> QED
  BY <1>2, <1>5 DEF ReqInv

LEMMA ConnectStep == ASSUME ReqInv, NEW s \in Conns, Connect(s) PROVE ReqInv'
<1> DEFINE j == [peer[s] EXCEPT !.active = TRUE]
<1>1. peer[s] \in PeerRec /\ StateOK(pm, peer, owed)
  BY StateForm
<1>2. /\ peer' = [peer EXCEPT ![s] = j] /\ pm' = pm /\ owed' = owed /\ burst' = burst
      /\ faults' = faults
  BY DEF Connect
<1>3. /\ j \in PeerRec /\ SameBook(peer[s], j) /\ j.pipe = peer[s].pipe /\ j.active = TRUE
  BY <1>1 DEF PeerRec, SameBook
<1> HIDE DEF j
<1>4. StateOK(pm, [peer EXCEPT ![s] = j], owed)
  BY <1>1, <1>3, Touched
<1> QED
  BY <1>2, <1>4 DEF ReqInv

LEMMA DisconnectStep == ASSUME ReqInv, NEW s \in Conns, Disconnect(s) PROVE ReqInv'
<1>1. DropPeer(s) /\ faults' \in 0 .. MaxFaults
  BY Sizes DEF Disconnect, Spoil, ReqInv
<1>2. StateOK(pm', peer', owed') /\ burst' \in Conns \cup {None}
  BY <1>1, DropStep
<1> QED
  BY <1>1, <1>2 DEF ReqInv

\* The piece manager moves on its own and takes requests back at most.
LEMMA AloneStep ==
  ASSUME ReqInv, MgrInv(pm', None), Eased(pm, pm'), UNCHANGED <<peer, owed, burst>>,
         faults' \in 0 .. MaxFaults
  PROVE  ReqInv'
<1>1. /\ MgrInv(pm, None) /\ Asked(pm) /\ Backed(pm, peer) /\ peer \in [Conns -> PeerRec]
      /\ owed \in [Conns -> [Req -> Nat]] /\ \A c \in Conns : PeerOK(peer[c], owed[c])
  BY DEF ReqInv, StateOK
<1>2. Asked(pm') /\ \A q \in Asks : Count(pm', q) <= Count(pm, q)
  BY <1>1, EasedForm
<1>3. Backed(pm', peer)
  BY <1>1, <1>2, BackedEase
<1>4. StateOK(pm', peer, owed)
  BY <1>1, <1>2, <1>3 DEF StateOK
<1> QED
  BY <1>4 DEF ReqInv

LEMMA WebSeedStep ==
  ASSUME ReqInv, NEW p \in Pieces, NEW tag \in {"good", "bad"}, WebSeed(p, tag) PROVE ReqInv'
<1> DEFINE w == "stored"
           a == TRUE
           r == SubmitWebPiece(pm, p, tag, w, a).m
<1>1. w \in WriteResults /\ a \in BOOLEAN /\ MgrInv(pm, None)
  BY DEF WriteResults, ReqInv, StateOK
<1>2. pm' = r /\ UNCHANGED <<peer, owed, burst>> /\ faults' \in 0 .. MaxFaults
  BY Sizes DEF WebSeed, WebPiece, Spoil, ReqInv
<1> HIDE DEF w, a
<1>3. MgrInv(r, None) /\ Fed(pm, r, w)
  BY <1>1, WebPieceKeeps
<1>4. MgrInv(pm', None) /\ Eased(pm, pm')
  BY <1>2, <1>3 DEF Fed
<1> QED
  BY <1>2, <1>4, AloneStep

LEMMA HashDoneStep == ASSUME ReqInv, HashDone PROVE ReqInv'
<1>1. /\ MgrInv(pm, None) /\ WorkerDone /\ UNCHANGED <<peer, owed, burst>>
      /\ faults' \in 0 .. MaxFaults
  BY DEF HashDone, ReqInv, StateOK
<1>2. MgrInv(pm', None)
  BY <1>1, WorkerKeeps
<1>3. pm'.state = pm.state /\ pm'.blocks = pm.blocks /\ pm'.reqs = pm.reqs
  BY <1>1 DEF WorkerDone, MgrInv, MgrRec
<1>4. Eased(pm, pm')
  BY <1>3 DEF Eased, EasedAt, AskedAt
<1> QED
  BY <1>1, <1>2, <1>4, AloneStep

LEMMA DrainTickStep == ASSUME ReqInv, DrainTick PROVE ReqInv'
<1> DEFINE w == [i \in 1 .. pm.hashed |-> "stored"]
<1>1. /\ pm' = Drain(pm, w) /\ UNCHANGED <<peer, owed, burst>> /\ faults' \in 0 .. MaxFaults
      /\ MgrInv(pm, None)
  BY DEF DrainTick, DrainResults, ReqInv, StateOK
<1>2. /\ \A n \in 1 .. pm.hashed : w[n] \in WriteResults
      /\ "stored" = "stored" => \A n \in 1 .. pm.hashed : w[n] = "stored"
  BY DEF WriteResults
<1> HIDE DEF w
<1>3. MgrInv(Drain(pm, w), None) /\ Fed(pm, Drain(pm, w), "stored")
  BY <1>1, <1>2, DrainKeeps
<1>4. MgrInv(pm', None) /\ Eased(pm, pm')
  BY <1>1, <1>3 DEF Fed
<1> QED
  BY <1>1, <1>4, AloneStep
----------------------------------------------------------------------------
(* The invariant holds.                                                    *)

LEMMA ReqInitSound == ReqInit => ReqInv
<1> SUFFICES ASSUME ReqInit PROVE ReqInv
  OBVIOUS
<1> DEFINE d == [p \in Pieces |-> "other"]
<1>1. PICK async \in BOOLEAN : pm = Fresh(d, TRUE, async)
  BY DEF ReqInit
<1>2. /\ peer = [s \in Conns |-> NewPeer] /\ owed = [s \in Conns |-> NoneOwed] /\ burst = None
      /\ faults = 0
  BY DEF ReqInit
<1>3. MgrInv(pm, None)
  <2>1. d \in [Pieces -> {"good", "other"}] /\ TRUE \in BOOLEAN
    OBVIOUS
  <2> HIDE DEF d
  <2> QED
    BY <1>1, <2>1, FreshSound
<1>4. /\ pm.state = [p \in Pieces |-> "EMPTY"]
      /\ pm.reqs = [p \in Pieces |-> [b \in Blocks(p) |-> 0]]
  BY <1>1 DEF Fresh
<1>5. Asked(pm)
  BY <1>4 DEF Asked, AskedAt
<1>6. \A c \in Conns : PeerOK(peer[c], owed[c])
  BY <1>2, NewPeerOK
<1>7. peer \in [Conns -> PeerRec] /\ owed \in [Conns -> [Req -> Nat]]
  <2>1. NewPeer \in PeerRec /\ NoneOwed \in [Req -> Nat]
    BY NewPeerOK DEF PeerOK
  <2> QED
    BY <1>2, <2>1
<1>8. Backed(pm, peer)
  <2> SUFFICES ASSUME NEW r \in Asks PROVE Count(pm, r) <= Cardinality(HoldersIn(peer, r))
    BY DEF Backed
  <2>1. Count(pm, r) = 0
    BY <1>4, AskForm DEF Count
  <2>2. Cardinality(HoldersIn(peer, r)) \in Nat
    BY HoldersFinite
  <2> QED
    BY <2>1, <2>2
<1>9. StateOK(pm, peer, owed)
  BY <1>3, <1>5, <1>6, <1>7, <1>8 DEF StateOK
<1> QED
  BY <1>2, <1>9, Sizes DEF ReqInv

LEMMA ReqNextSound == ReqInv /\ [ReqNext]_reqVars => ReqInv'
<1> SUFFICES ASSUME ReqInv, [ReqNext]_reqVars PROVE ReqInv'
  OBVIOUS
<1>1. CASE UNCHANGED reqVars
  BY <1>1 DEF reqVars, ReqInv
<1>2. ASSUME NEW s \in Conns, Unchoke(s) \/ CoolEnds(s) \/ Connect(s) \/ Disconnect(s)
      PROVE  ReqInv'
  BY <1>2, UnchokeStep, CoolStep, ConnectStep, DisconnectStep
<1>3. ASSUME NEW s \in Conns, NEW ps \in SUBSET Pieces, Announce(s, ps) PROVE ReqInv'
  BY <1>3, AnnounceStep
<1>4. ASSUME NEW s \in Conns, NEW limit \in Limits(peer[s]), NEW room \in 1 .. limit,
             ScheduleRequests(s, limit, room)
      PROVE  ReqInv'
  BY <1>4, ScheduleStep
<1>5. ASSUME NEW s \in Conns, NEW r \in Req, NEW c \in Conns, HedgeRequest(s, r, c)
      PROVE  ReqInv'
  BY <1>5, HedgeStep
<1>6. ASSUME NEW s \in Conns, NEW r \in Req, NEW tag \in {"good", "bad"},
             NEW sent \in {{}, Conns}, NEW last \in BOOLEAN, Deliver(s, r, tag, sent, last)
      PROVE  ReqInv'
  BY <1>6, DeliverStep
<1>7. ASSUME NEW s \in Conns, NEW keeps \in BOOLEAN, NEW last \in BOOLEAN, Choke(s, keeps, last)
      PROVE  ReqInv'
  BY <1>7, ChokeStep
<1>8. ASSUME NEW s \in Conns, NEW k \in 1 .. Len(peer[s].pipe), NEW graced \in BOOLEAN,
             NEW idle \in BOOLEAN, Expire(s, k, graced, idle)
      PROVE  ReqInv'
  BY <1>8, ExpireStep
<1>9. ASSUME NEW p \in Pieces, NEW tag \in {"good", "bad"}, WebSeed(p, tag) PROVE ReqInv'
  BY <1>9, WebSeedStep
<1>10. CASE HashDone
  BY <1>10, HashDoneStep
<1>11. CASE DrainTick
  BY <1>11, DrainTickStep
<1> QED
  BY <1>1, <1>2, <1>3, <1>4, <1>5, <1>6, <1>7, <1>8, <1>9, <1>10, <1>11 DEF ReqNext

\* The invariant of block requests, for every number of peers, pieces and
\* blocks and every size of pipelines and rings.
THEOREM RequestsSound == ReqSpec => []ReqInv
BY ReqInitSound, ReqNextSound, PTL DEF ReqSpec

\* Pipelines stay within the limit and never hold a request twice, and rings
\* and strikes stay within theirs.
THEOREM RequestTypes == ReqSpec => []ReqTypeOK
<1>1. ReqInv => ReqTypeOK
  <2> SUFFICES ASSUME ReqInv PROVE ReqTypeOK
    OBVIOUS
  <2>1. ASSUME NEW s \in Conns
        PROVE  /\ Range(peer[s].pipe) \subseteq Req
               /\ Len(peer[s].pipe) <= Max({MaxPipe, Bootstrap})
               /\ \A i, j \in DOMAIN peer[s].pipe : i # j => peer[s].pipe[i] # peer[s].pipe[j]
               /\ Len(peer[s].dropped) <= RecentDropped
               /\ peer[s].unsol \in 0 .. MaxUnsolicited - 1
               /\ ~peer[s].active => peer[s] = NewPeer
    <3>1. PeerOK(peer[s], owed[s]) /\ peer[s] \in PeerRec /\ PipeOK(peer[s].pipe) /\ RingOK(peer[s])
      BY StateForm DEF PeerOK
    <3>2. Range(peer[s].pipe) \subseteq Req
      <4>1. \A r \in Asks : r \in Req
        BY AskForm
      <4>2. \A i \in DOMAIN peer[s].pipe : peer[s].pipe[i] \in Asks
        BY <3>1 DEF PipeOK
      <4> QED
        BY <4>1, <4>2 DEF Range
    <3>3. Len(peer[s].pipe) <= Max({MaxPipe, Bootstrap})
      BY <3>1 DEF PipeOK, PipeMax
    <3>4. \A i, j \in DOMAIN peer[s].pipe : i # j => peer[s].pipe[i] # peer[s].pipe[j]
      BY <3>1 DEF PipeOK, IsInjective
    <3>5. Len(peer[s].dropped) <= RecentDropped /\ peer[s].unsol \in Nat
      BY <3>1, RingForm
    <3>6. peer[s].unsol \in 0 .. MaxUnsolicited - 1
      BY <3>1, <3>5, Sizes DEF PeerOK
    <3> QED
      BY <3>1, <3>2, <3>3, <3>4, <3>5, <3>6 DEF PeerOK
  <2> QED
    BY <2>1 DEF ReqTypeOK, ReqInv
<1> QED
  BY <1>1, RequestsSound, PTL

\* No orphaned request: hedges, cancels, chokes, expiry, lost peers, web
\* pieces and resets after a bad hash leave every block that counts as
\* requested in the pipelines of at least that many peers.
THEOREM CountsBacked == ReqSpec => []NoOrphanRequest
<1>1. ReqInv => NoOrphanRequest
  <2> SUFFICES ASSUME ReqInv, NEW p \in Pieces, NEW b \in Blocks(p)
               PROVE  pm.reqs[p][b] <= Cardinality(Holders(<<p, b>>))
    BY DEF NoOrphanRequest
  <2> DEFINE r == <<p, b>>
  <2>1. r \in Asks /\ Count(pm, r) = pm.reqs[p][b]
    BY AskForm DEF Count
  <2>2. HoldersIn(peer, r) = Holders(r)
    BY HoldsForm DEF HoldersIn, Holders
  <2> QED
    BY <2>1, <2>2 DEF ReqInv, StateOK, Backed
<1> QED
  BY <1>1, RequestsSound, PTL

\* An honest remote collects strikes only for requests that a choke released
\* or that fell out of the ring of the dropped ones.
THEOREM HonestForgiven == ReqSpec => []LateAnswersForgiven
<1>1. ReqInv => LateAnswersForgiven
  <2> SUFFICES ASSUME ReqInv, NEW s \in Conns
               PROVE  peer[s].unsol <= peer[s].forgot + Max({0, peer[s].drops - RecentDropped})
    BY DEF LateAnswersForgiven
  <2> DEFINE pr == peer[s]
  <2>1. PeerOK(pr, owed[s]) /\ pr \in PeerRec /\ RingOK(pr)
    BY StateForm DEF PeerOK
  <2> HIDE DEF pr
  <2>2. PICK f \in [Req -> Nat] : Book(pr, f)
    BY <2>1 DEF PeerOK, Settled
  <2>3. PICK T, lab : BookOf(pr, f, T, lab)
    BY <2>2 DEF Book
  <2>4. T \ InRing(pr) \in SUBSET T
    OBVIOUS
  <2>5. Cardinality(T \ InRing(pr)) \in Nat
    BY <2>1, <2>3, <2>4, TokensFinite
  <2>6. /\ Cardinality(T \ InRing(pr)) + pr.unsol <= pr.forgot + Fell(pr)
        /\ pr.unsol \in Nat /\ pr.forgot \in Nat /\ Fell(pr) \in Nat /\ pr.drops \in Nat
        /\ Fell(pr) = IF pr.drops < RecentDropped THEN 0 ELSE pr.drops - RecentDropped
    BY <2>1, <2>3, RingForm DEF BookOf
  <2>7. pr.unsol <= pr.forgot + Fell(pr)
    BY <2>5, <2>6
  <2> DEFINE S == {0, pr.drops - RecentDropped}
  <2>8. Max(S) = Fell(pr)
    <3> DEFINE z == Fell(pr)
    <3>1. z \in S /\ \A y \in S : z >= y
      BY <2>6, Sizes
    <3>2. \A x \in S : (\A y \in S : x >= y) => x = z
      BY <2>6, Sizes
    <3> HIDE DEF z, S
    <3> QED
      BY <3>1, <3>2 DEF Max, z
  <2> QED
    BY <2>7, <2>8 DEF pr, S
<1> QED
  BY <1>1, RequestsSound, PTL
=============================================================================
