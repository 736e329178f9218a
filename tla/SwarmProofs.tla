----------------------------- MODULE SwarmProofs -----------------------------
(***************************************************************************)
(* Proofs about the candidate queue and the dial ladder, for any set of    *)
(* endpoints, hash function, queue, slot and blocklist size.               *)
(*                                                                         *)
(* An endpoint is dialled once at a time because queue_insert asks the     *)
(* hash set, so the set must miss no queued endpoint.  That takes three    *)
(* facts about it (SetInv): a probe reaches its endpoint before an empty   *)
(* slot (Chained), every queued endpoint has a slot, and at most one slot  *)
(* more than queued endpoints is in use, which leaves queue_hash_add_raw a *)
(* free slot.  The one slot more is the duplicate that queue_hash_add      *)
(* makes when a rebuild has just added the new endpoint from the ring.     *)
(***************************************************************************)
EXTENDS Swarm, DataFacts, FiniteSetTheorems

Tables == [Slots -> Endpoints \cup {Empty, Dead}]

QueueRec == [ring : [Cells -> Entries \cup {NoEntry}], qhead : Cells, qtail : Cells,
             qsize : 0 .. QueueMax, qhash : Tables, tombstones : Nat]

\* The slots in use, the tombstones, and the endpoints of a table.
InUse(h)   == {s \in Slots : h[s] \in Endpoints}
Tombs(h)   == {s \in Slots : h[s] = Dead}
Members(h) == {e \in Endpoints : \E s \in Slots : h[s] = e}

\* Between the home of an endpoint and its slot there is no empty slot.
Chained(h) ==
  \A e \in Endpoints, i \in Slots :
    h[ProbeAt(e, i)] = e => \A j \in 0 .. i - 1 : h[ProbeAt(e, j)] # Empty

\* The set of q is sound, holds the endpoints M, and uses at most n slots.
SetInv(q, M, n) ==
  /\ Chained(q.qhash)
  /\ M \subseteq Members(q.qhash)
  /\ Cardinality(InUse(q.qhash)) <= n
  /\ q.tombstones = Cardinality(Tombs(q.qhash))

\* r has the ring of q.
SameRing(q, r) == /\ r.ring = q.ring /\ r.qhead = q.qhead
                  /\ r.qtail = q.qtail /\ r.qsize = q.qsize
----------------------------------------------------------------------------
(* The hash set.                                                           *)

LEMMA CapFacts == /\ HashCap \in Nat \ {0} /\ QueueMax < HashCap
                  /\ Slots = 0 .. HashCap - 1
                  /\ Empty \notin Endpoints /\ Dead \notin Endpoints /\ Empty # Dead
BY QueueAssumption DEF HashCap, Slots, Empty, Dead

\* A probe stays in the table and visits every slot.
LEMMA ProbeFacts ==
  ASSUME NEW e \in Endpoints
  PROVE  /\ \A i \in Slots : ProbeAt(e, i) \in Slots
         /\ \A s \in Slots : \E i \in Slots : ProbeAt(e, i) = s
         /\ \A i, j \in Slots : ProbeAt(e, i) = ProbeAt(e, j) => i = j
<1> DEFINE N == HashCap
           h == Home[e]
<1>1. N \in Nat \ {0} /\ h \in 0 .. N - 1 /\ Slots = 0 .. N - 1
  BY CapFacts, QueueAssumption
<1> HIDE DEF N, h
<1>2. ASSUME NEW i \in Slots
      PROVE  /\ (h + i) % N \in 0 .. N - 1
             /\ (h + i) % N = IF h + i < N THEN h + i ELSE h + i - N
  BY <1>1, CellWrap
<1>3. ASSUME NEW s \in Slots PROVE \E i \in Slots : (h + i) % N = s
  <2> DEFINE i == IF s >= h THEN s - h ELSE s + N - h
  <2>1. i \in Slots /\ (IF h + i < N THEN h + i ELSE h + i - N) = s
    BY <1>1
  <2> QED
    BY <1>2, <2>1
<1>4. \A i, j \in Slots : (h + i) % N = (h + j) % N => i = j
  BY <1>1, CellInjective
<1> QED
  BY <1>1, <1>2, <1>3, <1>4 DEF ProbeAt, N, h

\* queue_hash_contains finds exactly the members.
LEMMA FoundForm ==
  ASSUME NEW q \in QueueRec, NEW e \in Endpoints, Chained(q.qhash)
  PROVE  /\ HashContains(q, e) <=> e \in Members(q.qhash)
         /\ FoundAt(q, e) # None =>
              FoundAt(q, e) \in Slots /\ q.qhash[FoundAt(q, e)] = e
<1> DEFINE h == q.qhash
           stops == {i \in Slots : h[ProbeAt(e, i)] \in {Empty, e}}
           m == Min(stops)
           at == ProbeAt(e, m)
<1>0. FoundAt(q, e) = IF stops = {} THEN None ELSE IF h[at] = e THEN at ELSE None
  BY DEF FoundAt
<1>1. stops \in SUBSET Nat /\ None \notin Slots
  BY CapFacts DEF None
<1>2. stops # {} => m \in stops /\ \A y \in stops : m <= y
  BY <1>1, MinIsLeast
<1> HIDE DEF m
<1>3. ASSUME e \in Members(h) PROVE stops # {} /\ h[at] = e
  <2>1. PICK s \in Slots : h[s] = e
    BY <1>3 DEF Members
  <2>2. PICK i \in Slots : ProbeAt(e, i) = s
    BY ProbeFacts
  <2>3. i \in stops
    BY <2>1, <2>2
  <2>4. m \in Slots /\ m <= i /\ h[at] \in {Empty, e}
    BY <1>2, <2>3
  <2>5. CASE h[at] = Empty
    <3>1. h[ProbeAt(e, i)] = e /\ e # Empty
      BY <2>1, <2>2, CapFacts
    <3>2. m # i
      BY <2>5, <3>1
    <3>3. m \in 0 .. i - 1
      BY <2>4, <3>2, CapFacts
    <3> QED
      BY <2>5, <3>1, <3>3 DEF Chained
  <2> QED
    BY <2>3, <2>4, <2>5
<1>4. stops # {} => at \in Slots
  BY <1>2, ProbeFacts
<1> HIDE DEF at, stops, h
<1>5. FoundAt(q, e) # None => FoundAt(q, e) \in Slots /\ h[FoundAt(q, e)] = e
  BY <1>0, <1>4
<1>6. e \in Members(h) => FoundAt(q, e) # None
  BY <1>0, <1>1, <1>3, <1>4
<1>7. FoundAt(q, e) # None => e \in Members(h)
  BY <1>5 DEF Members
<1> QED
  BY <1>5, <1>6, <1>7 DEF HashContains, h

\* A table that is not full has a slot that is not in use.
LEMMA FreeSlotExists ==
  ASSUME NEW h \in Tables, NEW e \in Endpoints, Cardinality(InUse(h)) < HashCap
  PROVE  \E i \in Slots : h[ProbeAt(e, i)] \in {Empty, Dead}
<1> SUFFICES ASSUME \A i \in Slots : h[ProbeAt(e, i)] \notin {Empty, Dead} PROVE FALSE
  OBVIOUS
<1>1. \A s \in Slots : h[s] \in Endpoints
  BY ProbeFacts DEF Tables
<1>2. InUse(h) = Slots
  BY <1>1 DEF InUse
<1>3. Cardinality(0 .. HashCap - 1) = HashCap
  BY CapFacts, FS_Interval
<1> QED
  BY <1>2, <1>3, CapFacts

\* The table after one slot at has been given the content v.
LEMMA SlotSets ==
  ASSUME NEW h \in Tables, NEW at \in Slots, NEW v \in Endpoints \cup {Empty, Dead}
  PROVE  LET g == [h EXCEPT ![at] = v]
         IN  /\ g \in Tables /\ IsFiniteSet(InUse(h)) /\ IsFiniteSet(Tombs(h))
             /\ Cardinality(InUse(h)) \in Nat /\ Cardinality(Tombs(h)) \in Nat
             /\ InUse(g) = IF v \in Endpoints THEN InUse(h) \cup {at} ELSE InUse(h) \ {at}
             /\ Tombs(g) = IF v = Dead THEN Tombs(h) \cup {at} ELSE Tombs(h) \ {at}
<1> DEFINE g == [h EXCEPT ![at] = v]
<1>1. IsFiniteSet(Slots)
  BY CapFacts, FS_Interval
<1>2. InUse(h) \subseteq Slots /\ Tombs(h) \subseteq Slots
  BY DEF InUse, Tombs
<1>3. /\ IsFiniteSet(InUse(h)) /\ IsFiniteSet(Tombs(h))
      /\ Cardinality(InUse(h)) \in Nat /\ Cardinality(Tombs(h)) \in Nat
  BY <1>1, <1>2, FS_Subset, FS_CardinalityType
<1>4. g \in Tables /\ g[at] = v /\ \A s \in Slots : s # at => g[s] = h[s]
  BY DEF Tables
<1> HIDE DEF g
<1>5. InUse(g) = IF v \in Endpoints THEN InUse(h) \cup {at} ELSE InUse(h) \ {at}
  BY <1>4 DEF InUse
<1>6. Tombs(g) = IF v = Dead THEN Tombs(h) \cup {at} ELSE Tombs(h) \ {at}
  BY <1>4 DEF Tombs
<1> QED
  BY <1>3, <1>4, <1>5, <1>6 DEF g

\* Filling a free slot with e, or a used one with a tombstone, cuts no probe.
LEMMA ChainedAdd ==
  ASSUME NEW h \in Tables, Chained(h), NEW e \in Endpoints, NEW n \in Slots,
         \A i \in 0 .. n - 1 : h[ProbeAt(e, i)] # Empty
  PROVE  Chained([h EXCEPT ![ProbeAt(e, n)] = e])
<1> DEFINE g == [h EXCEPT ![ProbeAt(e, n)] = e]
<1>1. ProbeAt(e, n) \in Slots
  BY ProbeFacts
<1>2. g[ProbeAt(e, n)] = e /\ \A s \in Slots : s # ProbeAt(e, n) => g[s] = h[s]
  BY <1>1 DEF Tables
<1> HIDE DEF g
<1>3. \A s \in Slots : h[s] # Empty => g[s] # Empty
  BY <1>2, CapFacts
<1> SUFFICES ASSUME NEW f \in Endpoints, NEW i \in Slots, g[ProbeAt(f, i)] = f,
                    NEW j \in 0 .. i - 1
             PROVE  g[ProbeAt(f, j)] # Empty
  BY DEF Chained, g
<1>4. j \in Slots /\ ProbeAt(f, j) \in Slots /\ ProbeAt(f, i) \in Slots
  <2>1. j \in Slots
    BY CapFacts
  <2> QED
    BY <2>1, ProbeFacts
<1>5. CASE ProbeAt(f, i) # ProbeAt(e, n)
  <2>1. h[ProbeAt(f, i)] = f
    BY <1>2, <1>4, <1>5
  <2> QED
    BY <1>3, <1>4, <2>1 DEF Chained
<1>6. CASE ProbeAt(f, i) = ProbeAt(e, n)
  <2>1. f = e
    BY <1>2, <1>6
  <2>2. i = n
    BY <1>6, <2>1, ProbeFacts
  <2> QED
    BY <1>3, <1>4, <2>1, <2>2
<1> QED
  BY <1>5, <1>6

LEMMA ChainedRemove ==
  ASSUME NEW h \in Tables, Chained(h), NEW at \in Slots
  PROVE  Chained([h EXCEPT ![at] = Dead])
<1> DEFINE g == [h EXCEPT ![at] = Dead]
<1>1. g[at] = Dead /\ \A s \in Slots : s # at => g[s] = h[s]
  BY DEF Tables
<1> HIDE DEF g
<1>2. \A s \in Slots : /\ h[s] # Empty => g[s] # Empty
                       /\ g[s] \in Endpoints => g[s] = h[s]
  BY <1>1, CapFacts
<1> SUFFICES ASSUME NEW f \in Endpoints, NEW i \in Slots, g[ProbeAt(f, i)] = f,
                    NEW j \in 0 .. i - 1
             PROVE  g[ProbeAt(f, j)] # Empty
  BY DEF Chained, g
<1>3. j \in Slots /\ ProbeAt(f, j) \in Slots /\ ProbeAt(f, i) \in Slots
  <2>1. j \in Slots
    BY CapFacts
  <2> QED
    BY <2>1, ProbeFacts
<1>4. h[ProbeAt(f, i)] = f
  BY <1>2, <1>3
<1> QED
  BY <1>2, <1>3, <1>4 DEF Chained

\* queue_hash_add_raw, given a free slot: e enters the set and nothing else
\* changes but the slot and the count of tombstones.
LEMMA AddRawKeeps ==
  ASSUME NEW q \in QueueRec, NEW e \in Endpoints, NEW M, NEW n \in 0 .. QueueMax,
         SetInv(q, M, n)
  PROVE  /\ HashAddRaw(q, e) \in QueueRec
         /\ SameRing(q, HashAddRaw(q, e))
         /\ SetInv(HashAddRaw(q, e), M \cup {e}, n + 1)
<1> DEFINE h == q.qhash
           free == {i \in Slots : h[ProbeAt(e, i)] \in {Empty, Dead}}
           m == Min(free)
           at == ProbeAt(e, m)
           g == [h EXCEPT ![at] = e]
           t == IF h[at] = Dead /\ q.tombstones > 0 THEN q.tombstones - 1 ELSE q.tombstones
           r == [q EXCEPT !.qhash = g, !.tombstones = t]
<1>0. h \in Tables /\ Chained(h) /\ Cardinality(InUse(h)) <= n /\ n \in Nat
  BY QueueAssumption DEF QueueRec, SetInv
<1>1. Cardinality(InUse(h)) \in Nat /\ 0 \in Slots
  <2>1. 0 \in Slots /\ Dead \in Endpoints \cup {Empty, Dead}
    BY CapFacts
  <2> QED
    BY <1>0, <2>1, SlotSets
<1>2. Cardinality(InUse(h)) < HashCap
  BY <1>0, <1>1, CapFacts, QueueAssumption
<1>3. free # {} /\ free \in SUBSET Nat
  BY <1>0, <1>2, FreeSlotExists, CapFacts
<1>4. m \in free /\ \A y \in free : m <= y
  BY <1>3, MinIsLeast
<1> HIDE DEF m
<1>5. at \in Slots /\ h[at] \in {Empty, Dead} /\ m \in Slots
  BY <1>4, ProbeFacts
<1>6. \A i \in 0 .. m - 1 : h[ProbeAt(e, i)] # Empty
  <2> SUFFICES ASSUME NEW i \in 0 .. m - 1, h[ProbeAt(e, i)] = Empty PROVE FALSE
    OBVIOUS
  <2>1. i \in free /\ i < m /\ i \in Nat /\ m \in Nat
    BY <1>5, CapFacts
  <2> QED
    BY <1>4, <2>1
<1>7. HashAddRaw(q, e) = r
  <2>1. HashAddRaw(q, e) = [q EXCEPT !.qhash[at] = e,
                              !.tombstones = IF h[at] = Dead /\ @ > 0 THEN @ - 1 ELSE @]
    BY <1>3 DEF HashAddRaw, m
  <2> QED
    BY <2>1 DEF QueueRec
<1> HIDE DEF free
<1>8. Chained(g)
  BY <1>0, <1>5, <1>6, ChainedAdd
<1>9. /\ g \in Tables /\ IsFiniteSet(InUse(h)) /\ IsFiniteSet(Tombs(h))
      /\ Cardinality(Tombs(h)) \in Nat
      /\ InUse(g) = InUse(h) \cup {at} /\ Tombs(g) = Tombs(h) \ {at}
  BY <1>0, <1>5, SlotSets, CapFacts
<1>10. g[at] = e /\ \A s \in Slots : s # at => g[s] = h[s]
  BY <1>0, <1>5 DEF Tables
<1>11. Members(h) \cup {e} \subseteq Members(g)
  BY <1>5, <1>10, CapFacts DEF Members
<1>12. Cardinality(InUse(g)) <= n + 1
  <2>1. Cardinality(InUse(h) \cup {at}) \in {Cardinality(InUse(h)), Cardinality(InUse(h)) + 1}
    BY <1>9, FS_AddElement
  <2> QED
    BY <1>0, <1>1, <1>9, <2>1
<1>13. t = Cardinality(Tombs(g)) /\ t \in Nat
  <2>1. q.tombstones = Cardinality(Tombs(h))
    BY DEF SetInv
  <2>2. CASE h[at] = Dead
    <3>1. at \in Tombs(h)
      BY <1>5, <2>2 DEF Tombs
    <3>2. Cardinality(Tombs(h) \ {at}) = Cardinality(Tombs(h)) - 1
      BY <1>9, <3>1, FS_RemoveElement
    <3>3. Cardinality(Tombs(h)) # 0
      BY <1>9, <3>1, FS_EmptySet
    <3> QED
      BY <1>9, <2>1, <2>2, <3>2, <3>3
  <2>3. CASE h[at] # Dead
    <3>1. Tombs(h) \ {at} = Tombs(h)
      BY <2>3 DEF Tombs
    <3> QED
      BY <1>9, <2>1, <2>3, <3>1
  <2> QED
    BY <2>2, <2>3
<1> HIDE DEF g, t
<1>14. r \in QueueRec /\ SameRing(q, r) /\ r.qhash = g /\ r.tombstones = t
  BY <1>9, <1>13 DEF QueueRec, SameRing
<1> HIDE DEF r
<1>15. SetInv(r, M \cup {e}, n + 1)
  BY <1>8, <1>11, <1>12, <1>13, <1>14 DEF SetInv
<1> QED
  BY <1>7, <1>14, <1>15

\* queue_hash_remove of a member: one slot less is in use, and the other
\* endpoints stay.
LEMMA RemoveKeeps ==
  ASSUME NEW q \in QueueRec, NEW e \in Endpoints, NEW M, NEW n \in Nat,
         SetInv(q, M, n + 1), e \in M
  PROVE  /\ HashRemove(q, e) \in QueueRec
         /\ SameRing(q, HashRemove(q, e))
         /\ SetInv(HashRemove(q, e), M \ {e}, n)
<1> DEFINE h == q.qhash
           at == FoundAt(q, e)
           g == [h EXCEPT ![at] = Dead]
           t == q.tombstones + 1
           r == [q EXCEPT !.qhash = g, !.tombstones = t]
<1>0. h \in Tables /\ Chained(h) /\ Cardinality(InUse(h)) <= n + 1 /\ M \subseteq Members(h)
  BY DEF QueueRec, SetInv
<1>1. at # None /\ at \in Slots /\ h[at] = e
  BY <1>0, FoundForm DEF HashContains
<1>2. HashRemove(q, e) = r
  BY <1>1 DEF HashRemove, QueueRec
<1> HIDE DEF at
<1>3. Chained(g)
  BY <1>0, <1>1, ChainedRemove
<1>4. /\ g \in Tables /\ IsFiniteSet(InUse(h)) /\ IsFiniteSet(Tombs(h))
      /\ Cardinality(Tombs(h)) \in Nat /\ Cardinality(InUse(h)) \in Nat
      /\ InUse(g) = InUse(h) \ {at} /\ Tombs(g) = Tombs(h) \cup {at}
  BY <1>0, <1>1, SlotSets, CapFacts
<1>5. at \in InUse(h) /\ at \notin Tombs(h)
  BY <1>1, CapFacts DEF InUse, Tombs
<1>6. Cardinality(InUse(g)) <= n
  <2>1. Cardinality(InUse(h) \ {at}) = Cardinality(InUse(h)) - 1
    BY <1>4, <1>5, FS_RemoveElement
  <2>2. \A c \in Nat : c <= n + 1 => c - 1 <= n
    OBVIOUS
  <2> QED
    BY <1>0, <1>4, <2>1, <2>2
<1>7. t = Cardinality(Tombs(g)) /\ t \in Nat
  <2>1. Cardinality(Tombs(h) \cup {at}) = Cardinality(Tombs(h)) + 1
    BY <1>4, <1>5, FS_AddElement
  <2> QED
    BY <1>4, <2>1 DEF SetInv
<1>8. \A s \in Slots : s # at => g[s] = h[s]
  BY <1>0, <1>1 DEF Tables
<1>9. M \ {e} \subseteq Members(g)
  BY <1>0, <1>1, <1>8 DEF Members
<1> HIDE DEF g, t
<1>10. r \in QueueRec /\ SameRing(q, r) /\ r.qhash = g /\ r.tombstones = t
  BY <1>4, <1>7 DEF QueueRec, SameRing
<1> HIDE DEF r
<1>11. SetInv(r, M \ {e}, n)
  BY <1>3, <1>6, <1>7, <1>9, <1>10 DEF SetInv
<1> QED
  BY <1>2, <1>10, <1>11

\* The endpoints of the first n queued entries, and of all of them.
First(q, n) == {Queued(q)[i].ep : i \in 1 .. n}
Eps(q)      == First(q, q.qsize)

AllEntries(q) == \A i \in 1 .. q.qsize : Queued(q)[i] \in Entries

\* queue_hash_rebuild: the set holds the ring and nothing else.
LEMMA RebuildKeeps ==
  ASSUME NEW q \in QueueRec, AllEntries(q)
  PROVE  /\ HashRebuild(q) \in QueueRec
         /\ SameRing(q, HashRebuild(q))
         /\ SetInv(HashRebuild(q), Eps(q), q.qsize)
<1> DEFINE N == q.qsize
           x0 == [q EXCEPT !.qhash = [s \in Slots |-> Empty], !.tombstones = 0]
           Turn(n, r) == HashAddRaw(r, Queued(q)[n].ep)
           X == [n \in 0 .. N |-> {r \in QueueRec : SameRing(q, r) /\ SetInv(r, First(q, n), n)}]
           G == [n \in 1 .. N |-> [r \in X[n - 1] |-> Turn(n, r)]]
           Loop(g) == g = [n \in 0 .. N |-> IF n = 0 THEN x0 ELSE Turn(n, g[n - 1])]
           f == CHOOSE g : Loop(g)
<1>0. N \in 0 .. QueueMax /\ N \in Nat /\ QueueMax \in Nat
  BY QueueAssumption DEF QueueRec
<1>1. x0 \in X[0]
  <2> DEFINE h == [s \in Slots |-> Empty]
  <2>1. h \in Tables /\ \A s \in Slots : h[s] = Empty
    BY DEF Tables
  <2> HIDE DEF h
  <2>2. InUse(h) = {} /\ Tombs(h) = {} /\ Chained(h)
    <3>1. ASSUME NEW e \in Endpoints, NEW i \in Slots PROVE h[ProbeAt(e, i)] # e
      BY <2>1, ProbeFacts, CapFacts
    <3> QED
      BY <2>1, <3>1, CapFacts DEF InUse, Tombs, Chained
  <2>3. Cardinality(InUse(h)) <= 0 /\ 0 = Cardinality(Tombs(h))
    BY <2>2, FS_EmptySet
  <2>4. x0 \in QueueRec /\ SameRing(q, x0) /\ x0.qhash = h /\ x0.tombstones = 0
    BY <2>1 DEF QueueRec, SameRing, h
  <2>5. First(q, 0) = {}
    BY DEF First
  <2> HIDE DEF x0
  <2>6. SetInv(x0, First(q, 0), 0)
    BY <2>2, <2>3, <2>4, <2>5 DEF SetInv
  <2> QED
    BY <1>0, <2>4, <2>6
<1>2. ASSUME NEW n \in 1 .. N, NEW r \in X[n - 1] PROVE Turn(n, r) \in X[n]
  <2> HIDE DEF N
  <2>1. n - 1 \in 0 .. N /\ n \in 0 .. N /\ n - 1 \in 0 .. QueueMax /\ (n - 1) + 1 = n
    BY <1>0
  <2>2. r \in QueueRec /\ SameRing(q, r) /\ SetInv(r, First(q, n - 1), n - 1)
    BY <2>1
  <2>3. Queued(q)[n].ep \in Endpoints
    BY DEF AllEntries, Entries, N
  <2>4. /\ Turn(n, r) \in QueueRec /\ SameRing(r, Turn(n, r))
        /\ SetInv(Turn(n, r), First(q, n - 1) \cup {Queued(q)[n].ep}, n)
    <3>1. SetInv(Turn(n, r), First(q, n - 1) \cup {Queued(q)[n].ep}, (n - 1) + 1)
      BY <2>1, <2>2, <2>3, AddRawKeeps
    <3> QED
      BY <2>1, <2>2, <2>3, <3>1, AddRawKeeps
  <2>5. First(q, n) = First(q, n - 1) \cup {Queued(q)[n].ep}
    <3>1. 1 .. n = (1 .. n - 1) \cup {n}
      BY <1>0
    <3> QED
      BY <3>1 DEF First
  <2> HIDE DEF Turn
  <2> QED
    BY <2>1, <2>2, <2>4, <2>5 DEF SameRing
<1> HIDE DEF X, x0, Turn
<1>3. Loop(f)
  <2>1. \A n \in 1 .. N : G[n] \in [X[n - 1] -> X[n]]
    BY <1>2
  <2> HIDE DEF N, G, Loop, f
  <2>2. PICK g : LoopRun(N, X, x0, G, g)
    BY <1>0, <1>1, <2>1, LoopRuns
  <2>3. ASSUME NEW n \in 1 .. N PROVE G[n][g[n - 1]] = Turn(n, g[n - 1])
    <3>1. g[n - 1] \in X[n - 1]
      BY <1>0, <2>2 DEF LoopRun
    <3> QED
      BY <3>1 DEF G
  <2>4. Loop(g)
    BY <1>0, <2>2, <2>3 DEF Loop, LoopRun
  <2> QED
    BY <2>4 DEF f
<1>4. HashRebuild(q) = f[N]
  BY DEF HashRebuild, x0, Turn
<1> HIDE DEF f
<1>5. f[0] = x0 /\ \A n \in 1 .. N : f[n] = Turn(n, f[n - 1])
  <2> HIDE DEF N
  <2> QED
    BY <1>0, <1>3
<1> HIDE DEF Loop, N
<1>6. f[N] \in X[N]
  BY <1>0, <1>1, <1>2, <1>5, LoopKeeps
<1> QED
  BY <1>0, <1>4, <1>6 DEF X, Eps, N

\* queue_hash_add of an endpoint that the ring already holds: with or without
\* a rebuild the set holds the ring, with one slot to spare.
LEMMA AddKeeps ==
  ASSUME NEW q \in QueueRec, AllEntries(q), NEW e \in Endpoints, NEW M,
         SetInv(q, M, q.qsize), Eps(q) \subseteq M \cup {e}
  PROVE  /\ HashAdd(q, e) \in QueueRec
         /\ SameRing(q, HashAdd(q, e))
         /\ SetInv(HashAdd(q, e), Eps(q), q.qsize + 1)
<1>0. q.qsize \in 0 .. QueueMax
  BY DEF QueueRec
<1>1. CASE q.tombstones > HashCap \div 4
  <2> DEFINE r == HashRebuild(q)
  <2>1. r \in QueueRec /\ SameRing(q, r) /\ SetInv(r, Eps(q), q.qsize)
    BY RebuildKeeps
  <2>2. HashAdd(q, e) = HashAddRaw(r, e)
    BY <1>1 DEF HashAdd
  <2> HIDE DEF r
  <2>3. /\ HashAddRaw(r, e) \in QueueRec /\ SameRing(r, HashAddRaw(r, e))
        /\ SetInv(HashAddRaw(r, e), Eps(q) \cup {e}, q.qsize + 1)
    BY <1>0, <2>1, AddRawKeeps
  <2> QED
    BY <2>1, <2>2, <2>3 DEF SameRing, SetInv
<1>2. CASE ~(q.tombstones > HashCap \div 4)
  <2>1. HashAdd(q, e) = HashAddRaw(q, e)
    BY <1>2 DEF HashAdd
  <2>2. /\ HashAddRaw(q, e) \in QueueRec /\ SameRing(q, HashAddRaw(q, e))
        /\ SetInv(HashAddRaw(q, e), M \cup {e}, q.qsize + 1)
    BY <1>0, AddRawKeeps
  <2> QED
    BY <2>1, <2>2 DEF SetInv
<1> QED
  BY <1>1, <1>2
----------------------------------------------------------------------------
(* The ring.                                                               *)

DistinctEps(q) ==
  \A i, j \in 1 .. q.qsize : Queued(q)[i].ep = Queued(q)[j].ep => i = j

\* The candidate queue is sound: the ring is well formed, its endpoints differ,
\* and the set holds them all.
QueueInv(q) ==
  /\ q \in QueueRec
  /\ q.qtail = (q.qhead + q.qsize) % QueueMax
  /\ AllEntries(q)
  /\ DistinctEps(q)
  /\ SetInv(q, Eps(q), q.qsize + 1)

LEMMA SameRingQueued ==
  ASSUME NEW q, NEW r, SameRing(q, r)
  PROVE  /\ Queued(r) = Queued(q) /\ Eps(r) = Eps(q)
         /\ AllEntries(r) <=> AllEntries(q)
         /\ DistinctEps(r) <=> DistinctEps(q)
BY DEF SameRing, Queued, Eps, First, AllEntries, DistinctEps

\* The cell of the i-th entry behind a head h.
LEMMA QCell ==
  ASSUME NEW h \in Cells, NEW i \in 1 .. QueueMax
  PROVE  /\ (h + i - 1) % QueueMax \in Cells
         /\ (h + i - 1) % QueueMax
              = IF h + i <= QueueMax THEN h + i - 1 ELSE h + i - 1 - QueueMax
<1>1. QueueMax \in Nat \ {0} /\ h \in 0 .. QueueMax - 1 /\ i - 1 \in 0 .. QueueMax - 1
  BY QueueAssumption DEF Cells
<1>2. h + i - 1 = h + (i - 1)
  BY <1>1
<1>3. /\ (h + (i - 1)) % QueueMax \in 0 .. QueueMax - 1
      /\ (h + (i - 1)) % QueueMax
           = IF h + (i - 1) < QueueMax THEN h + (i - 1) ELSE h + (i - 1) - QueueMax
  BY <1>1, CellWrap
<1> QED
  BY <1>1, <1>2, <1>3 DEF Cells

\* Cells behind the same head differ; the cells behind the next head and behind
\* the one before are shifted by one.
LEMMA QCellShift ==
  ASSUME NEW h \in Cells
  PROVE  /\ \A i, j \in 1 .. QueueMax :
              (h + i - 1) % QueueMax = (h + j - 1) % QueueMax => i = j
         /\ LET g == (h + 1) % QueueMax
            IN  /\ g \in Cells
                /\ \A i \in 1 .. QueueMax - 1 :
                     (g + i - 1) % QueueMax = (h + (i + 1) - 1) % QueueMax
         /\ LET g == (h + QueueMax - 1) % QueueMax
            IN  /\ g \in Cells /\ (g + 1 - 1) % QueueMax = g
                /\ (g + 1) % QueueMax = h
                /\ \A i \in 1 .. QueueMax - 1 :
                     (g + (i + 1) - 1) % QueueMax = (h + i - 1) % QueueMax
<1> DEFINE N == QueueMax
           C(x, i) == IF x + i <= N THEN x + i - 1 ELSE x + i - 1 - N
           up == (h + 1) % N
           dn == (h + N - 1) % N
<1>0. N \in Nat \ {0} /\ h \in 0 .. N - 1 /\ Cells = 0 .. N - 1
  BY QueueAssumption DEF Cells
<1>1. \A x \in Cells, i \in 1 .. N : (x + i - 1) % N = C(x, i)
  BY QCell
<1>2. up = (IF h + 1 < N THEN h + 1 ELSE 0)
  BY <1>0
<1>3. dn = IF h > 0 THEN h - 1 ELSE N - 1
  <2>1. dn = C(h, N)
    BY <1>0, <1>1
  <2> QED
    BY <1>0, <2>1
<1> HIDE DEF N, up, dn
<1>4. up \in Cells /\ dn \in Cells
  BY <1>0, <1>2, <1>3
<1>5. \A i, j \in 1 .. N : C(h, i) = C(h, j) => i = j
  BY <1>0
<1>6. \A i \in 1 .. N - 1 : i \in 1 .. N /\ i + 1 \in 1 .. N /\ C(up, i) = C(h, i + 1)
  BY <1>0, <1>2
<1>7. \A i \in 1 .. N - 1 : C(dn, i + 1) = C(h, i)
  BY <1>0, <1>3
<1>8. C(dn, 1) = dn /\ 1 \in 1 .. N
  BY <1>0, <1>3
<1>9. (dn + 1) % N = h
  BY <1>0, <1>3
<1> HIDE DEF C
<1>10. ASSUME NEW i \in 1 .. N, NEW j \in 1 .. N, (h + i - 1) % N = (h + j - 1) % N
       PROVE  i = j
  <2>1. (h + i - 1) % N = C(h, i)
    BY <1>1
  <2>2. (h + j - 1) % N = C(h, j)
    BY <1>1
  <2> QED
    BY <1>5, <1>10, <2>1, <2>2
<1>11. \A i \in 1 .. N - 1 : (up + i - 1) % N = (h + (i + 1) - 1) % N
  BY <1>0, <1>1, <1>4, <1>6
<1>12. \A i \in 1 .. N - 1 : (dn + (i + 1) - 1) % N = (h + i - 1) % N
  BY <1>0, <1>1, <1>4, <1>6, <1>7
<1>13. (dn + 1 - 1) % N = dn
  BY <1>0, <1>1, <1>4, <1>8
<1> QED
  BY <1>4, <1>9, <1>10, <1>11, <1>12, <1>13 DEF N, up, dn

\* The entry is in the ring and counted, and the set is as before.
Put(q, r, entry) ==
  /\ r \in QueueRec /\ r.qsize = q.qsize + 1
  /\ r.qhash = q.qhash /\ r.tombstones = q.tombstones
  /\ r.qtail = (r.qhead + r.qsize) % QueueMax
  /\ AllEntries(r) /\ DistinctEps(r)
  /\ Eps(r) = Eps(q) \cup {entry.ep}

\* An entry that follows or precedes the others, seen from the new head.
LEMMA PutForm ==
  ASSUME NEW q, QueueInv(q), NEW entry \in Entries, entry.ep \notin Eps(q),
         NEW r \in QueueRec, r.qsize = q.qsize + 1, NEW k \in {0, q.qsize},
         r.qhash = q.qhash, r.tombstones = q.tombstones,
         r.qtail = (r.qhead + r.qsize) % QueueMax,
         Queued(r)[k + 1] = entry,
         k = 0 => \A i \in 1 .. q.qsize : Queued(r)[i + 1] = Queued(q)[i],
         k # 0 => \A i \in 1 .. q.qsize : Queued(r)[i] = Queued(q)[i]
  PROVE  Put(q, r, entry)
<1> DEFINE n == q.qsize
           at(i) == IF k = 0 THEN i + 1 ELSE i
           src(i) == IF k = 0 THEN i - 1 ELSE i
<1>0. n \in Nat /\ k \in Nat /\ k \in {0, n} /\ q.qsize = n
  BY DEF QueueInv, QueueRec
<1>1. \A i \in 1 .. n : Queued(r)[at(i)] = Queued(q)[i]
  OBVIOUS
<1>2. /\ \A i \in 1 .. n : Queued(q)[i] \in Entries /\ Queued(q)[i].ep # entry.ep
      /\ \A i, j \in 1 .. n : Queued(q)[i].ep = Queued(q)[j].ep => i = j
  BY DEF QueueInv, AllEntries, DistinctEps, Eps, First
<1> HIDE DEF n
<1>3. /\ k + 1 \in 1 .. n + 1
      /\ \A i \in 1 .. n : at(i) \in 1 .. n + 1 /\ at(i) # k + 1
      /\ \A i \in 1 .. n + 1 : i # k + 1 => src(i) \in 1 .. n /\ at(src(i)) = i
  BY <1>0
<1> HIDE DEF at
<1>4. \A i \in 1 .. n + 1 : i # k + 1 => Queued(r)[i] = Queued(q)[src(i)]
  BY <1>1, <1>3
<1>5. AllEntries(r)
  BY <1>0, <1>2, <1>3, <1>4 DEF AllEntries
<1>6. DistinctEps(r)
  <2> SUFFICES ASSUME NEW i \in 1 .. n + 1, NEW j \in 1 .. n + 1,
                      Queued(r)[i].ep = Queued(r)[j].ep
               PROVE  i = j
    BY <1>0 DEF DistinctEps
  <2>1. CASE i = k + 1 /\ j = k + 1
    BY <2>1
  <2>2. CASE i # k + 1 /\ j = k + 1
    BY <1>2, <1>3, <1>4, <2>2
  <2>3. CASE i = k + 1 /\ j # k + 1
    BY <1>2, <1>3, <1>4, <2>3
  <2>4. CASE i # k + 1 /\ j # k + 1
    <3>1. src(i) = src(j)
      BY <1>2, <1>3, <1>4, <2>4
    <3> QED
      BY <1>3, <2>4, <3>1
  <2> QED
    BY <2>1, <2>2, <2>3, <2>4
<1>7. Eps(r) = Eps(q) \cup {entry.ep}
  <2>1. Eps(r) = {Queued(r)[i].ep : i \in 1 .. n + 1} /\ Eps(q) = {Queued(q)[i].ep : i \in 1 .. n}
    BY <1>0 DEF Eps, First
  <2>2. ASSUME NEW i \in 1 .. n + 1 PROVE Queued(r)[i].ep \in Eps(q) \cup {entry.ep}
    <3>1. CASE i = k + 1
      BY <3>1
    <3>2. CASE i # k + 1
      <4>1. src(i) \in 1 .. n /\ Queued(r)[i] = Queued(q)[src(i)]
        BY <1>3, <1>4, <3>2
      <4> QED
        BY <2>1, <4>1
    <3> QED
      BY <3>1, <3>2
  <2>3. entry.ep \in Eps(r)
    BY <1>3, <2>1
  <2>4. ASSUME NEW i \in 1 .. n PROVE Queued(q)[i].ep \in Eps(r)
    <3>1. at(i) \in 1 .. n + 1 /\ Queued(r)[at(i)] = Queued(q)[i]
      BY <1>1, <1>3
    <3> QED
      BY <2>1, <3>1
  <2> QED
    BY <2>1, <2>2, <2>3, <2>4
<1> QED
  BY <1>5, <1>6, <1>7 DEF Put

\* The tail of queue_insert.
LEMMA StoreKeeps ==
  ASSUME NEW q, QueueInv(q), NEW entry \in Entries, entry.ep \notin Eps(q),
         q.qsize < QueueMax, NEW front \in BOOLEAN
  PROVE  /\ QueueInv(Store(q, entry, front))
         /\ Store(q, entry, front).qsize = q.qsize + 1
         /\ Eps(Store(q, entry, front)) = Eps(q) \cup {entry.ep}
         /\ front => HeadEntry(Store(q, entry, front)) = entry
<1> DEFINE n == q.qsize
           h == q.qhead
           head == (h + QueueMax - 1) % QueueMax
           put == IF front THEN [q EXCEPT !.qhead = head, !.ring[head] = entry]
                  ELSE [q EXCEPT !.ring[q.qtail] = entry,
                                 !.qtail = (q.qtail + 1) % QueueMax]
           r == [put EXCEPT !.qsize = @ + 1]
           out == HashAdd(r, entry.ep)
<1>0. /\ n \in Nat /\ h \in Cells /\ q.qtail \in Cells /\ n < QueueMax /\ QueueMax \in Nat
      /\ q \in QueueRec /\ q.ring \in [Cells -> Entries \cup {NoEntry}]
      /\ q.qtail = (h + n) % QueueMax /\ q.qsize = n /\ q.qhead = h
      /\ n + 1 \in 0 .. QueueMax
  BY QueueAssumption DEF QueueInv, QueueRec
<1>1. /\ \A i, j \in 1 .. QueueMax :
            (h + i - 1) % QueueMax = (h + j - 1) % QueueMax => i = j
      /\ \A i \in 1 .. QueueMax : (h + i - 1) % QueueMax \in Cells
  BY <1>0, QCellShift, QCell
<1>2. Queued(q) = [i \in 1 .. n |-> q.ring[(h + i - 1) % QueueMax]]
  BY DEF Queued
<1> HIDE DEF n
<1>3. Put(q, r, entry) /\ (front => HeadEntry(r) = entry)
  <2>1. CASE front
    <3> DEFINE ring == [q.ring EXCEPT ![head] = entry]
    <3>1. /\ head \in Cells /\ (head + 1 - 1) % QueueMax = head
          /\ (head + 1) % QueueMax = h
          /\ \A i \in 1 .. QueueMax - 1 :
               (head + (i + 1) - 1) % QueueMax = (h + i - 1) % QueueMax
      BY <1>0, QCellShift
    <3>2. (h + QueueMax - 1) % QueueMax = head
      OBVIOUS
    <3> HIDE DEF head, h
    <3>3. ring \in [Cells -> Entries \cup {NoEntry}] /\ ring[head] = entry
          /\ \A c \in Cells : c # head => ring[c] = q.ring[c]
      BY <1>0, <3>1
    <3> HIDE DEF ring
    <3>4. r = [q EXCEPT !.qhead = head, !.ring = ring, !.qsize = n + 1]
      BY <1>0, <2>1 DEF ring, QueueRec
    <3> HIDE DEF r
    <3>5. /\ r \in QueueRec /\ r.qhead = head /\ r.ring = ring /\ r.qsize = n + 1
          /\ r.qtail = q.qtail /\ r.qhash = q.qhash /\ r.tombstones = q.tombstones
      BY <1>0, <3>1, <3>3, <3>4 DEF QueueRec
    <3>6. r.qtail = (r.qhead + r.qsize) % QueueMax
      <4>1. (head + (n + 1)) % QueueMax = (h + n) % QueueMax
        <5>1. CASE n = 0
          <6>1. (h + 0) % QueueMax = h
            BY <1>0, QueueAssumption, CellZero DEF Cells
          <6> QED
            BY <3>1, <5>1, <6>1
        <5>2. CASE n # 0
          <6>1. /\ head \in 0 .. QueueMax - 1 /\ n \in 0 .. QueueMax - 1
                /\ QueueMax \in Nat \ {0}
            BY <1>0, <3>1, QueueAssumption DEF Cells
          <6>2. (((head + 1) % QueueMax) + n) % QueueMax = (head + (n + 1)) % QueueMax
            BY <6>1, CellAfterPop
          <6> QED
            BY <3>1, <6>2
        <5> QED
          BY <5>1, <5>2
      <4> QED
        BY <1>0, <3>5, <4>1
    <3>7. Queued(r) = [i \in 1 .. n + 1 |-> ring[(head + i - 1) % QueueMax]]
      BY <3>5 DEF Queued
    <3>8. Queued(r)[0 + 1] = entry
      BY <1>0, <3>1, <3>3, <3>7
    <3>9. ASSUME NEW i \in 1 .. n PROVE Queued(r)[i + 1] = Queued(q)[i]
      <4>1. /\ i \in 1 .. QueueMax - 1 /\ i \in 1 .. QueueMax /\ i + 1 \in 1 .. n + 1
            /\ QueueMax \in 1 .. QueueMax /\ i # QueueMax
        BY <1>0
      <4>2. (h + i - 1) % QueueMax # head /\ (h + i - 1) % QueueMax \in Cells
        BY <1>1, <3>2, <4>1
      <4>3. Queued(r)[i + 1] = ring[(h + i - 1) % QueueMax]
        BY <3>1, <3>7, <4>1
      <4> QED
        BY <1>2, <3>3, <4>2, <4>3
    <3>10. Put(q, r, entry)
      BY <1>0, <3>5, <3>6, <3>8, <3>9, PutForm
    <3> QED
      BY <3>3, <3>5, <3>10 DEF HeadEntry
  <2>2. CASE ~front
    <3> DEFINE t == q.qtail
               ring == [q.ring EXCEPT ![t] = entry]
               next == (t + 1) % QueueMax
    <3>1. t = (h + (n + 1) - 1) % QueueMax /\ n + 1 \in 1 .. QueueMax /\ next \in Cells
      <4>1. h + (n + 1) - 1 = h + n
        BY <1>0, QueueAssumption DEF Cells
      <4> QED
        BY <1>0, <4>1, QCellShift
    <3>2. ring \in [Cells -> Entries \cup {NoEntry}] /\ ring[t] = entry
          /\ \A c \in Cells : c # t => ring[c] = q.ring[c]
      BY <1>0
    <3> HIDE DEF ring, next
    <3>3. r = [q EXCEPT !.qtail = next, !.ring = ring, !.qsize = n + 1]
      BY <1>0, <2>2 DEF ring, next, QueueRec
    <3> HIDE DEF r
    <3>4. /\ r \in QueueRec /\ r.qhead = h /\ r.ring = ring /\ r.qsize = n + 1
          /\ r.qtail = next /\ r.qhash = q.qhash /\ r.tombstones = q.tombstones
      BY <1>0, <3>1, <3>2, <3>3 DEF QueueRec
    <3> HIDE DEF t
    <3>5. r.qtail = (r.qhead + r.qsize) % QueueMax
      <4>1. h \in 0 .. QueueMax - 1 /\ n \in 0 .. QueueMax - 1 /\ QueueMax \in Nat \ {0}
        BY <1>0, QueueAssumption DEF Cells
      <4>2. (((h + n) % QueueMax) + 1) % QueueMax = (h + (n + 1)) % QueueMax
        BY <4>1, CellAdd
      <4> QED
        BY <1>0, <3>4, <4>2 DEF next, t
    <3>6. Queued(r) = [i \in 1 .. n + 1 |-> ring[(h + i - 1) % QueueMax]]
      BY <3>4 DEF Queued
    <3>7. Queued(r)[n + 1] = entry
      BY <1>0, <3>1, <3>2, <3>6
    <3>8. ASSUME NEW i \in 1 .. n PROVE Queued(r)[i] = Queued(q)[i]
      <4>1. i \in 1 .. QueueMax /\ i \in 1 .. n + 1 /\ i # n + 1
        BY <1>0
      <4>2. (h + i - 1) % QueueMax # t /\ (h + i - 1) % QueueMax \in Cells
        BY <1>1, <3>1, <4>1
      <4> QED
        BY <1>2, <3>2, <3>6, <4>1, <4>2
    <3>9. Put(q, r, entry)
      <4>1. n = 0 => \A i \in 1 .. n : Queued(r)[i + 1] = Queued(q)[i]
        BY <1>0
      <4> QED
        BY <1>0, <3>4, <3>5, <3>7, <3>8, <4>1, PutForm
    <3> QED
      BY <2>2, <3>9
  <2> QED
    BY <2>1, <2>2
<1>4. Store(q, entry, front) = out
  BY DEF Store
<1> HIDE DEF r, out
<1>5. /\ out \in QueueRec /\ SameRing(r, out) /\ SetInv(out, Eps(r), r.qsize + 1)
  <2>1. SetInv(r, Eps(q), r.qsize) /\ Eps(r) = Eps(q) \cup {entry.ep}
    BY <1>3 DEF Put, SetInv, QueueInv
  <2>2. entry.ep \in Endpoints /\ r \in QueueRec /\ AllEntries(r)
    BY <1>3 DEF Put, Entries
  <2> QED
    BY <2>1, <2>2, AddKeeps DEF out
<1>6. QueueInv(out) /\ Eps(out) = Eps(r) /\ HeadEntry(out) = HeadEntry(r) /\ out.qsize = r.qsize
  BY <1>3, <1>5, SameRingQueued DEF Put, QueueInv, SameRing, HeadEntry
<1> QED
  BY <1>3, <1>4, <1>6 DEF Put

\* queue_pop of a queue that is not empty.
LEMMA PopKeeps ==
  ASSUME NEW q, QueueInv(q), q.qsize > 0
  PROVE  /\ QueueInv(Pop(q))
         /\ HeadEntry(q) \in Entries /\ HeadEntry(q).ep \in Eps(q)
         /\ Pop(q).qsize = q.qsize - 1
         /\ Eps(Pop(q)) = Eps(q) \ {HeadEntry(q).ep}
<1> DEFINE n == q.qsize
           h == q.qhead
           e == HeadEntry(q).ep
           next == (h + 1) % QueueMax
           ring == [q.ring EXCEPT ![h] = NoEntry]
           r == [q EXCEPT !.ring = ring, !.qhead = next, !.qsize = n - 1]
           out == HashRemove(r, e)
<1>0. /\ n \in 1 .. QueueMax /\ h \in Cells /\ QueueMax \in Nat \ {0} /\ n \in Nat
      /\ h \in 0 .. QueueMax - 1 /\ n - 1 \in 0 .. QueueMax - 1 /\ n - 1 \in 0 .. QueueMax
      /\ (n - 1) + 1 = n
      /\ q \in QueueRec /\ q.ring \in [Cells -> Entries \cup {NoEntry}]
      /\ q.qtail = (h + n) % QueueMax /\ q.qsize = n /\ q.qhead = h
  BY QueueAssumption DEF QueueInv, QueueRec, Cells
<1>1. /\ \A i, j \in 1 .. QueueMax :
            (h + i - 1) % QueueMax = (h + j - 1) % QueueMax => i = j
      /\ \A i \in 1 .. QueueMax : (h + i - 1) % QueueMax \in Cells
      /\ next \in Cells
      /\ \A i \in 1 .. QueueMax - 1 :
           (next + i - 1) % QueueMax = (h + (i + 1) - 1) % QueueMax
  BY <1>0, QCellShift, QCell
<1>2. Queued(q) = [i \in 1 .. n |-> q.ring[(h + i - 1) % QueueMax]]
  BY DEF Queued
<1>3. (h + 1 - 1) % QueueMax = h /\ 1 \in 1 .. n /\ 1 \in 1 .. QueueMax
  <2>1. h + 1 - 1 = h + 0
    BY <1>0
  <2>2. (h + 0) % QueueMax = h
    BY <1>0, CellZero
  <2> QED
    BY <1>0, <2>1, <2>2
<1>4. Queued(q)[1] = HeadEntry(q)
  BY <1>0, <1>2, <1>3 DEF HeadEntry
<1>5. /\ \A i \in 1 .. n : Queued(q)[i] \in Entries
      /\ \A i, j \in 1 .. n : Queued(q)[i].ep = Queued(q)[j].ep => i = j
      /\ Eps(q) = {Queued(q)[i].ep : i \in 1 .. n}
      /\ SetInv(q, Eps(q), n + 1)
  BY DEF QueueInv, AllEntries, DistinctEps, Eps, First
<1>6. HeadEntry(q) \in Entries /\ e \in Endpoints /\ e \in Eps(q)
  BY <1>3, <1>4, <1>5 DEF Entries
<1>7. /\ ring \in [Cells -> Entries \cup {NoEntry}]
      /\ \A c \in Cells : c # h => ring[c] = q.ring[c]
  BY <1>0
<1>8. Pop(q) = out
  BY <1>0 DEF Pop, QueueRec
<1> HIDE DEF n, h, e, next, ring
<1>9. /\ r \in QueueRec /\ r.qhead = next /\ r.ring = ring /\ r.qsize = n - 1
      /\ r.qtail = q.qtail /\ r.qhash = q.qhash /\ r.tombstones = q.tombstones
  BY <1>0, <1>1, <1>7 DEF QueueRec
<1> HIDE DEF r
<1>10. r.qtail = (r.qhead + r.qsize) % QueueMax
  <2>1. (((h + 1) % QueueMax) + (n - 1)) % QueueMax = (h + ((n - 1) + 1)) % QueueMax
    BY <1>0, CellAfterPop
  <2> QED
    BY <1>0, <1>9, <2>1 DEF next
<1>11. Queued(r) = [i \in 1 .. n - 1 |-> ring[(next + i - 1) % QueueMax]]
  BY <1>9 DEF Queued
<1>12. ASSUME NEW i \in 1 .. n - 1
       PROVE  Queued(r)[i] = Queued(q)[i + 1] /\ i + 1 \in 1 .. n /\ i + 1 # 1
  <2>1. i + 1 \in 1 .. n /\ i + 1 \in 1 .. QueueMax /\ i \in 1 .. QueueMax - 1 /\ i + 1 # 1
    BY <1>0
  <2>2. (h + (i + 1) - 1) % QueueMax # h /\ (h + (i + 1) - 1) % QueueMax \in Cells
    BY <1>1, <1>3, <2>1
  <2>3. Queued(r)[i] = ring[(h + (i + 1) - 1) % QueueMax]
    BY <1>1, <1>11, <2>1
  <2> QED
    BY <1>2, <1>7, <2>1, <2>2, <2>3
<1>13. AllEntries(r)
  BY <1>5, <1>9, <1>12 DEF AllEntries
<1>14. DistinctEps(r)
  <2> SUFFICES ASSUME NEW i \in 1 .. n - 1, NEW j \in 1 .. n - 1,
                      Queued(r)[i].ep = Queued(r)[j].ep
               PROVE  i = j
    BY <1>9 DEF DistinctEps
  <2>1. i + 1 = j + 1
    BY <1>5, <1>12
  <2> QED
    BY <1>0, <2>1
<1>15. Eps(r) = Eps(q) \ {e}
  <2>1. Eps(r) = {Queued(r)[i].ep : i \in 1 .. n - 1}
    BY <1>9 DEF Eps, First
  <2>2. ASSUME NEW i \in 1 .. n - 1 PROVE Queued(r)[i].ep \in Eps(q) /\ Queued(r)[i].ep # e
    <3>1. i + 1 \in 1 .. n /\ i + 1 # 1 /\ Queued(r)[i] = Queued(q)[i + 1]
      BY <1>12
    <3>2. Queued(q)[i + 1].ep # Queued(q)[1].ep
      BY <1>3, <1>5, <3>1
    <3> QED
      BY <1>4, <1>5, <3>1, <3>2 DEF e
  <2>3. ASSUME NEW j \in 1 .. n, Queued(q)[j].ep # e PROVE Queued(q)[j].ep \in Eps(r)
    <3>1. j # 1
      BY <1>4, <2>3 DEF e
    <3>2. j - 1 \in 1 .. n - 1 /\ (j - 1) + 1 = j
      BY <1>0, <3>1
    <3>3. Queued(r)[j - 1] = Queued(q)[j]
      BY <1>12, <3>2
    <3> QED
      BY <2>1, <3>2, <3>3
  <2> QED
    BY <1>5, <2>1, <2>2, <2>3
<1>16. SetInv(r, Eps(q), n + 1)
  BY <1>5, <1>9 DEF SetInv
<1>17. out \in QueueRec /\ SameRing(r, out) /\ SetInv(out, Eps(q) \ {e}, n)
  BY <1>0, <1>6, <1>9, <1>16, RemoveKeeps
<1> HIDE DEF out
<1>18. Eps(out) = Eps(r) /\ AllEntries(out) /\ DistinctEps(out)
  BY <1>13, <1>14, <1>17, SameRingQueued
<1>19. /\ out.qsize = n - 1 /\ out.qsize + 1 = n
       /\ out.qtail = (out.qhead + out.qsize) % QueueMax
  BY <1>0, <1>9, <1>10, <1>17 DEF SameRing
<1> QED
  BY <1>6, <1>8, <1>15, <1>17, <1>18, <1>19 DEF QueueInv, n, e

\* A queue that holds none of the endpoints C.
Avoids(C) == {q \in QueueRec : QueueInv(q) /\ Eps(q) \cap C = {}}

\* queue_insert: whatever it refuses, it keeps the queue sound and free of the
\* endpoints it must refuse; what it takes in front is the next to be dialled.
LEMMA InsertKeeps ==
  ASSUME NEW C, NEW refused, C \subseteq refused, NEW q \in Avoids(C),
         NEW entry \in Entries, NEW front \in BOOLEAN
  PROVE  LET r == Insert(q, entry, front, refused)
         IN  /\ r \in Avoids(C)
             /\ r = q \/ (r.qsize = q.qsize + 1 /\ (front => HeadEntry(r) = entry))
<1> DEFINE r == Insert(q, entry, front, refused)
<1>1. CASE ~Admits(q, entry.ep, refused)
  BY <1>1 DEF Insert
<1>2. CASE Admits(q, entry.ep, refused)
  <2>0. QueueInv(q) /\ q \in QueueRec /\ entry.ep \in Endpoints /\ Eps(q) \cap C = {}
    BY DEF Avoids, Entries
  <2>1. entry.ep \notin Eps(q)
    <3>1. entry.ep \notin Members(q.qhash)
      BY <1>2, <2>0, FoundForm DEF Admits, QueueInv, SetInv
    <3> QED
      BY <2>0, <3>1 DEF QueueInv, SetInv
  <2>2. q.qsize < QueueMax /\ entry.ep \notin C
    BY <1>2 DEF Admits
  <2>3. r = Store(q, entry, front)
    BY <1>2 DEF Insert
  <2> HIDE DEF r
  <2>4. /\ QueueInv(r) /\ r.qsize = q.qsize + 1 /\ Eps(r) = Eps(q) \cup {entry.ep}
        /\ front => HeadEntry(r) = entry
    BY <2>0, <2>1, <2>2, <2>3, StoreKeeps
  <2> QED
    BY <2>0, <2>2, <2>4 DEF Avoids, QueueInv, r
<1> QED
  BY <1>1, <1>2

LEMMA PushKeeps ==
  ASSUME NEW C, NEW refused, C \subseteq refused, NEW q \in Avoids(C), NEW e \in Endpoints
  PROVE  Push(q, e, refused) \in Avoids(C)
<1>1. [ep |-> e, no_mse |-> 0, use_utp |-> 0] \in Entries
  BY DEF Entries
<1> QED
  BY <1>1, InsertKeeps DEF Push

\* torrent_add_initial_peers: the loop that pushes the list.
LEMMA PushAllKeeps ==
  ASSUME NEW C, NEW refused, C \subseteq refused, NEW q \in Avoids(C),
         NEW list \in Seq(Endpoints)
  PROVE  PushAll(q, list, refused) \in Avoids(C)
<1> DEFINE N == Len(list)
           Turn(n, r) == Push(r, list[n], refused)
           X == [n \in 0 .. N |-> Avoids(C)]
           G == [n \in 1 .. N |-> [r \in X[n - 1] |-> Turn(n, r)]]
           Loop(g) == g = [n \in 0 .. N |-> IF n = 0 THEN q ELSE Turn(n, g[n - 1])]
           f == CHOOSE g : Loop(g)
<1>0. N \in Nat /\ \A n \in 1 .. N : list[n] \in Endpoints
  OBVIOUS
<1> HIDE DEF N
<1>1. q \in X[0]
  BY <1>0
<1>2. ASSUME NEW n \in 1 .. N, NEW r \in X[n - 1] PROVE Turn(n, r) \in X[n]
  <2>1. n - 1 \in 0 .. N /\ n \in 0 .. N
    BY <1>0
  <2>2. r \in Avoids(C)
    BY <2>1
  <2> QED
    BY <1>0, <2>1, <2>2, PushKeeps
<1> HIDE DEF X, Turn
<1>3. Loop(f)
  <2>1. \A n \in 1 .. N : G[n] \in [X[n - 1] -> X[n]]
    BY <1>2
  <2> HIDE DEF G, Loop, f
  <2>2. PICK g : LoopRun(N, X, q, G, g)
    BY <1>0, <1>1, <2>1, LoopRuns
  <2>3. ASSUME NEW n \in 1 .. N PROVE G[n][g[n - 1]] = Turn(n, g[n - 1])
    <3>1. g[n - 1] \in X[n - 1]
      BY <1>0, <2>2 DEF LoopRun
    <3> QED
      BY <3>1 DEF G
  <2>4. Loop(g)
    BY <1>0, <2>2, <2>3 DEF Loop, LoopRun
  <2> QED
    BY <2>4 DEF f
<1>4. PushAll(q, list, refused) = f[N]
  BY DEF PushAll, Turn, N
<1> HIDE DEF f
<1>5. f[0] = q /\ \A n \in 1 .. N : f[n] = Turn(n, f[n - 1])
  BY <1>0, <1>3
<1> HIDE DEF Loop
<1>6. f[N] \in X[N]
  BY <1>0, <1>1, <1>2, <1>5, LoopKeeps
<1> QED
  BY <1>0, <1>4, <1>6 DEF X

\* The loop that rotates the entries queued before to the back.
LEMMA RotateKeeps ==
  ASSUME NEW C, NEW refused, C \subseteq refused, NEW q \in Avoids(C), NEW N \in Nat
  PROVE  Rotate(q, N, refused) \in Avoids(C)
<1> DEFINE Turn(n, r) == IF r.qsize = 0 THEN r
                         ELSE Insert(Pop(r), HeadEntry(r), FALSE, refused)
           X == [n \in 0 .. N |-> Avoids(C)]
           G == [n \in 1 .. N |-> [r \in X[n - 1] |-> Turn(n, r)]]
           Loop(g) == g = [n \in 0 .. N |-> IF n = 0 THEN q ELSE Turn(n, g[n - 1])]
           f == CHOOSE g : Loop(g)
<1>1. q \in X[0]
  OBVIOUS
<1>2. ASSUME NEW n \in 1 .. N, NEW r \in X[n - 1] PROVE Turn(n, r) \in X[n]
  <2>1. n - 1 \in 0 .. N /\ n \in 0 .. N
    OBVIOUS
  <2>2. r \in Avoids(C)
    BY <2>1
  <2>3. CASE r.qsize = 0
    BY <2>1, <2>2, <2>3
  <2>4. CASE r.qsize # 0
    <3>1. QueueInv(r) /\ r.qsize > 0 /\ Eps(r) \cap C = {}
      BY <2>2, <2>4 DEF Avoids, QueueRec
    <3>2. /\ QueueInv(Pop(r)) /\ HeadEntry(r) \in Entries
          /\ Eps(Pop(r)) = Eps(r) \ {HeadEntry(r).ep}
      BY <3>1, PopKeeps
    <3>3. Pop(r) \in Avoids(C)
      BY <3>1, <3>2 DEF Avoids, QueueInv
    <3>4. Insert(Pop(r), HeadEntry(r), FALSE, refused) \in Avoids(C)
      BY <3>2, <3>3, InsertKeeps
    <3> QED
      BY <2>1, <2>4, <3>4
  <2> QED
    BY <2>3, <2>4
<1> HIDE DEF X, Turn
<1>3. Loop(f)
  <2>1. \A n \in 1 .. N : G[n] \in [X[n - 1] -> X[n]]
    BY <1>2
  <2> HIDE DEF G, Loop, f
  <2>2. PICK g : LoopRun(N, X, q, G, g)
    BY <1>1, <2>1, LoopRuns
  <2>3. ASSUME NEW n \in 1 .. N PROVE G[n][g[n - 1]] = Turn(n, g[n - 1])
    <3>1. g[n - 1] \in X[n - 1]
      BY <2>2 DEF LoopRun
    <3> QED
      BY <3>1 DEF G
  <2>4. Loop(g)
    BY <2>2, <2>3 DEF Loop, LoopRun
  <2> QED
    BY <2>4 DEF f
<1>4. Rotate(q, N, refused) = f[N]
  BY DEF Rotate, Turn
<1> HIDE DEF f
<1>5. f[0] = q /\ \A n \in 1 .. N : f[n] = Turn(n, f[n - 1])
  BY <1>3
<1> HIDE DEF Loop
<1>6. f[N] \in X[N]
  BY <1>1, <1>2, <1>5, LoopKeeps
<1> QED
  BY <1>4, <1>6 DEF X

\* torrent_add_initial_peers
LEMMA InitialKeeps ==
  ASSUME NEW C, NEW refused, C \subseteq refused, NEW q \in Avoids(C),
         NEW list \in Seq(Endpoints)
  PROVE  AddInitialPeers(q, list, refused) \in Avoids(C)
<1> DEFINE grown == PushAll(q, list, refused)
<1>1. AddInitialPeers(q, list, refused)
        = IF grown.qsize = q.qsize THEN q ELSE Rotate(grown, q.qsize, refused)
  BY DEF AddInitialPeers
<1>2. grown \in Avoids(C)
  BY PushAllKeeps
<1>2a. q.qsize \in Nat
  BY DEF Avoids, QueueRec
<1> HIDE DEF grown
<1>3. Rotate(grown, q.qsize, refused) \in Avoids(C)
  BY <1>2, <1>2a, RotateKeeps
<1> QED
  BY <1>1, <1>3
----------------------------------------------------------------------------
(* The peer slots.                                                         *)

UsedIn(ps) == {s \in PeerSlots : ps[s] # NoPeer}
EpsIn(ps)  == {ps[s].ep : s \in UsedIn(ps)}

\* The slots ps are well formed and n of them are used, by different
\* endpoints; only a peer that was dialled with MSE is in its handshake.
PeersInv(ps, n) ==
  /\ ps \in [PeerSlots -> Peer \cup {NoPeer}]
  /\ n = Cardinality(UsedIn(ps))
  /\ \A s, x \in UsedIn(ps) : ps[s].ep = ps[x].ep => s = x
  /\ \A s \in UsedIn(ps) : ps[s].state = "MSE" => ps[s].mse = TRUE

LEMMA PeerFacts ==
  ASSUME NEW ps, NEW n, PeersInv(ps, n)
  PROVE  /\ IsFiniteSet(UsedIn(ps)) /\ n \in 0 .. MaxPeers
         /\ \A s \in UsedIn(ps) : ps[s] \in Peer /\ ps[s].ep \in Endpoints
         /\ n < MaxPeers => \E s \in PeerSlots : s \notin UsedIn(ps)
<1>1. IsFiniteSet(PeerSlots) /\ Cardinality(PeerSlots) = MaxPeers
  BY FS_Interval, SwarmAssumption DEF PeerSlots
<1>2. UsedIn(ps) \subseteq PeerSlots
  BY DEF UsedIn
<1>3. /\ IsFiniteSet(UsedIn(ps)) /\ Cardinality(UsedIn(ps)) \in Nat
      /\ Cardinality(UsedIn(ps)) <= MaxPeers
  BY <1>1, <1>2, FS_Subset, FS_CardinalityType
<1>4. n < MaxPeers => UsedIn(ps) # PeerSlots
  BY <1>1, SwarmAssumption DEF PeersInv
<1>5. \A s \in UsedIn(ps) : ps[s] \in Peer
  BY DEF PeersInv, UsedIn
<1>6. \A p \in Peer : p.ep \in Endpoints
  BY DEF Peer
<1>7. n \in 0 .. MaxPeers
  BY <1>3, SwarmAssumption DEF PeersInv
<1>8. n < MaxPeers => \E s \in PeerSlots : s \notin UsedIn(ps)
  BY <1>2, <1>4
<1> QED
  BY <1>3, <1>5, <1>6, <1>7, <1>8

LEMMA NoPeerIsNone == NoPeer \notin Peer
<1>1. DOMAIN NoPeer = {"ep"}
  BY DEF NoPeer
<1>2. \A p \in Peer : "state" \in DOMAIN p
  BY DEF Peer
<1> QED
  BY <1>1, <1>2

\* A slot gets a peer with an endpoint that no other slot has.
LEMMA SlotFilled ==
  ASSUME NEW ps, NEW n, PeersInv(ps, n), NEW s \in PeerSlots, NEW p \in Peer,
         p.state = "MSE" => p.mse = TRUE,
         \A x \in UsedIn(ps) : ps[x].ep = p.ep => x = s
  PROVE  LET qs == [ps EXCEPT ![s] = p]
         IN  /\ s \notin UsedIn(ps) =>
                  PeersInv(qs, n + 1) /\ EpsIn(qs) = EpsIn(ps) \cup {p.ep}
             /\ s \in UsedIn(ps) /\ ps[s].ep = p.ep =>
                  PeersInv(qs, n) /\ EpsIn(qs) = EpsIn(ps)
<1> DEFINE qs == [ps EXCEPT ![s] = p]
<1>1. /\ qs \in [PeerSlots -> Peer \cup {NoPeer}] /\ qs[s] = p
      /\ \A x \in PeerSlots : x # s => qs[x] = ps[x]
  BY DEF PeersInv
<1> HIDE DEF qs
<1>2. UsedIn(qs) = UsedIn(ps) \cup {s}
  BY <1>1, NoPeerIsNone DEF UsedIn
<1>3. /\ \A x \in UsedIn(qs) : x \in PeerSlots
      /\ \A x \in UsedIn(qs) : x # s => x \in UsedIn(ps) /\ qs[x] = ps[x]
  BY <1>1, <1>2 DEF UsedIn
<1>4. \A x, y \in UsedIn(qs) : qs[x].ep = qs[y].ep => x = y
  BY <1>1, <1>3 DEF PeersInv
<1>5. \A x \in UsedIn(qs) : qs[x].state = "MSE" => qs[x].mse = TRUE
  BY <1>1, <1>3 DEF PeersInv
<1>6. s \notin UsedIn(ps) => Cardinality(UsedIn(qs)) = n + 1
  BY <1>2, PeerFacts, FS_AddElement DEF PeersInv
<1>7. s \in UsedIn(ps) => UsedIn(qs) = UsedIn(ps)
  BY <1>2
<1>8. \A x \in UsedIn(ps) : x \in PeerSlots
  BY DEF UsedIn
<1>9. s \notin UsedIn(ps) => EpsIn(qs) = EpsIn(ps) \cup {p.ep}
  BY <1>1, <1>2, <1>8 DEF EpsIn
<1>10. s \in UsedIn(ps) /\ ps[s].ep = p.ep => EpsIn(qs) = EpsIn(ps)
  <2> SUFFICES ASSUME s \in UsedIn(ps), ps[s].ep = p.ep PROVE EpsIn(qs) = EpsIn(ps)
    OBVIOUS
  <2>1. \A x \in UsedIn(ps) : qs[x].ep = ps[x].ep
    BY <1>1, <1>8
  <2> QED
    BY <1>7, <2>1 DEF EpsIn
<1> QED
  BY <1>1, <1>4, <1>5, <1>6, <1>7, <1>9, <1>10 DEF PeersInv, qs

\* A free slot is filled.
LEMMA FreeSlotFilled ==
  ASSUME NEW ps, NEW n, PeersInv(ps, n), NEW s \in PeerSlots, s \notin UsedIn(ps),
         NEW p \in Peer, p.state # "MSE", p.ep \notin EpsIn(ps)
  PROVE  /\ PeersInv([ps EXCEPT ![s] = p], n + 1)
         /\ EpsIn([ps EXCEPT ![s] = p]) = EpsIn(ps) \cup {p.ep}
<1>1. \A x \in UsedIn(ps) : ps[x].ep = p.ep => x = s
  BY DEF EpsIn
<1>2. p.state = "MSE" => p.mse = TRUE
  OBVIOUS
<1> QED
  BY <1>1, <1>2, SlotFilled, Zenon

\* A slot is emptied.
LEMMA SlotFreed ==
  ASSUME NEW ps, NEW n, PeersInv(ps, n), NEW s \in UsedIn(ps)
  PROVE  LET qs == [ps EXCEPT ![s] = NoPeer]
         IN  /\ PeersInv(qs, n - 1) /\ EpsIn(qs) \subseteq EpsIn(ps)
             /\ EpsIn(qs) = {ps[x].ep : x \in {y \in PeerSlots : ps[y] # NoPeer /\ y # s}}
             /\ UsedIn(qs) = UsedIn(ps) \ {s}
<1> DEFINE qs == [ps EXCEPT ![s] = NoPeer]
<1>0. s \in PeerSlots
  BY DEF UsedIn
<1>1. /\ qs \in [PeerSlots -> Peer \cup {NoPeer}] /\ qs[s] = NoPeer
      /\ \A x \in PeerSlots : x # s => qs[x] = ps[x]
  BY <1>0 DEF PeersInv
<1> HIDE DEF qs
<1>2. UsedIn(qs) = UsedIn(ps) \ {s} /\ UsedIn(qs) = {y \in PeerSlots : ps[y] # NoPeer /\ y # s}
  BY <1>1 DEF UsedIn
<1>3. \A x \in UsedIn(qs) : x \in UsedIn(ps) /\ qs[x] = ps[x]
  BY <1>1, <1>2 DEF UsedIn
<1>4. Cardinality(UsedIn(qs)) = n - 1
  BY <1>2, PeerFacts, FS_RemoveElement DEF PeersInv
<1>5. PeersInv(qs, n - 1)
  BY <1>1, <1>3, <1>4 DEF PeersInv
<1>6. EpsIn(qs) = {ps[x].ep : x \in UsedIn(qs)}
  BY <1>3 DEF EpsIn
<1>7. EpsIn(qs) \subseteq EpsIn(ps)
  BY <1>3, <1>6 DEF EpsIn
<1> QED
  BY <1>2, <1>5, <1>6, <1>7 DEF qs

\* blocklist_add
LEMMA BlocklistKeeps ==
  ASSUME NEW bl \in Seq(Endpoints), Len(bl) <= BlockMax, NEW e \in Endpoints
  PROVE  BlocklistAdd(bl, e) \in Seq(Endpoints) /\ Len(BlocklistAdd(bl, e)) <= BlockMax
<1>1. CASE Len(bl) < BlockMax
  BY <1>1, SwarmAssumption DEF BlocklistAdd
<1>2. CASE ~(Len(bl) < BlockMax)
  <2>1. bl # <<>>
    BY <1>2, SwarmAssumption
  <2>2. Tail(bl) \in Seq(Endpoints) /\ Len(Tail(bl)) = Len(bl) - 1
    BY <2>1
  <2> QED
    BY <1>2, <2>2, SwarmAssumption DEF BlocklistAdd
<1> QED
  BY <1>1, <1>2
----------------------------------------------------------------------------
(* The swarm.                                                              *)

\* The inductive invariant: sound slots, a sound queue that avoids them, and
\* the types of the rest.
SwarmInv ==
  /\ PeersInv(peers, num_peers)
  /\ queue \in Avoids(EpsIn(peers))
  /\ blocklist \in Seq(Endpoints) /\ Len(blocklist) <= BlockMax
  /\ utp \in BOOLEAN
  /\ supplies \in 0 .. MaxSupplies

LEMMA ConnectedIs == Connected = EpsIn(peers) /\ \A s \in PeerSlots : Used(s) <=> s \in UsedIn(peers)
BY DEF Connected, EpsIn, UsedIn, Used

\* handle_dial_failure puts the endpoint in front of the queue on a higher rung,
\* or leaves the queue alone.
LEMMA RequeueForm ==
  ASSUME NEW C, NEW refused, C \subseteq refused, NEW q \in Avoids(C),
         NEW p \in Peer, p.state = "MSE" => p.mse = TRUE
  PROVE  LET r == DialFailureRequeue(p, p.ep, q, refused)
         IN  /\ r \in Avoids(C)
             /\ \/ r = q
                \/ /\ HeadEntry(r).ep = p.ep
                   /\ Rung(HeadEntry(r).no_mse, HeadEntry(r).use_utp) > PeerRung(p)
<1> DEFINE a == [ep |-> p.ep, no_mse |-> 1, use_utp |-> p.use_utp]
           b == [ep |-> p.ep, no_mse |-> 0, use_utp |-> 1]
           ra == Insert(q, a, TRUE, refused)
           rb == Insert(q, b, TRUE, refused)
           r == DialFailureRequeue(p, p.ep, q, refused)
<1>0. p.ep \in Endpoints /\ p.use_utp \in {0, 1} /\ p.mse \in BOOLEAN
  BY DEF Peer
<1>1. /\ a \in Entries /\ a.ep = p.ep /\ a.no_mse = 1 /\ a.use_utp = p.use_utp
      /\ b \in Entries /\ b.ep = p.ep /\ b.no_mse = 0 /\ b.use_utp = 1
  BY <1>0 DEF Entries
<1>2. \/ r = q
      \/ p.state = "MSE" /\ r = ra
      \/ p.use_utp = 0 /\ r = rb
  BY DEF DialFailureRequeue, RequeueUtp
<1> HIDE DEF a, b, r
<1>3. /\ ra \in Avoids(C) /\ (ra = q \/ HeadEntry(ra) = a)
      /\ rb \in Avoids(C) /\ (rb = q \/ HeadEntry(rb) = b)
  BY <1>1, InsertKeeps
<1> HIDE DEF ra, rb
<1>4. p.state = "MSE" => Rung(a.no_mse, a.use_utp) > PeerRung(p)
  BY <1>0, <1>1 DEF Rung, PeerRung
<1>5. p.use_utp = 0 => Rung(b.no_mse, b.use_utp) > PeerRung(p)
  BY <1>0, <1>1 DEF Rung, PeerRung
<1> QED
  BY <1>1, <1>2, <1>3, <1>4, <1>5 DEF r

\* A queue that avoids more endpoints avoids fewer.
LEMMA AvoidsLess == ASSUME NEW B, NEW C, B \subseteq C PROVE Avoids(C) \subseteq Avoids(B)
BY DEF Avoids

LEMMA SwarmInitInv == SwarmInit => SwarmInv
<1> SUFFICES ASSUME SwarmInit PROVE SwarmInv
  OBVIOUS
<1>1. PeersInv(peers, num_peers) /\ EpsIn(peers) = {}
  <2>1. UsedIn(peers) = {} /\ EpsIn(peers) = {}
    BY DEF SwarmInit, UsedIn, EpsIn
  <2>2. Cardinality(UsedIn(peers)) = 0
    BY <2>1, FS_EmptySet
  <2> QED
    BY <2>1, <2>2 DEF SwarmInit, PeersInv
<1>2. queue \in QueueRec
  BY QueueAssumption DEF SwarmInit, EmptyQueue, QueueRec, Tables, Cells
<1>3. /\ queue.qsize = 0 /\ queue.qhead = 0 /\ queue.qtail = 0 /\ queue.tombstones = 0
      /\ \A s \in Slots : queue.qhash[s] = Empty
  BY DEF SwarmInit, EmptyQueue
<1>4. Eps(queue) = {} /\ AllEntries(queue) /\ DistinctEps(queue)
  BY <1>3 DEF Eps, First, AllEntries, DistinctEps
<1>5. InUse(queue.qhash) = {} /\ Tombs(queue.qhash) = {} /\ Chained(queue.qhash)
  <2> DEFINE h == queue.qhash
  <2>1. \A s \in Slots : h[s] = Empty
    BY <1>3
  <2> HIDE DEF h
  <2>2. ASSUME NEW e \in Endpoints, NEW i \in Slots PROVE h[ProbeAt(e, i)] # e
    <3>1. ProbeAt(e, i) \in Slots
      BY ProbeFacts
    <3> QED
      BY <2>1, <3>1, CapFacts
  <2>3. InUse(h) = {} /\ Tombs(h) = {} /\ Chained(h)
    BY <2>1, <2>2, CapFacts DEF InUse, Tombs, Chained
  <2> QED
    BY <2>3 DEF h
<1>6. Cardinality(InUse(queue.qhash)) = 0 /\ Cardinality(Tombs(queue.qhash)) = 0
  BY <1>5, FS_EmptySet
<1>7. SetInv(queue, Eps(queue), queue.qsize + 1)
  BY <1>3, <1>4, <1>5, <1>6 DEF SetInv
<1>8. queue.qtail = (queue.qhead + queue.qsize) % QueueMax
  BY <1>3, QueueAssumption
<1>9. queue \in Avoids(EpsIn(peers))
  BY <1>2, <1>4, <1>7, <1>8 DEF Avoids, QueueInv
<1>10. /\ blocklist \in Seq(Endpoints) /\ Len(blocklist) <= BlockMax
       /\ utp \in BOOLEAN /\ supplies \in 0 .. MaxSupplies
  BY SwarmAssumption DEF SwarmInit
<1> QED
  BY <1>1, <1>9, <1>10 DEF SwarmInv

\* What every step of the dial ladder does to a slot it empties.
Climbs ==
  \A s \in PeerSlots :
    (Used(s) /\ peers'[s] = NoPeer /\ queue'.qsize > queue.qsize) =>
       /\ HeadEntry(queue').ep = peers[s].ep
       /\ Rung(HeadEntry(queue').no_mse, HeadEntry(queue').use_utp) > PeerRung(peers[s])

LEMMA DialFailureStep ==
  ASSUME SwarmInv, NEW s \in PeerSlots, Used(s), DialFailure(s)
  PROVE  SwarmInv' /\ Climbs
<1> DEFINE p == peers[s]
           C == EpsIn(peers')
           refused == ConnectedWithout(s) \cup Blocked
           r == DialFailureRequeue(p, p.ep, queue, refused)
<1>0. /\ PeersInv(peers, num_peers) /\ queue \in Avoids(EpsIn(peers)) /\ s \in UsedIn(peers)
      /\ blocklist \in Seq(Endpoints) /\ Len(blocklist) <= BlockMax
      /\ utp \in BOOLEAN /\ supplies \in 0 .. MaxSupplies
  BY ConnectedIs DEF SwarmInv
<1>1. p \in Peer /\ p.ep \in Endpoints /\ (p.state = "MSE" => p.mse = TRUE)
  BY <1>0, PeerFacts DEF PeersInv
<1>2. /\ peers' = [peers EXCEPT ![s] = NoPeer] /\ num_peers' = num_peers - 1
      /\ utp' = utp /\ supplies' = supplies /\ queue' = r
      /\ blocklist' \in {blocklist, BlocklistAdd(blocklist, p.ep)}
  BY DEF DialFailure, FreeSlot
<1>3. /\ PeersInv(peers', num_peers') /\ C \subseteq EpsIn(peers)
      /\ C = {peers[x].ep : x \in {y \in PeerSlots : peers[y] # NoPeer /\ y # s}}
      /\ UsedIn(peers') = UsedIn(peers) \ {s}
  <2> DEFINE qs == [peers EXCEPT ![s] = NoPeer]
  <2>1. /\ PeersInv(qs, num_peers - 1) /\ EpsIn(qs) \subseteq EpsIn(peers)
        /\ EpsIn(qs) = {peers[x].ep : x \in {y \in PeerSlots : peers[y] # NoPeer /\ y # s}}
        /\ UsedIn(qs) = UsedIn(peers) \ {s}
    BY <1>0, SlotFreed
  <2>2. peers' = qs /\ num_peers' = num_peers - 1
    BY <1>2
  <2> HIDE DEF qs
  <2> QED
    BY <2>1, <2>2
<1>4. C \subseteq refused
  BY <1>3 DEF ConnectedWithout, Used
<1>5. queue \in Avoids(C)
  BY <1>0, <1>3, AvoidsLess
<1> HIDE DEF C, p, refused
<1>6. /\ r \in Avoids(C)
      /\ \/ r = queue
         \/ /\ HeadEntry(r).ep = p.ep
            /\ Rung(HeadEntry(r).no_mse, HeadEntry(r).use_utp) > PeerRung(p)
  BY <1>1, <1>4, <1>5, RequeueForm
<1> HIDE DEF r
<1>7. blocklist' \in Seq(Endpoints) /\ Len(blocklist') <= BlockMax
  BY <1>0, <1>1, <1>2, BlocklistKeeps
<1>8. SwarmInv'
  BY <1>0, <1>2, <1>3, <1>6, <1>7 DEF SwarmInv, C
<1>9. Climbs
  <2> SUFFICES ASSUME NEW x \in PeerSlots, Used(x), peers'[x] = NoPeer,
                      queue'.qsize > queue.qsize
               PROVE  /\ HeadEntry(queue').ep = peers[x].ep
                      /\ Rung(HeadEntry(queue').no_mse, HeadEntry(queue').use_utp)
                           > PeerRung(peers[x])
    BY DEF Climbs
  <2>1. x = s
    BY <1>0, <1>3, ConnectedIs DEF UsedIn
  <2>2. r # queue
    <3>1. queue.qsize \in Nat
      BY <1>0 DEF Avoids, QueueRec
    <3> QED
      BY <1>2, <3>1
  <2> QED
    BY <1>2, <1>6, <2>1, <2>2 DEF p
<1> QED
  BY <1>8, <1>9

\* A step that does not lengthen the queue, or empties no slot, climbs trivially.
LEMMA ClimbsElse ==
  ASSUME SwarmInv,
         \/ queue'.qsize <= queue.qsize /\ queue'.qsize \in Nat
         \/ \A s \in PeerSlots : peers'[s] = NoPeer => peers[s] = NoPeer
  PROVE  Climbs
<1>1. queue.qsize \in Nat
  BY DEF SwarmInv, Avoids, QueueRec
<1> QED
  BY <1>1 DEF Climbs, Used

\* The slot of s changes its state only.
LEMMA StateStep ==
  ASSUME SwarmInv, NEW s \in PeerSlots, Used(s), NEW st \in Dialing \cup {"ACTIVE", "DEAD"},
         st = "MSE" => peers[s].mse = TRUE,
         peers' = [peers EXCEPT ![s].state = st],
         UNCHANGED <<queue, num_peers, blocklist, utp, supplies>>
  PROVE  SwarmInv' /\ Climbs
<1> DEFINE p == [peers[s] EXCEPT !.state = st]
<1>1. PeersInv(peers, num_peers) /\ s \in UsedIn(peers) /\ peers[s] \in Peer
  BY ConnectedIs, PeerFacts DEF SwarmInv
<1>2. peers' = [peers EXCEPT ![s] = p]
  OBVIOUS
<1>3. p \in Peer /\ p.ep = peers[s].ep /\ p.state = st /\ p.mse = peers[s].mse
  BY <1>1 DEF Peer
<1> HIDE DEF p
<1>4. \A x \in UsedIn(peers) : peers[x].ep = p.ep => x = s
  BY <1>1, <1>3 DEF PeersInv
<1>5. PeersInv(peers', num_peers) /\ EpsIn(peers') = EpsIn(peers)
  <2> DEFINE qs == [peers EXCEPT ![s] = p]
  <2>1. PeersInv(qs, num_peers) /\ EpsIn(qs) = EpsIn(peers)
    BY <1>1, <1>3, <1>4, SlotFilled
  <2> HIDE DEF qs
  <2> QED
    BY <1>2, <2>1 DEF qs
<1>6. SwarmInv'
  BY <1>5 DEF SwarmInv
<1>7. queue'.qsize <= queue.qsize /\ queue'.qsize \in Nat
  BY DEF SwarmInv, Avoids, QueueRec
<1> QED
  BY <1>6, <1>7, ClimbsElse

\* try_connect takes the head of the queue, which no slot has.
LEMMA HeadIsFree ==
  ASSUME SwarmInv, queue.qsize > 0
  PROVE  /\ HeadEntry(queue) \in Entries
         /\ HeadEntry(queue).ep \in Endpoints /\ HeadEntry(queue).ep \notin EpsIn(peers)
         /\ Pop(queue) \in Avoids(EpsIn(peers) \cup {HeadEntry(queue).ep})
         /\ Pop(queue).qsize = queue.qsize - 1 /\ queue.qsize \in Nat
<1>1. QueueInv(queue) /\ Eps(queue) \cap EpsIn(peers) = {} /\ queue.qsize \in Nat
  BY DEF SwarmInv, Avoids, QueueRec
<1>2. /\ QueueInv(Pop(queue)) /\ HeadEntry(queue) \in Entries
      /\ HeadEntry(queue).ep \in Eps(queue) /\ Pop(queue).qsize = queue.qsize - 1
      /\ Eps(Pop(queue)) = Eps(queue) \ {HeadEntry(queue).ep}
  BY <1>1, PopKeeps
<1>3. HeadEntry(queue).ep \in Endpoints
  BY <1>2 DEF Entries
<1> QED
  BY <1>1, <1>2, <1>3 DEF Avoids, QueueInv

LEMMA TryConnectStep == ASSUME SwarmInv, TryConnect PROVE SwarmInv' /\ Climbs
<1> DEFINE entry == HeadEntry(queue)
           s == Min({y \in PeerSlots : ~Used(y)})
           p == [ep |-> entry.ep, state |-> "CONNECTING",
                 mse |-> entry.no_mse = 0, use_utp |-> entry.use_utp]
<1>1. /\ num_peers < MaxPeers /\ queue.qsize > 0 /\ num_peers' = num_peers + 1
      /\ blocklist' = blocklist /\ utp' = utp /\ supplies' = supplies
      /\ queue' = Pop(queue) /\ peers' = [peers EXCEPT ![s] = p]
  BY DEF TryConnect
<1>2. /\ entry \in Entries /\ entry.ep \in Endpoints /\ entry.ep \notin EpsIn(peers)
      /\ Pop(queue) \in Avoids(EpsIn(peers) \cup {entry.ep})
      /\ Pop(queue).qsize = queue.qsize - 1 /\ queue.qsize \in Nat
  BY <1>1, HeadIsFree
<1>3. PeersInv(peers, num_peers)
  BY DEF SwarmInv
<1>4. s \in PeerSlots /\ s \notin UsedIn(peers)
  <2> DEFINE Free == {y \in PeerSlots : ~Used(y)}
  <2>1. Free # {} /\ Free \in SUBSET Nat
    BY <1>1, <1>3, PeerFacts, ConnectedIs, SwarmAssumption DEF PeerSlots
  <2>2. s \in Free
    BY <2>1, MinIsLeast
  <2> QED
    BY <2>2, ConnectedIs
<1>5. p \in Peer /\ p.ep = entry.ep /\ p.state = "CONNECTING"
  <2>1. entry.use_utp \in {0, 1} /\ (entry.no_mse = 0) \in BOOLEAN
    BY <1>2 DEF Entries
  <2> QED
    BY <1>2, <2>1 DEF Peer, Dialing
<1> HIDE DEF s, p, entry
<1>6. \A x \in UsedIn(peers) : peers[x].ep # p.ep
  BY <1>2, <1>5 DEF EpsIn
<1>7. PeersInv(peers', num_peers') /\ EpsIn(peers') = EpsIn(peers) \cup {entry.ep}
  <2> DEFINE qs == [peers EXCEPT ![s] = p]
  <2>1. PeersInv(qs, num_peers + 1) /\ EpsIn(qs) = EpsIn(peers) \cup {p.ep}
    <3>1. p.state # "MSE" /\ p.ep \notin EpsIn(peers)
      BY <1>2, <1>5
    <3> QED
      BY <1>3, <1>4, <1>5, <3>1, FreeSlotFilled, Zenon
  <2> HIDE DEF qs
  <2> QED
    BY <1>1, <1>5, <2>1 DEF qs
<1>8. SwarmInv'
  BY <1>1, <1>2, <1>7 DEF SwarmInv
<1>9. queue'.qsize <= queue.qsize /\ queue'.qsize \in Nat
  BY <1>1, <1>2
<1> QED
  BY <1>8, <1>9, ClimbsElse

LEMMA TryConnectFailsStep == ASSUME SwarmInv, TryConnectFails PROVE SwarmInv' /\ Climbs
<1> DEFINE C == EpsIn(peers)
           entry == HeadEntry(queue)
           refused == Connected \cup Blocked
<1>1. /\ queue.qsize > 0 /\ peers' = peers /\ num_peers' = num_peers
      /\ utp' = utp /\ supplies' = supplies
      /\ queue' \in {Pop(queue), RequeueUtp(Pop(queue), entry.ep, refused)}
      /\ blocklist' \in {blocklist, BlocklistAdd(blocklist, entry.ep)}
  BY DEF TryConnectFails
<1>2. /\ entry.ep \in Endpoints /\ Pop(queue) \in Avoids(C \cup {entry.ep})
  BY <1>1, HeadIsFree
<1>3. Pop(queue) \in Avoids(C) /\ C \subseteq refused
  BY <1>2, AvoidsLess, ConnectedIs
<1> HIDE DEF C, entry, refused
<1>4. RequeueUtp(Pop(queue), entry.ep, refused) \in Avoids(C)
  <2>1. [ep |-> entry.ep, no_mse |-> 0, use_utp |-> 1] \in Entries
    BY <1>2 DEF Entries
  <2> QED
    BY <1>3, <2>1, InsertKeeps DEF RequeueUtp
<1>5. blocklist' \in Seq(Endpoints) /\ Len(blocklist') <= BlockMax
  BY <1>1, <1>2, BlocklistKeeps DEF SwarmInv
<1>6. SwarmInv'
  BY <1>1, <1>3, <1>4, <1>5 DEF SwarmInv, C
<1> QED
  BY <1>1, <1>6, ClimbsElse

\* Discoveries and peers supplied by the application change the queue only.
LEMMA SupplyStep == ASSUME SwarmInv, Discover \/ InitialPeers PROVE SwarmInv' /\ Climbs
<1> DEFINE C == EpsIn(peers)
           refused == Connected \cup Blocked
<1>0. queue \in Avoids(C) /\ C \subseteq refused
  BY ConnectedIs DEF SwarmInv
<1> HIDE DEF C
<1>1. /\ peers' = peers /\ num_peers' = num_peers /\ blocklist' = blocklist /\ utp' = utp
      /\ supplies' \in 0 .. MaxSupplies
  BY SwarmAssumption DEF SwarmInv, Discover, InitialPeers
<1>2. queue' \in Avoids(C)
  <2>1. CASE Discover
    BY <1>0, <2>1, PushKeeps DEF Discover
  <2>2. CASE InitialPeers
    <3>1. PICK list \in [1 .. 2 -> Endpoints] : queue' = AddInitialPeers(queue, list, refused)
      BY <2>2 DEF InitialPeers
    <3>2. list = <<list[1], list[2]>> /\ list[1] \in Endpoints /\ list[2] \in Endpoints
      OBVIOUS
    <3>3. \A a, b \in Endpoints : <<a, b>> \in Seq(Endpoints)
      OBVIOUS
    <3>4. list \in Seq(Endpoints)
      BY <3>2, <3>3
    <3> QED
      BY <1>0, <3>1, <3>4, InitialKeeps
  <2> QED
    BY <2>1, <2>2
<1>3. SwarmInv'
  BY <1>1, <1>2 DEF SwarmInv, C
<1> QED
  BY <1>1, <1>3, ClimbsElse

LEMMA EvictStep ==
  ASSUME SwarmInv, NEW s \in PeerSlots, Evict(s) PROVE SwarmInv' /\ Climbs
<1>0. /\ PeersInv(peers, num_peers) /\ s \in UsedIn(peers)
      /\ peers' = [peers EXCEPT ![s] = NoPeer] /\ num_peers' = num_peers - 1
      /\ blocklist' = BlocklistAdd(blocklist, peers[s].ep)
      /\ queue' = queue /\ utp' = utp /\ supplies' = supplies
  BY ConnectedIs DEF SwarmInv, Evict, FreeSlot
<1>1. PeersInv(peers', num_peers') /\ EpsIn(peers') \subseteq EpsIn(peers)
  <2> DEFINE qs == [peers EXCEPT ![s] = NoPeer]
  <2>1. PeersInv(qs, num_peers - 1) /\ EpsIn(qs) \subseteq EpsIn(peers)
    BY <1>0, SlotFreed
  <2> HIDE DEF qs
  <2> QED
    BY <1>0, <2>1 DEF qs
<1>2. queue' \in Avoids(EpsIn(peers'))
  BY <1>0, <1>1, AvoidsLess DEF SwarmInv
<1>3. blocklist' \in Seq(Endpoints) /\ Len(blocklist') <= BlockMax
  BY <1>0, PeerFacts, BlocklistKeeps DEF SwarmInv
<1>4. SwarmInv'
  BY <1>0, <1>1, <1>2, <1>3 DEF SwarmInv
<1>5. queue'.qsize <= queue.qsize /\ queue'.qsize \in Nat
  BY <1>0 DEF SwarmInv, Avoids, QueueRec
<1> QED
  BY <1>4, <1>5, ClimbsElse

LEMMA SwarmStep == ASSUME SwarmInv, SwarmNext PROVE SwarmInv' /\ Climbs
<1>1. CASE Discover \/ InitialPeers
  BY <1>1, SupplyStep
<1>2. CASE TryConnect
  BY <1>2, TryConnectStep
<1>3. CASE TryConnectFails
  BY <1>3, TryConnectFailsStep
<1>4. CASE BlockExpires
  <2>1. /\ blocklist # <<>> /\ blocklist' = Tail(blocklist) /\ peers' = peers
        /\ queue' = queue /\ num_peers' = num_peers /\ utp' = utp /\ supplies' = supplies
    BY <1>4 DEF BlockExpires
  <2>2. blocklist' \in Seq(Endpoints) /\ Len(blocklist') <= BlockMax
    BY <2>1, SwarmAssumption DEF SwarmInv
  <2>3. SwarmInv'
    BY <2>1, <2>2 DEF SwarmInv
  <2> QED
    BY <2>1, <2>3, ClimbsElse
<1>5. ASSUME NEW s \in PeerSlots, PeerConnected(s) PROVE SwarmInv' /\ Climbs
  <2> DEFINE st == IF peers[s].mse THEN "MSE" ELSE "HANDSHAKE"
  <2>1. peers[s].mse \in BOOLEAN /\ Used(s)
    BY <1>5, ConnectedIs, PeerFacts DEF PeerConnected, SwarmInv, Peer
  <2>2. st \in Dialing \cup {"ACTIVE", "DEAD"} /\ (st = "MSE" => peers[s].mse = TRUE)
    BY <2>1 DEF Dialing
  <2> QED
    BY <1>5, <2>1, <2>2, StateStep DEF PeerConnected
<1>6. ASSUME NEW s \in PeerSlots, HandshakeStep(s) PROVE SwarmInv' /\ Climbs
  <2> DEFINE st == IF peers[s].state = "MSE" THEN "HANDSHAKE" ELSE "ACTIVE"
  <2>1. Used(s) /\ peers' = [peers EXCEPT ![s].state = st]
    BY <1>6 DEF HandshakeStep
  <2>2. st \in Dialing \cup {"ACTIVE", "DEAD"} /\ st # "MSE"
    BY DEF Dialing
  <2> QED
    BY <1>6, <2>1, <2>2, StateStep DEF HandshakeStep
<1>7. ASSUME NEW s \in PeerSlots, PeerError(s) \/ DialTimeout(s) PROVE SwarmInv' /\ Climbs
  BY <1>7, DialFailureStep DEF PeerError, DialTimeout
<1>8. ASSUME NEW s \in PeerSlots, UtpMarkDead(s) PROVE SwarmInv' /\ Climbs
  BY <1>8, StateStep DEF UtpMarkDead
<1>9. ASSUME NEW s \in PeerSlots, Evict(s) PROVE SwarmInv' /\ Climbs
  BY <1>9, EvictStep
<1> QED
  BY <1>1, <1>2, <1>3, <1>4, <1>5, <1>6, <1>7, <1>8, <1>9 DEF SwarmNext

\* The candidate queue, its hash set and the peer slots stay sound together.
THEOREM SwarmSound == SwarmSpec => []SwarmInv
<1>1. SwarmInv /\ [SwarmNext]_swarmVars => SwarmInv'
  <2> SUFFICES ASSUME SwarmInv, [SwarmNext]_swarmVars PROVE SwarmInv'
    OBVIOUS
  <2>1. CASE SwarmNext
    BY <2>1, SwarmStep
  <2>2. CASE UNCHANGED swarmVars
    BY <2>2 DEF swarmVars, SwarmInv
  <2> QED
    BY <2>1, <2>2
<1> QED
  BY <1>1, SwarmInitInv, PTL DEF SwarmSpec

\* The fields of torrent_t that the swarm uses have their types, the tail of
\* the ring is where head and size say, and the tombstones are counted.
THEOREM SwarmTypes == SwarmSpec => []SwarmTypeOK
<1>1. SwarmInv => SwarmTypeOK
  <2> SUFFICES ASSUME SwarmInv PROVE SwarmTypeOK
    OBVIOUS
  <2>1. /\ queue \in QueueRec /\ queue.qtail = (queue.qhead + queue.qsize) % QueueMax
        /\ queue.tombstones = Cardinality(Tombs(queue.qhash))
    BY DEF SwarmInv, Avoids, QueueInv, SetInv
  <2>2. UsedIn(peers) = {s \in PeerSlots : Used(s)}
    BY DEF UsedIn, Used
  <2> QED
    BY <2>1, <2>2 DEF SwarmTypeOK, SwarmInv, PeersInv, QueueRec, Tables, Tombs
<1> QED
  BY <1>1, SwarmSound, PTL

\* No endpoint is queued twice, connected twice, or queued while connected.
THEOREM NoEndpointTwice == SwarmSpec => []EachEndpointOnce
<1>1. SwarmInv => EachEndpointOnce
  <2> SUFFICES ASSUME SwarmInv PROVE EachEndpointOnce
    OBVIOUS
  <2> DEFINE cand == Queued(queue)
  <2>1. DistinctEps(queue) /\ Eps(queue) \cap Connected = {}
    BY ConnectedIs DEF SwarmInv, Avoids, QueueInv
  <2>2. DOMAIN cand = 1 .. queue.qsize
    BY DEF Queued
  <2>3. \A i, j \in DOMAIN cand : cand[i].ep = cand[j].ep => i = j
    BY <2>1, <2>2 DEF DistinctEps
  <2>4. \A i \in DOMAIN cand : cand[i].ep \notin Connected
    BY <2>1, <2>2 DEF Eps, First
  <2> HIDE DEF cand
  <2>5. \A s, x \in {y \in PeerSlots : Used(y)} : peers[s].ep = peers[x].ep => s = x
    BY ConnectedIs DEF SwarmInv, PeersInv
  <2> QED
    BY <2>3, <2>4, <2>5 DEF EachEndpointOnce, cand
<1> QED
  BY <1>1, SwarmSound, PTL

\* The probe of queue_hash_contains finds every queued endpoint.
THEOREM SetMissesNothing == SwarmSpec => []QueuedIsMember
<1>1. SwarmInv => QueuedIsMember
  <2> SUFFICES ASSUME SwarmInv, NEW i \in 1 .. queue.qsize
               PROVE  HashContains(queue, Queued(queue)[i].ep)
    BY DEF QueuedIsMember
  <2> DEFINE e == Queued(queue)[i].ep
  <2>1. /\ queue \in QueueRec /\ AllEntries(queue)
        /\ Chained(queue.qhash) /\ Eps(queue) \subseteq Members(queue.qhash)
    BY DEF SwarmInv, Avoids, QueueInv, SetInv
  <2>2. e \in Endpoints /\ e \in Eps(queue)
    BY <2>1 DEF AllEntries, Entries, Eps, First
  <2> QED
    BY <2>1, <2>2, FoundForm
<1> QED
  BY <1>1, SwarmSound, PTL

\* A failed dial is tried again on a higher rung and in front, or not at all.
THEOREM LadderIsBounded == SwarmSpec => LadderClimbs
<1>1. SwarmInv /\ [SwarmNext]_swarmVars => [Climbs]_swarmVars
  BY SwarmStep
<1> QED
  BY <1>1, SwarmSound, PTL DEF SwarmSpec, LadderClimbs, Climbs
=============================================================================
