---------------------------- MODULE TrackerProofs ----------------------------
(***************************************************************************)
(* Proof of UdpFailureExplained for any number of retries and any number   *)
(* of delayed, lost, duplicated and foreign datagrams.                     *)
(*                                                                         *)
(* The argument is a budget.  Every connect try puts at most one connect   *)
(* reply on its way, and the one that opens the announce phase is used up, *)
(* so fewer than UdpRetries are left to arrive late.  A late one costs one *)
(* announce try and is gone.  Hence, as long as nothing else goes wrong,   *)
(* the announce tries spent and the connect replies still to come are      *)
(* together fewer than UdpRetries, and the announce loop does not end      *)
(* without an answer.                                                      *)
(***************************************************************************)
EXTENDS Tracker, FiniteSetTheorems, TLAPS

TrkRec ==
  [pc : {"url", "send", "wait", "done"}, scheme : {"http", "udp", "other"},
   attempt : Nat, flying : [conn : Nat, ann : Nat], inbox : Seq(Datagrams),
   cancel : BOOLEAN, connected : BOOLEAN, timeouts : Nat, stray : Nat,
   outcome : {"running", "failed", "tracker_failure", "answered"}, peers : Nat]

TrkType == trk \in TrkRec

\* The connect replies in the socket's queue.
Waiting(s) == Cardinality({i \in 1 .. Len(s) : s[i] = "conn"})

Late == trk.flying.conn + Waiting(trk.inbox)

Clean == ~trk.cancel /\ trk.timeouts = 0 /\ trk.stray = 0

Budget ==
  /\ trk.attempt <= UdpRetries
  /\ trk.pc = "url" => ~trk.connected
  /\ trk.pc # "done" => trk.outcome = "running"
  /\ trk.stray = 0 => trk.inbox \in Seq({"conn", "ann"})
  /\ ~trk.connected /\ trk.stray = 0 => Late <= trk.attempt
  /\ trk.connected /\ Clean /\ trk.pc = "send" => trk.attempt + Late < UdpRetries
  /\ trk.connected /\ Clean /\ trk.pc = "wait" => trk.attempt + Late <= UdpRetries

TrackerInv == TrkType /\ Budget /\ UdpFailureExplained
----------------------------------------------------------------------------
(* Counting the replies in the queue.                                      *)

LEMMA WaitingFinite ==
  ASSUME NEW s \in Seq(Datagrams) PROVE IsFiniteSet({i \in 1 .. Len(s) : s[i] = "conn"})
<1>1. Len(s) \in Nat
  OBVIOUS
<1>2. IsFiniteSet(1 .. Len(s))
  BY <1>1, FS_Interval
<1> QED
  BY <1>2, FS_Subset

LEMMA WaitingNat == ASSUME NEW s \in Seq(Datagrams) PROVE Waiting(s) \in Nat
BY WaitingFinite, FS_CardinalityType DEF Waiting

LEMMA WaitingEmpty == Waiting(<<>>) = 0
<1>1. {i \in 1 .. Len(<<>>) : <<>>[i] = "conn"} = {}
  OBVIOUS
<1> QED
  BY <1>1, FS_EmptySet DEF Waiting

LEMMA WaitingAppend ==
  ASSUME NEW s \in Seq(Datagrams), NEW d \in Datagrams
  PROVE  Waiting(Append(s, d)) = Waiting(s) + IF d = "conn" THEN 1 ELSE 0
<1> DEFINE A == {i \in 1 .. Len(s) : s[i] = "conn"}
           r == Append(s, d)
           B == {i \in 1 .. Len(r) : r[i] = "conn"}
           n == Len(s) + 1
<1>1. Len(s) \in Nat /\ Len(r) = n /\ r[n] = d /\ \A i \in 1 .. Len(s) : r[i] = s[i]
  OBVIOUS
<1>2. IsFiniteSet(A) /\ n \notin A
  BY <1>1, WaitingFinite
<1> HIDE DEF r
<1>3. B = IF d = "conn" THEN A \cup {n} ELSE A
  BY <1>1
<1>4. Cardinality(A) \in Nat
  BY <1>2, FS_CardinalityType
<1> HIDE DEF A, B, n
<1>5. Cardinality(A \cup {n}) = Cardinality(A) + 1
  BY <1>2, FS_AddElement
<1>6. Cardinality(B) = Cardinality(A) + IF d = "conn" THEN 1 ELSE 0
  BY <1>3, <1>4, <1>5
<1> QED
  BY <1>6 DEF Waiting, A, B, r

LEMMA WaitingTail ==
  ASSUME NEW s \in Seq(Datagrams), s # <<>>
  PROVE  /\ Tail(s) \in Seq(Datagrams) /\ Head(s) \in Datagrams
         /\ Waiting(s) = Waiting(Tail(s)) + IF Head(s) = "conn" THEN 1 ELSE 0
<1> DEFINE r == Tail(s)
           A == {i \in 1 .. Len(r) : r[i] = "conn"}
           S == {i \in 2 .. Len(s) : s[i] = "conn"}
           B == {i \in 1 .. Len(s) : s[i] = "conn"}
           f == [i \in A |-> i + 1]
<1>1. /\ Len(s) \in Nat \ {0} /\ Len(r) = Len(s) - 1 /\ Head(s) = s[1] /\ r \in Seq(Datagrams)
      /\ \A i \in 1 .. Len(r) : r[i] = s[i + 1]
      /\ Head(s) \in Datagrams
  OBVIOUS
<1> HIDE DEF r
<1>2. IsFiniteSet(A)
  BY <1>1, WaitingFinite
<1>3. f \in Bijection(A, S)
  <2>1. \A i \in A : f[i] \in S
    BY <1>1
  <2>2. \A j \in S : j - 1 \in A /\ f[j - 1] = j
    BY <1>1
  <2>3. \A i, j \in A : f[i] = f[j] => i = j
    BY <1>1
  <2>4. f \in [A -> S]
    BY <2>1
  <2> HIDE DEF f, A, S
  <2> QED
    BY <2>2, <2>3, <2>4 DEF Bijection, Injection, Surjection, IsInjective
<1>4. Cardinality(S) = Cardinality(A) /\ IsFiniteSet(S)
  <2>1. ExistsBijection(A, S)
    BY <1>3 DEF ExistsBijection
  <2> HIDE DEF A, S
  <2> QED
    BY <1>2, <2>1, FS_Bijection
<1>5. B = IF Head(s) = "conn" THEN S \cup {1} ELSE S
  BY <1>1
<1>6. 1 \notin S /\ Cardinality(S) \in Nat
  BY <1>4, FS_CardinalityType
<1> HIDE DEF A, B, S, f
<1>7. Cardinality(S \cup {1}) = Cardinality(S) + 1
  BY <1>4, <1>6, FS_AddElement
<1>8. Cardinality(B) = Cardinality(A) + IF Head(s) = "conn" THEN 1 ELSE 0
  BY <1>4, <1>5, <1>6, <1>7
<1> QED
  BY <1>1, <1>8 DEF Waiting, A, B, r
----------------------------------------------------------------------------
LEMMA TrackerInvInit == TrackerInit => TrackerInv
<1> SUFFICES ASSUME TrackerInit PROVE TrackerInv
  OBVIOUS
<1>0. PICK s \in {"http", "udp", "other"} : trk =
        [pc |-> "url", scheme |-> s, attempt |-> 0, flying |-> [conn |-> 0, ann |-> 0],
         inbox |-> <<>>, cancel |-> FALSE, connected |-> FALSE, timeouts |-> 0, stray |-> 0,
         outcome |-> "running", peers |-> 0]
  BY DEF TrackerInit, TrackerInits
<1>1. /\ trk.pc = "url" /\ trk.attempt = 0 /\ trk.flying.conn = 0 /\ trk.inbox = <<>>
      /\ ~trk.connected /\ trk.outcome = "running"
  BY <1>0
<1>2. TrkType
  BY <1>0 DEF TrkType, TrkRec
<1>3. Late = 0
  BY <1>1, WaitingEmpty DEF Late
<1>4. Budget
  BY <1>1, <1>3, TrackerAssumption DEF Budget
<1> QED
  BY <1>1, <1>2, <1>4 DEF TrackerInv, UdpFailureExplained

\* Reading a datagram adds no connect reply to the queue.
LEMMA QueueShrinks ==
  ASSUME NEW s \in Seq(Datagrams), NEW q \in Seq(Datagrams),
         q = s \/ (s # <<>> /\ q = Tail(s))
  PROVE  /\ Waiting(s) \in Nat /\ Waiting(q) \in Nat /\ Waiting(q) <= Waiting(s)
         /\ s \in Seq({"conn", "ann"}) => q \in Seq({"conn", "ann"})
<1>1. Waiting(s) \in Nat /\ Waiting(q) \in Nat
  BY WaitingNat
<1>2. Waiting(q) <= Waiting(s)
  <2>1. CASE s # <<>> /\ q = Tail(s)
    <3>1. Waiting(s) = Waiting(q) + IF Head(s) = "conn" THEN 1 ELSE 0
      BY <2>1, WaitingTail
    <3> QED
      BY <1>1, <3>1
  <2> QED
    BY <1>1, <2>1
<1>3. s \in Seq({"conn", "ann"}) => q \in Seq({"conn", "ann"})
  OBVIOUS
<1> QED
  BY <1>1, <1>2, <1>3

\* A call that ends explains its failure, or was not connected.
LEMMA FailKeeps ==
  ASSUME TrackerInv, NEW q \in Seq(Datagrams), NEW why \in {"failed", "tracker_failure"},
         q = trk.inbox \/ (trk.inbox # <<>> /\ q = Tail(trk.inbox)),
         trk' = [trk EXCEPT !.inbox = q, !.pc = "done", !.outcome = why],
         ~trk.connected \/ ~Clean
  PROVE  TrackerInv'
<1>1. TrkType'
  BY DEF TrackerInv, TrkType, TrkRec
<1>2. /\ UNCHANGED <<trk.flying, trk.attempt, trk.connected, trk.cancel, trk.timeouts, trk.stray>>
      /\ trk'.pc = "done" /\ trk'.inbox = q
  BY DEF TrackerInv, TrkType, TrkRec
<1>3. /\ trk.inbox \in Seq(Datagrams) /\ trk.flying.conn \in Nat /\ trk.attempt \in Nat
      /\ Waiting(trk.inbox) \in Nat /\ Waiting(q) \in Nat /\ Waiting(q) <= Waiting(trk.inbox)
  BY QueueShrinks DEF TrackerInv, TrkType, TrkRec
<1>4. Late \in Nat /\ Late' \in Nat /\ Late' <= Late
  <2>1. Late = trk.flying.conn + Waiting(trk.inbox)
    BY DEF Late
  <2>2. Late' = trk.flying.conn + Waiting(q)
    BY <1>2 DEF Late
  <2>3. \A f, u, v \in Nat : v <= u => f + u \in Nat /\ f + v \in Nat /\ f + v <= f + u
    OBVIOUS
  <2> QED
    BY <1>3, <2>1, <2>2, <2>3
<1>5. trk.inbox \in Seq({"conn", "ann"}) => trk'.inbox \in Seq({"conn", "ann"})
  BY <1>2, QueueShrinks DEF TrackerInv, TrkType, TrkRec
<1>6. Budget'
  <2>1. UdpRetries \in Nat
    BY TrackerAssumption
  <2> QED
    BY <1>2, <1>3, <1>4, <1>5, <2>1 DEF Budget, TrackerInv
<1>7. UdpFailureExplained'
  <2>1. ~trk'.connected \/ trk'.cancel \/ trk'.timeouts # 0 \/ trk'.stray # 0
    BY <1>2 DEF Clean
  <2>2. trk'.timeouts \in Nat /\ trk'.stray \in Nat
    BY <1>1 DEF TrkType, TrkRec
  <2> QED
    BY <2>1, <2>2 DEF UdpFailureExplained
<1> QED
  BY <1>1, <1>6, <1>7 DEF TrackerInv

\* The call ends with the tracker's answer.
LEMMA AnswerKeeps ==
  ASSUME TrackerInv, NEW q \in Seq(Datagrams), NEW k \in Nat,
         q = trk.inbox \/ (trk.inbox # <<>> /\ q = Tail(trk.inbox)),
         trk' = [trk EXCEPT !.inbox = q, !.pc = "done", !.outcome = "answered", !.peers = k]
  PROVE  TrackerInv'
<1>1. TrkType'
  BY DEF TrackerInv, TrkType, TrkRec
<1>2. /\ UNCHANGED <<trk.flying, trk.attempt, trk.connected, trk.cancel, trk.timeouts, trk.stray>>
      /\ trk'.pc = "done" /\ trk'.inbox = q /\ trk'.outcome = "answered"
  BY DEF TrackerInv, TrkType, TrkRec
<1>3. /\ trk.flying.conn \in Nat /\ trk.attempt \in Nat
      /\ Waiting(trk.inbox) \in Nat /\ Waiting(q) \in Nat /\ Waiting(q) <= Waiting(trk.inbox)
  BY QueueShrinks DEF TrackerInv, TrkType, TrkRec
<1>4. Late \in Nat /\ Late' \in Nat /\ Late' <= Late
  <2>1. Late = trk.flying.conn + Waiting(trk.inbox)
    BY DEF Late
  <2>2. Late' = trk.flying.conn + Waiting(q)
    BY <1>2 DEF Late
  <2>3. \A f, u, v \in Nat : v <= u => f + u \in Nat /\ f + v \in Nat /\ f + v <= f + u
    OBVIOUS
  <2> QED
    BY <1>3, <2>1, <2>2, <2>3
<1>5. trk.inbox \in Seq({"conn", "ann"}) => trk'.inbox \in Seq({"conn", "ann"})
  BY <1>2, QueueShrinks DEF TrackerInv, TrkType, TrkRec
<1>6. Budget'
  <2>1. UdpRetries \in Nat
    BY TrackerAssumption
  <2> QED
    BY <1>2, <1>3, <1>4, <1>5, <2>1 DEF Budget, TrackerInv
<1>7. UdpFailureExplained'
  BY <1>2 DEF UdpFailureExplained
<1> QED
  BY <1>1, <1>6, <1>7 DEF TrackerInv

LEMMA AnswerForm ==
  ASSUME NEW t, NEW n \in 0 .. MaxFound + 1
  PROVE  \E k \in Nat : Answer(t, n) = [t EXCEPT !.pc = "done", !.outcome = "answered",
                                                 !.peers = k]
<1>1. (IF n > MaxFound THEN MaxFound ELSE n) \in Nat
  BY TrackerAssumption
<1> QED
  BY <1>1, Zenon DEF Answer

\* The call goes on.
LEMMA RunningKeeps ==
  ASSUME TrackerInv, trk.pc # "done", trk'.outcome = trk.outcome, TrkType', Budget'
  PROVE  TrackerInv'
BY DEF TrackerInv, Budget, UdpFailureExplained

LEMMA SendKeeps == ASSUME TrackerInv, SendRequest PROVE TrackerInv'
<1> USE DEF TrackerInv
<1>1. PICK a \in 0 .. 1 :
        trk' = [trk EXCEPT !.pc = "wait", !.attempt = @ + 1, !.flying[Phase] = @ + a]
  BY DEF SendRequest
<1>2. trk.pc = "send" /\ ~trk.cancel /\ trk.attempt < UdpRetries
  BY DEF SendRequest
<1> DEFINE f == [trk.flying EXCEPT ![Phase] = @ + a]
           n == trk.attempt + 1
<1>3. /\ f \in [conn : Nat, ann : Nat]
      /\ f.conn = trk.flying.conn + IF trk.connected THEN 0 ELSE a
  BY DEF TrkType, TrkRec, Phase
<1>4. trk' = [trk EXCEPT !.pc = "wait", !.attempt = n, !.flying = f] /\ n \in Nat
  BY <1>1 DEF TrkType, TrkRec
<1> HIDE DEF f, n
<1>5. TrkType'
  BY <1>3, <1>4 DEF TrkType, TrkRec
<1>6. /\ UNCHANGED <<trk.inbox, trk.connected, trk.cancel, trk.timeouts, trk.stray, trk.outcome>>
      /\ trk'.pc = "wait" /\ trk'.attempt = trk.attempt + 1 /\ trk'.flying = f
  BY <1>4 DEF TrkType, TrkRec, n
<1>7. /\ Late \in Nat /\ Late' = Late + IF trk.connected THEN 0 ELSE a
      /\ trk.attempt \in Nat /\ UdpRetries \in Nat
  <2>1. trk.inbox \in Seq(Datagrams) /\ trk.flying.conn \in Nat /\ trk.attempt \in Nat
    BY DEF TrkType, TrkRec
  <2>2. Waiting(trk.inbox) \in Nat
    BY <2>1, WaitingNat
  <2> QED
    BY <1>3, <1>6, <2>1, <2>2, TrackerAssumption DEF Late
<1>8. Budget'
  BY <1>2, <1>6, <1>7 DEF Budget, Clean
<1> QED
  BY <1>2, <1>5, <1>6, <1>8, RunningKeeps

LEMMA TimeoutKeeps == ASSUME TrackerInv, PollTimeout PROVE TrackerInv'
<1> USE DEF TrackerInv
<1> DEFINE n == IF trk.connected THEN trk.timeouts + 1 ELSE trk.timeouts
<1>1. trk' = [trk EXCEPT !.pc = "send", !.timeouts = n] /\ trk.pc = "wait"
  BY DEF PollTimeout
<1>2. n \in Nat /\ (trk.connected => n # 0)
  BY DEF TrkType, TrkRec
<1> HIDE DEF n
<1>3. TrkType'
  BY <1>1, <1>2 DEF TrkType, TrkRec
<1>4. /\ UNCHANGED <<trk.inbox, trk.connected, trk.cancel, trk.stray, trk.outcome,
                     trk.attempt, trk.flying>>
      /\ trk'.pc = "send" /\ trk'.timeouts = n
  BY <1>1 DEF TrkType, TrkRec
<1>5. Late' = Late
  BY <1>4 DEF Late
<1>6. Budget'
  BY <1>1, <1>2, <1>4, <1>5 DEF Budget, Clean
<1> QED
  BY <1>1, <1>3, <1>4, <1>6, RunningKeeps

LEMMA ReadKeeps == ASSUME TrackerInv, ReadReply PROVE TrackerInv'
<1> USE DEF TrackerInv
<1> DEFINE d == Head(trk.inbox)
           q == Tail(trk.inbox)
           t == [trk EXCEPT !.inbox = q]
<1>1. trk.pc = "wait" /\ trk.inbox # <<>>
  BY DEF ReadReply
<1>2. /\ trk.inbox \in Seq(Datagrams) /\ trk.flying.conn \in Nat /\ trk.attempt \in Nat
      /\ trk.outcome = "running" /\ UdpRetries \in Nat
  BY <1>1, TrackerAssumption DEF TrkType, TrkRec, Budget
<1>3. /\ q \in Seq(Datagrams) /\ d \in Datagrams
      /\ Waiting(trk.inbox) = Waiting(q) + IF d = "conn" THEN 1 ELSE 0
      /\ Waiting(q) \in Nat /\ Waiting(trk.inbox) \in Nat
  BY <1>1, <1>2, WaitingTail, WaitingNat
<1>4. /\ trk.stray = 0 => d \in {"conn", "ann"}
      /\ trk.inbox \in Seq({"conn", "ann"}) => q \in Seq({"conn", "ann"})
  BY <1>1 DEF Budget
<1>5. \/ Short(d) /\ trk' = [t EXCEPT !.pc = "send"]
      \/ ~Short(d) /\ ~Matches(d) /\ trk' = Fail(t, "failed")
      \/ /\ ~Short(d) /\ Matches(d) /\ ~trk.connected
         /\ trk' = [t EXCEPT !.pc = "send", !.connected = TRUE, !.attempt = 0]
      \/ /\ ~Short(d) /\ Matches(d) /\ trk.connected
         /\ \E n \in 0 .. MaxFound + 1 : trk' = Answer(t, n)
  BY DEF ReadReply
<1> HIDE DEF d, q
<1>6. CASE Short(d) /\ trk' = [t EXCEPT !.pc = "send"]
  <2>1. TrkType'
    BY <1>3, <1>6 DEF TrkType, TrkRec
  <2>2. /\ UNCHANGED <<trk.connected, trk.cancel, trk.timeouts, trk.stray, trk.outcome,
                       trk.attempt, trk.flying>>
        /\ trk'.pc = "send" /\ trk'.inbox = q
    BY <1>6 DEF TrkType, TrkRec
  <2>3. /\ Late \in Nat /\ Late' \in Nat
        /\ Late = Late' + IF d = "conn" THEN 1 ELSE 0
    <3>1. Late = trk.flying.conn + Waiting(trk.inbox)
      BY DEF Late
    <3>2. Late' = trk.flying.conn + Waiting(q)
      BY <2>2 DEF Late
    <3>3. \A f, v \in Nat : /\ f + v \in Nat /\ f + (v + 1) \in Nat
                            /\ f + (v + 0) = (f + v) + 0 /\ f + (v + 1) = (f + v) + 1
      OBVIOUS
    <3> QED
      BY <1>2, <1>3, <3>1, <3>2, <3>3
  <2>4. trk.stray = 0 => trk.connected /\ d = "conn"
    BY <1>4, <1>6 DEF Short
  <2>5. Budget'
    BY <1>1, <1>2, <1>4, <2>2, <2>3, <2>4 DEF Budget, Clean
  <2> QED
    BY <1>1, <2>1, <2>2, <2>5, RunningKeeps
<1>7. CASE ~Short(d) /\ ~Matches(d) /\ trk' = Fail(t, "failed")
  <2>1. trk' = [trk EXCEPT !.inbox = q, !.pc = "done", !.outcome = "failed"]
    BY <1>7 DEF Fail
  <2>2. trk.connected => trk.stray # 0
    BY <1>4, <1>7 DEF Short, Matches, Phase
  <2>3. ~trk.connected \/ ~Clean
    BY <2>2 DEF Clean
  <2>4. q = Tail(trk.inbox)
    BY DEF q
  <2> QED
    BY <1>1, <1>3, <2>1, <2>3, <2>4, FailKeeps
<1>8. CASE /\ ~Short(d) /\ Matches(d) /\ ~trk.connected
           /\ trk' = [t EXCEPT !.pc = "send", !.connected = TRUE, !.attempt = 0]
  <2>1. TrkType'
    BY <1>3, <1>8 DEF TrkType, TrkRec
  <2>2. /\ UNCHANGED <<trk.cancel, trk.timeouts, trk.stray, trk.outcome, trk.flying>>
        /\ trk'.pc = "send" /\ trk'.inbox = q /\ trk'.connected /\ trk'.attempt = 0
    BY <1>8 DEF TrkType, TrkRec
  <2>3. d = "conn"
    BY <1>8 DEF Matches, Phase
  <2>4. Late \in Nat /\ Late' \in Nat /\ Late = Late' + 1
    <3>1. Waiting(trk.inbox) = Waiting(q) + 1
      BY <1>3, <2>3
    <3>2. trk'.flying = trk.flying /\ trk'.inbox = q
      BY <2>2
    <3>3. Waiting(q) \in Nat /\ trk.flying.conn \in Nat
      BY <1>2, <1>3
    <3>4. Late = trk.flying.conn + (Waiting(q) + 1)
      BY <3>1 DEF Late
    <3>5. Late' = trk.flying.conn + Waiting(q)
      BY <3>2 DEF Late
    <3> QED
      BY <3>3, <3>4, <3>5
  <2>5. trk.stray = 0 => Late <= trk.attempt
    BY <1>8 DEF Budget
  <2>6. trk.stray = 0 => trk'.attempt + Late' < UdpRetries
    <3>1. trk.attempt <= UdpRetries
      BY DEF Budget
    <3>2. trk.attempt \in Nat /\ UdpRetries \in Nat /\ trk'.attempt = 0
      BY <1>2, <2>2
    <3>3. SUFFICES ASSUME trk.stray = 0 PROVE 0 + Late' < UdpRetries
      BY <3>2
    <3>4. Late <= trk.attempt
      BY <2>5, <3>3
    <3>5. \A k, l, m, n \in Nat : k = l + 1 /\ k <= m /\ m <= n => 0 + l < n
      OBVIOUS
    <3> QED
      BY <2>4, <3>1, <3>2, <3>4, <3>5
  <2>7. trk.stray = 0 => q \in Seq({"conn", "ann"})
    BY <1>4 DEF Budget
  <2>8. trk'.connected /\ trk'.pc = "send" /\ trk'.stray = trk.stray /\ trk'.inbox = q
        /\ trk'.attempt = 0 /\ trk'.outcome = "running"
    BY <1>2, <2>2
  <2>9. Budget'
    BY <1>2, <2>6, <2>7, <2>8 DEF Budget, Clean
  <2> QED
    BY <1>1, <2>1, <2>2, <2>9, RunningKeeps
<1>9. CASE \E n \in 0 .. MaxFound + 1 : trk' = Answer(t, n)
  <2>1. PICK n \in 0 .. MaxFound + 1 : trk' = Answer(t, n)
    BY <1>9
  <2>2. PICK k \in Nat : Answer(t, n) = [t EXCEPT !.pc = "done", !.outcome = "answered",
                                                  !.peers = k]
    BY AnswerForm
  <2>3. q = Tail(trk.inbox)
    BY DEF q
  <2>4. trk' = [trk EXCEPT !.inbox = q, !.pc = "done", !.outcome = "answered", !.peers = k]
    BY <2>1, <2>2
  <2> QED
    BY <1>1, <1>3, <2>3, <2>4, AnswerKeeps
<1> QED
  BY <1>5, <1>6, <1>7, <1>8, <1>9

LEMMA ArriveKeeps == ASSUME TrackerInv, Arrive PROVE TrackerInv'
<1> USE DEF TrackerInv
<1>1. PICK d \in {"conn", "ann"} :
        /\ trk.flying[d] > 0 /\ trk.pc # "done"
        /\ trk' = [trk EXCEPT !.flying[d] = @ - 1, !.inbox = Append(@, d)]
  BY DEF Arrive
<1> DEFINE f == [trk.flying EXCEPT ![d] = @ - 1]
           q == Append(trk.inbox, d)
<1>2. trk.inbox \in Seq(Datagrams) /\ trk.flying.conn \in Nat /\ d \in Datagrams
  BY DEF TrkType, TrkRec, Datagrams
<1>3. /\ f \in [conn : Nat, ann : Nat]
      /\ trk.flying.conn = f.conn + IF d = "conn" THEN 1 ELSE 0
  BY <1>1 DEF TrkType, TrkRec
<1>4. /\ q \in Seq(Datagrams)
      /\ trk.inbox \in Seq({"conn", "ann"}) => q \in Seq({"conn", "ann"})
  BY <1>2
<1>5. Waiting(q) = Waiting(trk.inbox) + (IF d = "conn" THEN 1 ELSE 0) /\ Waiting(trk.inbox) \in Nat
  BY <1>2, WaitingAppend, WaitingNat
<1>6. trk' = [trk EXCEPT !.flying = f, !.inbox = q]
  BY <1>1 DEF TrkType, TrkRec
<1> HIDE DEF f, q
<1>7. TrkType'
  BY <1>3, <1>4, <1>6 DEF TrkType, TrkRec
<1>8. /\ UNCHANGED <<trk.pc, trk.cancel, trk.timeouts, trk.stray, trk.outcome, trk.connected,
                     trk.attempt>>
      /\ trk'.flying = f /\ trk'.inbox = q
  BY <1>6 DEF TrkType, TrkRec
<1>9. Late' = Late
  <2>1. f.conn \in Nat
    BY <1>3
  <2> QED
    BY <1>2, <1>3, <1>5, <1>8, <2>1 DEF Late
<1>10. Budget'
  BY <1>4, <1>8, <1>9 DEF Budget, Clean
<1> QED
  BY <1>1, <1>7, <1>8, <1>10, RunningKeeps

LEMMA StrayKeeps == ASSUME TrackerInv, Stray PROVE TrackerInv'
<1> USE DEF TrackerInv
<1>1. PICK d \in {"short", "bogus", "conn", "ann"} :
        trk' = [trk EXCEPT !.stray = @ + 1, !.inbox = Append(@, d)]
  BY DEF Stray
<1>2. trk.pc \in {"send", "wait"}
  BY DEF Stray
<1> DEFINE q == Append(trk.inbox, d)
           n == trk.stray + 1
<1>3. q \in Seq(Datagrams) /\ n \in Nat /\ n # 0
  BY DEF TrkType, TrkRec, Datagrams
<1>4. trk' = [trk EXCEPT !.stray = n, !.inbox = q]
  BY <1>1
<1> HIDE DEF q, n
<1>5. TrkType'
  BY <1>3, <1>4 DEF TrkType, TrkRec
<1>6. /\ UNCHANGED <<trk.pc, trk.attempt, trk.outcome, trk.connected>>
      /\ trk'.stray # 0
  BY <1>3, <1>4 DEF TrkType, TrkRec
<1>7. Budget'
  BY <1>2, <1>6 DEF Budget, Clean
<1> QED
  BY <1>2, <1>5, <1>6, <1>7, RunningKeeps

LEMMA TrackerInvHolds == TrackerSpec => []TrackerInv
<1>1. ASSUME TrackerInv, [TrackerNext]_trackerVars PROVE TrackerInv'
  <2> USE <1>1
  <2>0. trk.inbox \in Seq(Datagrams) /\ trk = [trk EXCEPT !.inbox = trk.inbox]
    BY DEF TrackerInv, TrkType, TrkRec
  <2>1. CASE UrlFails
    <3>1. ~trk.connected
      BY <2>1 DEF UrlFails, TrackerInv, Budget
    <3>2. trk' = [trk EXCEPT !.inbox = trk.inbox, !.pc = "done", !.outcome = "failed"]
      BY <2>0, <2>1 DEF UrlFails, Fail
    <3> QED
      BY <2>0, <3>1, <3>2, FailKeeps
  <2>2. CASE HttpAnnounce
    <3>1. ~trk.connected
      BY <2>2 DEF HttpAnnounce, TrackerInv, Budget
    <3>2. CASE \E why \in {"failed", "tracker_failure"} : trk' = Fail(trk, why)
      <4>1. PICK why \in {"failed", "tracker_failure"} : trk' = Fail(trk, why)
        BY <3>2
      <4>2. trk' = [trk EXCEPT !.inbox = trk.inbox, !.pc = "done", !.outcome = why]
        BY <2>0, <4>1 DEF Fail
      <4> QED
        BY <2>0, <3>1, <4>2, FailKeeps
    <3>3. CASE \E n \in 0 .. MaxFound + 1 : trk' = Answer(trk, n)
      <4>1. PICK n \in 0 .. MaxFound + 1 : trk' = Answer(trk, n)
        BY <3>3
      <4>2. PICK k \in Nat : Answer(trk, n) = [trk EXCEPT !.pc = "done",
                                                  !.outcome = "answered", !.peers = k]
        BY AnswerForm
      <4>3. trk' = [trk EXCEPT !.inbox = trk.inbox, !.pc = "done", !.outcome = "answered",
                               !.peers = k]
        BY <2>0, <4>1, <4>2
      <4> QED
        BY <2>0, <4>3, AnswerKeeps
    <3> QED
      BY <2>2, <3>2, <3>3 DEF HttpAnnounce
  <2>3. CASE UdpStart
    <3>1. trk' = [trk EXCEPT !.pc = "send"] /\ trk.pc = "url"
      BY <2>3 DEF UdpStart
    <3>2. TrkType'
      BY <3>1 DEF TrackerInv, TrkType, TrkRec
    <3>3. /\ UNCHANGED <<trk.inbox, trk.connected, trk.cancel, trk.timeouts, trk.stray,
                         trk.outcome, trk.attempt, trk.flying>>
          /\ trk'.pc = "send"
      BY <3>1 DEF TrackerInv, TrkType, TrkRec
    <3>4. Late' = Late
      BY <3>3 DEF Late
    <3>5. Budget'
      BY <3>1, <3>3, <3>4 DEF TrackerInv, Budget, Clean
    <3> QED
      BY <3>1, <3>2, <3>3, <3>5, RunningKeeps
  <2>4. CASE GiveUp
    <3>1. ~trk.connected \/ ~Clean
      <4>1. trk.inbox \in Seq(Datagrams) /\ trk.flying.conn \in Nat /\ UdpRetries \in Nat
        BY TrackerAssumption DEF TrackerInv, TrkType, TrkRec
      <4>2. Late \in Nat
        BY <4>1, WaitingNat DEF Late
      <4>3. CASE trk.cancel
        BY <4>3 DEF Clean
      <4>4. CASE trk.attempt = UdpRetries
        BY <2>4, <4>1, <4>2, <4>4 DEF GiveUp, TrackerInv, Budget
      <4> QED
        BY <2>4, <4>3, <4>4 DEF GiveUp
    <3>2. trk' = [trk EXCEPT !.inbox = trk.inbox, !.pc = "done", !.outcome = "failed"]
      BY <2>0, <2>4 DEF GiveUp, Fail
    <3> QED
      BY <2>0, <3>1, <3>2, FailKeeps
  <2>5. CASE PollCancelled
    <3>1. ~trk.connected \/ ~Clean
      BY <2>5 DEF PollCancelled, Clean
    <3>2. trk' = [trk EXCEPT !.inbox = trk.inbox, !.pc = "done", !.outcome = "failed"]
      BY <2>0, <2>5 DEF PollCancelled, Fail
    <3> QED
      BY <2>0, <3>1, <3>2, FailKeeps
  <2>6. CASE Cancel
    <3>1. trk' = [trk EXCEPT !.cancel = TRUE] /\ trk.pc # "done"
      BY <2>6 DEF Cancel
    <3>2. TrkType'
      BY <3>1 DEF TrackerInv, TrkType, TrkRec
    <3>3. /\ UNCHANGED <<trk.inbox, trk.connected, trk.timeouts, trk.stray, trk.pc,
                         trk.outcome, trk.attempt, trk.flying>>
          /\ trk'.cancel
      BY <3>1 DEF TrackerInv, TrkType, TrkRec
    <3>4. Late' = Late
      BY <3>3 DEF Late
    <3>5. Budget'
      BY <3>1, <3>3, <3>4 DEF TrackerInv, Budget, Clean
    <3> QED
      BY <3>1, <3>2, <3>3, <3>5, RunningKeeps
  <2>7. CASE UNCHANGED trackerVars
    <3>1. trk' = trk
      BY <2>7 DEF trackerVars
    <3> QED
      BY <3>1 DEF TrackerInv, TrkType, Budget, Late, Clean, UdpFailureExplained
  <2> QED
    BY <2>1, <2>2, <2>3, <2>4, <2>5, <2>6, <2>7,
       SendKeeps, TimeoutKeeps, ReadKeeps, ArriveKeeps, StrayKeeps DEF TrackerNext
<1> QED
  BY <1>1, TrackerInvInit, PTL DEF TrackerSpec

\* For any number of retries, and however connect and announce replies are lost,
\* delayed or reordered: once connected, udp_announce ends without the tracker's
\* answer only if the caller cancelled, an announce try timed out or a datagram
\* came that no request explains.  Late connect replies alone, each of which
\* costs an announce try as a short reply, never use up all of them.
THEOREM LateRepliesNeverStarve == TrackerSpec => []UdpFailureExplained
<1>1. TrackerInv => UdpFailureExplained
  BY DEF TrackerInv
<1> QED
  BY <1>1, TrackerInvHolds, PTL
=============================================================================
