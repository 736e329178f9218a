--------------------------- MODULE TorrentProofs ---------------------------
(***************************************************************************)
(* Proofs about verification, completion and fast resume, for any number   *)
(* of pieces, storage layout, failures and restarts.                       *)
(*                                                                         *)
(* A tick is a chain of stages (scan, drain, block, completion check), and *)
(* each stage is shown to be Safe: it keeps the manager's invariant and    *)
(* what is known of DONE pieces.  Two invariants ride on it.  DiskInv: as  *)
(* long as nothing failed, DONE pieces that can be read back are valid on  *)
(* the storage, and so are the saved ones.  DoneInv: the verification      *)
(* fields tell which pieces were read back (CheckedOf); without it the     *)
(* completion report, which looks at num_done and two indices, could not   *)
(* be related to the pieces.                                               *)
(***************************************************************************)
EXTENDS Torrent, PieceMgrProofs

\* The verification fields of torrent_t.
Fields ==
  [startup_verifying : BOOLEAN, startup_verify_index : 0 .. NumPieces,
   startup_verified_all : BOOLEAN, final_verifying : BOOLEAN,
   final_verify_index : 0 .. NumPieces, fatal_error : BOOLEAN]

\* What the steps of a tick hand on to each other.
Stages == [m : MgrRec, x : Fields, checked : SUBSET Pieces, dirty : SUBSET Pieces,
           ret : {0, 1}]

\* A scan that goes on has pieces left, and has not yet found them all.
ScanOpen(x) == x.startup_verifying =>
                 /\ x.startup_verify_index < NumPieces /\ ~x.startup_verified_all

Stage(s) == s \in Stages /\ MgrInv(s.m, None) /\ ScanOpen(s.x)

AllDone(m) == m.num_done = NumPieces

\* What the verification fields say of the pieces, as long as the application
\* submits nothing during the scan.  During the scan exactly the scanned pieces
\* can be DONE, and those are checked; a scan that found all, and the part of
\* the final pass that is over, have checked what they say.
Scanned(m, x, c) ==
  \A p \in Pieces : m.state[p] = "DONE" => p < x.startup_verify_index /\ p \in c

CheckedOf(m, x, c) ==
  /\ x.startup_verifying => m.queue = <<>> /\ ~x.final_verifying /\ Scanned(m, x, c)
  /\ x.startup_verified_all => AllDone(m) /\ Pieces \subseteq c
  /\ x.final_verifying => AllDone(m) /\ \A p \in Pieces : p < x.final_verify_index => p \in c

\* Every DONE piece that can be read back is valid on the storage.
GoodDone(m) == \A p \in Pieces : Readable(p) /\ m.state[p] = "DONE" => m.disk[p] = "good"

Grown(m, r) == \A p \in Pieces : m.disk[p] = "good" => r.disk[p] = "good"

\* A step of a tick from s to u, with writes that end in w.
Safe(s, u, w) ==
  /\ GoodDone(s.m) => GoodDone(u.m)
  /\ w = "stored" => Grown(s.m, u.m)
  /\ u.x.startup_verifying => s.x.startup_verifying
  /\ ~WebDuringScan /\ CheckedOf(s.m, s.x, s.checked) => CheckedOf(u.m, u.x, u.checked)

LEMMA SafeTrans ==
  ASSUME NEW a, NEW b, NEW c, NEW w, Safe(a, b, w), Safe(b, c, w) PROVE Safe(a, c, w)
BY DEF Safe, Grown

LEMMA SafeSelf == ASSUME NEW a, NEW w PROVE Safe(a, a, w)
BY DEF Safe, Grown

LEMMA KeptGood == ASSUME NEW m, NEW r, Kept(m, r), GoodDone(m) PROVE GoodDone(r)
BY DEF Kept, GoodDone
----------------------------------------------------------------------------
(* The manager.                                                            *)

\* num_done is NumPieces exactly when every piece is DONE.
LEMMA AllDoneMeans ==
  ASSUME NEW m, MgrInv(m, None)
  PROVE  AllDone(m) <=> \A p \in Pieces : m.state[p] = "DONE"
<1>1. /\ DoneOf(m) \in SUBSET Pieces /\ m.num_done = Cardinality(DoneOf(m))
      /\ (DoneOf(m) = Pieces <=> \A p \in Pieces : m.state[p] = "DONE")
  BY DEF MgrInv, CountOK, DoneOf
<1>2. IsFiniteSet(Pieces) /\ Cardinality(Pieces) = NumPieces
  <2>1. Cardinality(0 .. NumPieces - 1) = NumPieces
    BY FS_Interval, MgrAssumption
  <2> QED
    BY <2>1, PiecesFinite DEF Pieces
<1>3. Cardinality(DoneOf(m)) = NumPieces => DoneOf(m) = Pieces
  BY <1>1, <1>2, FS_Subset
<1> QED
  BY <1>1, <1>2, <1>3 DEF AllDone

\* A complete torrent stays complete, and nothing of it is written.
LEMMA DoneStays ==
  ASSUME NEW m, NEW n, NEW w, MgrInv(m, None), MgrInv(n, None), Fed(m, n, w), AllDone(m)
  PROVE  AllDone(n) /\ Written(m, n) = {}
<1>1. \A p \in Pieces : m.state[p] = "DONE"
  BY AllDoneMeans
<1>2. \A p \in Pieces : n.state[p] = "DONE" /\ n.disk[p] = m.disk[p]
  BY <1>1 DEF Fed
<1> QED
  BY <1>1, <1>2, AllDoneMeans DEF Written

\* Without a verdict there is nothing to apply.
LEMMA DrainIdle ==
  ASSUME NEW m, NEW w, m.hashed = 0
  PROVE  Drain(m, w) = m
<1> DEFINE Loop(f) == f = [n \in 0 .. m.hashed |-> IF n = 0 THEN m ELSE PopApply(f[n - 1], w[n])]
           f == CHOOSE g : Loop(g)
           e == [n \in 0 .. m.hashed |-> m]
<1>1. Loop(e)
  <2>1. \A n \in 0 .. m.hashed : n = 0
    OBVIOUS
  <2> QED
    BY <2>1
<1>2. Loop(f)
  <2> HIDE DEF Loop, e
  <2> QED
    BY <1>1
<1>3. Drain(m, w) = f[m.hashed]
  BY DEF Drain
<1> HIDE DEF f
<1> QED
  BY <1>2, <1>3

LEMMA QuietQueue ==
  ASSUME NEW m, MgrInv(m, None), m.queue = <<>>
  PROVE  m.hashed = 0 /\ \A w : Drain(m, w) = m /\ HashFlush(m, w) = m
<1>1. m \in MgrRec /\ m.hashed \in Nat /\ m.hashed <= Len(m.queue)
  BY DEF MgrInv, MgrRec, QueueOK
<1>2. Len(m.queue) = 0 /\ m.hashed = 0
  BY <1>1
<1>3. [m EXCEPT !.hashed = Len(m.queue)] = m
  <2>1. [m EXCEPT !.hashed = 0] = m
    BY <1>1, <1>2 DEF MgrRec
  <2> QED
    BY <1>2, <2>1
<1> QED
  BY <1>2, <1>3, DrainIdle DEF HashFlush

LEMMA AllWrites ==
  ASSUME NEW m, MgrInv(m, None), NEW w \in WriteResults
  PROVE  /\ \A n \in 1 .. m.hashed : All(w)[n] = w /\ All(w)[n] \in WriteResults
         /\ \A n \in 1 .. Len(m.queue) : All(w)[n] = w /\ All(w)[n] \in WriteResults
<1>1. /\ m.hashed \in Nat /\ Len(m.queue) \in Nat /\ QMax \in Nat
      /\ m.hashed <= Len(m.queue) /\ Len(m.queue) <= QMax
  BY MgrAssumption DEF MgrInv, MgrRec, QueueOK
<1>2. \A n \in 1 .. QMax : All(w)[n] = w
  BY DEF All
<1>3. (\A n \in 1 .. m.hashed : n \in 1 .. QMax) /\ \A n \in 1 .. Len(m.queue) : n \in 1 .. QMax
  BY <1>1
<1> QED
  BY <1>2, <1>3
----------------------------------------------------------------------------
(* The steps of a tick.                                                    *)

\* Fields of x that no write changes.
SameFields(x, y) ==
  /\ y.startup_verifying = x.startup_verifying
  /\ y.startup_verify_index = x.startup_verify_index
  /\ y.startup_verified_all = x.startup_verified_all
  /\ y.final_verifying = x.final_verifying
  /\ y.final_verify_index = x.final_verify_index

LEMMA MovedForm ==
  ASSUME NEW s \in Stages, NEW n \in MgrRec, NEW ideal
  PROVE  LET u == Moved(s, n, ideal) IN
         /\ u \in Stages /\ u.m = n /\ SameFields(s.x, u.x) /\ u.ret = s.ret
         /\ u.checked = s.checked \ Written(s.m, n)
<1> DEFINE e == s.x.fatal_error \/ n # ideal
           y == [s.x EXCEPT !.fatal_error = e]
           c == s.checked \ Written(s.m, n)
           d == s.dirty \cup Written(s.m, n)
           u == [s EXCEPT !.m = n, !.x = y, !.checked = c, !.dirty = d]
<1>1. Moved(s, n, ideal) = u
  BY DEF Moved
<1>2. e \in BOOLEAN /\ s.x \in Fields /\ s.checked \in SUBSET Pieces /\ s.dirty \in SUBSET Pieces
  BY DEF Stages
<1> HIDE DEF e
<1>3. y \in Fields /\ SameFields(s.x, y)
  BY <1>2 DEF Fields, SameFields
<1>4. c \in SUBSET Pieces /\ d \in SUBSET Pieces
  BY <1>2 DEF Written
<1> HIDE DEF y, c, d
<1>5. u \in Stages /\ u.m = n /\ u.x = y /\ u.ret = s.ret /\ u.checked = c
  BY <1>3, <1>4 DEF Stages
<1> HIDE DEF u
<1> QED
  BY <1>1, <1>3, <1>5 DEF c

\* Results, blocks and web pieces: the hand-over of the manager.
LEMMA MovedSafe ==
  ASSUME NEW s, NEW n, NEW ideal, NEW w, Stage(s), MgrInv(n, None), Fed(s.m, n, w),
         ~WebDuringScan /\ s.x.startup_verifying /\ s.m.queue = <<>> => n = s.m
  PROVE  /\ Stage(Moved(s, n, ideal)) /\ Safe(s, Moved(s, n, ideal), w)
         /\ Moved(s, n, ideal).m = n /\ Moved(s, n, ideal).x.startup_verifying = s.x.startup_verifying
<1> DEFINE u == Moved(s, n, ideal)
<1>0. s \in Stages /\ MgrInv(s.m, None) /\ n \in MgrRec
  BY DEF Stage, MgrInv
<1>1. /\ u \in Stages /\ u.m = n /\ SameFields(s.x, u.x) /\ u.ret = s.ret
      /\ u.checked = s.checked \ Written(s.m, n)
  BY <1>0, MovedForm
<1> HIDE DEF u
<1>2. Stage(u)
  BY <1>1 DEF Stage, ScanOpen, SameFields
<1>3. GoodDone(s.m) => GoodDone(u.m)
  BY <1>1, KeptGood DEF Fed
<1>4. w = "stored" => Grown(s.m, u.m)
  BY <1>1 DEF Fed, Grown
<1>5. ASSUME ~WebDuringScan, CheckedOf(s.m, s.x, s.checked) PROVE CheckedOf(u.m, u.x, u.checked)
  <2>1. CASE s.x.startup_verifying
    <3>1. n = s.m
      BY <1>5, <2>1 DEF CheckedOf
    <3>2. Written(s.m, n) = {}
      BY <3>1 DEF Written
    <3>3. u.checked = s.checked
      BY <1>1, <3>2
    <3> QED
      BY <1>1, <1>5, <3>1, <3>3 DEF CheckedOf, SameFields, Scanned
  <2>2. CASE ~s.x.startup_verifying /\ AllDone(s.m)
    <3>1. AllDone(n) /\ Written(s.m, n) = {}
      BY <1>0, <2>2, DoneStays
    <3>2. u.checked = s.checked
      BY <1>1, <3>1
    <3> QED
      BY <1>1, <1>5, <2>2, <3>1, <3>2 DEF CheckedOf, SameFields
  <2>3. CASE ~s.x.startup_verifying /\ ~AllDone(s.m)
    BY <1>1, <1>5, <2>3 DEF CheckedOf, SameFields
  <2> QED
    BY <2>1, <2>2, <2>3
<1>6. u.x.startup_verifying = s.x.startup_verifying
  BY <1>1 DEF SameFields
<1>7. Safe(s, u, w)
  BY <1>3, <1>4, <1>5, <1>6 DEF Safe
<1> QED
  BY <1>1, <1>2, <1>6, <1>7 DEF u

\* After i pieces of a scan that began in s.
ScanSet(s, i) ==
  {u \in Stages :
     /\ MgrInv(u.m, None) /\ Kept(s.m, u.m) /\ u.m.disk = s.m.disk /\ u.m.queue = s.m.queue
     /\ u.x.startup_verify_index = s.x.startup_verify_index + i
     /\ u.x.startup_verifying = s.x.startup_verifying
     /\ u.x.startup_verified_all = s.x.startup_verified_all
     /\ u.x.final_verifying = s.x.final_verifying
     /\ Scanned(s.m, s.x, s.checked) => Scanned(u.m, u.x, u.checked)}

LEMMA ScanOneForm ==
  ASSUME NEW s, NEW i \in Nat, NEW u \in ScanSet(s, i), NEW r \in BOOLEAN,
         s.x.startup_verify_index \in Nat, u.x.startup_verify_index < NumPieces
  PROVE  ScanOne(u, r) \in ScanSet(s, i + 1)
<1> DEFINE p == u.x.startup_verify_index
           n == CheckExisting(u.m, p, r)
           y == [u.x EXCEPT !.startup_verify_index = p + 1]
           c == IF n.state[p] = "DONE" THEN u.checked \cup {p} ELSE u.checked \ {p}
           v == [u EXCEPT !.m = n, !.x = y, !.checked = c]
<1>1. ScanOne(u, r) = v
  BY DEF ScanOne
<1>2. /\ u \in Stages /\ MgrInv(u.m, None) /\ u.x \in Fields /\ u.checked \in SUBSET Pieces
      /\ p \in Nat /\ p \in Pieces /\ p + 1 \in 0 .. NumPieces
      /\ p = s.x.startup_verify_index + i
  BY MgrAssumption DEF ScanSet, Stages, Fields, Pieces
<1> HIDE DEF p
<1>3. MgrInv(n, None) /\ Kept(u.m, n) /\ Decided(u.m, n, p)
  BY <1>2, CheckKeeps
<1> HIDE DEF n
<1>4. c \in SUBSET Pieces /\ n \in MgrRec
  BY <1>2, <1>3 DEF MgrInv
<1>5. /\ y \in Fields /\ y.startup_verify_index = p + 1
      /\ y.startup_verifying = u.x.startup_verifying
      /\ y.startup_verified_all = u.x.startup_verified_all
      /\ y.final_verifying = u.x.final_verifying
  BY <1>2 DEF Fields
<1>6. \A q \in Pieces : n.state[q] = "DONE" => (q = p /\ q \in c) \/ (q # p /\ u.m.state[q] = "DONE")
  BY <1>3 DEF Decided
<1>7. \A q \in Pieces : q # p /\ q \in u.checked => q \in c
  OBVIOUS
<1> HIDE DEF y, c
<1>8. v \in Stages /\ v.m = n /\ v.x = y /\ v.checked = c
  BY <1>2, <1>4, <1>5 DEF Stages
<1> HIDE DEF v
<1>9. Kept(s.m, n) /\ n.disk = s.m.disk /\ n.queue = s.m.queue
  BY <1>3, KeptTrans DEF ScanSet, Decided
<1>10. ASSUME Scanned(s.m, s.x, s.checked) PROVE Scanned(n, y, c)
  <2>1. \A q \in Pieces : u.m.state[q] = "DONE" => q < p /\ q \in u.checked
    BY <1>10 DEF ScanSet, Scanned, p
  <2> SUFFICES ASSUME NEW q \in Pieces, n.state[q] = "DONE" PROVE q < p + 1 /\ q \in c
    BY <1>5 DEF Scanned
  <2>2. CASE q = p
    BY <1>2, <1>6, <2>2
  <2>3. CASE q # p
    <3>1. q < p /\ q \in c
      BY <1>6, <1>7, <2>1, <2>3
    <3>2. q \in Nat
      BY DEF Pieces
    <3> QED
      BY <1>2, <3>1, <3>2
  <2> QED
    BY <2>2, <2>3
<1>11. y.startup_verify_index = s.x.startup_verify_index + (i + 1)
  BY <1>2, <1>5
<1>12. /\ y.startup_verifying = s.x.startup_verifying
       /\ y.startup_verified_all = s.x.startup_verified_all
       /\ y.final_verifying = s.x.final_verifying
  BY <1>5 DEF ScanSet
<1>13. v \in ScanSet(s, i + 1)
  BY <1>3, <1>8, <1>9, <1>10, <1>11, <1>12 DEF ScanSet
<1> QED
  BY <1>1, <1>13

LEMMA ScanPiecesForm ==
  ASSUME NEW s, NEW N \in Nat, NEW r \in BOOLEAN, Stage(s),
         s.x.startup_verify_index + N <= NumPieces
  PROVE  ScanPieces(s, N, r) \in ScanSet(s, N)
<1> DEFINE X == [n \in 0 .. N |-> ScanSet(s, n)]
           Turn(u) == ScanOne(u, r)
           G == [n \in 1 .. N |-> [u \in ScanSet(s, n - 1) |-> Turn(u)]]
           Loop(h) == h = [n \in 0 .. N |-> IF n = 0 THEN s ELSE Turn(h[n - 1])]
           f == CHOOSE h : Loop(h)
<1>0. s.x.startup_verify_index \in Nat /\ s \in ScanSet(s, 0)
  <2>1. s \in Stages /\ s.x.startup_verify_index \in Nat /\ MgrInv(s.m, None)
    BY MgrAssumption DEF Stage, Stages, Fields
  <2> QED
    BY <2>1, KeptSelf DEF ScanSet
<1>1. ASSUME NEW n \in 1 .. N, NEW u \in ScanSet(s, n - 1) PROVE Turn(u) \in ScanSet(s, n)
  <2>1. n - 1 \in Nat /\ (n - 1) + 1 = n /\ n \in Nat /\ n <= N
    OBVIOUS
  <2>2. u.x.startup_verify_index = s.x.startup_verify_index + (n - 1)
    BY DEF ScanSet
  <2>3. u.x.startup_verify_index < NumPieces
    BY <1>0, <2>1, <2>2, MgrAssumption
  <2>4. Turn(u) \in ScanSet(s, (n - 1) + 1)
    BY <1>0, <2>1, <2>3, ScanOneForm
  <2> QED
    BY <2>1, <2>4
<1> HIDE DEF Turn
<1>2. Loop(f)
  <2>1. \A n \in 0 + 1 .. N : G[n] \in [X[n - 1] -> X[n]]
    <3>1. ASSUME NEW n \in 0 + 1 .. N PROVE G[n] \in [X[n - 1] -> X[n]]
      <4>1. n \in 1 .. N /\ n \in 0 .. N /\ n - 1 \in 0 .. N
        OBVIOUS
      <4>2. X[n - 1] = ScanSet(s, n - 1) /\ X[n] = ScanSet(s, n)
            /\ G[n] = [u \in ScanSet(s, n - 1) |-> Turn(u)]
        BY <4>1
      <4> QED
        BY <1>1, <4>1, <4>2
    <3> QED
      BY <3>1
  <2>2. PICK g : LoopOf(0, N, X, s, G, g)
    <3>1. s \in X[0]
      BY <1>0
    <3>2. 0 \in Nat /\ 0 <= N
      OBVIOUS
    <3> HIDE DEF X, G, Loop, f
    <3> QED
      BY <2>1, <3>1, <3>2, LoopExists
  <2>3. /\ g[0] = s /\ (\A n \in 0 + 1 .. N : g[n] = G[n][g[n - 1]])
        /\ \A n \in 0 .. N : g[n] \in ScanSet(s, n)
    BY <2>2 DEF LoopOf
  <2>4. ASSUME NEW n \in 0 .. N PROVE g[n] = IF n = 0 THEN s ELSE Turn(g[n - 1])
    <3>1. CASE n = 0
      BY <2>3, <3>1
    <3>2. CASE n # 0
      <4>1. n \in 1 .. N /\ n \in 0 + 1 .. N /\ n - 1 \in 0 .. N
        BY <3>2
      <4>2. g[n] = G[n][g[n - 1]] /\ g[n - 1] \in ScanSet(s, n - 1)
        BY <2>3, <4>1
      <4>3. G[n] = [u \in ScanSet(s, n - 1) |-> Turn(u)]
        BY <4>1
      <4> QED
        BY <3>2, <4>2, <4>3
    <3> QED
      BY <3>1, <3>2
  <2>5. g = [n \in 0 .. N |-> g[n]]
    BY <2>2 DEF LoopOf
  <2>6. Loop(g)
    BY <2>4, <2>5
  <2> HIDE DEF Loop
  <2> QED
    BY <2>6
<1>3. ScanPieces(s, N, r) = f[N]
  BY DEF ScanPieces, Turn
<1> HIDE DEF f
<1>4. f[0] = s /\ \A n \in 1 .. N : f[n] = Turn(f[n - 1])
  BY <1>2
<1>5. \A n \in 0 .. N : f[n] \in X[n]
  <2>1. f[0] \in X[0]
    BY <1>0, <1>4
  <2>2. ASSUME NEW n \in 0 + 1 .. N, f[n - 1] \in X[n - 1] PROVE f[n] \in X[n]
    <3>1. n \in 1 .. N /\ n \in 0 .. N /\ n - 1 \in 0 .. N
      OBVIOUS
    <3>2. f[n - 1] \in ScanSet(s, n - 1)
      BY <2>2, <3>1
    <3> QED
      BY <1>1, <1>4, <3>1, <3>2
  <2> HIDE DEF X
  <2>3. 0 \in Nat
    OBVIOUS
  <2> QED
    BY <2>1, <2>2, <2>3, LoopAdmits
<1>6. f[N] \in X[N] /\ X[N] = ScanSet(s, N)
  BY <1>5
<1> QED
  BY <1>3, <1>6

\* The scan of a tick.
LEMMA ScanSafe ==
  ASSUME NEW s, NEW k \in 1 .. NumPieces, NEW r \in BOOLEAN, NEW w, Stage(s)
  PROVE  Stage(StartupScan(s, k, r)) /\ Safe(s, StartupScan(s, k, r), w)
<1>1. CASE ~s.x.startup_verifying
  <2>1. StartupScan(s, k, r) = s
    BY <1>1 DEF StartupScan
  <2> QED
    BY <2>1, SafeSelf
<1>2. CASE s.x.startup_verifying
  <2> DEFINE i == s.x.startup_verify_index
             N == Min({k, NumPieces - i})
             u == ScanPieces(s, N, r)
  <2>1. s \in Stages /\ i \in Nat /\ i < NumPieces /\ k \in Nat /\ NumPieces \in Nat
    BY <1>2, MgrAssumption DEF Stage, Stages, Fields, ScanOpen
  <2> HIDE DEF i
  <2>2. N \in Nat /\ i + N <= NumPieces
    <3>1. {k, NumPieces - i} \in SUBSET Nat /\ {k, NumPieces - i} # {}
      BY <2>1
    <3>2. N \in {k, NumPieces - i} /\ N <= NumPieces - i
      BY <3>1, MinIsLeast
    <3> HIDE DEF N
    <3>3. N \in Nat
      BY <3>1, <3>2
    <3> QED
      BY <2>1, <3>2, <3>3
  <2> DEFINE e == u.m.num_done = NumPieces
             y == [u.x EXCEPT !.startup_verifying = FALSE, !.startup_verified_all = e]
             v == [u EXCEPT !.x = y]
  <2>3. StartupScan(s, k, r) = IF u.x.startup_verify_index < NumPieces THEN u ELSE v
    BY <1>2 DEF StartupScan, i
  <2>4. u \in ScanSet(s, N)
    <3> HIDE DEF N
    <3> QED
      BY <2>2, ScanPiecesForm DEF i
  <2> HIDE DEF N, u
  <2>5. /\ u \in Stages /\ MgrInv(u.m, None) /\ Kept(s.m, u.m) /\ u.m.disk = s.m.disk
        /\ u.m.queue = s.m.queue /\ u.x \in Fields
        /\ u.x.startup_verify_index \in 0 .. NumPieces
        /\ u.x.startup_verifying = s.x.startup_verifying
        /\ u.x.startup_verified_all = s.x.startup_verified_all
        /\ u.x.final_verifying = s.x.final_verifying
        /\ Scanned(s.m, s.x, s.checked) => Scanned(u.m, u.x, u.checked)
    BY <2>4 DEF ScanSet, Stages, Fields
  <2>6. ~s.x.startup_verified_all
    BY <1>2 DEF Stage, ScanOpen
  <2>7. (GoodDone(s.m) => GoodDone(u.m)) /\ Grown(s.m, u.m)
    BY <2>5, KeptGood DEF Grown
  <2>8. CASE u.x.startup_verify_index < NumPieces
    <3>1. Stage(u)
      BY <2>5, <2>6, <2>8 DEF Stage, ScanOpen
    <3>2. CheckedOf(s.m, s.x, s.checked) => CheckedOf(u.m, u.x, u.checked)
      BY <1>2, <2>5, <2>6 DEF CheckedOf
    <3>3. Safe(s, u, w)
      BY <1>2, <2>7, <3>2 DEF Safe
    <3> QED
      BY <2>3, <2>8, <3>1, <3>3
  <2>9. CASE ~(u.x.startup_verify_index < NumPieces)
    <3>1. e \in BOOLEAN /\ (e <=> AllDone(u.m))
      BY DEF AllDone
    <3> HIDE DEF e
    <3>2. /\ y \in Fields /\ ~y.startup_verifying /\ y.startup_verified_all = e
          /\ y.final_verifying = u.x.final_verifying
      BY <2>5, <3>1 DEF Fields
    <3> HIDE DEF y
    <3>3. v \in Stages /\ v.m = u.m /\ v.x = y /\ v.checked = u.checked
      BY <2>5, <3>2 DEF Stages
    <3> HIDE DEF v
    <3>4. Stage(v)
      BY <2>5, <3>2, <3>3 DEF Stage, ScanOpen
    <3>5. ASSUME CheckedOf(s.m, s.x, s.checked) PROVE CheckedOf(v.m, v.x, v.checked)
      <4>1. Scanned(u.m, u.x, u.checked) /\ ~y.final_verifying
        BY <1>2, <2>5, <3>2, <3>5 DEF CheckedOf
      <4>2. AllDone(u.m) => Pieces \subseteq u.checked
        BY <2>5, <4>1, AllDoneMeans DEF Scanned
      <4> QED
        BY <3>1, <3>2, <3>3, <4>1, <4>2 DEF CheckedOf
    <3>6. Safe(s, v, w)
      BY <1>2, <2>7, <3>3, <3>5 DEF Safe
    <3> QED
      BY <2>3, <2>9, <3>4, <3>6
  <2> QED
    BY <2>8, <2>9
<1> QED
  BY <1>1, <1>2

\* The drain of a tick, and the flush of the snapshot and of the teardown.
LEMMA DrainSafe ==
  ASSUME NEW s, NEW w \in WriteResults, NEW ideal, Stage(s)
  PROVE  LET u == Moved(s, Drain(s.m, All(w)), ideal) IN
         Stage(u) /\ Safe(s, u, w) /\ u.x.startup_verifying = s.x.startup_verifying
<1> DEFINE n == Drain(s.m, All(w))
<1>1. MgrInv(s.m, None)
  BY DEF Stage
<1>2. /\ \A i \in 1 .. s.m.hashed : All(w)[i] \in WriteResults
      /\ w = "stored" => \A i \in 1 .. s.m.hashed : All(w)[i] = "stored"
  BY <1>1, AllWrites
<1>3. MgrInv(n, None) /\ Fed(s.m, n, w)
  <2> HIDE DEF n
  <2>1. MgrInv(Drain(s.m, All(w)), None) /\ Fed(s.m, Drain(s.m, All(w)), w)
    BY <1>1, <1>2, DrainKeeps
  <2> QED
    BY <2>1 DEF n
<1>4. s.m.queue = <<>> => n = s.m
  BY <1>1, QuietQueue
<1> HIDE DEF n
<1>5. /\ Stage(Moved(s, n, ideal)) /\ Safe(s, Moved(s, n, ideal), w)
      /\ Moved(s, n, ideal).x.startup_verifying = s.x.startup_verifying
  BY <1>3, <1>4, MovedSafe
<1> QED
  BY <1>5 DEF n

LEMMA FlushSafe ==
  ASSUME NEW s, NEW w \in WriteResults, NEW ideal, Stage(s)
  PROVE  LET u == Moved(s, HashFlush(s.m, All(w)), ideal) IN
         /\ Stage(u) /\ Safe(s, u, w) /\ u.x.startup_verifying = s.x.startup_verifying
         /\ u.m.queue = <<>> /\ (AllDone(s.m) => AllDone(u.m) /\ s.checked \subseteq u.checked)
<1> DEFINE n == HashFlush(s.m, All(w))
           u == Moved(s, n, ideal)
<1>1. MgrInv(s.m, None) /\ s \in Stages
  BY DEF Stage
<1>2. /\ \A i \in 1 .. Len(s.m.queue) : All(w)[i] \in WriteResults
      /\ w = "stored" => \A i \in 1 .. Len(s.m.queue) : All(w)[i] = "stored"
  BY <1>1, AllWrites
<1>3. MgrInv(n, None) /\ Fed(s.m, n, w) /\ n.queue = <<>>
  <2> HIDE DEF n
  <2>1. /\ MgrInv(HashFlush(s.m, All(w)), None) /\ Fed(s.m, HashFlush(s.m, All(w)), w)
        /\ HashFlush(s.m, All(w)).queue = <<>>
    BY <1>1, <1>2, FlushKeeps
  <2> QED
    BY <2>1 DEF n
<1>4. s.m.queue = <<>> => n = s.m
  BY <1>1, QuietQueue
<1> HIDE DEF n
<1>5. Stage(u) /\ Safe(s, u, w) /\ u.m = n /\ u.x.startup_verifying = s.x.startup_verifying
  BY <1>3, <1>4, MovedSafe
<1>6. n \in MgrRec
  BY <1>3 DEF MgrInv
<1>7. u.checked = s.checked \ Written(s.m, n)
  BY <1>1, <1>6, MovedForm
<1> HIDE DEF u
<1>8. AllDone(s.m) => AllDone(u.m) /\ s.checked \subseteq u.checked
  <2> SUFFICES ASSUME AllDone(s.m) PROVE AllDone(n) /\ s.checked \subseteq u.checked
    BY <1>5
  <2>1. AllDone(n) /\ Written(s.m, n) = {}
    BY <1>1, <1>3, DoneStays
  <2> QED
    BY <1>7, <2>1
<1> QED
  BY <1>3, <1>5, <1>8 DEF u, n

\* The block of a peer.
LEMMA BlockSafe ==
  ASSUME NEW s, NEW g \in Deliveries, NEW w \in WriteResults, Stage(s),
         g.p # None => ~s.x.startup_verifying
  PROVE  Stage(PeerBlock(s, g, w)) /\ Safe(s, PeerBlock(s, g, w), w)
<1>1. CASE g.p = None
  <2>1. PeerBlock(s, g, w) = s
    BY <1>1 DEF PeerBlock
  <2> QED
    BY <2>1, SafeSelf
<1>2. CASE g.p # None
  <2>1. g.p \in Pieces /\ g.b \in Blocks(g.p) /\ g.tag \in {"good", "bad"}
    BY <1>2 DEF Deliveries, NoBlock
  <2> DEFINE n == GotBlock(s.m, g.p, g.b, g.tag, w, TRUE)
             ideal == GotBlock(s.m, g.p, g.b, g.tag, Ok, TRUE)
  <2>2. PeerBlock(s, g, w) = Moved(s, n, ideal)
    BY <1>2 DEF PeerBlock
  <2>3. MgrInv(s.m, None)
    BY DEF Stage
  <2>4. MgrInv(n, None) /\ Fed(s.m, n, w)
    BY <2>1, <2>3, GotBlockKeeps
  <2> HIDE DEF n, ideal
  <2> QED
    BY <1>2, <2>2, <2>4, MovedSafe
<1> QED
  BY <1>1, <1>2

LEMMA NotScanning ==
  ASSUME NEW s, Stage(s), CheckedOf(s.m, s.x, s.checked), AllDone(s.m)
  PROVE  ~s.x.startup_verifying
<1> SUFFICES ASSUME s.x.startup_verifying PROVE FALSE
  OBVIOUS
<1>1. /\ s.x.startup_verify_index < NumPieces /\ s.x.startup_verify_index \in 0 .. NumPieces
      /\ Scanned(s.m, s.x, s.checked) /\ MgrInv(s.m, None)
  BY DEF Stage, ScanOpen, CheckedOf, Stages, Fields
<1>2. s.x.startup_verify_index \in Pieces
  BY <1>1, MgrAssumption DEF Pieces
<1>3. s.m.state[s.x.startup_verify_index] = "DONE"
  BY <1>1, <1>2, AllDoneMeans
<1>4. s.x.startup_verify_index < s.x.startup_verify_index
  BY <1>1, <1>2, <1>3 DEF Scanned
<1> QED
  BY <1>1, <1>4

\* check_completion
LEMMA CompletionSafe ==
  ASSUME NEW s, NEW r \in BOOLEAN, NEW f \in BOOLEAN, NEW w, Stage(s)
  PROVE  LET u == CheckCompletion(s, r, f) IN
         /\ Stage(u) /\ Safe(s, u, w)
         /\ (~WebDuringScan /\ CheckedOf(s.m, s.x, s.checked) /\ u.ret = 0
               => AllDone(u.m) /\ Pieces \subseteq u.checked)
<1> DEFINE u == CheckCompletion(s, r, f)
           started == s.x.final_verifying
           p == IF started THEN s.x.final_verify_index ELSE 0
           d == IF started THEN s.dirty ELSE {}
<1>0. /\ s \in Stages /\ MgrInv(s.m, None) /\ s.m \in MgrRec /\ s.x \in Fields
      /\ s.checked \in SUBSET Pieces /\ s.dirty \in SUBSET Pieces /\ ScanOpen(s.x)
      /\ started \in BOOLEAN /\ s.x.startup_verified_all \in BOOLEAN
      /\ s.x.final_verify_index \in 0 .. NumPieces
  BY DEF Stage, Stages, Fields
<1>1. p \in 0 .. NumPieces /\ d \in SUBSET Pieces /\ 0 \in 0 .. NumPieces
  BY <1>0, MgrAssumption
<1>2. CASE ~AllDone(s.m)
  <2> DEFINE y == [s.x EXCEPT !.final_verifying = FALSE, !.final_verify_index = 0,
                              !.startup_verified_all = FALSE]
             v == [s EXCEPT !.x = y, !.ret = 1]
  <2>1. u = v
    BY <1>2 DEF CheckCompletion, AllDone
  <2>2. /\ y \in Fields /\ y.final_verifying = FALSE /\ y.startup_verified_all = FALSE
        /\ y.startup_verifying = s.x.startup_verifying
        /\ y.startup_verify_index = s.x.startup_verify_index
    BY <1>0, <1>1 DEF Fields
  <2> HIDE DEF y
  <2>3. v \in Stages /\ v.m = s.m /\ v.x = y /\ v.checked = s.checked /\ v.ret = 1
    BY <1>0, <2>2 DEF Stages
  <2> HIDE DEF u, v
  <2>4. Stage(v)
    BY <1>0, <2>2, <2>3 DEF Stage, ScanOpen
  <2>5. CheckedOf(s.m, s.x, s.checked) => CheckedOf(v.m, v.x, v.checked)
    BY <2>2, <2>3 DEF CheckedOf, Scanned
  <2>6. Safe(s, v, w)
    BY <2>2, <2>3, <2>5 DEF Safe, Grown
  <2> QED
    BY <2>1, <2>3, <2>4, <2>6 DEF u
<1>3. CASE AllDone(s.m) /\ (s.x.startup_verified_all \/ (started /\ p = NumPieces))
  <2> DEFINE v == [s EXCEPT !.ret = 0]
  <2>1. u = v
    BY <1>3 DEF CheckCompletion, AllDone
  <2>2. v \in Stages /\ v.m = s.m /\ v.x = s.x /\ v.checked = s.checked
    BY <1>0 DEF Stages
  <2> HIDE DEF u, v
  <2>3. Stage(v) /\ Safe(s, v, w)
    BY <1>0, <2>2 DEF Stage, Safe, Grown
  <2>4. CheckedOf(s.m, s.x, s.checked) => Pieces \subseteq s.checked
    <3> SUFFICES ASSUME CheckedOf(s.m, s.x, s.checked), NEW q \in Pieces PROVE q \in s.checked
      OBVIOUS
    <3>1. CASE s.x.startup_verified_all
      BY <3>1 DEF CheckedOf
    <3>2. CASE started /\ p = NumPieces
      <4>1. s.x.final_verify_index = NumPieces /\ q < NumPieces
        BY <3>2, MgrAssumption DEF Pieces
      <4> QED
        BY <3>2, <4>1 DEF CheckedOf
    <3> QED
      BY <1>3, <3>1, <3>2
  <2> QED
    BY <1>3, <2>1, <2>2, <2>3, <2>4 DEF u
<1>4. CASE AllDone(s.m) /\ ~s.x.startup_verified_all /\ ~started /\ ~f
  <2> DEFINE v == [s EXCEPT !.ret = 1]
  <2>1. u = v
    BY <1>4 DEF CheckCompletion, AllDone
  <2>2. v \in Stages /\ v.m = s.m /\ v.x = s.x /\ v.checked = s.checked /\ v.ret = 1
    BY <1>0 DEF Stages
  <2> HIDE DEF u, v
  <2>3. Stage(v) /\ Safe(s, v, w)
    BY <1>0, <2>2 DEF Stage, Safe, Grown
  <2> QED
    BY <2>1, <2>2, <2>3 DEF u
<1> DEFINE pass == /\ AllDone(s.m) /\ ~s.x.startup_verified_all /\ (started \/ f)
                   /\ p # NumPieces
<1>5. CASE pass /\ ~VerifyValid(s.m, p, r)
  <2> DEFINE n == VerifyPiece(s.m, p, r)
             y == [s.x EXCEPT !.final_verifying = FALSE, !.final_verify_index = 0]
             v == [s EXCEPT !.m = n, !.x = y, !.dirty = d, !.ret = 1]
  <2>1. u = v
    BY <1>5 DEF CheckCompletion, AllDone
  <2>2. p \in Pieces
    BY <1>1, <1>5, MgrAssumption DEF Pieces
  <2>3. MgrInv(n, None) /\ Kept(s.m, n) /\ Decided(s.m, n, p) /\ n \in MgrRec
    <3>1. MgrInv(n, None) /\ Kept(s.m, n) /\ Decided(s.m, n, p)
      <4> HIDE DEF p
      <4> QED
        BY <1>0, <2>2, VerifyKeeps
    <3> HIDE DEF n
    <3> QED
      BY <3>1 DEF MgrInv
  <2> HIDE DEF n, p, d
  <2>4. /\ y \in Fields /\ y.final_verifying = FALSE
        /\ y.startup_verified_all = s.x.startup_verified_all
        /\ y.startup_verifying = s.x.startup_verifying
        /\ y.startup_verify_index = s.x.startup_verify_index
    BY <1>0, <1>1 DEF Fields
  <2> HIDE DEF y
  <2>5. v \in Stages /\ v.m = n /\ v.x = y /\ v.checked = s.checked /\ v.ret = 1
    BY <1>0, <1>1, <2>3, <2>4 DEF Stages
  <2> HIDE DEF u, v
  <2>6. Stage(v)
    BY <1>0, <2>3, <2>4, <2>5 DEF Stage, ScanOpen
  <2>7. CheckedOf(s.m, s.x, s.checked) => CheckedOf(v.m, v.x, v.checked)
    <3> SUFFICES ASSUME CheckedOf(s.m, s.x, s.checked) PROVE CheckedOf(n, y, s.checked)
      BY <2>5
    <3>1. ~s.x.startup_verifying
      BY <1>5, NotScanning
    <3> QED
      BY <1>5, <2>4, <3>1 DEF CheckedOf
  <2>8. GoodDone(n) \/ ~GoodDone(s.m)
    BY <2>3, KeptGood
  <2>9. Safe(s, v, w)
    BY <2>3, <2>4, <2>5, <2>7, <2>8 DEF Safe, Grown, Decided
  <2> QED
    BY <2>1, <2>5, <2>6, <2>9 DEF u
<1>6. CASE pass /\ VerifyValid(s.m, p, r)
  <2> DEFINE y == [s.x EXCEPT !.final_verifying = TRUE, !.final_verify_index = p + 1]
             c == s.checked \cup {p}
             v == [s EXCEPT !.x = y, !.checked = c, !.dirty = d, !.ret = 1]
  <2>1. u = v
    BY <1>6 DEF CheckCompletion, AllDone
  <2>2. p \in Pieces /\ p + 1 \in 0 .. NumPieces /\ p \in Nat
    BY <1>1, <1>6, MgrAssumption DEF Pieces
  <2>3. \A q \in Pieces : started /\ q < p => q < s.x.final_verify_index
    OBVIOUS
  <2>3a. ~started => p = 0
    OBVIOUS
  <2> HIDE DEF p, d
  <2>4. /\ y \in Fields /\ y.final_verify_index = p + 1
        /\ y.startup_verified_all = s.x.startup_verified_all
        /\ y.startup_verifying = s.x.startup_verifying
        /\ y.startup_verify_index = s.x.startup_verify_index
    BY <1>0, <2>2 DEF Fields
  <2>5. c \in SUBSET Pieces
    BY <1>0, <2>2
  <2> HIDE DEF y
  <2>6. v \in Stages /\ v.m = s.m /\ v.x = y /\ v.checked = c /\ v.ret = 1
    BY <1>0, <1>1, <2>4, <2>5 DEF Stages
  <2> HIDE DEF u, v
  <2>7. Stage(v)
    BY <1>0, <2>4, <2>6 DEF Stage, ScanOpen
  <2>8. CheckedOf(s.m, s.x, s.checked) => CheckedOf(v.m, v.x, v.checked)
    <3> SUFFICES ASSUME CheckedOf(s.m, s.x, s.checked) PROVE CheckedOf(s.m, y, c)
      BY <2>6
    <3>1. ~s.x.startup_verifying
      BY <1>6, NotScanning
    <3>2. ASSUME NEW q \in Pieces, q < p + 1 PROVE q \in c
      <4>1. CASE q = p
        BY <4>1
      <4>2. CASE q # p
        <5>1. q \in Nat /\ q < p
          BY <2>2, <3>2, <4>2 DEF Pieces
        <5>2. started
          BY <2>3a, <5>1
        <5>3. q \in s.checked
          BY <2>3, <5>1, <5>2 DEF CheckedOf
        <5> QED
          BY <5>3
      <4> QED
        BY <4>1, <4>2
    <3> QED
      BY <1>6, <2>4, <3>1, <3>2 DEF CheckedOf
  <2>9. Safe(s, v, w)
    BY <2>4, <2>6, <2>8 DEF Safe, Grown
  <2> QED
    BY <2>1, <2>6, <2>7, <2>9 DEF u
<1>7. ~started => p # NumPieces
  BY MgrAssumption
<1> QED
  <2>1. \/ ~AllDone(s.m)
        \/ AllDone(s.m) /\ (s.x.startup_verified_all \/ (started /\ p = NumPieces))
        \/ AllDone(s.m) /\ ~s.x.startup_verified_all /\ ~started /\ ~f
        \/ pass /\ ~VerifyValid(s.m, p, r)
        \/ pass /\ VerifyValid(s.m, p, r)
    BY <1>7
  <2> HIDE DEF pass, p, started
  <2> QED
    BY <1>2, <1>3, <1>4, <1>5, <1>6, <2>1
----------------------------------------------------------------------------
(* The invariant.                                                          *)

Saves == {{}} \cup {{bf} : bf \in SUBSET Pieces}

TorrentInv ==
  /\ MgrInv(pm, None) /\ t \in Fields /\ ScanOpen(t)
  /\ checked \in SUBSET Pieces /\ dirty \in SUBSET Pieces
  /\ last \in {-1, 0, 1} /\ saved \in Saves
  /\ faults \in 0 .. MaxFaults /\ sessions \in 0 .. MaxSessions

\* Without failures, what is DONE and what was saved is valid on the storage.
OnDisk(m, sv) ==
  GoodDone(m) /\ \A bf \in sv : \A p \in bf : Readable(p) => m.disk[p] = "good"

DiskInv == faults = 0 => OnDisk(pm, saved)

DoneInv == /\ CheckedOf(pm, t, checked)
           /\ last = 0 => AllDone(pm) /\ Pieces \subseteq checked

StepSafe == /\ TorrentInv'
            /\ DiskInv => DiskInv'
            /\ ~WebDuringScan /\ DoneInv => DoneInv'

LEMMA NowStage ==
  ASSUME TorrentInv
  PROVE  /\ Stage(Now) /\ Now.m = pm /\ Now.x = t /\ Now.checked = checked
         /\ Now.dirty = dirty
<1>1. pm \in MgrRec
  BY DEF TorrentInv, MgrInv
<1>2. Now \in Stages /\ Now.m = pm /\ Now.x = t /\ Now.checked = checked /\ Now.dirty = dirty
  BY <1>1 DEF Now, Stages, TorrentInv
<1> QED
  BY <1>2 DEF Stage, TorrentInv

\* A handler that takes the manager and the fields from Now to s.
LEMMA BecomeSafe ==
  ASSUME TorrentInv, NEW s, NEW w, Stage(s), Safe(Now, s, w), Become(s)
  PROVE  /\ MgrInv(pm', None) /\ t' \in Fields /\ ScanOpen(t')
         /\ checked' \in SUBSET Pieces /\ dirty' \in SUBSET Pieces
         /\ pm' = s.m
         /\ GoodDone(pm) => GoodDone(pm')
         /\ w = "stored" => Grown(pm, pm')
         /\ ~WebDuringScan /\ CheckedOf(pm, t, checked) => CheckedOf(pm', t', checked')
<1>1. pm' = s.m /\ t' = s.x /\ checked' = s.checked /\ dirty' = s.dirty
  BY DEF Become
<1>2. Now.m = pm /\ Now.x = t /\ Now.checked = checked
  BY NowStage
<1>3. MgrInv(s.m, None) /\ s.x \in Fields /\ ScanOpen(s.x)
      /\ s.checked \in SUBSET Pieces /\ s.dirty \in SUBSET Pieces
  BY DEF Stage, Stages
<1> QED
  BY <1>1, <1>2, <1>3 DEF Safe

\* Successful writes keep what was saved.
LEMMA SavedKept ==
  ASSUME TorrentInv, NEW m, NEW n, OnDisk(m, saved), GoodDone(n), Grown(m, n)
  PROVE  OnDisk(n, saved)
<1>1. \A bf \in saved : bf \subseteq Pieces
  BY DEF TorrentInv, Saves
<1> QED
  BY <1>1 DEF OnDisk, Grown

LEMMA TickSafe ==
  ASSUME TorrentInv, NEW k \in 1 .. NumPieces, NEW g \in Deliveries, NEW r \in BOOLEAN,
         NEW f \in BOOLEAN, NEW w \in WriteResults, Tick(k, g, r, w, f)
  PROVE  StepSafe
<1> DEFINE a == StartupScan(Now, k, r)
           b == Moved(a, Drain(a.m, All(w)), Drain(a.m, All(Ok)))
           c == IF b.m.num_done = NumPieces THEN b ELSE PeerBlock(b, g, w)
           s == CheckCompletion(c, r, f)
<1>1. /\ Become(s) /\ last' = s.ret /\ saved' = saved /\ sessions' = sessions
      /\ (g.p # None => ~t.startup_verifying)
  BY DEF Tick
<1>2. faults' \in 0 .. MaxFaults /\ (faults' = 0 => faults = 0 /\ w = "stored")
  BY TorrentAssumption DEF Tick, Faulty, TorrentInv, Ok
<1>3. Stage(Now) /\ Now.m = pm /\ Now.x = t /\ Now.checked = checked
  BY NowStage
<1>4. Stage(a) /\ Safe(Now, a, w)
  BY <1>3, ScanSafe
<1> HIDE DEF a
<1>5. Stage(b) /\ Safe(a, b, w) /\ b.x.startup_verifying = a.x.startup_verifying
  BY <1>4, DrainSafe
<1> HIDE DEF b
<1>6. Stage(c) /\ Safe(b, c, w)
  <2>1. g.p # None => ~b.x.startup_verifying
    BY <1>1, <1>3, <1>4, <1>5 DEF Safe
  <2>2. Stage(PeerBlock(b, g, w)) /\ Safe(b, PeerBlock(b, g, w), w)
    BY <1>5, <2>1, BlockSafe
  <2> QED
    BY <1>5, <2>2, SafeSelf
<1> HIDE DEF c
<1>7. /\ Stage(s) /\ Safe(c, s, w)
      /\ (~WebDuringScan /\ CheckedOf(c.m, c.x, c.checked) /\ s.ret = 0
            => AllDone(s.m) /\ Pieces \subseteq s.checked)
  BY <1>6, CompletionSafe
<1> HIDE DEF s
<1>8. Safe(Now, s, w) /\ Safe(Now, c, w)
  BY <1>4, <1>5, <1>6, <1>7, SafeTrans
<1>9. /\ MgrInv(pm', None) /\ t' \in Fields /\ ScanOpen(t')
      /\ checked' \in SUBSET Pieces /\ dirty' \in SUBSET Pieces
      /\ pm' = s.m
      /\ GoodDone(pm) => GoodDone(pm')
      /\ w = "stored" => Grown(pm, pm')
      /\ ~WebDuringScan /\ CheckedOf(pm, t, checked) => CheckedOf(pm', t', checked')
  BY <1>1, <1>7, <1>8, BecomeSafe
<1>10. TorrentInv'
  <2>1. s.ret \in {0, 1}
    BY <1>7 DEF Stage, Stages
  <2> QED
    BY <1>1, <1>2, <1>9, <2>1 DEF TorrentInv
<1>11. DiskInv => DiskInv'
  <2> SUFFICES ASSUME DiskInv, faults' = 0 PROVE OnDisk(pm', saved')
    BY DEF DiskInv
  <2>1. OnDisk(pm, saved)
    BY <1>2 DEF DiskInv
  <2>2. GoodDone(pm') /\ Grown(pm, pm')
    BY <1>2, <1>9, <2>1 DEF OnDisk
  <2> QED
    BY <1>1, <2>1, <2>2, SavedKept
<1>12. ~WebDuringScan /\ DoneInv => DoneInv'
  <2> SUFFICES ASSUME ~WebDuringScan, DoneInv PROVE DoneInv'
    OBVIOUS
  <2>1. CheckedOf(pm', t', checked')
    BY <1>9 DEF DoneInv
  <2>2. CheckedOf(c.m, c.x, c.checked)
    BY <1>3, <1>8 DEF Safe, DoneInv
  <2>3. checked' = s.checked
    BY <1>1 DEF Become
  <2> QED
    BY <1>1, <1>7, <1>9, <2>1, <2>2, <2>3 DEF DoneInv
<1> QED
  BY <1>10, <1>11, <1>12 DEF StepSafe

\* torrent_submit_web_piece
LEMMA WebSafe ==
  ASSUME TorrentInv, NEW p \in Pieces, NEW tag \in {"good", "bad"}, NEW w \in WriteResults,
         SubmitWeb(p, tag, w)
  PROVE  StepSafe
<1> DEFINE n == SubmitWebPiece(pm, p, tag, w, TRUE).m
           ideal == SubmitWebPiece(pm, p, tag, Ok, TRUE).m
           s == Moved(Now, n, ideal)
<1>1. /\ Become(s) /\ last' = last /\ saved' = saved /\ sessions' = sessions
      /\ (~WebDuringScan => ~t.startup_verifying)
  BY DEF SubmitWeb
<1>2. faults' \in 0 .. MaxFaults /\ (faults' = 0 => faults = 0 /\ w = "stored")
  BY TorrentAssumption DEF SubmitWeb, Faulty, TorrentInv, Ok
<1>3. Stage(Now) /\ Now.m = pm /\ Now.x = t /\ Now.checked = checked /\ MgrInv(pm, None)
  BY NowStage DEF TorrentInv
<1>4. MgrInv(n, None) /\ Fed(pm, n, w)
  BY <1>3, WebPieceKeeps
<1> HIDE DEF n, ideal
<1>5. Stage(s) /\ Safe(Now, s, w) /\ s.m = n
  BY <1>1, <1>3, <1>4, MovedSafe
<1>6. s.checked = checked \ Written(pm, n)
  <2>1. n \in MgrRec /\ Now \in Stages
    BY <1>3, <1>4 DEF MgrInv, Stage
  <2> QED
    BY <1>3, <2>1, MovedForm
<1> HIDE DEF s
<1>7. /\ MgrInv(pm', None) /\ t' \in Fields /\ ScanOpen(t')
      /\ checked' \in SUBSET Pieces /\ dirty' \in SUBSET Pieces
      /\ GoodDone(pm) => GoodDone(pm')
      /\ w = "stored" => Grown(pm, pm')
      /\ ~WebDuringScan /\ CheckedOf(pm, t, checked) => CheckedOf(pm', t', checked')
  BY <1>1, <1>5, BecomeSafe
<1>8. TorrentInv'
  BY <1>1, <1>2, <1>7 DEF TorrentInv
<1>9. DiskInv => DiskInv'
  <2> SUFFICES ASSUME DiskInv, faults' = 0 PROVE OnDisk(pm', saved')
    BY DEF DiskInv
  <2>1. OnDisk(pm, saved)
    BY <1>2 DEF DiskInv
  <2>2. GoodDone(pm') /\ Grown(pm, pm')
    BY <1>2, <1>7, <2>1 DEF OnDisk
  <2> QED
    BY <1>1, <2>1, <2>2, SavedKept
<1>10. ~WebDuringScan /\ DoneInv => DoneInv'
  <2> SUFFICES ASSUME ~WebDuringScan, DoneInv PROVE DoneInv'
    OBVIOUS
  <2>1. CheckedOf(pm', t', checked')
    BY <1>7 DEF DoneInv
  <2>2. ASSUME last = 0 PROVE AllDone(pm') /\ Pieces \subseteq checked'
    <3>1. AllDone(pm) /\ Pieces \subseteq checked
      BY <2>2 DEF DoneInv
    <3>2. AllDone(n) /\ Written(pm, n) = {}
      BY <1>3, <1>4, <3>1, DoneStays
    <3> QED
      BY <1>1, <1>5, <1>6, <3>1, <3>2 DEF Become
  <2> QED
    BY <1>1, <2>1, <2>2 DEF DoneInv
<1> QED
  BY <1>8, <1>9, <1>10 DEF StepSafe

\* torrent_copy_have_bitfield
LEMMA CopySafe ==
  ASSUME TorrentInv, NEW w \in WriteResults, NEW f \in BOOLEAN, CopyHaveBitfield(w, f)
  PROVE  /\ StepSafe /\ pm'.queue = <<>> /\ pm'.have_bf = DoneOf(pm')
         /\ saved' \in {saved, {pm'.have_bf}}
<1> DEFINE s == Flushed(w)
           d == IF f /\ ~t.startup_verifying THEN {} ELSE s.dirty
           v == [s EXCEPT !.dirty = d]
<1>1. /\ Become(v) /\ last' = last /\ sessions' = sessions
      /\ saved' \in {saved, {s.m.have_bf}}
  BY DEF CopyHaveBitfield
<1>2. faults' \in 0 .. MaxFaults /\ (faults' = 0 => faults = 0 /\ w = "stored")
  BY TorrentAssumption DEF CopyHaveBitfield, Faulty, TorrentInv, Ok
<1>3. Stage(Now) /\ Now.m = pm /\ Now.x = t /\ Now.checked = checked /\ MgrInv(pm, None)
  BY NowStage DEF TorrentInv
<1>4. /\ Stage(s) /\ Safe(Now, s, w) /\ s.m.queue = <<>>
      /\ (AllDone(pm) => AllDone(s.m) /\ checked \subseteq s.checked)
  <2>1. s = Moved(Now, HashFlush(Now.m, All(w)), HashFlush(pm, All(Ok)))
    BY <1>3 DEF Flushed
  <2> HIDE DEF s
  <2> QED
    BY <1>3, <2>1, FlushSafe
<1> HIDE DEF s
<1>5. d \in SUBSET Pieces /\ s \in Stages
  BY <1>4 DEF Stage, Stages
<1> HIDE DEF d
<1>6. v \in Stages /\ v.m = s.m /\ v.x = s.x /\ v.checked = s.checked
  BY <1>5 DEF Stages
<1> HIDE DEF v
<1>7. Stage(v) /\ Safe(Now, v, w)
  BY <1>4, <1>6 DEF Stage, Safe
<1>8. /\ MgrInv(pm', None) /\ t' \in Fields /\ ScanOpen(t')
      /\ checked' \in SUBSET Pieces /\ dirty' \in SUBSET Pieces /\ pm' = v.m
      /\ GoodDone(pm) => GoodDone(pm')
      /\ w = "stored" => Grown(pm, pm')
      /\ ~WebDuringScan /\ CheckedOf(pm, t, checked) => CheckedOf(pm', t', checked')
  BY <1>1, <1>7, BecomeSafe
<1>9. /\ pm' = s.m /\ pm'.queue = <<>> /\ pm'.have_bf = DoneOf(pm')
      /\ saved' \in {saved, {pm'.have_bf}}
  BY <1>1, <1>4, <1>6, <1>8 DEF MgrInv, CountOK
<1>10. TorrentInv'
  <2>1. saved' \in Saves
    BY <1>9 DEF TorrentInv, Saves, DoneOf
  <2> QED
    BY <1>1, <1>2, <1>8, <2>1 DEF TorrentInv
<1>11. DiskInv => DiskInv'
  <2> SUFFICES ASSUME DiskInv, faults' = 0 PROVE OnDisk(pm', saved')
    BY DEF DiskInv
  <2>1. OnDisk(pm, saved)
    BY <1>2 DEF DiskInv
  <2>2. GoodDone(pm') /\ Grown(pm, pm')
    BY <1>2, <1>8, <2>1 DEF OnDisk
  <2>3. OnDisk(pm', saved)
    BY <2>1, <2>2, SavedKept
  <2>4. OnDisk(pm', {pm'.have_bf})
    BY <1>9, <2>2 DEF OnDisk, GoodDone, DoneOf
  <2> QED
    BY <1>9, <2>3, <2>4
<1>12. ~WebDuringScan /\ DoneInv => DoneInv'
  <2> SUFFICES ASSUME ~WebDuringScan, DoneInv PROVE DoneInv'
    OBVIOUS
  <2>1. CheckedOf(pm', t', checked')
    BY <1>8 DEF DoneInv
  <2>2. checked' = s.checked
    BY <1>1, <1>6 DEF Become
  <2>3. last = 0 => AllDone(pm') /\ Pieces \subseteq checked'
    BY <1>4, <1>9, <2>2 DEF DoneInv
  <2> QED
    BY <1>1, <2>1, <2>3 DEF DoneInv
<1> QED
  BY <1>9, <1>10, <1>11, <1>12 DEF StepSafe

LEMMA NewFields ==
  ASSUME NEW scan \in BOOLEAN
  PROVE  /\ NewTorrent(scan) \in Fields /\ ScanOpen(NewTorrent(scan))
         /\ NewTorrent(scan).startup_verifying = scan
         /\ NewTorrent(scan).startup_verified_all = FALSE
         /\ NewTorrent(scan).final_verifying = FALSE
<1>1. 0 \in 0 .. NumPieces /\ 0 < NumPieces
  BY MgrAssumption
<1>2. /\ NewTorrent(scan) \in Fields
      /\ NewTorrent(scan).startup_verify_index = 0
      /\ NewTorrent(scan).startup_verifying = scan
      /\ NewTorrent(scan).startup_verified_all = FALSE
      /\ NewTorrent(scan).final_verifying = FALSE
  BY <1>1 DEF NewTorrent, Fields
<1> QED
  BY <1>1, <1>2 DEF ScanOpen

\* A manager with nothing DONE and nothing queued.
Blank(m) == MgrInv(m, None) /\ m.queue = <<>> /\ \A p \in Pieces : m.state[p] # "DONE"

LEMMA FreshBlank ==
  ASSUME NEW d \in [Pieces -> {"good", "other"}], NEW async \in BOOLEAN
  PROVE  Blank(Fresh(d, FALSE, async)) /\ Fresh(d, FALSE, async).disk = d
<1>1. MgrInv(Fresh(d, FALSE, async), None)
  BY FreshSound
<1> QED
  BY <1>1 DEF Blank, Fresh

LEMMA WithoutBlank ==
  ASSUME NEW m \in MgrRec, NEW lost
  PROVE  /\ Blank(Without(m, lost))
         /\ lost = {} => \A p \in Pieces : Without(m, lost).disk[p] = m.disk[p]
<1> DEFINE d == [p \in Pieces |-> IF p \in lost THEN "other" ELSE m.disk[p]]
<1>1. d \in [Pieces -> {"good", "other"}]
  BY DEF MgrRec
<1>2. lost = {} => \A p \in Pieces : d[p] = m.disk[p]
  OBVIOUS
<1>3. Without(m, lost) = Fresh(d, FALSE, TRUE)
  BY DEF Without
<1> HIDE DEF d
<1> QED
  BY <1>1, <1>2, <1>3, FreshBlank

\* A blank manager agrees with the fields of a new torrent.
LEMMA BlankChecked ==
  ASSUME NEW m, NEW scan \in BOOLEAN, NEW c, m.queue = <<>>,
         scan => \A p \in Pieces : m.state[p] # "DONE"
  PROVE  CheckedOf(m, NewTorrent(scan), c)
BY NewFields DEF CheckedOf, Scanned

\* The end of a session: teardown or crash.
LEMMA EndSafe ==
  ASSUME TorrentInv, Blank(pm'), t' = NewTorrent(TRUE), last' = 1, dirty' = {},
         checked' = {}, saved' = saved, faults' \in 0 .. MaxFaults,
         sessions' \in 0 .. MaxSessions,
         faults' = 0 => faults = 0 /\ Grown(pm, pm')
  PROVE  StepSafe
<1>1. NewTorrent(TRUE) \in Fields /\ ScanOpen(NewTorrent(TRUE))
  BY NewFields
<1>2. TorrentInv'
  BY <1>1 DEF TorrentInv, Blank
<1>3. DiskInv => DiskInv'
  <2> SUFFICES ASSUME DiskInv, faults' = 0 PROVE OnDisk(pm', saved')
    BY DEF DiskInv
  <2>1. GoodDone(pm')
    BY DEF Blank, GoodDone
  <2>2. OnDisk(pm, saved) /\ Grown(pm, pm')
    BY DEF DiskInv
  <2> QED
    BY <2>1, <2>2, SavedKept
<1>4. DoneInv'
  <2> DEFINE x == NewTorrent(TRUE)
  <2>1. CheckedOf(pm', x, checked') /\ t' = x
    BY BlankChecked DEF Blank
  <2> HIDE DEF x
  <2>2. CheckedOf(pm', t', checked')
    BY <2>1
  <2>3. last' # 0
    OBVIOUS
  <2> QED
    BY <2>2, <2>3 DEF DoneInv
<1> QED
  BY <1>2, <1>3, <1>4 DEF StepSafe

\* torrent_destroy
LEMMA DestroySafe ==
  ASSUME TorrentInv, NEW w \in WriteResults, NEW lost, Destroy(w, lost)
  PROVE  StepSafe
<1> DEFINE s == Flushed(w)
           l == lost \cap s.dirty
<1>1. /\ t' = NewTorrent(TRUE) /\ last' = 1 /\ dirty' = {} /\ checked' = {} /\ saved' = saved
      /\ pm' = Without(s.m, l)
  BY DEF Destroy
<1>2. /\ faults' \in 0 .. MaxFaults
      /\ faults' = 0 => faults = 0 /\ w = "stored" /\ lost = {}
  BY TorrentAssumption DEF Destroy, Faulty, TorrentInv, Ok
<1>3. sessions' \in 0 .. MaxSessions
  BY TorrentAssumption DEF Destroy, TorrentInv
<1>4. Stage(Now) /\ Now.m = pm /\ MgrInv(pm, None)
  BY NowStage DEF TorrentInv
<1>5. Stage(s) /\ Safe(Now, s, w)
  <2>1. s = Moved(Now, HashFlush(Now.m, All(w)), HashFlush(pm, All(Ok)))
    BY <1>4 DEF Flushed
  <2> HIDE DEF s
  <2> QED
    BY <1>4, <2>1, FlushSafe
<1>6. lost = {} => l = {}
  OBVIOUS
<1> HIDE DEF s, l
<1>7. s.m \in MgrRec
  BY <1>5 DEF Stage, MgrInv
<1>8. Blank(pm') /\ (l = {} => \A p \in Pieces : pm'.disk[p] = s.m.disk[p])
  BY <1>1, <1>7, WithoutBlank
<1>9. faults' = 0 => faults = 0 /\ Grown(pm, pm')
  BY <1>2, <1>4, <1>5, <1>6, <1>8 DEF Safe, Grown
<1> QED
  BY <1>1, <1>2, <1>3, <1>8, <1>9, EndSafe

LEMMA CrashSafe ==
  ASSUME TorrentInv, NEW lost, Crash(lost) PROVE StepSafe
<1>1. /\ t' = NewTorrent(TRUE) /\ last' = 1 /\ dirty' = {} /\ checked' = {} /\ saved' = saved
      /\ pm' = Without(pm, lost) /\ sessions' = sessions
  BY DEF Crash
<1>2. faults' \in 0 .. MaxFaults /\ faults' # 0
  BY TorrentAssumption DEF Crash, Faulty, TorrentInv
<1>3. Blank(pm')
  <2>1. pm \in MgrRec
    BY DEF TorrentInv, MgrInv
  <2> QED
    BY <1>1, <2>1, WithoutBlank
<1>4. sessions' \in 0 .. MaxSessions
  BY <1>1 DEF TorrentInv
<1> QED
  BY <1>1, <1>2, <1>3, <1>4, EndSafe

\* torrent_create_ex
LEMMA CreateSafe ==
  ASSUME TorrentInv, NEW resume \in BOOLEAN, NEW async \in BOOLEAN, Create(resume, async)
  PROVE  StepSafe
<1> DEFINE bf == IF resume THEN UNION saved ELSE {}
           m == Fresh(pm.disk, FALSE, async)
           scan == ~resume
<1>1. /\ t' = NewTorrent(scan) /\ last' = 1 /\ checked' = {} /\ saved' = saved
      /\ dirty' = dirty /\ faults' = faults /\ sessions' = sessions
      /\ pm' = PresetHave(m, bf)
  BY DEF Create
<1>2. pm.disk \in [Pieces -> {"good", "other"}]
  BY DEF TorrentInv, MgrInv, MgrRec
<1>3. Blank(m) /\ m.disk = pm.disk
  BY <1>2, FreshBlank
<1>4. scan \in BOOLEAN /\ (scan => bf = {}) /\ (\A p \in bf : \E b \in saved : p \in b)
  OBVIOUS
<1> HIDE DEF bf, m, scan
<1>5. MgrInv(pm', None) /\ Preset(m, pm', bf)
  BY <1>1, <1>3, PresetKeeps DEF Blank
<1>6. /\ pm'.disk = pm.disk /\ pm'.queue = <<>>
      /\ \A p \in Pieces : pm'.state[p] = "DONE" => p \in bf
  BY <1>3, <1>5 DEF Preset, Blank
<1>7. TorrentInv'
  BY <1>1, <1>4, <1>5, NewFields DEF TorrentInv
<1>8. DiskInv => DiskInv'
  <2> SUFFICES ASSUME DiskInv, faults' = 0 PROVE OnDisk(pm', saved')
    BY DEF DiskInv
  <2>1. OnDisk(pm, saved)
    BY <1>1 DEF DiskInv
  <2>2. GoodDone(pm')
    BY <1>4, <1>6, <2>1 DEF OnDisk, GoodDone
  <2> QED
    BY <1>1, <1>6, <2>1, <2>2 DEF OnDisk
<1>9. DoneInv'
  <2>1. CheckedOf(pm', NewTorrent(scan), checked')
    BY <1>4, <1>6, BlankChecked
  <2> QED
    BY <1>1, <2>1 DEF DoneInv
<1> QED
  BY <1>7, <1>8, <1>9 DEF StepSafe

\* The hash worker.
LEMMA WorkerSafe == ASSUME TorrentInv, Worker PROVE StepSafe
<1>1. /\ WorkerDone /\ t' = t /\ last' = last /\ dirty' = dirty /\ saved' = saved
      /\ checked' = checked /\ faults' = faults /\ sessions' = sessions /\ MgrInv(pm, None)
  BY DEF Worker, TorrentInv
<1>2. MgrInv(pm', None)
  BY <1>1, WorkerKeeps
<1>3. /\ pm'.state = pm.state /\ pm'.disk = pm.disk /\ pm'.num_done = pm.num_done
      /\ pm'.queue = pm.queue
  BY <1>1 DEF WorkerDone, MgrInv, MgrRec
<1>4. TorrentInv'
  BY <1>1, <1>2 DEF TorrentInv
<1>5. DiskInv => DiskInv'
  BY <1>1, <1>3 DEF DiskInv, OnDisk, GoodDone
<1>6. DoneInv => DoneInv'
  BY <1>1, <1>3 DEF DoneInv, CheckedOf, Scanned, AllDone
<1> QED
  BY <1>4, <1>5, <1>6 DEF StepSafe

\* The storage is damaged from outside.
LEMMA DamageSafe == ASSUME TorrentInv, NEW p \in Pieces, Damage(p) PROVE StepSafe
<1>1. /\ Corrupt(p) /\ t' = t /\ last' = last /\ dirty' = dirty /\ saved' = saved
      /\ checked' = checked /\ sessions' = sessions /\ MgrInv(pm, None)
  BY DEF Damage, TorrentInv
<1>2. faults' \in 0 .. MaxFaults /\ faults' # 0
  BY TorrentAssumption DEF Damage, Faulty, TorrentInv
<1>3. MgrInv(pm', None)
  BY <1>1, CorruptKeeps
<1>4. pm'.state = pm.state /\ pm'.num_done = pm.num_done /\ pm'.queue = pm.queue
  BY <1>1 DEF Corrupt, MgrInv, MgrRec
<1>5. TorrentInv'
  BY <1>1, <1>2, <1>3 DEF TorrentInv
<1>6. DiskInv'
  BY <1>2 DEF DiskInv
<1>7. DoneInv => DoneInv'
  BY <1>1, <1>4 DEF DoneInv, CheckedOf, Scanned, AllDone
<1> QED
  BY <1>5, <1>6, <1>7 DEF StepSafe

LEMMA IdleSafe ==
  ASSUME TorrentInv, UNCHANGED <<pm, t, dirty, saved, checked, faults, sessions>>,
         last' = last \/ last' = -1
  PROVE  StepSafe
<1>1. TorrentInv'
  BY DEF TorrentInv
<1>2. DiskInv => DiskInv'
  BY DEF DiskInv
<1>3. last' = 0 => last = 0
  OBVIOUS
<1>4. DoneInv => DoneInv'
  BY <1>3 DEF DoneInv
<1> QED
  BY <1>1, <1>2, <1>4 DEF StepSafe

LEMMA StartSafe == ASSUME TorrentInit PROVE TorrentInv /\ DiskInv /\ DoneInv
<1>1. PICK d \in Disks : pm = Fresh(d, FALSE, TRUE)
  BY DEF TorrentInit
<1>2. /\ t = NewTorrent(TRUE) /\ last = 1 /\ dirty = {} /\ saved = {} /\ checked = {}
      /\ faults = 0 /\ sessions = 0
  BY DEF TorrentInit
<1>3. Blank(pm)
  BY <1>1, FreshBlank DEF Disks
<1>4. TorrentInv
  <2>1. NewTorrent(TRUE) \in Fields /\ ScanOpen(NewTorrent(TRUE))
    BY NewFields
  <2>2. 0 \in 0 .. MaxFaults /\ 0 \in 0 .. MaxSessions
    BY TorrentAssumption
  <2> QED
    BY <1>2, <1>3, <2>1, <2>2 DEF TorrentInv, Blank, Saves
<1>5. DiskInv
  BY <1>2, <1>3 DEF DiskInv, OnDisk, GoodDone, Blank
<1>6. DoneInv
  <2> DEFINE x == NewTorrent(TRUE)
  <2>1. CheckedOf(pm, x, checked) /\ t = x
    BY <1>2, <1>3, BlankChecked DEF Blank
  <2> HIDE DEF x
  <2>2. CheckedOf(pm, t, checked)
    BY <2>1
  <2>3. last # 0
    BY <1>2
  <2> QED
    BY <2>2, <2>3 DEF DoneInv
<1> QED
  BY <1>4, <1>5, <1>6

LEMMA NextSafe == TorrentInv /\ [TorrentNext]_vars => StepSafe
<1> SUFFICES ASSUME TorrentInv, [TorrentNext]_vars PROVE StepSafe
  OBVIOUS
<1>1. ASSUME NEW k \in 1 .. NumPieces, NEW g \in Deliveries, NEW r \in BOOLEAN,
             NEW f \in BOOLEAN, NEW w \in WriteResults, Tick(k, g, r, w, f)
      PROVE  StepSafe
  BY <1>1, TickSafe
<1>2. CASE TickFailed
  BY <1>2, IdleSafe DEF TickFailed
<1>3. ASSUME NEW resume \in BOOLEAN, NEW async \in BOOLEAN, Create(resume, async)
      PROVE  StepSafe
  BY <1>3, CreateSafe
<1>4. ASSUME NEW p \in Pieces, NEW tag \in {"good", "bad"}, NEW w \in WriteResults,
             SubmitWeb(p, tag, w)
      PROVE  StepSafe
  BY <1>4, WebSafe
<1>5. ASSUME NEW w \in WriteResults, NEW f \in BOOLEAN, CopyHaveBitfield(w, f)
      PROVE  StepSafe
  BY <1>5, CopySafe
<1>6. ASSUME NEW w \in WriteResults, NEW lost, Destroy(w, lost) PROVE StepSafe
  BY <1>6, DestroySafe
<1>7. ASSUME NEW lost, Crash(lost) PROVE StepSafe
  BY <1>7, CrashSafe
<1>8. CASE Worker
  BY <1>8, WorkerSafe
<1>9. ASSUME NEW p \in Pieces, Damage(p) PROVE StepSafe
  BY <1>9, DamageSafe
<1>10. CASE UNCHANGED vars
  BY <1>10, IdleSafe DEF vars
<1> QED
  BY <1>1, <1>2, <1>3, <1>4, <1>5, <1>6, <1>7, <1>8, <1>9, <1>10, Zenon DEF TorrentNext
----------------------------------------------------------------------------
(* Theorems.                                                               *)

\* Types, the slots, counters and queue of the manager and the verification
\* indices are right in every state of every session.
THEOREM TorrentSound == TorrentSpec => []TorrentInv
<1>1. TorrentInv /\ [TorrentNext]_vars => TorrentInv'
  BY NextSafe DEF StepSafe
<1>2. TorrentInit => TorrentInv
  BY StartSafe
<1> QED
  BY <1>1, <1>2, PTL DEF TorrentSpec

\* The verification fields stay in range, and a scan that goes on has not
\* found everything.
THEOREM TorrentTypes == TorrentSpec => []TorrentTypeOK
<1>1. TorrentInv => TorrentTypeOK
  BY DEF TorrentInv, TorrentTypeOK, Fields, ScanOpen, Saves
<1> QED
  BY <1>1, TorrentSound, PTL

\* torrent_tick reports completion only after reading back and hashing every
\* readable piece, if no piece is submitted during the startup scan.
THEOREM CompletionIsChecked == ~WebDuringScan => (TorrentSpec => []CompleteMeansChecked)
<1> SUFFICES ASSUME ~WebDuringScan PROVE TorrentSpec => []CompleteMeansChecked
  OBVIOUS
<1>1. TorrentInv /\ DoneInv /\ [TorrentNext]_vars => DoneInv'
  BY NextSafe DEF StepSafe
<1>2. TorrentInit => DoneInv
  BY StartSafe
<1>3. DoneInv => CompleteMeansChecked
  BY DEF DoneInv, CompleteMeansChecked
<1> QED
  BY <1>1, <1>2, <1>3, TorrentSound, PTL DEF TorrentSpec

\* Without failures the saved bitfield is never ahead of the storage.
THEOREM SavedNeverAhead == TorrentSpec => []SavedIsOnDisk
<1>1. TorrentInv /\ DiskInv /\ [TorrentNext]_vars => DiskInv'
  BY NextSafe DEF StepSafe
<1>2. TorrentInit => DiskInv
  BY StartSafe
<1>3. DiskInv => SavedIsOnDisk
  BY DEF DiskInv, OnDisk, SavedIsOnDisk
<1> QED
  BY <1>1, <1>2, <1>3, TorrentSound, PTL DEF TorrentSpec

\* A snapshot of the bitfield waits for every hash under way and holds
\* exactly the DONE pieces.
THEOREM SnapshotsAreComplete == TorrentSpec => SnapshotIsComplete
<1> DEFINE Good == saved' # saved => /\ pm'.queue = <<>>
                                     /\ saved' = {{p \in Pieces : pm'.state[p] = "DONE"}}
<1>1. TorrentInv /\ [TorrentNext]_vars => [Good]_vars
  <2> SUFFICES ASSUME TorrentInv, TorrentNext PROVE Good
    OBVIOUS
  <2>1. ASSUME NEW w \in WriteResults, NEW f \in BOOLEAN, CopyHaveBitfield(w, f) PROVE Good
    <3>1. /\ pm'.queue = <<>> /\ pm'.have_bf = DoneOf(pm')
          /\ saved' \in {saved, {pm'.have_bf}}
      BY <2>1, CopySafe
    <3> QED
      BY <3>1 DEF DoneOf
  <2>2. ASSUME saved' = saved PROVE Good
    BY <2>2
  <2>3. \/ saved' = saved
        \/ \E w \in WriteResults, f \in BOOLEAN : CopyHaveBitfield(w, f)
    BY DEF TorrentNext, Tick, TickFailed, Create, SubmitWeb, Destroy, Crash, Worker, Damage
  <2> HIDE DEF Good
  <2> QED
    BY <2>1, <2>2, <2>3
<1> QED
  BY <1>1, TorrentSound, PTL DEF TorrentSpec, SnapshotIsComplete
=============================================================================
