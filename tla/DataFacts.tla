------------------------------ MODULE DataFacts ------------------------------
(***************************************************************************)
(* Facts about numbers, sequences and loops that the proofs of several     *)
(* components use.  The library's induction theorems quantify over an      *)
(* operator, which the provers cannot instantiate; well-foundedness of the *)
(* natural numbers, which the library also proves, is a statement about    *)
(* sets, and the induction used here is derived from it.                   *)
(***************************************************************************)
EXTENDS Integers, Sequences, FiniteSetsExt, SequencesExt, WellFoundedInduction, TLAPS

\* A set of natural numbers has a least element.
LEMMA LeastNumber ==
  ASSUME NEW T \in SUBSET Nat, T # {}
  PROVE  \E x \in T : \A y \in T : x <= y
<1>1. IsWellFoundedOn(OpToRel(<, Nat), Nat)
  BY NatLessThanWellFounded
<1>2. PICK x \in T : \A y \in T : ~(<<y, x>> \in OpToRel(<, Nat))
  BY <1>1, WFMin
<1>3. \A y \in T : <<y, x>> \in OpToRel(<, Nat) <=> y < x
  BY DEF OpToRel
<1>4. \A y \in T : ~(y < x)
  BY <1>2, <1>3, Zenon
<1> QED
  BY <1>4

\* Induction over the natural numbers: a set that holds 0 and every successor
\* of its elements holds them all.
LEMMA InductionOnNat ==
  ASSUME NEW T \in SUBSET Nat, 0 \in T, \A n \in T : n + 1 \in T
  PROVE  T = Nat
<1> SUFFICES ASSUME Nat \ T # {} PROVE FALSE
  OBVIOUS
<1>1. PICK x \in Nat \ T : \A y \in Nat \ T : x <= y
  BY LeastNumber
<1>2. x # 0 /\ x - 1 \in Nat
  BY <1>1
<1>3. x - 1 \in T
  BY <1>1, <1>2
<1> QED
  BY <1>1, <1>2, <1>3

\* Min of the library is a least element.
LEMMA MinIsLeast ==
  ASSUME NEW T \in SUBSET Nat, T # {}
  PROVE  Min(T) \in T /\ \A y \in T : Min(T) <= y
BY LeastNumber DEF Min

\* Max of the library is a greatest element, when there is an upper bound.
LEMMA MaxIsGreatest ==
  ASSUME NEW T \in SUBSET Nat, T # {}, NEW n \in Nat, \A y \in T : y <= n
  PROVE  Max(T) \in T /\ \A y \in T : y <= Max(T)
<1> DEFINE U == {n - y : y \in T}
<1>1. U \in SUBSET Nat /\ U # {}
  <2>1. PICK y \in T : TRUE
    OBVIOUS
  <2>2. n - y \in U
    BY <2>1
  <2> QED
    BY <2>2
<1>2. PICK u \in U : \A v \in U : u <= v
  BY <1>1, LeastNumber
<1>3. PICK x \in T : u = n - x
  BY <1>2
<1>4. \A y \in T : y <= x
  BY <1>2, <1>3
<1> QED
  BY <1>4 DEF Max

(* Indices of a ring of N cells, counted from its head h.                  *)

\* A sum of two indices wraps at most once.
LEMMA CellWrap ==
  ASSUME NEW N \in Nat \ {0}, NEW h \in 0 .. N - 1, NEW k \in 0 .. N - 1
  PROVE  /\ (h + k) % N \in 0 .. N - 1
         /\ (h + k) % N = IF h + k < N THEN h + k ELSE h + k - N
OBVIOUS

\* The head is offset 0.
LEMMA CellZero ==
  ASSUME NEW N \in Nat \ {0}, NEW h \in 0 .. N - 1
  PROVE  (h + 0) % N = h
OBVIOUS

\* Two different offsets below the ring size name different entries.
LEMMA CellInjective ==
  ASSUME NEW N \in Nat \ {0}, NEW h \in 0 .. N - 1,
         NEW j \in 0 .. N - 1, NEW k \in 0 .. N - 1, (h + j) % N = (h + k) % N
  PROVE  j = k
<1>1. (h + j) % N = IF h + j < N THEN h + j ELSE h + j - N
  BY CellWrap
<1>2. (h + k) % N = IF h + k < N THEN h + k ELSE h + k - N
  BY CellWrap
<1> QED
  BY <1>1, <1>2

\* After a pop, offset k from the new head is offset k + 1 from the old one.
LEMMA CellAfterPop ==
  ASSUME NEW N \in Nat \ {0}, NEW h \in 0 .. N - 1, NEW k \in 0 .. N - 1
  PROVE  /\ (h + 1) % N \in 0 .. N - 1
         /\ (((h + 1) % N) + k) % N = (h + (k + 1)) % N
<1>1. (h + 1) % N = IF h + 1 < N THEN h + 1 ELSE 0
  OBVIOUS
<1>2. CASE h + 1 < N
  BY <1>1, <1>2
<1>3. CASE ~(h + 1 < N)
  <2>1. h + (k + 1) = k + N
    BY <1>3
  <2>2. (k + N) % N = k
    OBVIOUS
  <2>3. k % N = k
    OBVIOUS
  <2> QED
    BY <1>1, <1>3, <2>1, <2>2, <2>3
<1> QED
  BY <1>2, <1>3

\* The cell behind offset k is offset k + 1.
LEMMA CellAdd ==
  ASSUME NEW N \in Nat \ {0}, NEW h \in 0 .. N - 1, NEW k \in 0 .. N - 1
  PROVE  (((h + k) % N) + 1) % N = (h + (k + 1)) % N
<1> DEFINE c == (h + k) % N
<1>1. c \in 0 .. N - 1 /\ c = IF h + k < N THEN h + k ELSE h + k - N
  BY CellWrap
<1> HIDE DEF c
<1>2. CASE h + k < N
  BY <1>1, <1>2
<1>3. CASE ~(h + k < N)
  <2>1. h + (k + 1) = (c + 1) + N
    BY <1>1, <1>3
  <2>2. ((c + 1) + N) % N = (c + 1) % N
    BY <1>1
  <2> QED
    BY <2>1, <2>2
<1> QED
  BY <1>2, <1>3 DEF c

(* Sequences.                                                              *)

\* Concatenation.
LEMMA ConcatForm ==
  ASSUME NEW S, NEW a \in Seq(S), NEW b \in Seq(S)
  PROVE  /\ a \o b \in Seq(S) /\ Len(a \o b) = Len(a) + Len(b)
         /\ \A k \in 1 .. Len(a) + Len(b) :
              (a \o b)[k] = IF k <= Len(a) THEN a[k] ELSE b[k - Len(a)]
OBVIOUS

\* The first k elements and the others.
LEMMA CutForm ==
  ASSUME NEW S, NEW s \in Seq(S), NEW k \in 1 .. Len(s)
  PROVE  /\ SubSeq(s, 1, k) \in Seq(S) /\ Len(SubSeq(s, 1, k)) = k
         /\ \A i \in 1 .. k : SubSeq(s, 1, k)[i] = s[i]
         /\ SubSeq(s, k + 1, Len(s)) \in Seq(S) /\ Len(SubSeq(s, k + 1, Len(s))) = Len(s) - k
         /\ \A i \in 1 .. Len(s) - k : SubSeq(s, k + 1, Len(s))[i] = s[i + k]
OBVIOUS

\* A sequence without one of its elements.
LEMMA RemoveAtForm ==
  ASSUME NEW S, NEW s \in Seq(S), NEW i \in 1 .. Len(s)
  PROVE  /\ RemoveAt(s, i) \in Seq(S)
         /\ Len(RemoveAt(s, i)) = Len(s) - 1
         /\ \A k \in 1 .. Len(s) - 1 :
              RemoveAt(s, i)[k] = IF k < i THEN s[k] ELSE s[k + 1]
<1> DEFINE n == Len(s)
           a == SubSeq(s, 1, i - 1)
           b == SubSeq(s, i + 1, n)
<1>0. n \in Nat
  OBVIOUS
<1>1. a \in Seq(S) /\ Len(a) = i - 1 /\ \A k \in 1 .. i - 1 : a[k] = s[k]
  OBVIOUS
<1>2. b \in Seq(S) /\ Len(b) = n - i /\ \A k \in 1 .. n - i : b[k] = s[k + i]
  OBVIOUS
<1>3. RemoveAt(s, i) = a \o b
  BY DEF RemoveAt
<1> HIDE DEF a, b, n
<1>4. /\ a \o b \in Seq(S) /\ Len(a \o b) = n - 1
      /\ \A k \in 1 .. n - 1 : (a \o b)[k] = IF k < i THEN a[k] ELSE b[k - (i - 1)]
  <2>0. /\ a \o b \in Seq(S) /\ Len(a \o b) = Len(a) + Len(b)
        /\ \A k \in 1 .. Len(a) + Len(b) :
             (a \o b)[k] = IF k <= Len(a) THEN a[k] ELSE b[k - Len(a)]
    BY <1>1, <1>2, ConcatForm
  <2>1. /\ a \o b \in Seq(S) /\ Len(a \o b) = (i - 1) + (n - i)
        /\ \A k \in 1 .. (i - 1) + (n - i) :
             (a \o b)[k] = IF k <= i - 1 THEN a[k] ELSE b[k - (i - 1)]
    BY <1>1, <1>2, <2>0
  <2>2. (i - 1) + (n - i) = n - 1
    BY <1>0
  <2> QED
    BY <1>0, <2>1, <2>2
<1>5. ASSUME NEW k \in 1 .. n - 1
      PROVE  (a \o b)[k] = IF k < i THEN s[k] ELSE s[k + 1]
  BY <1>0, <1>1, <1>2, <1>4
<1> QED
  BY <1>3, <1>4, <1>5 DEF n

\* Removing a member of a sequence without repetitions removes it altogether.
LEMMA RemoveFirstForm ==
  ASSUME NEW S, NEW s \in Seq(S), NEW e \in ToSet(s), IsInjective(s)
  PROVE  /\ RemoveFirst(s, e) \in Seq(S)
         /\ Len(RemoveFirst(s, e)) = Len(s) - 1
         /\ ToSet(RemoveFirst(s, e)) = ToSet(s) \ {e}
         /\ IsInjective(RemoveFirst(s, e))
<1> DEFINE I == {i \in 1 .. Len(s) : s[i] = e}
           i == Min(I)
           r == RemoveAt(s, i)
<1>1. I \in SUBSET Nat /\ I # {}
  BY DEF ToSet
<1>2. i \in 1 .. Len(s) /\ s[i] = e
  BY <1>1, MinIsLeast
<1>3. RemoveFirst(s, e) = r
  BY <1>1 DEF RemoveFirst, SelectInSeq
<1> HIDE DEF I, i
<1>4. /\ r \in Seq(S) /\ Len(r) = Len(s) - 1
      /\ \A k \in 1 .. Len(s) - 1 : r[k] = IF k < i THEN s[k] ELSE s[k + 1]
  BY <1>2, RemoveAtForm
<1> HIDE DEF r
<1>5. DOMAIN s = 1 .. Len(s) /\ DOMAIN r = 1 .. Len(s) - 1 /\ Len(s) \in Nat
  BY <1>4
<1>6. ASSUME NEW k \in DOMAIN r PROVE r[k] \in ToSet(s) /\ r[k] # e
  <2>1. PICK j \in DOMAIN s : j # i /\ r[k] = s[j]
    <3>1. CASE k < i
      BY <1>2, <1>4, <1>5, <3>1
    <3>2. CASE ~(k < i)
      <4>1. k + 1 \in DOMAIN s /\ k + 1 # i /\ r[k] = s[k + 1]
        BY <1>2, <1>4, <1>5, <3>2
      <4> QED
        BY <4>1
    <3> QED
      BY <3>1, <3>2
  <2>2. s[j] # s[i]
    BY <1>2, <1>5, <2>1 DEF IsInjective
  <2> QED
    BY <1>2, <2>1, <2>2 DEF ToSet
<1>7. ASSUME NEW x \in ToSet(s), x # e PROVE x \in ToSet(r)
  <2>1. PICK j \in 1 .. Len(s) : s[j] = x
    BY <1>5 DEF ToSet
  <2>2. CASE j < i
    <3>1. j \in DOMAIN r /\ r[j] = x
      BY <1>2, <1>4, <1>5, <2>1, <2>2
    <3> QED
      BY <3>1 DEF ToSet
  <2>3. CASE j > i
    <3>1. j - 1 \in DOMAIN r /\ r[j - 1] = x
      BY <1>2, <1>4, <1>5, <2>1, <2>3
    <3> QED
      BY <3>1 DEF ToSet
  <2> QED
    BY <1>2, <1>7, <2>1, <2>2, <2>3
<1>8. ToSet(r) = ToSet(s) \ {e}
  BY <1>6, <1>7 DEF ToSet
<1>9. IsInjective(r)
  <2> SUFFICES ASSUME NEW j \in DOMAIN r, NEW k \in DOMAIN r, r[j] = r[k] PROVE j = k
    BY DEF IsInjective
  <2> DEFINE at(m) == IF m < i THEN m ELSE m + 1
  <2>1. at(j) \in DOMAIN s /\ at(k) \in DOMAIN s /\ r[j] = s[at(j)] /\ r[k] = s[at(k)]
    BY <1>2, <1>4, <1>5
  <2>2. at(j) = at(k)
    BY <2>1 DEF IsInjective
  <2> QED
    BY <1>2, <1>5, <2>2
<1> QED
  BY <1>3, <1>4, <1>8, <1>9

\* Putting a new element in front.
LEMMA PrependForm ==
  ASSUME NEW S, NEW s \in Seq(S), NEW e \in S, e \notin ToSet(s), IsInjective(s)
  PROVE  /\ <<e>> \o s \in Seq(S)
         /\ Len(<<e>> \o s) = Len(s) + 1
         /\ ToSet(<<e>> \o s) = ToSet(s) \cup {e}
         /\ IsInjective(<<e>> \o s)
<1> DEFINE r == <<e>> \o s
<1>1. /\ r \in Seq(S) /\ Len(r) = Len(s) + 1
      /\ \A k \in 1 .. Len(s) + 1 : r[k] = IF k = 1 THEN e ELSE s[k - 1]
  OBVIOUS
<1>2. DOMAIN s = 1 .. Len(s) /\ DOMAIN r = 1 .. Len(s) + 1 /\ Len(s) \in Nat
  BY <1>1
<1> HIDE DEF r
<1>3. \A k \in DOMAIN s : k + 1 \in DOMAIN r /\ r[k + 1] = s[k]
  BY <1>1, <1>2
<1>4. 1 \in DOMAIN r /\ r[1] = e
  BY <1>1, <1>2
<1>5. ToSet(r) = ToSet(s) \cup {e}
  <2>1. \A x \in ToSet(s) : x \in ToSet(r)
    BY <1>3 DEF ToSet
  <2>2. e \in ToSet(r)
    BY <1>4 DEF ToSet
  <2>3. ASSUME NEW k \in DOMAIN r PROVE r[k] = e \/ r[k] \in ToSet(s)
    BY <1>1, <1>2 DEF ToSet
  <2>4. \A x \in ToSet(r) : x = e \/ x \in ToSet(s)
    BY <2>3 DEF ToSet
  <2> QED
    BY <2>1, <2>2, <2>4
<1>6. IsInjective(r)
  <2>1. \A k \in DOMAIN r : k # 1 => k - 1 \in DOMAIN s /\ r[k] = s[k - 1]
    BY <1>1, <1>2
  <2>2. \A k \in DOMAIN s : s[k] # e
    BY DEF ToSet
  <2> QED
    BY <1>2, <1>4, <2>1, <2>2 DEF IsInjective
<1> QED
  BY <1>1, <1>5, <1>6 DEF r

(* Loops.  A loop over the positions L .. N is a recursive function that    *)
(* gives the value before each position; X[n] is the set of values the      *)
(* loop's invariant admits there.                                           *)

\* g is a loop from x0 with turns G, and X admits its values.
LoopOf(L, N, X, x0, G, g) ==
  /\ g = [n \in L .. N |-> g[n]]
  /\ g[L] = x0
  /\ \A n \in L + 1 .. N : g[n] = G[n][g[n - 1]]
  /\ \A n \in L .. N : g[n] \in X[n]

\* Each turn takes an admitted value to an admitted one: the loop is defined.
LEMMA LoopExists ==
  ASSUME NEW L \in Nat, NEW N \in Nat, L <= N, NEW X, NEW x0 \in X[L], NEW G,
         \A n \in L + 1 .. N : G[n] \in [X[n - 1] -> X[n]]
  PROVE  \E g : LoopOf(L, N, X, x0, G, g)
<1> DEFINE Good(k, g) == LoopOf(L, k, X, x0, G, g)
           T == {k \in Nat : L + k <= N => \E g : Good(L + k, g)}
<1>1. 0 \in T
  <2> DEFINE g == [n \in L .. L + 0 |-> x0]
  <2>1. g = [n \in L .. L + 0 |-> g[n]] /\ g[L] = x0 /\ \A n \in L .. L + 0 : g[n] = x0 /\ n = L
    OBVIOUS
  <2> HIDE DEF g
  <2>2. Good(L + 0, g)
    BY <2>1 DEF LoopOf
  <2> HIDE DEF Good
  <2> QED
    BY <2>2
<1>2. ASSUME NEW k \in T PROVE k + 1 \in T
  <2> SUFFICES ASSUME L + (k + 1) <= N PROVE \E g : Good(L + (k + 1), g)
    OBVIOUS
  <2> DEFINE e == L + k
             d == L + (k + 1)
  <2>0. /\ k \in Nat /\ e \in Nat /\ d = e + 1 /\ d - 1 = e /\ e <= N /\ d \in L + 1 .. N
        /\ e \in L .. e
    OBVIOUS
  <2>1. PICK f : Good(e, f)
    BY <2>0
  <2> HIDE DEF e, d
  <2> DEFINE y == G[d][f[e]]
             g == [n \in L .. d |-> IF n = d THEN y ELSE f[n]]
  <2>1a. /\ f[L] = x0 /\ (\A n \in L + 1 .. e : f[n] = G[n][f[n - 1]])
         /\ \A n \in L .. e : f[n] \in X[n]
    BY <2>1 DEF LoopOf
  <2>2. f[e] \in X[e]
    BY <2>0, <2>1a
  <2>3. y \in X[d]
    BY <2>0, <2>2
  <2> HIDE DEF y
  <2>4. g = [n \in L .. d |-> g[n]] /\ g[d] = y /\ \A n \in L .. e : g[n] = f[n]
    BY <2>0
  <2> HIDE DEF g
  <2>4a. g[d] = y /\ \A n \in L .. e : g[n] = f[n]
    BY <2>4
  <2>5. \A n \in L .. d : g[n] \in X[n]
    BY <2>0, <2>1a, <2>3, <2>4a
  <2>6. ASSUME NEW n \in L + 1 .. d PROVE g[n] = G[n][g[n - 1]]
    <3>1. n - 1 \in L .. e
      BY <2>0
    <3>2. CASE n = d
      BY <2>0, <2>4a, <3>1, <3>2 DEF y
    <3>3. CASE n # d
      <4>1. n \in L .. e /\ n \in L + 1 .. e
        BY <2>0, <3>3
      <4> QED
        BY <2>1a, <2>4a, <3>1, <4>1
    <3> QED
      BY <3>2, <3>3
  <2>7. g[L] = x0
    BY <2>0, <2>1a, <2>4a
  <2>8. Good(d, g)
    BY <2>4, <2>5, <2>6, <2>7 DEF LoopOf
  <2> HIDE DEF Good
  <2> QED
    BY <2>8 DEF d
<1>3. T = Nat
  <2> HIDE DEF T
  <2> QED
    BY <1>1, <1>2, InductionOnNat DEF T
<1>4. N - L \in T
  <2> HIDE DEF T
  <2> QED
    BY <1>3
<1>5. L + (N - L) = N
  OBVIOUS
<1> QED
  BY <1>4, <1>5

\* The same for a loop over 0 .. N, in the form of its recursive definition.
LoopRun(N, X, x0, G, g) ==
  /\ g = [n \in 0 .. N |-> IF n = 0 THEN x0 ELSE G[n][g[n - 1]]]
  /\ \A n \in 0 .. N : g[n] \in X[n]

LEMMA LoopRuns ==
  ASSUME NEW N \in Nat, NEW X, NEW x0 \in X[0], NEW G,
         \A n \in 1 .. N : G[n] \in [X[n - 1] -> X[n]]
  PROVE  \E g : LoopRun(N, X, x0, G, g)
<1>1. PICK g : LoopOf(0, N, X, x0, G, g)
  <2>1. 0 \in Nat /\ 0 <= N /\ \A n \in 0 + 1 .. N : G[n] \in [X[n - 1] -> X[n]]
    OBVIOUS
  <2> QED
    BY <2>1, LoopExists
<1>2. /\ g = [n \in 0 .. N |-> g[n]] /\ g[0] = x0
      /\ (\A n \in 0 + 1 .. N : g[n] = G[n][g[n - 1]]) /\ \A n \in 0 .. N : g[n] \in X[n]
  BY <1>1 DEF LoopOf
<1>3. ASSUME NEW n \in 0 .. N PROVE g[n] = IF n = 0 THEN x0 ELSE G[n][g[n - 1]]
  <2>1. n # 0 => n \in 0 + 1 .. N
    OBVIOUS
  <2>2. n # 0 => g[n] = G[n][g[n - 1]]
    BY <1>2, <2>1
  <2> QED
    BY <1>2, <2>2
<1>4. g = [n \in 0 .. N |-> IF n = 0 THEN x0 ELSE G[n][g[n - 1]]]
  BY <1>2, <1>3
<1> QED
  BY <1>2, <1>4 DEF LoopRun

\* Every value of a loop is admitted.
LEMMA LoopAdmits ==
  ASSUME NEW L \in Nat, NEW N \in Nat, NEW X, NEW f, f[L] \in X[L],
         \A n \in L + 1 .. N : f[n - 1] \in X[n - 1] => f[n] \in X[n]
  PROVE  \A n \in L .. N : f[n] \in X[n]
<1> DEFINE T == {k \in Nat : L + k <= N => f[L + k] \in X[L + k]}
<1>1. 0 \in T
  OBVIOUS
<1>2. ASSUME NEW k \in T PROVE k + 1 \in T
  <2>1. k \in Nat /\ L + (k + 1) = (L + k) + 1 /\ (L + (k + 1)) - 1 = L + k
    OBVIOUS
  <2> SUFFICES ASSUME L + (k + 1) <= N PROVE f[L + (k + 1)] \in X[L + (k + 1)]
    OBVIOUS
  <2>2. L + (k + 1) \in L + 1 .. N /\ f[L + k] \in X[L + k]
    BY <2>1
  <2> QED
    BY <2>1, <2>2
<1>3. T = Nat
  <2> HIDE DEF T
  <2> QED
    BY <1>1, <1>2, InductionOnNat DEF T
<1> SUFFICES ASSUME NEW n \in L .. N PROVE f[n] \in X[n]
  OBVIOUS
<1>4. n - L \in T /\ L + (n - L) = n
  <2> HIDE DEF T
  <2> QED
    BY <1>3
<1> QED
  BY <1>4

\* The same for a loop over 0 .. N.
LEMMA LoopKeeps ==
  ASSUME NEW N \in Nat, NEW X, NEW f, f[0] \in X[0],
         \A n \in 1 .. N : f[n - 1] \in X[n - 1] => f[n] \in X[n]
  PROVE  f[N] \in X[N]
<1>1. 0 \in Nat /\ N \in 0 .. N
      /\ \A n \in 0 + 1 .. N : f[n - 1] \in X[n - 1] => f[n] \in X[n]
  OBVIOUS
<1>2. \A n \in 0 .. N : f[n] \in X[n]
  BY <1>1, LoopAdmits
<1> QED
  BY <1>1, <1>2
=============================================================================
