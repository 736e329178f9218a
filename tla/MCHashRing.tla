----------------------------- MODULE MCHashRing -----------------------------
(* HashRing on a small instance: more pieces than ring entries, so that     *)
(* the backpressure path runs, and fewer pool places than buffers, so that  *)
(* buffers are both recycled and freed.                                     *)
EXTENDS HashRing, TLC

\* Buffer addresses are interchangeable (safety run only).
BufSymmetry == Permutations(Bufs)
=============================================================================
