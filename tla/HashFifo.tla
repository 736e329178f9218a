------------------------------ MODULE HashFifo ------------------------------
(***************************************************************************)
(* What the asynchronous hash pipeline of core/piece.c promises            *)
(* (core/piece.h, "Async hash pipeline"): completed pieces form one FIFO   *)
(* queue of at most QMax detached buffers; verdicts are applied one at a   *)
(* time in the order in which the pieces were completed; storage is only   *)
(* touched by an application, so writes happen in exactly the order of     *)
(* inline hashing; and without the pipeline a piece is hashed and written  *)
(* inline, with nothing queued that it could overtake.  There are no       *)
(* threads, locks, rings or buffers at this level.                         *)
(***************************************************************************)
EXTENDS Naturals, Sequences

CONSTANTS NumPieces,  \* pieces of the torrent
          QMax,       \* PIECE_HASH_QUEUE_MAX
          Junk        \* bytes that are not the content of any piece

Pieces == 0 .. NumPieces - 1

VARIABLES pending,  \* completed pieces, oldest first: [idx, data]
          slot,     \* what the torrent thread believes of each piece
          disk      \* the bytes stored in each piece's range

vars == <<pending, slot, disk>>

Init == /\ pending = <<>>
        /\ slot = [p \in Pieces |-> "open"]
        /\ disk \in {d \in [Pieces -> Pieces \cup {Junk}] :
                        \A p \in Pieces : d[p] \in {p, Junk}}

\* A piece's last block arrived; d = p when its bytes have the expected hash.
Complete(p, d) == /\ slot[p] = "open"
                  /\ Len(pending) < QMax
                  /\ pending' = Append(pending, [idx |-> p, data |-> d])
                  /\ slot' = [slot EXCEPT ![p] = "HASHING"]
                  /\ UNCHANGED disk

\* Verified data is written, or the write fails (perhaps half way).
WriteOutcome(p) ==
    \/ /\ disk' = [disk EXCEPT ![p] = p]
       /\ slot' = [slot EXCEPT ![p] = "DONE"]
    \/ /\ disk' \in {disk, [disk EXCEPT ![p] = Junk]}
       /\ slot' = [slot EXCEPT ![p] = "open"]

\* The oldest completed piece gets its verdict.  A piece that a startup scan
\* decided meanwhile is dropped.
Apply == /\ pending # <<>>
         /\ pending' = Tail(pending)
         /\ LET p == Head(pending).idx IN
              \/ /\ slot[p] # "HASHING"
                 /\ UNCHANGED <<slot, disk>>
              \/ /\ slot[p] = "HASHING"
                 /\ Head(pending).data = p
                 /\ WriteOutcome(p)
              \/ /\ slot[p] = "HASHING"
                 /\ Head(pending).data # p
                 /\ slot' = [slot EXCEPT ![p] = "open"]
                 /\ UNCHANGED disk

\* Without a worker: verdict and write in one step, nothing queued.
Inline(p) == /\ slot[p] = "open"
             /\ pending = <<>>
             /\ WriteOutcome(p)
             /\ UNCHANGED pending

\* The startup scan trusts what it reads from the disk.
Scan(p) == /\ slot' = [slot EXCEPT ![p] = IF disk[p] = p THEN "DONE" ELSE "open"]
           /\ UNCHANGED <<pending, disk>>

Next == \/ \E p \in Pieces : \E d \in {p, Junk} : Complete(p, d)
        \/ Apply
        \/ \E p \in Pieces : Inline(p) \/ Scan(p)

Spec == Init /\ [][Next]_vars
=============================================================================
