----------------------------- MODULE MCTorrent -----------------------------
(* Torrent with two or three pieces of one block each; the third, if there  *)
(* is one, belongs to a file that was not selected.                         *)
EXTENDS Torrent, TLC

OneBlock == [p \in Pieces |-> 1]
Classes  == [p \in Pieces |-> IF p = 2 THEN "skip" ELSE "disk"]
NoOrder  == <<>>
=============================================================================
