----------------------------- MODULE MCRequests -----------------------------
(* Requests with a piece of two blocks, a TCP and a uTP peer, a ring that    *)
(* remembers one dropped request and connections that end at the second      *)
(* unsolicited block.                                                        *)
EXTENDS Requests, TLC

Counts  == 0 :> 2
Classes == 0 :> "disk"
NoOrder == <<>>
=============================================================================
