------------------------------ MODULE MCSwarm ------------------------------
(* Two endpoints that collide in the hash set, a third whose home is the slot *)
(* to which a collision moves, and one that queue_insert refuses.             *)
EXTENDS Swarm, TLC

CONSTANTS a, b, c, x

MCHome == [e \in Endpoints |-> IF e \in {a, b} THEN 0 ELSE 1]
============================================================================
