---------------------------- MODULE MCPoolMining ----------------------------
(* PoolMining on a small instance: two workers, one pool. *)
EXTENDS PoolMining, TLC

CONSTANTS w1, w2, a, b
=============================================================================
