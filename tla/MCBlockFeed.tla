---------------------------- MODULE MCBlockFeed ----------------------------
(* BlockFeed with the source's limits scaled down: the cfg files say how. *)
EXTENDS BlockFeed
=============================================================================
