--------------------------- MODULE MCDirectMining ---------------------------
(* DirectMining on a small instance: two workers, one node. *)
EXTENDS DirectMining, TLC

CONSTANTS w1, w2, mine, other

\* w1 meets the target with its first nonce of every template, w2 with its
\* first nonce of every second one: both race for the same block, or one does.
MCWins == {<<id, w1, 0>> : id \in 1..12} \cup {<<2 * k, w2, 0>> : k \in 1..6}

\* For the liveness run: only w1 ever submits.
MCOneWinner == {<<id, w1, 0>> : id \in 1..12}
=============================================================================
