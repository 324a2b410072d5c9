--------------------------- MODULE MCFastDataset ---------------------------
(* FastDataset on a small instance. *)
EXTENDS FastDataset, TLC

CONSTANTS w1, w2, d1, d2
=============================================================================
