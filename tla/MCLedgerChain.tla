---------------------------- MODULE MCLedgerChain ----------------------------
(* An instance of LedgerChain small enough for TLC. *)
EXTENDS LedgerChain, TLC

CONSTANTS w1, w2, w3, r1, r2

Symmetry == Permutations(Writers) \cup Permutations(Records)
===============================================================================
