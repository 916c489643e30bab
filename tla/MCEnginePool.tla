---------------------------- MODULE MCEnginePool ----------------------------
(* Instances of EnginePool small enough for TLC. *)
EXTENDS EnginePool, TLC

CONSTANTS t1, t2, f1, f2, f3

Symmetry == Permutations(Threads) \cup Permutations(Fingerprints)
==============================================================================
