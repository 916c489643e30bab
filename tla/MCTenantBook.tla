---------------------------- MODULE MCTenantBook ----------------------------
(* Instances of TenantBook small enough for TLC. *)
EXTENDS TenantBook, TLC

CONSTANTS c1, c2, c3, t1, t2

OneRunFirstOnly == (t1 :> 1) @@ (t2 :> None)
ThreeUnitsSecond == (t1 :> None) @@ (t2 :> 3)
Callers == Permutations(Writers)
==============================================================================
