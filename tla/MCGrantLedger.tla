---------------------------- MODULE MCGrantLedger ----------------------------
(* Instances of GrantLedger small enough for TLC. *)
EXTENDS GrantLedger, TLC

CONSTANTS c1, c2, c3, g1, g2

(* g1 is capped and closes at 1; g2 is uncapped and opens at 1. *)
CapFirst == (g1 :> 2) @@ (g2 :> None)
OpensSecond == (g1 :> None) @@ (g2 :> 1)
ClosesFirst == (g1 :> 1) @@ (g2 :> None)
===============================================================================
