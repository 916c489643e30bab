---------------------------- MODULE MCToolInbox ----------------------------
(* Instances of ToolInbox small enough for TLC: two proposals compete for  *)
(* one tool name, a third has a name of its own.                           *)
EXTENDS ToolInbox, TLC

CONSTANTS s1, s2, p1, p2, p3, x, y

Names3 == (p1 :> x) @@ (p2 :> x) @@ (p3 :> y)

Peers == Permutations(Servers)
==============================================================================
