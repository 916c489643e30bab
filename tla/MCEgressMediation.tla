------------------------- MODULE MCEgressMediation -------------------------
(* Instances of EgressMediation small enough for TLC. *)
EXTENDS EgressMediation, TLC

CONSTANTS r1, r2, granted, plain, component, both, wide, other

(* A grant broader than the server in paths, methods and bytes: wide lies  *)
(* within the grant alone, both and other within the two; other has the    *)
(* other scheme.                                                           *)
Schemes == [u \in Urls |-> IF u = other THEN "http" ELSE "https"]

GrantsWide == [t \in Granted |-> [urls |-> {both, wide, other},
                                  methods |-> {"GET", "POST"}, bytes |-> 2]]

ServerNarrow == [urls |-> {both, other}, methods |-> {"GET"}, bytes |-> 1]

TwoSlotsEach == [t \in Granted |-> {1, 2}]

Peers == Permutations(Runs)
==============================================================================
