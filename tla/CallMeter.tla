------------------------------ MODULE CallMeter ------------------------------
(***************************************************************************)
(* What a metered authority promises: a grant is a set of numbered slots;  *)
(* a slot is handed to at most one caller, and only while the grant is     *)
(* open; a slot handed out is spent at most once; a grant that was closed  *)
(* stays closed.                                                           *)
(***************************************************************************)
CONSTANTS
    Grants,
    Slots       \* the slots of each grant

VARIABLES
    handed,     \* <<grant, slot>> pairs handed out
    fetched,    \* those already spent
    closed      \* the grants that hand out nothing any more

Init ==
    /\ handed = {}
    /\ fetched = {}
    /\ closed = {}

HandSlot(g, n) ==
    /\ g \notin closed
    /\ <<g, n>> \notin handed
    /\ handed' = handed \cup {<<g, n>>}
    /\ UNCHANGED fetched

(* An uncapped grant has slots without end, so the slot is read off handed'. *)
Hand ==
    \E b \in handed' :
        /\ b[1] \in Grants
        /\ b[2] \in Slots[b[1]]
        /\ HandSlot(b[1], b[2])

SpendSlot(b) ==
    /\ b \in handed \ fetched
    /\ fetched' = fetched \cup {b}
    /\ UNCHANGED handed

Spend == \E b \in handed : SpendSlot(b)

Next ==
    /\ closed \subseteq closed'
    /\ Hand \/ Spend \/ UNCHANGED <<handed, fetched>>

Spec == Init /\ [][Next]_<<handed, fetched, closed>>
===============================================================================
