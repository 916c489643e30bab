------------------------------ MODULE ModuleGate ------------------------------
(***************************************************************************)
(* The decisions WASISandbox.run takes before a guest starts, as operators *)
(* over the call and over what the module path holds at the moment it is   *)
(* read: which ABI the run resolves to, whether the sync blockade would    *)
(* hold on it (ADR-014), whether it must be isolated (ADR-015), and the    *)
(* admission test of the protected component profile.                      *)
(*                                                                         *)
(* A module is known by its bytes: two files with the same bytes have the  *)
(* same digest, so a digest is the bytes themselves.  A call is a record:  *)
(*   abi        "preview1", "component" or "auto"                          *)
(*   trust      "trusted", "untrusted", "unknown" or anything else         *)
(*   sub        use_subprocess                                             *)
(*   protected, blockade                                                   *)
(*   expected   the digest the caller pins, or NoDigest                    *)
(*   event      the caller passes an interrupt_event                       *)
(*   fuel, cpuWall, byteWall   the budget is set (not None)                *)
(*   fsync      allow_fsync                                                *)
(*   dir        the configuration preopens one host directory              *)
(***************************************************************************)

CONSTANTS
    Bytes,        \* the contents a module file can have
    Components,   \* those that carry the component magic
    Oversized,    \* those longer than max_wasm_bytes
    NoFile,       \* nothing readable is at the path
    NoDigest      \* no digest is pinned

ASSUME BytesAssumption ==
    /\ Components \subseteq Bytes
    /\ Oversized \subseteq Bytes
    /\ NoFile \notin Bytes
    /\ NoDigest \notin Bytes

FileStates == Bytes \cup {NoFile}

TrustPostures == {"trusted", "untrusted", "unknown"}

\* is_component_binary: an unreadable file is not a component.
IsComponent(file) == file \in Components

\* The module exists and is within the size cap, at the moment it is looked at.
Admissible(file) == file \in Bytes \ Oversized

\* _resolve_executed_abi, and the choice _execute and the worker make again.
ResolveAbi(file, abi) ==
    IF abi # "auto" THEN abi
    ELSE IF IsComponent(file) THEN "component" ELSE "preview1"

SyncBlockadeHolds(abi, fsync) == abi = "preview1" /\ ~fsync

IsolationRequired(trust, abi) == abi = "component" /\ trust # "trusted"

\* _protected_profile_budget_violation: every budget that can be enforced is
\* set.  (Malformed numbers are refused with the unset ones.)
BudgetsBounded(c) == c.fuel /\ c.cpuWall /\ c.byteWall

\* The part of _protected_component_guard decided without reading the module.
ProfileAllows(c) == c.abi # "preview1" /\ BudgetsBounded(c)

\* The part decided on the bytes of the bounded read.
InspectionAllows(c, file) ==
    /\ Admissible(file)
    /\ IsComponent(file)
    /\ c.trust \in TrustPostures \ {"trusted"}
    /\ c.expected \in {NoDigest, file}

\* The bytes compile on the path that was chosen for them.
Compiles(file, abi) == file \in Bytes /\ (IsComponent(file) <=> abi = "component")
===============================================================================
