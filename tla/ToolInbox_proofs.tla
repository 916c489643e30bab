--------------------------- MODULE ToolInbox_proofs ---------------------------
(***************************************************************************)
(* Proofs about governed tool loading: whatever the servers, the proposals *)
(* and the faults, only signed pairs of manifest and module are installed  *)
(* and registered.  Each lemma says what every step does to one part of    *)
(* the inductive invariant InstallInv.                                     *)
(***************************************************************************)
EXTENDS ToolInbox, TLAPS

(* A tool that a scan loads is a signed manifest with its own module. *)
LEMMA ScanSigned ==
    ASSUME TypeOK, NamesFit
    PROVE  /\ DOMAIN Scan \subseteq Stems
           /\ \A x \in DOMAIN Scan :
                 /\ Scan[x] \in [manifest : Proposals, wasm : Proposals]
                 /\ Scan[x].manifest \in Signed
                 /\ Scan[x].manifest = Scan[x].wasm
                 /\ StemOf[Scan[x].wasm] = x
<1>1. DOMAIN Scan = {x \in Stems : Loads(x)}
  BY DEF Scan
<1>2. ASSUME NEW x \in Stems, Loads(x)
      PROVE  /\ Scan[x] = [manifest |-> sidecar[x], wasm |-> module[x]]
             /\ sidecar[x] \in Signed
             /\ sidecar[x] = module[x]
             /\ StemOf[module[x]] = x
             /\ module[x] \in Proposals
  BY <1>2 DEF Scan, Tool, Loads, TypeOK, NamesFit
<1>3. QED
  BY <1>1, <1>2 DEF TypeOK

LEMMA InstallInit == ASSUME Init PROVE InstallInv
<1>1. Scan = [x \in {} |-> Tool(x)]
  BY DEF Init, Scan, Loads
<1>2. \A s \in Servers : Names(s) = {}
  BY <1>1 DEF Init, Names
<1>3. TypeOK
  BY <1>2 DEF Init, TypeOK
<1>4. \A x \in Stems : sidecar[x] = None /\ module[x] = None
  BY DEF Init
<1>5. \A s \in Servers : pc[s] = "idle"
  BY DEF Init
<1>6. QED
  BY <1>2, <1>3, <1>4, <1>5
     DEF InstallInv, InstallsSigned, SidecarsSigned, SidecarFirst, ModuleBeforeConsume,
         ModulesSigned, NamesFit, OnlySignedPairsRegister

(* The proposal a server installs is a proposal, and claims a name. *)
LEMMA CurrentProposal ==
    ASSUME TypeOK, InboxAssumption, NEW s \in Servers,
           pc[s] \in {"sidecar", "module", "consume"}
    PROVE  current[s] \in Proposals /\ StemOf[current[s]] \in Stems
<1>1. current[s] # None
  BY DEF TypeOK
<1>2. current[s] \in Proposals
  BY <1>1 DEF TypeOK
<1>3. QED
  BY <1>2 DEF Stems

(***************************************************************************)
(* What one step of a server does to the disk: nothing, or one of the two  *)
(* files of the signed proposal it is installing.                          *)
(***************************************************************************)
DiskStep(s) ==
    \/ UNCHANGED <<sidecar, module>>
    \/ /\ pc[s] = "sidecar"
       /\ sidecar' = [sidecar EXCEPT ![StemOf[current[s]]] = current[s]]
       /\ UNCHANGED module
    \/ /\ pc[s] = "module"
       /\ module' = [module EXCEPT ![StemOf[current[s]]] = current[s]]
       /\ UNCHANGED sidecar

LEMMA StepsDisk ==
    ASSUME NEW s \in Servers, Step(s)
    PROVE  DiskStep(s)
  BY DEF Step, DiskStep, Begin, Reject, Accept, PublishSidecar, PublishModule, Consume,
         Rescan, RescanFails, PassRaises, Restart, disk

------------------------------------------------------------------------------
(* Type correctness, with the names that a rebuilt registry lists.         *)
RegistryType(r) ==
    /\ DOMAIN r = Servers
    /\ \A s \in Servers :
          /\ DOMAIN r[s] \subseteq Stems
          /\ \A x \in DOMAIN r[s] : r[s][x] \in [manifest : Proposals, wasm : Proposals]

LEMMA ScanType ==
    ASSUME TypeOK, NamesFit, NEW s \in Servers
    PROVE  RegistryType([registry EXCEPT ![s] = Scan])
<1>1. RegistryType(registry)
  BY DEF TypeOK, RegistryType, Names
<1>2. /\ DOMAIN Scan \subseteq Stems
      /\ \A x \in DOMAIN Scan : Scan[x] \in [manifest : Proposals, wasm : Proposals]
  BY ScanSigned
<1>3. QED
  BY <1>1, <1>2 DEF RegistryType

LEMMA StepType ==
    ASSUME InboxAssumption, TypeOK, NamesFit, NEW s \in Servers, Step(s)
    PROVE  TypeOK'
<1> USE DEF Goto
<1>1. RegistryType(registry)
  BY DEF TypeOK, RegistryType, Names
<1>2. SUFFICES /\ inbox' \in [Proposals -> {"absent", "writing", "ready"}]
               /\ sidecar' \in [Stems -> Proposals \cup {None}]
               /\ module' \in [Stems -> Proposals \cup {None}]
               /\ RegistryType(registry')
               /\ pc' \in [Servers -> {"idle", "evaluate", "sidecar", "module", "consume"}]
               /\ batch' \in [Servers -> SUBSET Proposals]
               /\ current' \in [Servers -> Proposals \cup {None}]
               /\ \A t \in Servers :
                     current'[t] # None <=> pc'[t] \in {"sidecar", "module", "consume"}
               /\ installed' \in [Servers -> SUBSET Stems]
               /\ promised' \in [Servers -> SUBSET Stems]
  BY DEF TypeOK, RegistryType, Names
<1>3. CASE Begin(s)
  BY <1>1, <1>3 DEF Begin, TypeOK, disk
<1>4. CASE Reject(s)
  BY <1>1, <1>4 DEF Reject, TypeOK, disk
<1>5. CASE Accept(s)
  BY <1>1, <1>5 DEF Accept, After, TypeOK, disk, InboxAssumption
<1>6. CASE PublishSidecar(s)
  BY <1>1, <1>6, CurrentProposal DEF PublishSidecar, After, TypeOK, pass
<1>7. CASE PublishModule(s)
  BY <1>1, <1>7, CurrentProposal DEF PublishModule, After, TypeOK, pass
<1>8. CASE Consume(s)
  BY <1>1, <1>8, CurrentProposal DEF Consume, TypeOK
<1>9. ASSUME EndPass(s)
      PROVE  /\ pc' \in [Servers -> {"idle", "evaluate", "sidecar", "module", "consume"}]
             /\ batch' \in [Servers -> SUBSET Proposals]
             /\ current' \in [Servers -> Proposals \cup {None}]
             /\ \A t \in Servers :
                   current'[t] # None <=> pc'[t] \in {"sidecar", "module", "consume"}
             /\ installed' \in [Servers -> SUBSET Stems]
  BY <1>9 DEF EndPass, TypeOK
<1>10. CASE Rescan(s)
  BY <1>1, <1>9, <1>10, ScanType DEF Rescan, TypeOK, disk
<1>11. CASE RescanFails(s)
  BY <1>1, <1>9, <1>11 DEF RescanFails, TypeOK, disk
<1>12. CASE PassRaises(s)
  BY <1>1, <1>9, <1>12 DEF PassRaises, TypeOK, disk
<1>13. CASE Restart(s)
  BY <1>1, <1>9, <1>13, ScanType DEF Restart, TypeOK, disk
<1>14. QED
  BY <1>3, <1>4, <1>5, <1>6, <1>7, <1>8, <1>10, <1>11, <1>12, <1>13 DEF Step

(***************************************************************************)
(* The rest of the invariant, step by step.                                *)
(***************************************************************************)
LEMMA StepInstalls ==
    ASSUME InboxAssumption, TypeOK, InstallsSigned, NEW s \in Servers, Step(s)
    PROVE  InstallsSigned'
<1> USE DEF Goto, InstallsSigned
<1>1. CASE Accept(s)
  BY <1>1 DEF Accept, Acceptable, After, TypeOK
<1>2. CASE PublishSidecar(s)
  BY <1>2 DEF PublishSidecar, After, TypeOK, pass
<1>3. CASE PublishModule(s)
  BY <1>3 DEF PublishModule, After, TypeOK, pass
<1>4. CASE Begin(s) \/ Reject(s) \/ Consume(s)
  BY <1>4 DEF Begin, Reject, Consume, TypeOK
<1>5. CASE Rescan(s) \/ RescanFails(s) \/ PassRaises(s) \/ Restart(s)
  BY <1>5 DEF Rescan, RescanFails, PassRaises, Restart, EndPass, TypeOK
<1>6. QED
  BY <1>1, <1>2, <1>3, <1>4, <1>5 DEF Step

LEMMA StepSidecars ==
    ASSUME InboxAssumption, TypeOK, InstallsSigned, SidecarsSigned, NEW s \in Servers, Step(s)
    PROVE  /\ SidecarsSigned'
           /\ \A x \in Stems : sidecar[x] # None => sidecar'[x] # None
           /\ \A x \in Stems : module[x] # None => module'[x] # None
<1>1. DiskStep(s)
  BY StepsDisk
<1>2. CASE UNCHANGED <<sidecar, module>>
  BY <1>2 DEF SidecarsSigned
<1>3. CASE pc[s] \in {"sidecar", "module"}
  <2>1. current[s] \in Signed /\ current[s] # None /\ StemOf[current[s]] \in Stems
    BY <1>3, CurrentProposal DEF InstallsSigned, InboxAssumption
  <2>2. QED
    BY <1>1, <2>1 DEF DiskStep, SidecarsSigned, TypeOK
<1>4. QED
  BY <1>1, <1>2, <1>3 DEF DiskStep

LEMMA StepOrder ==
    ASSUME InboxAssumption, TypeOK, InstallsSigned, SidecarsSigned, SidecarFirst,
           ModuleBeforeConsume, NEW s \in Servers, Step(s)
    PROVE  SidecarFirst' /\ ModuleBeforeConsume'
<1> USE DEF Goto
<1>1. /\ \A x \in Stems : sidecar[x] # None => sidecar'[x] # None
      /\ \A x \in Stems : module[x] # None => module'[x] # None
  BY StepSidecars
<1>2. ASSUME NEW t \in Servers, pc[t] \in {"sidecar", "module", "consume"}
      PROVE  StemOf[current[t]] \in Stems /\ current[t] # None
  BY <1>2, CurrentProposal DEF InboxAssumption
<1>3. SUFFICES ASSUME NEW t \in Servers
               PROVE  /\ pc'[t] \in {"module", "consume"} => sidecar'[StemOf[current'[t]]] # None
                      /\ pc'[t] = "consume" => module'[StemOf[current'[t]]] # None
  BY DEF SidecarFirst, ModuleBeforeConsume
<1>4. ASSUME pc'[t] = pc[t], current'[t] = current[t]
      PROVE  /\ pc'[t] \in {"module", "consume"} => sidecar'[StemOf[current'[t]]] # None
             /\ pc'[t] = "consume" => module'[StemOf[current'[t]]] # None
  BY <1>1, <1>2, <1>4 DEF SidecarFirst, ModuleBeforeConsume
<1>5. CASE t # s
  BY <1>4, <1>5 DEF Step, Begin, Reject, Accept, PublishSidecar, PublishModule, Consume,
                    Rescan, RescanFails, PassRaises, Restart, EndPass, TypeOK, pass
<1>6. CASE t = s /\ PublishSidecar(s)
  BY <1>2, <1>6 DEF PublishSidecar, After, TypeOK, pass
<1>7. CASE t = s /\ PublishModule(s)
  BY <1>1, <1>2, <1>7 DEF PublishModule, After, TypeOK, pass, SidecarFirst
<1>8. CASE t = s /\ ~PublishSidecar(s) /\ ~PublishModule(s)
  <2>1. pc'[s] \notin {"module", "consume"}
    BY <1>8 DEF Step, Begin, Reject, Accept, After, Consume, Rescan, RescanFails,
                PassRaises, Restart, EndPass, TypeOK
  <2>2. QED
    BY <1>8, <2>1
<1>9. QED
  BY <1>5, <1>6, <1>7, <1>8

LEMMA StepModules ==
    ASSUME InboxAssumption, TypeOK, InstallsSigned, SidecarsSigned, SidecarFirst,
           ModulesSigned, NamesFit, NEW s \in Servers, Step(s)
    PROVE  ModulesSigned' /\ NamesFit'
<1>1. \A x \in Stems : sidecar[x] # None => sidecar'[x] # None
  BY StepSidecars
<1>2. DiskStep(s)
  BY StepsDisk
<1>3. CASE UNCHANGED module
  BY <1>1, <1>3 DEF ModulesSigned, NamesFit
<1>4. CASE /\ pc[s] = "module"
           /\ module' = [module EXCEPT ![StemOf[current[s]]] = current[s]]
           /\ UNCHANGED sidecar
  <2>1. current[s] \in Signed /\ sidecar[StemOf[current[s]]] # None
    BY <1>4 DEF InstallsSigned, SidecarFirst
  <2>2. QED
    BY <1>4, <2>1 DEF ModulesSigned, NamesFit, TypeOK
<1>5. QED
  BY <1>2, <1>3, <1>4 DEF DiskStep

LEMMA StepRegistry ==
    ASSUME TypeOK, NamesFit, OnlySignedPairsRegister, NEW s \in Servers, Step(s)
    PROVE  OnlySignedPairsRegister'
<1>1. registry' = registry \/ registry' = [registry EXCEPT ![s] = Scan]
  BY DEF Step, Begin, Reject, Accept, PublishSidecar, PublishModule, Consume,
         Rescan, RescanFails, PassRaises, Restart
<1>2. CASE registry' = registry
  BY <1>2 DEF OnlySignedPairsRegister, Names
<1>3. CASE registry' = [registry EXCEPT ![s] = Scan]
  <2>1. \A x \in DOMAIN Scan :
            /\ Scan[x].manifest \in Signed
            /\ Scan[x].manifest = Scan[x].wasm
            /\ StemOf[Scan[x].wasm] = x
    BY ScanSigned
  <2>2. \A t \in Servers : registry'[t] = IF t = s THEN Scan ELSE registry[t]
    BY <1>3 DEF TypeOK
  <2>3. QED
    BY <2>1, <2>2 DEF OnlySignedPairsRegister, Names
<1>4. QED
  BY <1>1, <1>2, <1>3

(* The world outside the servers touches the requests directory only.      *)
LEMMA InboxFrame ==
    ASSUME InstallInv, inbox' \in [Proposals -> {"absent", "writing", "ready"}],
           UNCHANGED <<sidecar, module, registry, pc, pass, promised>>
    PROVE  InstallInv'
<1>1. TypeOK'
  BY DEF InstallInv, TypeOK, Names, pass
<1>2. QED
  BY <1>1 DEF InstallInv, InstallsSigned, SidecarsSigned, SidecarFirst, ModuleBeforeConsume,
              ModulesSigned, NamesFit, OnlySignedPairsRegister, Names, pass

LEMMA InstallStep ==
    ASSUME InboxAssumption, InstallInv, [Next]_vars
    PROVE  InstallInv'
<1>1. ASSUME NEW s \in Servers, Step(s) PROVE InstallInv'
  BY <1>1, StepType, StepInstalls, StepSidecars, StepOrder, StepModules, StepRegistry
     DEF InstallInv
<1>2. ASSUME NEW r \in Proposals, DropBegins(r) \/ DropEnds(r) PROVE InstallInv'
  BY <1>2, InboxFrame DEF DropBegins, DropEnds, InstallInv, TypeOK
<1>3. CASE UNCHANGED vars
  BY <1>3, InboxFrame DEF vars, pass, InstallInv, TypeOK
<1>4. QED
  BY <1>1, <1>2, <1>3 DEF Next, Rest

------------------------------------------------------------------------------
(* The inductive invariant, for any servers, proposals, names and faults.  *)
THEOREM InstallInvariant == Spec => []InstallInv
<1>1. Init => InstallInv
  BY InstallInit
<1>2. InstallInv /\ [Next]_vars => InstallInv'
  BY InstallStep, InboxAssumption
<1>3. QED
  BY <1>1, <1>2, PTL DEF Spec

(***************************************************************************)
(* A server registers a tool only when its manifest is signed and its      *)
(* module is the one the manifest was signed for, although two servers may *)
(* publish under one name at the same time (server.py:966-974).            *)
(***************************************************************************)
THEOREM SignedPairsOnly == Spec => []OnlySignedPairsRegister
<1>1. InstallInv => OnlySignedPairsRegister
  BY DEF InstallInv
<1>2. QED
  BY <1>1, InstallInvariant, PTL

(***************************************************************************)
(* Wherever an install stops, no module lies in the tools directory        *)
(* without a signed sidecar (server.py:968-974).                           *)
(***************************************************************************)
THEOREM ModulesAreSigned == Spec => []NoBareModule
<1>1. InstallInv => NoBareModule
  BY DEF InstallInv, ModulesSigned, SidecarsSigned, NoBareModule
<1>2. QED
  BY <1>1, InstallInvariant, PTL

(***************************************************************************)
(* A proposal leaves the requests directory only when a tool of its name   *)
(* is installed (server.py:826, 869-877).                                  *)
(***************************************************************************)
THEOREM RejectedProposalsStay == Spec => RejectedStay
<1> DEFINE Kept == \A r \in Proposals :
                      inbox[r] = "ready" /\ inbox'[r] = "absent"
                        => r \in Signed /\ module[StemOf[r]] # None
<1>1. ASSUME InstallInv, Next PROVE Kept
  <2>1. CASE \E s \in Servers : Consume(s)
    BY <1>1, <2>1 DEF Consume, InstallInv, InstallsSigned, ModuleBeforeConsume, TypeOK
  <2>2. CASE \E r \in Proposals : DropBegins(r) \/ DropEnds(r)
    BY <1>1, <2>2 DEF DropBegins, DropEnds, InstallInv, TypeOK
  <2>3. CASE UNCHANGED inbox
    BY <2>3
  <2>4. QED
    BY <1>1, <2>1, <2>2, <2>3
       DEF Next, Rest, vars, Step, Begin, Reject, Accept, PublishSidecar, PublishModule,
           Rescan, RescanFails, PassRaises, Restart, disk
<1>2. InstallInv /\ [Next]_vars => [Kept]_vars
  BY <1>1
<1>3. QED
  BY <1>2, InstallInvariant, PTL DEF Spec, RejectedStay
===============================================================================
