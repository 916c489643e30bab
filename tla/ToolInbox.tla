------------------------------- MODULE ToolInbox -------------------------------
(***************************************************************************)
(* Governed tool loading of the MCP server (ephemora_cell_mcp/server.py,   *)
(* process_tool_requests).  At every message boundary a server looks at    *)
(* the proposals that were dropped into its requests directory, installs   *)
(* those that are signed into the tools directory, a sidecar manifest and  *)
(* a module, each published atomically, and rebuilds its registry.         *)
(* Servers may share both directories, and nothing locks them.             *)
(*                                                                         *)
(* A proposal stands for its manifest and for the module bytes the         *)
(* manifest was signed for, so that two files match when they come from    *)
(* the same proposal.                                                      *)
(***************************************************************************)
EXTENDS FiniteSets

CONSTANTS
    Servers,
    Proposals,      \* *.tool.request.json files
    Signed,         \* those that verify, and whose module has the signed digest
    StemOf,         \* the tool name a proposal claims: the stem of its module
    None,
    Faults          \* of the host: "write_error", "scan_error", "crash"

Stems == {StemOf[r] : r \in Proposals}

ASSUME InboxAssumption ==
    /\ Signed \subseteq Proposals
    /\ None \notin Proposals
    /\ Faults \subseteq {"write_error", "scan_error", "crash"}

VARIABLES
    inbox,      \* what the requests directory holds of each proposal
    sidecar,    \* tools_dir/<stem>.json
    module,     \* tools_dir/<stem>.wasm
    registry,   \* of each server: the tools it lists and calls
    pc,         \* where each server stands in process_tool_requests
    batch,      \* the proposals it has still to evaluate
    current,    \* the proposal it is installing
    installed,  \* the names it accepted in this pass
    promised    \* history: the names it accepted since it started

disk == <<inbox, sidecar, module>>
pass == <<batch, current, installed>>
vars == <<inbox, sidecar, module, registry, pc, batch, current, installed, promised>>

------------------------------------------------------------------------------
(***************************************************************************)
(* ToolRegistry._scan in signed-tools mode: a tool is a module with a      *)
(* sidecar that is signed and describes the bytes of the module.           *)
(***************************************************************************)
Loads(x) ==
    /\ module[x] # None
    /\ sidecar[x] \in Signed
    /\ sidecar[x] = module[x]

Tool(x) == [manifest |-> sidecar[x], wasm |-> module[x]]

Scan == [x \in {x \in Stems : Loads(x)} |-> Tool(x)]

Names(s) == DOMAIN registry[s]

(* The names registered when the pass began are those registered now. *)
Collides(s, x) == x \in Names(s) \/ module[x] # None

Acceptable_Unverified(s, r) ==              \* mutant: verify_manifest is skipped
    inbox[r] = "ready" /\ ~Collides(s, StemOf[r])

Acceptable(s, r) ==
    /\ inbox[r] = "ready"
    /\ r \in Signed
    /\ ~Collides(s, StemOf[r])

After_ModuleFirst(place) ==                 \* mutant: the module before its sidecar
    CASE place = "evaluate" -> "module"
      [] place = "module"   -> "sidecar"
      [] place = "sidecar"  -> "consume"

(* The order in which an accepted proposal is installed and consumed.      *)
After(place) ==
    CASE place = "evaluate" -> "sidecar"
      [] place = "sidecar"  -> "module"
      [] place = "module"   -> "consume"

------------------------------------------------------------------------------
Init ==
    /\ inbox = [r \in Proposals |-> "absent"]
    /\ sidecar = [x \in Stems |-> None]
    /\ module = [x \in Stems |-> None]
    /\ registry = [s \in Servers |-> Scan]
    /\ pc = [s \in Servers |-> "idle"]
    /\ batch = [s \in Servers |-> {}]
    /\ current = [s \in Servers |-> None]
    /\ installed = [s \in Servers |-> {}]
    /\ promised = [s \in Servers |-> {}]

Goto(s, place) == pc' = [pc EXCEPT ![s] = place]

(* The host, or a guest, drops a proposal: it is written, then complete.   *)
DropBegins(r) ==
    /\ inbox[r] = "absent"
    /\ inbox' = [inbox EXCEPT ![r] = "writing"]
    /\ UNCHANGED <<sidecar, module, registry, pc, pass, promised>>

DropEnds(r) ==
    /\ inbox[r] = "writing"
    /\ inbox' = [inbox EXCEPT ![r] = "ready"]
    /\ UNCHANGED <<sidecar, module, registry, pc, pass, promised>>

(* A message came in: os.scandir lists the proposals. *)
Begin(s) ==
    /\ pc[s] = "idle"
    /\ batch' = [batch EXCEPT ![s] = {r \in Proposals : inbox[r] # "absent"}]
    /\ batch'[s] # {}
    /\ Goto(s, "evaluate")
    /\ UNCHANGED <<disk, registry, current, installed, promised>>

(* The proposal is gone, still being written, unsigned, or its name taken: *)
(* it is reported and stays where it is.                                   *)
Reject(s) ==
    /\ pc[s] = "evaluate"
    /\ \E r \in batch[s] :
          /\ ~Acceptable(s, r)
          /\ batch' = [batch EXCEPT ![s] = @ \ {r}]
    /\ UNCHANGED <<disk, registry, pc, current, installed, promised>>

Accept(s) ==
    /\ pc[s] = "evaluate"
    /\ \E r \in batch[s] :
          /\ Acceptable(s, r)
          /\ batch' = [batch EXCEPT ![s] = @ \ {r}]
          /\ current' = [current EXCEPT ![s] = r]
    /\ Goto(s, After("evaluate"))
    /\ UNCHANGED <<disk, registry, installed, promised>>

PublishSidecar(s) ==
    /\ pc[s] = "sidecar"
    /\ sidecar' = [sidecar EXCEPT ![StemOf[current[s]]] = current[s]]
    /\ Goto(s, After("sidecar"))
    /\ UNCHANGED <<inbox, module, registry, pass, promised>>

PublishModule(s) ==
    /\ pc[s] = "module"
    /\ module' = [module EXCEPT ![StemOf[current[s]]] = current[s]]
    /\ Goto(s, After("module"))
    /\ UNCHANGED <<inbox, sidecar, registry, pass, promised>>

(* The proposal is unlinked, whoever else may have unlinked it before.     *)
Consume(s) ==
    /\ pc[s] = "consume"
    /\ inbox' = [inbox EXCEPT ![current[s]] = "absent"]
    /\ installed' = [installed EXCEPT ![s] = @ \cup {StemOf[current[s]]}]
    /\ promised' = [promised EXCEPT ![s] = @ \cup {StemOf[current[s]]}]
    /\ current' = [current EXCEPT ![s] = None]
    /\ Goto(s, "evaluate")
    /\ UNCHANGED <<sidecar, module, registry, batch>>

EndPass(s) ==
    /\ Goto(s, "idle")
    /\ batch' = [batch EXCEPT ![s] = {}]
    /\ current' = [current EXCEPT ![s] = None]
    /\ installed' = [installed EXCEPT ![s] = {}]

(* All are evaluated; the registry is rebuilt if anything was installed.   *)
Rescan(s) ==
    /\ pc[s] = "evaluate"
    /\ batch[s] = {}
    /\ registry' = IF installed[s] = {} THEN registry ELSE [registry EXCEPT ![s] = Scan]
    /\ EndPass(s)
    /\ UNCHANGED <<disk, promised>>

(* The rebuild raises: the old registry stays, the report says so.         *)
RescanFails(s) ==
    /\ "scan_error" \in Faults
    /\ pc[s] = "evaluate"
    /\ batch[s] = {}
    /\ installed[s] # {}
    /\ EndPass(s)
    /\ UNCHANGED <<disk, registry, promised>>

(* Publishing or unlinking raises OSError out of the pass: serve logs it.  *)
PassRaises(s) ==
    /\ "write_error" \in Faults
    /\ pc[s] \in {"sidecar", "module", "consume"}
    /\ EndPass(s)
    /\ UNCHANGED <<disk, registry, promised>>

(* The server dies and is started again: its registry is what it scans.    *)
Restart(s) ==
    /\ "crash" \in Faults
    /\ registry' = [registry EXCEPT ![s] = Scan]
    /\ promised' = [promised EXCEPT ![s] = {}]
    /\ EndPass(s)
    /\ UNCHANGED disk

(* No server is inside a pass: the system may stay so. *)
Rest ==
    /\ \A s \in Servers : pc[s] = "idle"
    /\ UNCHANGED vars

Step(s) ==
    \/ Begin(s)
    \/ Reject(s) \/ Accept(s)
    \/ PublishSidecar(s) \/ PublishModule(s) \/ Consume(s)
    \/ Rescan(s) \/ RescanFails(s) \/ PassRaises(s)
    \/ Restart(s)

Next ==
    \/ \E r \in Proposals : DropBegins(r) \/ DropEnds(r)
    \/ \E s \in Servers : Step(s)
    \/ Rest

Spec == Init /\ [][Next]_vars

------------------------------------------------------------------------------
(* Types of the state: files come from proposals, registries from files.   *)
TypeOK ==
    /\ inbox \in [Proposals -> {"absent", "writing", "ready"}]
    /\ sidecar \in [Stems -> Proposals \cup {None}]
    /\ module \in [Stems -> Proposals \cup {None}]
    /\ DOMAIN registry = Servers
    /\ \A s \in Servers :
          /\ Names(s) \subseteq Stems
          /\ \A x \in Names(s) : registry[s][x] \in [manifest : Proposals, wasm : Proposals]
    /\ pc \in [Servers -> {"idle", "evaluate", "sidecar", "module", "consume"}]
    /\ batch \in [Servers -> SUBSET Proposals]
    /\ current \in [Servers -> Proposals \cup {None}]
    /\ \A s \in Servers : current[s] # None <=> pc[s] \in {"sidecar", "module", "consume"}
    /\ installed \in [Servers -> SUBSET Stems]
    /\ promised \in [Servers -> SUBSET Stems]

(***************************************************************************)
(* "the wasm_sha256 field is what binds it to exactly one module"          *)
(* (tool_registry.py:369-371): a registered tool pairs a signed manifest   *)
(* with the module it was signed for, whatever two servers publish under   *)
(* one name at the same time.                                              *)
(***************************************************************************)
OnlySignedPairsRegister ==
    \A s \in Servers : \A x \in Names(s) :
        LET tool == registry[s][x]
        IN  tool.manifest \in Signed /\ tool.manifest = tool.wasm /\ StemOf[tool.wasm] = x

(***************************************************************************)
(* "publish the signed sidecar FIRST and the module LAST" (server.py:      *)
(* 968-972): wherever an install stops, no module lies in the tools        *)
(* directory without a signed sidecar, and no unsigned bytes do.           *)
(***************************************************************************)
NoBareModule ==
    \A x \in Stems : module[x] # None => sidecar[x] \in Signed /\ module[x] \in Signed

(***************************************************************************)
(* "Rejected requests stay on disk" (server.py:826): a proposal leaves the *)
(* requests directory only once a tool of its name is installed.           *)
(***************************************************************************)
RejectedStay ==
    [][\A r \in Proposals :
          inbox[r] = "ready" /\ inbox'[r] = "absent"
            => r \in Signed /\ module[StemOf[r]] # None]_vars

(***************************************************************************)
(* Why they hold, as one inductive invariant: only signed proposals are    *)
(* ever being installed, and the sidecar of a name stays in place once a   *)
(* server has gone on to its module, whichever server overwrites it.       *)
(***************************************************************************)
InstallsSigned ==
    \A s \in Servers : pc[s] \in {"sidecar", "module", "consume"} => current[s] \in Signed

SidecarsSigned ==
    \A x \in Stems : sidecar[x] # None => sidecar[x] \in Signed

SidecarFirst ==
    \A s \in Servers : pc[s] \in {"module", "consume"} => sidecar[StemOf[current[s]]] # None

ModuleBeforeConsume ==
    \A s \in Servers : pc[s] = "consume" => module[StemOf[current[s]]] # None

ModulesSigned ==
    \A x \in Stems : module[x] # None => module[x] \in Signed /\ sidecar[x] # None

NamesFit ==
    \A x \in Stems : module[x] # None => StemOf[module[x]] = x

InstallInv ==
    /\ TypeOK
    /\ InstallsSigned
    /\ SidecarsSigned
    /\ SidecarFirst
    /\ ModuleBeforeConsume
    /\ ModulesSigned
    /\ NamesFit
    /\ OnlySignedPairsRegister

(***************************************************************************)
(* "Accepted requests are installed into the registry directory, the file  *)
(* is consumed, the registry rescans" (server.py:822-826): between passes, *)
(* a server offers every tool it accepted.                                 *)
(***************************************************************************)
AcceptedToolsRegister ==
    \A s \in Servers : pc[s] = "idle" => promised[s] \subseteq Names(s)
===============================================================================
