--------------------------- MODULE EgressMediation ---------------------------
(***************************************************************************)
(* Host-side egress (CellToolEngine.execute and _mediate_egress in         *)
(* engine.py; mediate, mediate_with_grant, execute_request and the         *)
(* redirect handler in egress_sidecar.py).  A guest may leave a request    *)
(* artifact; after its run the host checks it against the grant of the     *)
(* tool and the server's allowlist, charges one call of the grant, fetches *)
(* on the guest's behalf, and follows redirects within the same walls.     *)
(*                                                                         *)
(* The grant book is CallMeter, the specification GrantLedger implements.  *)
(* Runs are concurrent and share the meter.  A URL stands for the class of *)
(* URLs that every allowlist and the scheme comparison treat alike.        *)
(***************************************************************************)
EXTENDS Naturals, Sequences, FiniteSets

CONSTANTS
    Runs,           \* concurrent executions
    Tools,
    Components,     \* tools whose module is a WASI 0.2 component
    Trusted,        \* tools the host declared trusted
    Granted,        \* tools with a signed grant: one authority per tool
    Slots,          \* the slots of each grant
    Urls,
    SchemeOf,       \* the scheme of each URL
    GrantPolicy,    \* the policy a grant describes, by tool
    ServerPolicy,   \* the server-wide policy
    MaxRepeats,     \* max_repeats of the redirect handler
    MaxRedirects,   \* max_redirections of the redirect handler
    MaxBody,        \* bound: the longest body an origin sends
    Silent,         \* no artifact
    Unreadable,     \* an artifact that is no plain file
    Malformed,      \* one that is no request, or has headers nobody allows
    Nested,         \* one nested deeper than json.loads recurses
    NoSlot

Methods == {"GET", "POST"}

Policies == [urls : SUBSET Urls, methods : SUBSET Methods, bytes : Nat]

ASSUME EgressAssumption ==
    /\ Components \subseteq Tools /\ Trusted \subseteq Tools
    /\ Granted \subseteq Tools
    /\ Slots \in [Granted -> SUBSET Nat]
    /\ GrantPolicy \in [Granted -> Policies]
    /\ ServerPolicy \in Policies
    /\ SchemeOf \in [Urls -> {"http", "https"}]
    /\ MaxRepeats \in Nat \ {0} /\ MaxRedirects \in Nat \ {0}
    /\ MaxBody \in Nat
    /\ NoSlot \notin Granted \X Nat

VARIABLES
    server,         \* the deployment has a server-wide policy
    strict,         \* grants_required
    handed, fetched, closed,    \* the meter
    pc,             \* where each run stands
    tool,           \* the tool each run executes
    ask,            \* what its guest left as sidecar.request.json
    slot,           \* the call it was charged
    issued,         \* the requests the stdlib was given for it, in order
    opened,         \* how many of them a connection was opened for
    followed,       \* _RedirectTrail.followed
    audit,          \* the audit entry of the run
    sent            \* history: the length of the body the origin sent

meterVars == <<handed, fetched, closed>>
fetchVars == <<issued, opened, followed, audit, sent>>
vars == <<server, strict, meterVars, pc, tool, ask, slot, fetchVars>>

Requests == [url : Urls, method : Methods]

Asks == Requests \cup {Silent, Unreadable, Malformed, Nested}

Labels == {"none", "grant-required", "server-policy", "gate", "ledger",
           "ssrf", "transport", "timeout"}

Meter == INSTANCE CallMeter WITH Grants <- Granted

------------------------------------------------------------------------------
(***************************************************************************)
(* The walls: the policy of the tool and, behind a grant, the server-wide  *)
(* policy as its ceiling.                                                  *)
(***************************************************************************)
Policy(t) == IF t \in Granted THEN GrantPolicy[t] ELSE ServerPolicy

Ceiling(t) == IF t \in Granted /\ server THEN {ServerPolicy} ELSE {}

HasPolicy(t) == t \in Granted \/ server

(* validate_request, but for the headers, which no policy changes. *)
Admits(p, request) == request.method \in p.methods /\ request.url \in p.urls

ClearsCeiling_AfterCharge(t, request) == TRUE   \* mutant: only hops are checked

ClearsCeiling(t, request) == \A p \in Ceiling(t) : Admits(p, request)

Permitted(t, request) ==
    /\ request \in Requests
    /\ Admits(Policy(t), request)
    /\ ClearsCeiling(t, request)

(***************************************************************************)
(* max_response_bytes: the narrowest of the walls.  One byte more is read, *)
(* to tell a body that was cut.                                            *)
(***************************************************************************)
ByteLimit_GrantOnly(t) == Policy(t).bytes   \* mutant: the ceiling is not asked

ByteLimit(t) ==
    CHOOSE n \in {p.bytes : p \in {Policy(t)} \cup Ceiling(t)} :
        \A p \in {Policy(t)} \cup Ceiling(t) : n <= p.bytes

Received(size, limit) == IF size > limit THEN limit + 1 ELSE size

------------------------------------------------------------------------------
(***************************************************************************)
(* The redirect handler.                                                   *)
(***************************************************************************)
Last(s) == s[Len(s)]

Redirected(s) == [i \in 1..(Len(s) - 1) |-> s[i + 1].url]

OffPolicy(t, url) == url \notin Policy(t).urls

OffCeiling(t, url) == \E p \in Ceiling(t) : url \notin p.urls

(* visited: how often each URL was the target of a redirect. *)
Visits(s, url) == Cardinality({i \in DOMAIN s : s[i] = url})

StdlibStops(s, url) ==
    /\ s # <<>>
    /\ \/ Visits(s, url) >= MaxRepeats
       \/ Cardinality({s[i] : i \in DOMAIN s}) >= MaxRedirects

LoopLimit_LeftToStdlib(s, url) == FALSE     \* mutant: recorded before the limit

LoopLimit(s, url) ==
    /\ s # <<>>
    /\ \/ Visits(s, url) >= MaxRepeats
       \/ Cardinality({s[i] : i \in DOMAIN s}) >= MaxRedirects

HopRefused(r, url) ==
    \/ OffPolicy(tool[r], url)
    \/ OffCeiling(tool[r], url)
    \/ SchemeOf[url] # SchemeOf[Last(issued[r]).url]
    \/ LoopLimit(Redirected(issued[r]), url)

HopLabel(t, url) ==
    IF ~OffPolicy(t, url) /\ OffCeiling(t, url) THEN "server-policy" ELSE "none"

------------------------------------------------------------------------------
NoAudit == [decision |-> "none", limit |-> "none", hops |-> <<>>,
            fetched |-> FALSE, bytes |-> 0, truncated |-> FALSE]

Denied(limit, hops) == [NoAudit EXCEPT !.decision = "denied", !.limit = limit,
                                       !.hops = hops]

FetchFailed(hops) == [NoAudit EXCEPT !.decision = "allowed", !.hops = hops]

Delivered(hops, bytes, truncated) ==
    [decision |-> "allowed", limit |-> "none", hops |-> hops,
     fetched |-> TRUE, bytes |-> bytes, truncated |-> truncated]

Init ==
    /\ server \in BOOLEAN
    /\ strict \in BOOLEAN
    /\ strict => Granted # {}
    /\ Meter!Init
    /\ pc = [r \in Runs |-> "new"]
    /\ tool \in [Runs -> Tools]
    /\ ask = [r \in Runs |-> Silent]
    /\ slot = [r \in Runs |-> NoSlot]
    /\ issued = [r \in Runs |-> <<>>]
    /\ opened = [r \in Runs |-> 0]
    /\ followed = [r \in Runs |-> <<>>]
    /\ audit = [r \in Runs |-> NoAudit]
    /\ sent = [r \in Runs |-> 0]

Goto(r, place) == pc' = [pc EXCEPT ![r] = place]

Answer(r, entry) ==
    /\ audit' = [audit EXCEPT ![r] = entry]
    /\ Goto(r, "done")
    /\ UNCHANGED <<server, strict, tool, ask>>

(* An untrusted component runs in a worker process. *)
Isolated(t) == t \in Components \ Trusted

IsolationConflict_Ignored(t) == FALSE   \* mutant: egress is silently dropped

IsolationConflict(t) == Isolated(t) /\ HasPolicy(t)

------------------------------------------------------------------------------
(***************************************************************************)
(* execute: the run, and what its guest leaves behind.                     *)
(***************************************************************************)
Refuse(r) ==
    /\ pc[r] = "new"
    /\ IsolationConflict(tool[r])
    /\ Goto(r, "raised")
    /\ UNCHANGED <<server, strict, meterVars, tool, ask, slot, fetchVars>>

(* sandbox.run raises: the sandbox is cleaned up, nothing is mediated. *)
RunRaises(r) ==
    /\ pc[r] = "new"
    /\ ~IsolationConflict(tool[r])
    /\ Goto(r, "raised")
    /\ UNCHANGED <<server, strict, meterVars, tool, ask, slot, fetchVars>>

RunReturns(r) ==
    /\ pc[r] = "new"
    /\ ~IsolationConflict(tool[r])
    /\ \E a \in Asks : ask' = [ask EXCEPT ![r] = a]
    /\ Goto(r, "ran")
    /\ UNCHANGED <<server, strict, meterVars, tool, slot, fetchVars>>

(* The worker removes its sandbox directory before it answers. *)
ArtifactSeen(r) == ask[r] # Silent /\ ~Isolated(tool[r])

LacksGrant(t) == t \notin Granted /\ strict

Mediated(r) ==
    /\ pc[r] = "ran"
    /\ ArtifactSeen(r)
    /\ ~LacksGrant(tool[r])
    /\ HasPolicy(tool[r])

(* No artifact, or no surface at all: the documented silence. *)
StayQuiet(r) ==
    /\ pc[r] = "ran"
    /\ \/ ~ArtifactSeen(r)
       \/ ~LacksGrant(tool[r]) /\ ~HasPolicy(tool[r])
    /\ Answer(r, NoAudit)
    /\ UNCHANGED <<meterVars, slot, issued, opened, followed, sent>>

DenyUngranted(r) ==
    /\ pc[r] = "ran"
    /\ ArtifactSeen(r)
    /\ LacksGrant(tool[r])
    /\ Answer(r, Denied("grant-required", <<>>))
    /\ UNCHANGED <<meterVars, slot, issued, opened, followed, sent>>

(* json.loads recurses: RecursionError is no ValueError, and passes. *)
RequestRaises(r) ==
    /\ Mediated(r)
    /\ ask[r] = Nested
    /\ Goto(r, "raised")
    /\ UNCHANGED <<server, strict, meterVars, tool, ask, slot, fetchVars>>

(* The artifact is refused, does not parse, or fails the tool's own policy. *)
DenyRequest(r) ==
    /\ Mediated(r)
    /\ \/ ask[r] \in {Unreadable, Malformed}
       \/ ask[r] \in Requests /\ ~Admits(Policy(tool[r]), ask[r])
    /\ Answer(r, Denied("none", <<>>))
    /\ UNCHANGED <<meterVars, slot, issued, opened, followed, sent>>

DenyByCeiling(r) ==
    /\ Mediated(r)
    /\ ask[r] \in Requests
    /\ Admits(Policy(tool[r]), ask[r])
    /\ ~ClearsCeiling(tool[r], ask[r])
    /\ Answer(r, Denied("server-policy", <<>>))
    /\ UNCHANGED <<meterVars, slot, issued, opened, followed, sent>>

------------------------------------------------------------------------------
(***************************************************************************)
(* record_call: the meter hands a slot, refuses at one of its gates, or    *)
(* cannot be read.                                                         *)
(***************************************************************************)
Charge(r) ==
    /\ Mediated(r)
    /\ Permitted(tool[r], ask[r])
    /\ tool[r] \in Granted
    /\ \E n \in Slots[tool[r]] :
            /\ Meter!HandSlot(tool[r], n)
            /\ slot' = [slot EXCEPT ![r] = <<tool[r], n>>]
    /\ Goto(r, "charged")
    /\ UNCHANGED <<server, strict, closed, tool, ask, fetchVars>>

DenyByBook(r) ==
    /\ Mediated(r)
    /\ Permitted(tool[r], ask[r])
    /\ tool[r] \in Granted
    /\ \E limit \in {"gate", "ledger"} : Answer(r, Denied(limit, <<>>))
    /\ UNCHANGED <<meterVars, slot, issued, opened, followed, sent>>

Issue(r, request) ==
    /\ issued' = [issued EXCEPT ![r] = Append(@, request)]
    /\ Goto(r, "opening")

FetchUnderGrant(r) ==
    /\ pc[r] = "charged"
    /\ Meter!SpendSlot(slot[r])
    /\ Issue(r, ask[r])
    /\ UNCHANGED <<server, strict, closed, tool, ask, slot,
                   opened, followed, audit, sent>>

FetchUnderPolicy(r) ==
    /\ Mediated(r)
    /\ Permitted(tool[r], ask[r])
    /\ tool[r] \notin Granted
    /\ Issue(r, ask[r])
    /\ UNCHANGED <<server, strict, meterVars, tool, ask, slot,
                   opened, followed, audit, sent>>

------------------------------------------------------------------------------
(***************************************************************************)
(* execute_request.  A request is issued before its name is resolved and   *)
(* its connection opened.  At a redirect the stdlib asks the handler,      *)
(* applies its own limits, and issues the next request with method GET.    *)
(***************************************************************************)
OpenRequest(r) ==
    /\ pc[r] = "opening"
    /\ opened' = [opened EXCEPT ![r] = Len(issued[r])]
    /\ Goto(r, "fetching")
    /\ UNCHANGED <<server, strict, meterVars, tool, ask, slot,
                   issued, followed, audit, sent>>

FollowRedirect(r) ==
    /\ pc[r] = "fetching"
    /\ \E url \in Urls :
          LET trail == Append(followed[r], url)
          IN  /\ ~HopRefused(r, url)
              /\ followed' = [followed EXCEPT ![r] = trail]
              /\ IF StdlibStops(Redirected(issued[r]), url)
                 THEN Answer(r, FetchFailed(trail)) /\ UNCHANGED issued
                 ELSE /\ Issue(r, [url |-> url, method |-> "GET"])
                      /\ UNCHANGED <<server, strict, tool, ask, audit>>
    /\ UNCHANGED <<meterVars, slot, opened, sent>>

RefuseRedirect(r) ==
    /\ pc[r] = "fetching"
    /\ \E url \in Urls :
          /\ HopRefused(r, url)
          /\ Answer(r, Denied(HopLabel(tool[r], url), Append(followed[r], url)))
    /\ UNCHANGED <<meterVars, slot, issued, opened, followed, sent>>

(* A blocked address, a URL http.client refuses, a broken response, or the *)
(* deadline of the read loop: nothing delivered.                           *)
RefuseFetch(r) ==
    /\ \E limit \in {"ssrf", "transport", "timeout"} :
          /\ \/ pc[r] = "opening" /\ limit # "timeout"
             \/ pc[r] = "fetching" /\ limit # "ssrf"
          /\ Answer(r, Denied(limit, followed[r]))
    /\ UNCHANGED <<meterVars, slot, issued, opened, followed, sent>>

(* URLError, OSError or ValueError: no name, no connection, an HTTP error. *)
FailFetch(r) ==
    /\ pc[r] \in {"opening", "fetching"}
    /\ Answer(r, FetchFailed(followed[r]))
    /\ UNCHANGED <<meterVars, slot, issued, opened, followed, sent>>

Deliver(r) ==
    /\ pc[r] = "fetching"
    /\ \E size \in 0..MaxBody :
          LET limit == ByteLimit(tool[r])
              total == Received(size, limit)
          IN  /\ sent' = [sent EXCEPT ![r] = size]
              /\ Answer(r, Delivered(followed[r],
                                     IF total > limit THEN limit ELSE total,
                                     total > limit))
    /\ UNCHANGED <<meterVars, slot, issued, opened, followed>>

(* A body json.loads fails on with RecursionError, or with the ValueError  *)
(* of an integer too long: neither is caught, and mediate is left.         *)
DeliveryRaises(r) ==
    /\ pc[r] = "fetching"
    /\ \E size \in 1..MaxBody : sent' = [sent EXCEPT ![r] = size]
    /\ Goto(r, "raised")
    /\ UNCHANGED <<server, strict, meterVars, tool, ask, slot,
                   issued, opened, followed, audit>>

(* Revoked, expired, or a torn book. *)
Close ==
    /\ \E g \in Granted \ closed : closed' = closed \cup {g}
    /\ UNCHANGED <<server, strict, handed, fetched, pc, tool, ask, slot, fetchVars>>

Rest ==
    /\ \A r \in Runs : pc[r] \in {"done", "raised"}
    /\ UNCHANGED vars

Steps(r) ==
    \/ Refuse(r) \/ RunRaises(r) \/ RunReturns(r)
    \/ StayQuiet(r) \/ DenyUngranted(r)
    \/ RequestRaises(r) \/ DenyRequest(r) \/ DenyByCeiling(r)
    \/ Charge(r) \/ DenyByBook(r)
    \/ FetchUnderGrant(r) \/ FetchUnderPolicy(r)
    \/ OpenRequest(r) \/ FollowRedirect(r) \/ RefuseRedirect(r)
    \/ RefuseFetch(r) \/ FailFetch(r) \/ Deliver(r) \/ DeliveryRaises(r)

Next == (\E r \in Runs : Steps(r)) \/ Close \/ Rest

Spec == Init /\ [][Next]_vars

------------------------------------------------------------------------------
TypeOK ==
    /\ server \in BOOLEAN /\ strict \in BOOLEAN
    /\ handed \subseteq Granted \X Nat
    /\ fetched \subseteq handed
    /\ closed \subseteq Granted
    /\ pc \in [Runs -> {"new", "ran", "charged", "opening", "fetching",
                        "done", "raised"}]
    /\ tool \in [Runs -> Tools]
    /\ ask \in [Runs -> Asks]
    /\ slot \in [Runs -> (Granted \X Nat) \cup {NoSlot}]
    /\ issued \in [Runs -> Seq(Requests)]
    /\ opened \in [Runs -> Nat]
    /\ followed \in [Runs -> Seq(Urls)]
    /\ audit \in [Runs -> [decision : {"none", "allowed", "denied"},
                           limit : Labels, hops : Seq(Urls), fetched : BOOLEAN,
                           bytes : Nat, truncated : BOOLEAN]]
    /\ sent \in [Runs -> Nat]

(***************************************************************************)
(* Whatever the origin answers, every request issued for a run, hops of  *)
(* its redirects included, lies within the tool's policy and the ceiling,  *)
(* and keeps the scheme of the first (egress_sidecar.py:381-396).          *)
(***************************************************************************)
HopsInsideAuthority ==
    \A r \in Runs : \A i \in DOMAIN issued[r] :
        LET url == issued[r][i].url
        IN  /\ \A p \in {Policy(tool[r])} \cup Ceiling(tool[r]) : url \in p.urls
            /\ SchemeOf[url] = SchemeOf[issued[r][1].url]

(***************************************************************************)
(* A tool with a grant, and under the strict posture every tool, sends a   *)
(* request only after a slot of its grant was charged, one that no other   *)
(* run was charged (engine.py:372-377, egress_sidecar.py:848-855).         *)
(***************************************************************************)
EveryFetchPaid ==
    \A r \in Runs : issued[r] # <<>> /\ (tool[r] \in Granted \/ strict) =>
        /\ slot[r] \in fetched
        /\ slot[r][1] = tool[r]
        /\ \A q \in Runs \ {r} : slot[q] # slot[r]

(***************************************************************************)
(* A slot is charged only for a request that both allowlists admit: what a *)
(* policy refuses spends no call of the grant (egress_sidecar.py:848-861). *)
(***************************************************************************)
SlotsBuyPermittedRequests ==
    \A b \in handed : \E r \in Runs :
        /\ slot[r] = b
        /\ ask[r] \in Requests
        /\ \A p \in {Policy(tool[r])} \cup Ceiling(tool[r]) : Admits(p, ask[r])

(***************************************************************************)
(* An entry that says "allowed" lists exactly the redirects the stdlib was *)
(* given, in order, none that the loop limits stopped; all of them opened, *)
(* but for the last one of a fetch that failed                             *)
(* (egress_sidecar.py:431-448, 728-745, 751-760).                          *)
(***************************************************************************)
AuditTellsHops ==
    \A r \in Runs : audit[r].decision = "allowed" =>
        /\ audit[r].hops = Redirected(issued[r])
        /\ opened[r] + 1 >= Len(issued[r])
        /\ audit[r].fetched => opened[r] = Len(issued[r])

(***************************************************************************)
(* A delivered body stays within the limit of every wall, and the response *)
(* says truncated exactly when the origin had sent more                    *)
(* (egress_sidecar.py:583-588).                                            *)
(***************************************************************************)
TruncationTold ==
    \A r \in Runs : audit[r].fetched =>
        /\ \A p \in {Policy(tool[r])} \cup Ceiling(tool[r]) : audit[r].bytes <= p.bytes
        /\ audit[r].truncated <=> audit[r].bytes < sent[r]

(***************************************************************************)
(* A guest that asked gets an audited answer wherever its tool has an      *)
(* egress surface, a missing grant under the strict posture included;      *)
(* isolation never drops the request silently (engine.py:325-331, 379-386).*)
(* A run is left unaudited in two ways only: by a request nested too deep, *)
(* which cost and sent nothing, or by a body received to the end of a      *)
(* fetch that was charged where a grant covers the tool.                   *)
(***************************************************************************)
HasSurface(r) == HasPolicy(tool[r]) \/ (strict /\ ~Isolated(tool[r]))

EveryAskAnswered ==
    \A r \in Runs :
        /\ pc[r] \in {"done", "raised"}
        /\ ask[r] # Silent
        /\ HasSurface(r)
        /\ audit[r].decision = "none"
        => /\ pc[r] = "raised"
           /\ \/ ask[r] = Nested /\ slot[r] = NoSlot /\ issued[r] = <<>>
              \/ /\ issued[r] # <<>> /\ opened[r] = Len(issued[r])
                 /\ sent[r] > 0
                 /\ tool[r] \in Granted => slot[r] \in fetched

------------------------------------------------------------------------------
(***************************************************************************)
(* The inductive invariant.  A run that has not returned asked nothing;    *)
(* before it is charged a run has no slot and                              *)
(* has issued nothing, and every request before the one being opened was   *)
(* opened; a slot belongs to one run, whose request both walls admit, and  *)
(* every slot handed out to some run; while a run fetches, the redirects   *)
(* it recorded are those it issued; and a run that was let through is not  *)
(* one whose isolation hides its artifact.                                 *)
(***************************************************************************)
NothingYet ==
    \A r \in Runs :
        /\ pc[r] = "new" => ask[r] = Silent
        /\ pc[r] \in {"new", "ran"} => slot[r] = NoSlot
        /\ pc[r] \in {"new", "ran", "charged"} => issued[r] = <<>>
        /\ pc[r] = "charged" => slot[r] # NoSlot
        /\ pc[r] \in {"opening", "fetching"} => issued[r] # <<>>

OpenedInOrder ==
    \A r \in Runs :
        /\ issued[r] = <<>> => opened[r] = 0
        /\ pc[r] = "opening" => Len(issued[r]) = opened[r] + 1
        /\ pc[r] = "fetching" => Len(issued[r]) = opened[r]

SlotsOwned ==
    \A r \in Runs : slot[r] # NoSlot =>
        /\ slot[r] \in handed
        /\ slot[r][1] = tool[r]
        /\ Permitted(tool[r], ask[r])
        /\ \A q \in Runs \ {r} : slot[q] # slot[r]

SlotsTraced == \A b \in handed : \E r \in Runs : slot[r] = b

TrailTrue ==
    \A r \in Runs : pc[r] # "done" =>
        /\ followed[r] = Redirected(issued[r])
        /\ audit[r] = NoAudit

ConflictsRefused ==
    \A r \in Runs : pc[r] \notin {"new", "raised"} => ~IsolationConflict(tool[r])

EgressInv ==
    /\ TypeOK
    /\ NothingYet
    /\ OpenedInOrder
    /\ SlotsOwned
    /\ SlotsTraced
    /\ EveryFetchPaid
    /\ HopsInsideAuthority
    /\ TrailTrue
    /\ AuditTellsHops
    /\ TruncationTold
    /\ ConflictsRefused
    /\ EveryAskAnswered
==============================================================================
