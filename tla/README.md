# Ephemora Cell: TLA+ models and proofs

Ephemora Cell runs WebAssembly tools under limits (fuel, memory, time, egress,
budgets) and leaves evidence of every run. What is modelled here is what a unit
test exercises least: the books and pools that threads and processes share,
the gates and timers around one run, the session with a client that may stop
anywhere, and the signatures by which one party believes another.

`PROJECT.json` lists the components, the runs, the source lines of every
definition, the hazards, the findings and the theorems. A theorem module's
leaves are checked by TLAPS, everything else by TLC.

## 1. The system

Paths are relative to `src/`.

### Components

| Component | State | Operations | What makes it correct |
|---|---|---|---|
| Append-only log, `ephemora_cell/_appendlog.py` | a file of lines, an exclusive `flock` | `decide_and_append` (lock, read the tail, decide, one `os.write`, `fsync`, unlock), `read_tail`, `read_lines` | one decision at a time; the lock is released on every path |
| Grant ledger, `ephemora_cell/grant_ledger.py` | call, revoke and refuse lines per grant | `record_call`, `revoke`, `state`, `verify` | no slot of a grant spent twice, never beyond `max_calls`, nothing after a revocation, nothing outside the window, a damaged book refuses |
| Tenant book, `ephemora_cell/tenant.py` | admit, settle, expire and refuse lines, each sealed with totals | `admit`, `settle`, `expire`, `usage` | settled plus reserved within the caps; an admission ends once; a returned run is billed |
| Execution ledger, `ephemora_cell/ledger.py` | a hash chain of run records | `append`, `head`, `verify_ledger` | one position per entry, a rewritten or dropped entry shows |
| Engine pool, `ephemora_cell/engine_pool.py` | engines by configuration in LRU order, leases, one ticker thread and one lock per engine | `engine_for`, `retain`, `release`, `cached_module_data`, `locked`, `close` | an engine in use stays pooled and ticks; a module is touched by one thread at a time |
| WASI sandbox, `ephemora_cell/wasi_runtime.py`, and component sandbox, `wasi_02.py` | configuration, sandbox directories | `run` (admission, gates, `_execute`, settlement), `cleanup` | the gates hold of the guest that runs; the result tells what ran and why it ended; guests end, but for one that stays in a host call; every run is billed |
| Process isolation, `ephemora_cell/process_executor.py`, `process_worker.py` | a worker process, a CPU watchdog | `run_isolated`, `run_worker` | every worker ends in exactly one verdict, whatever order its end, its report and its killing come in |
| Egress mediation, `ephemora_cell/egress_sidecar.py`, `ephemora_cell_mcp/engine.py` | a request artifact, policies, grants | `mediate`, `mediate_with_grant`, `_mediate_egress` | a fetch only within the policy, and charged first; an audit entry that lists the hops |
| Grant trust, `ephemora_cell/grant_trust.py`, `load_egress_grants`, `ephemora_cell_mcp/__main__.py` | the trust root, the grants directory, what a server has read of both | `load`, `verify_envelope`, `sign_grant_document`, the start of a server | only authorities signed by a key whose window is open; all grants of the directory or none |
| Execution report and attestation, `ephemora_cell/execution_report.py` | none; reports, records and envelopes are handed out | `sign`, `to_dsse`, `verify_chain`, `verify_execution_attestation` | a receipt that is accepted is that of the run it is shown for |
| State store, `ephemora_cell/state.py` | values by name, a running total | `set`, `get`, `delete`, `clear` | totals match the values, caps hold |
| MCP session, `ephemora_cell_mcp/server.py`, `protocol.py`, `transport.py` | bytes read ahead, handshake flag, registry | `serve`, `read_line`, `handle_line` | lines arrive whole; an answer for each request, in order; nothing served before the handshake but stateless requests; a stale list is announced |
| Governed tool loading, `ephemora_cell_mcp/server.py`, `tool_registry.py` | requests directory, tools directory, the registry | `process_tool_requests`, `_scan` | only signed pairs of manifest and module register; accepted tools are offered |
| Builder, command line, profiles, inspection | none across calls | front ends | not modelled, see section 7 |

### How they interact

* The three books call `AppendLog.decide_and_append` with a `decide` function.
  That function replays the whole book (grants, tenants) or reads the last line
  (ledger) while the lock is held. The books share no state with each other.
* `WASISandbox.run` brackets `_execute` with `admit` and `settle`. Between the
  two it holds no lock: other runs of the tenant, and the operator's `expire`,
  come in between.
* `_execute` calls the pool in a sequence (`engine_for`, `retain`,
  `cached_module_data`, `locked`, `release`), each its own critical section.
* `mediate_with_grant` calls `record_call` and, when allowed, performs the fetch
  after the lock is released.
* `run` reads the module file several times: in the profile gate, the blockade,
  the isolation gate, the dispatch, the load and the stamp of the result. With
  isolation the parent checks it, and the worker checks it again.
* `serve` calls `process_tool_requests` before each message; the directories
  it works on belong to the host and may be shared with other servers.
* The server's egress authority is what `load_egress_grants` made of the trust root
  and the grants directory when it started; operators edit both meanwhile. The keys
  that sign grants may sign receipts too, and callers check those with
  `verify_execution_attestation`.

### What is hard

Interleavings of callers around the `flock` and around the pool's locks;
clocks sampled before a lock and compared behind it; short writes, failing
writes, failing `fsync`, and processes that die between decision and write;
reservations that lapse while their run executes; an operator who expires what
is about to be settled; passes that fail halfway through a directory of
proposals; files that change between a gate and the load; timers, watchers and
kills that race the end of a guest; causes that are read off error texts; guests that
sit in a host call, where no epoch is looked at; reads that cut a client's stream at any
byte; signatures of one kind shown as another. The list with its lines is `hazards` in `PROJECT.json`.

## 2. Modules

| Module | Models | Composes |
|---|---|---|
| `AppendLog` | `_appendlog.py` | |
| `CallMeter` | abstract: slots handed out once and spent once; implemented by `GrantLedger`, used by `EgressMediation` | |
| `GrantLedger` | `grant_ledger.py`, `mediate_with_grant` as the caller | extends `AppendLog`, refines `CallMeter` |
| `TenantBook` | `tenant.py`, the billing of `WASISandbox.run` | extends `AppendLog` |
| `LedgerChain` | `ledger.py` | extends `AppendLog` |
| `EnginePool` | `engine_pool.py`, the leases of `_execute` | |
| `ToolInbox` | `process_tool_requests`, the registry scan | |
| `EgressMediation` | `execute` and `_mediate_egress` of the MCP engine, the fetch and its redirects in `egress_sidecar.py` | instantiates `CallMeter` as the grant book |
| `ModuleGate` | the decisions of `run` as operators over the call and over what the module path holds at the moment it is read | |
| `RunPath` | `run` and `_execute`, `wasi_02.py`, `process_executor.py`, `process_worker.py` | extends `ModuleGate` |
| `McpSession` | `transport.py`, `serve`, `handle_message` and its handlers | |
| `Envelopes` | the two forms of a signed document and their verification, `execution_report.py` | |
| `GrantTrust` | `grant_trust.py`, `load_egress_grants`, the start of `__main__.py` | extends `Envelopes` |
| `Receipts` | receipts, pre-execution records and their verification, beside the authority of a server | extends `GrantTrust` |
| `MC...` | constants of the TLC instances | extends the module named |
| `Books_proofs` | proofs about `TenantBook` and `LedgerChain`, with the lemmas on logs and on folds that they share | extends both; each specification is about a log of its own |
| `GrantLedger_proofs`, `EnginePool_proofs`, `ToolInbox_proofs`, `EgressMediation_proofs`, `RunPath_proofs`, `McpSession_proofs`, `Receipts_proofs` | proofs | extend the module named |

### AppendLog

`file` is the sequence of lines, `cut` says that the last line lacks its line
break, `holder` is the holder of the `flock`. A line is a record of the book
that extends the module, or `Damaged` when its bytes do not parse. A write onto
a cut line glues the two together, and both become one damaged line: this is
what `O_APPEND` does after a prefix was stored. The host's faults are a constant
of an instance: `short_write` (`os.write` stores a prefix, and the code does
not look at its result), `write_error` (nothing is stored, `OSError`),
`fsync_error` (everything is stored, `OSError`), `crash` (the process dies, with
any prefix of its line stored; the kernel drops the lock). The module defines no
`Next`: the books use its operators in their own actions.

### GrantLedger

Each caller is a thread or a process. The steps of `record_call` are
`StartCall` (the clock is sampled), `Acquire` (the `flock`), `DecideCall` (replay
and gates) or `RefuseTampered` (the replay raised), `WriteApproval` or
`WriteRefusal` or `WriteFails`, then `Fetch` (the approval is spent). `revoke`
is `StartRevoke`, `Acquire`, `DecideRevoke`, `WriteRevoke` or `WriteFails`. `Die`
ends a caller anywhere. `Verdict` has the gates in the order of the code:
revoked, not before, expired, over the cap. `Readable` is the tamper check of the
replay: no damaged line, and each counted line repeats the count the book
implies. `handed`, `fetched` and `acknowledged` are history variables.

### TenantBook

`run()` with a tenant is `StartRun`, `Acquire`, `DecideAdmit`, `WriteAdmit` or
`WriteRefusal`, then `ExecuteReturns` (`settle` follows) or `ExecuteRaises` (`expire`
follows), again through the lock. `StartExpire` is the operator, who may choose an
admission whose run is still executing. `Replay` is a recursive function over the
lines: `Replayed` folds one of them into the account of its tenant and compares the
line's totals, and the account is `Damaged` from the first line that does not parse or
does not seal. `Active` leaves out reservations whose time to live is over. An id is its
writer and the length of the book when it was drawn: like a `uuid4`, it is never drawn
twice. The
three charge dimensions are treated alike by the code, so one capped dimension,
`units`, stands for them; the number of runs has its own cap. `Reserve` is what
`reservation()` returns; a charge may be larger (wall time measured around the
whole call, dimensions without a limit). `CapsAt` says what remains of a cap then:
`LateSettles` and `LateUnits` count the runs that outlived their reservation, and what
a run consumed beyond its own.

### LedgerChain

`append` is `StartAppend`, `LockChain`, `DecideEntry` or `DecideEntryRaises`, then
`WriteEntry` or `WriteEntryFails`; `DieInAppend` ends it anywhere. `acknowledged` has the
entries that `append` returned. `Sealing` builds the next entry from the last line; `ChainHolds` is `chain_break`.
SHA-256 is taken as injective: a digest is the set of what it is the digest of, and
`GENESIS_PREV_HASH`, which no entry has, is the empty one. Signatures are left out:
without a key the chain proves linkage only, and that is what is checked.

### EnginePool

The pool is the set `entries` with `older`, the order of use that the code keeps as the
order of an `OrderedDict`: an engine that is asked for becomes younger than all others.
`Evictions` is what the loop of `_evict_locked` removes in all. One action per locked
section. A run is `EngineForHit` or `EngineForMiss` (with the
evictions), then `LookUp` and `Retain` as two steps, because `retain` takes the
lock twice; then `LookUp`, `Enter`, `Compile`, `LookUp`, `Enter`, `Instantiate`,
`Finish`, and `LookUp`, `Release`. Where a look-up fails, the run takes the code's
error path. `ticking` is the ticker thread of an engine. A guest may go into a host call
and come back (`HostCall`, `HostCallReturns`); it traps, or returns, only outside of one.
`DeadlineFires` is what is assumed of it: it comes to an end while its engine ticks, if it
is outside a host call again and again.

### ToolInbox

A proposal stands for its manifest and for the module it was signed for, so two
files match when they come from the same proposal. Each atomic write and the
`unlink` are one step of their own (`PublishSidecar`, `PublishModule`, `Consume`), and
another server may run between any two. `PassRaises` is the `OSError` that leaves
`process_tool_requests`; `RescanFails` is the rescan that raises.

### EgressMediation

A run goes from `new` over `ran` (the guest has returned and may have left an
artifact) to `done` with an audit entry. `Refuse` is the conflict of egress and
isolation, `RunRaises` a run without mediation. The branches of `_mediate_egress` and
`mediate_with_grant` are the actions `StayQuiet`, `DenyUngranted`, `DenyRequest`,
`DenyByCeiling`, `DenyByBook` and `Charge`, in the order of the code; `Policy` is what
the tool may do, `Ceiling` the server-wide policy behind a grant. `Charge` and
`FetchUnderGrant` take a slot out of `CallMeter` and spend it: the book is used by
its abstract specification, which `GrantLedger` implements, so locks and faults
need not be repeated here. A request is `issued` to the stdlib and then `opened`
(`OpenRequest`), two steps between which the name may not resolve or the connection may
fail (`FailFetch`, `RefuseFetch` at `opening`). While a run is `fetching` the origin
chooses: redirect anywhere (`FollowRedirect`, which records the hop and issues it, and
`RefuseRedirect`), break (`FailFetch`, `RefuseFetch`) or answer with a body of any length
(`Deliver`). `followed` is what the redirect handler recorded. The stdlib's own loop limit
(`StdlibStops`) comes after the handler's (`LoopLimit`) and never acts while the two
agree. Two steps leave the mediation by an exception nobody catches there: a request nested
deeper than `json.loads` recurses (`RequestRaises`), and a body `json.loads` fails on with
another exception than the two expected (`DeliveryRaises`), which comes after charge and
fetch. A URL stands for a class of URLs: listed by both walls, by the
grant alone, or on another scheme.

### ModuleGate and RunPath

`ModuleGate` has the decisions that depend on the call alone or on the file:
`ResolveAbi`, `SyncBlockadeHolds`, `IsolationRequired`, `ProfileAllows`,
`InspectionAllows`, `Admissible`, `Compiles`. Every place of the code that reads the
file is a step of its own in `RunPath`, and `Replace` may come in between:
`CheckProfile`, `Inspect`, `CheckBlockade`, `CheckIsolation`, `Dispatch`, `Spawn` (the
parent), `WorkerPick`, `Prepare`, `Load`, `Attest`. A module is known by its bytes, so a
pinned digest is the bytes it was computed from. `Redirect` does the same to the
preopened directory, which is read at the start, by the worker, when it is granted,
and when it is opened.

Three variables are the control of the three parties: `pc` of the caller, `work` of the
worker process, `stage` of the execution, wherever it takes place (`guest.where`).
`WallTimer`, `ByteWatch`, `Interrupt` and `InterruptWatch` are the threads beside the guest
(the last two stand for the worker's CPU watchdog or for an event the caller sets);
each raises its flag in `sig` and perhaps the engine's epoch, and `GuestTraps` is what
follows at a safepoint. `GuestReturns`, `GuestFails` and `OutOfFuel` are the guest's own
ends, which may come first, also after a flag was raised; a guest in a `HostCall` ends when
it is back from it. The start function of a module runs while it is instantiated (`Enter`,
stage `"start"`), before the timer of its run is `Started`.

The code does not know why a guest ended: it searches the text of the exception for
`epoch` or `interrupt`, `fuel`, the messages of a memory fault and `exit status`. wasmtime
puts its own message into that text, and the names of the functions on the stack beside it.
So `guest.how` is the end and `guest.names` (any member of `Names`) what the names of the
module add; `Text` is the two together, and `TrapVerdict`, `RaiseVerdict` and
`ComponentVerdict` look for their words in it in the order of the code. An exception that
the inner handler does not catch reaches the outer one with the same text (`Handlers`), and
so does a module that does not compile or instantiate (`Caught`). The outer handler may
then ask a store that was not made for its fuel (`FuelUnread`).

`Classify` turns the end into a status, `WorkerTranslate` turns that into a budget breach,
`ParentReceives` or `ParentTimeout` decide what the caller sees, and
`Attest` stamps the ABI on a result that names none. `WorkerDies` may come at any step of
the worker. `dirs` are the directories on disk, each with the run that made it;
`Prepare`, `WorkerCleanup` and `Cleanup` remove them, and any removal may fail.

### McpSession

The stream is a sequence of pieces, where a piece is what a read may split; the last
piece of a line carries its newline. `ReadChunk` takes any number of pieces,
`TakeLine`, `StartDiscard`, `DiscardChunk` and `EndOfInput` are the paths of `read_line`.
`Framed` says that the pieces ahead of the reader are whole lines: each is followed by the
next piece of its line or by the first piece of the next line.
`Refusal` has the checks before a handler in the order of the code: parse, shape,
notification, handshake, method, version. The handlers are actions of their own:
`Initialize`, `Discover`, `ListTools`, `GetPolicy`, `RejectCall`, `CallRefused`, `CallRuns`,
`CallRaises`; where a handler may answer in several ways, each is possible. `Send`
encodes and writes: `BrokenPipeError` ends `serve` quietly (`stop = "gone"`), any other
exception ends it as `"crash"`. What the acceptance of a proposal requires is in
`ToolInbox`, what a run does in `RunPath`; here a pass installs some proposals or none, and
a run has ended in some way. The client writes, hangs up (perhaps in the middle of a
line) or reads no more; nothing else is assumed of it.

### Envelopes, GrantTrust and Receipts

A signature names its key and what it covers; the covered text is the pair of payload
type and payload (`Pae`), or a native record with its algorithm. `signed` is the history
of the signatures that holders of keys have made: whoever has no key can copy
a signature and cannot make one. `GrantTrust` starts a server in the steps of the code:
`Start` reads the root, `Scan` lists the directory, `ReadFile` verifies one file at the
instant of its turn, `Serve` puts all grants in force or `ServeRefused` ends the
process. Between any two, operators issue (`Issue`, the command of the package),
sign documents with a script of their own (`SignByHand`), edit envelopes and merge their
signatures (`Edit`), remove files or put other files there (`Discard`), and replace the
root (`EditRoot`).

`Receipts` adds the evidence: `Call` answers with a receipt, `CallWithoutReceipt` is a report
that has no canonical form, `Attest` and `AttestEnveloped` sign a record before a run in
its native form or in an envelope, `RunAttested` makes the run and links its
report to the record. `CopyReceipt` puts a receipt into the grants directory. Whoever
shows evidence to a caller may edit it: `Presented`, `Shown`, `ShownPres` and
`ShownLinked` are what a caller may be shown in a state, and the properties
quantify over them. `CallerAccepts` reads a clock that may be off by `Drift`.

## 3. Runs

### Passing

| Run | Instance | Shows |
|---|---|---|
| `grant_cap` | 2 callers; a grant capped at 2 that closes at time 1, an uncapped one that opens at 1; every fault; 3 lines | slots are spent once and within the cap, also after short writes and deaths; revocations stick; call lines lie in the window, a deleted call line shows, an approval that was lost shows (`BookIsEvidence`); the lock is released; the book implements `CallMeter`; the inductive invariant of the proofs holds |
| `tenant_runs` | 2 callers; one tenant capped at 1 run, one at 3 units; charges of twice the reservation; every fault; time to live 1 | settled plus reserved stay within the caps but for late settles and overdrawn reservations; an admission ends once (`TenantInv`); returned runs are billed; a dropped charge shows; a torn book bills nothing |
| `ledger_chain` | 3 writers, 2 records, 4 lines, every fault | the chain verifies unless a line is torn, returned entries are chained (`ChainInv`); a rewritten or dropped entry before the head breaks it |
| `pool_runs` | 2 threads, 3 configurations, a pool of 1, 3 engines ever built, one thread may close the pool | lease counts are exact and modules are used by one thread at a time (`PoolInv`), executing guests have a managed, ticking engine and end unless they stay in a host call, the pool outgrows its limit only while all of it is live |
| `egress_walls` | 2 concurrent runs; a granted tool, an ungranted one, an untrusted component; 3 classes of URLs, 2 slots, with and without server policy and strict posture | requests and redirects stay within grant and ceiling, every metered request has a slot of its own and the audit lists the hops that were issued, of which the last alone may not have been opened (`EgressInv`); refused requests cost none; cut bodies say so; who asks is answered, or its run raised over a request that cost nothing or a body that was paid for (`EveryAskAnswered`) |
| `inbox_install` | 2 servers, 2 signed proposals of one name and an unsigned one, failing writes, failing rescans, restarts | only signed, matching pairs register and no module lies without a signed sidecar (`InstallInv`); rejected proposals stay |
| `run_path` | 2 runs on one sandbox instance, 11 calls, a core module, a component and an oversized one, 1 change of the file or the directory | the gates hold of the guest that runs, unless the file changed under `abi="auto"` (`GatesHold`); pinned bytes are the bytes that run (`RunInv`); the result names the ABI and the process of the guest; a verdict has its cause, or a name of the module in the text it was read off; every directory left is accounted for; every run returns, or its guest stays in the host process in a host call or in a start function without fuel and ticker |
| `mcp_session` | any 2 of 18 lines, lines of up to 4 pieces with a limit of 2, 2 changes of the tools | the reader loses and merges nothing, and `serve` ends only for the reasons the code has (`SessionInv`); one answer each, in order; the handshake comes first; refused calls run nothing; a stale list is announced; every request is answered or `serve` has ended |
| `trust` | 2 files, 4 grant documents, 4 roots, 2 keys, one of which signs receipts too, 3 acts, 2 ticks | a server enforces all or nothing (`TrustInv`), and only what a key of its root signed while it was valid; what the issuing command signs loads; receipts that are accepted tell the run; a chain binds a receipt to its record |

### Bounds

Every bound is a constant with a comment in its module. `MaxLines` stops callers
from *starting* when the book could outgrow it, so that whatever was started is
finished. Three lines let a grant of two calls meet a third call, or two calls and
a revocation in every order, and a torn line with a line glued to it and a call
after it. Five lines let a tenant open two admissions and end both, in any order,
with a refusal or an expiry. A cap of 1 or 2 is where all decisions differ, and two
callers suffice for a race on a lock with one winner; the theorems of section 5
remove these bounds for all three books. In the engine pool `MaxEntries` = 3 lets each
configuration be evicted once by another while a third run is between look-up and count. One tick
of time (`MaxTime`) moves a window from open to closed and lets a reservation
lapse, once for each place a caller may stand in. Redirects need `MaxRepeats` = 2
and `MaxRedirects` = 2 to meet each of the two loop limits; bodies of 0 to 2 bytes
meet a limit of 1 byte below, at and above it; two slots for two runs let both
be charged, or one be refused by the book while slots are left.

`run_path` makes two runs so that the second one finds the directories of the first; one
change of the file or of the directory may fall between any two of the readings, and the
theorems are about any number of them. Its calls are the combinations of ABI, posture, gates
and budgets that some decision tells apart, one that is mistyped included. `MCNames` has the
names that change a verdict: none; one that reads as an interrupt with one that reads as an
exit with 0, of which the first decides where both are looked for; and one that reads as the
end of the fuel. Two lines are enough for
`mcp_session`, because what couples lines is the byte stream, the handshake flag, the
registry and the order of the answers, each a relation of two of them; a line of 4
pieces under a limit of 2 can be cut on either side of the limit, and the line behind it
too. In `trust` three acts are a rotation, an issue and an edit in any order around the
steps of a start; two files are a collision of two grants of one tool; time has
an instant before, at and after every bound; a caller that accepts no age
(`MaxAge` = 0, `Skew` = 0) on a clock that is off by one meets the freshness test on
both of its sides. The proofs of section 5 need no such bound.

### Disagreements with the text

Each of these runs states what a comment or a document says, and TLC finds
the code doing something else; `findings` quotes the lines.

| Run | Statement | Behaviour found |
|---|---|---|
| `pool_evicted_live` | "an entry with refcount > 0 is never evicted" | the eviction falls between the two locked sections of `retain` |
| `inbox_accepted` | "Accepted requests are installed ..., the registry rescans" | a later proposal's `OSError` ends the pass before the rescan |
| `mcp_unencodable` | "one bad tool call or malformed line can never kill the server" | an answer with a lone surrogate cannot be encoded, and `serve` catches `BrokenPipeError` alone |

Further disagreements have no run of their own. The first ten are behaviours
of the models, which the passing runs allow for in their properties:

* A redirect is recorded when the handler returns it (`egress_sidecar.py:448`), before its
  name is resolved and its connection opened: when that fails, an entry that says `allowed`
  lists a hop to which no socket was opened, which the comment at 431-436 wants to avoid.
  `AuditTellsHops` allows for the last hop of a fetch that failed.
* An artifact nested deeper than the JSON parser recurses raises `RecursionError` out of the
  mediation (`egress_sidecar.py:460-467`); so may a fetched body, or one with too long an integer
  `ValueError` (781-782), after the charge and the fetch. No entry is written, while
  `engine.py:373-377` says "An ABSENT file is the only case that stays quiet".
  `EveryAskAnswered` names the two exits and what each has cost.
* A trap is a `timeout` when its text has "epoch" or "interrupt" in it (`wasi_runtime.py:1461`,
  `wasi_02.py:440`), and the names of the guest's functions stand in that text, so that a plain
  trap may be reported as one; `docs/recipes.md:351` says "exceeded the wall-clock budget".
  The exit status is read the same way. `VerdictsAreTrue` allows for a name that says so.
* A start function runs while the module is instantiated (`wasi_runtime.py:1402`, `wasi_02.py:343`),
  before the wall-clock timer is started (1418, 359); without fuel and outside the pool
  nothing ends it in the host process, although `README.md:181` says that every execution
  runs under enforced wall-clock limits. `EveryRunReturns` allows for it in `Stuck`.
* The outer handler asks the store for its fuel (`wasi_runtime.py:1619`), which a failure before
  there is a store leaves unbound: `UnboundLocalError` leaves `run` where a result was due
  (`FuelUnread`).
* The clock of a call is read before the lock is waited for (`grant_ledger.py:201`),
  so a call may be approved after `not_after`, although line 13 has cap, window and
  revocation "decided and charged in one critical section". `BookIsEvidence` states
  the window for the clock that was sampled.
* A short write is not noticed (`_appendlog.py:157`): an approval without its call line
  is returned, although `grant_ledger.py:22` says that each approved line records the
  count. The book refuses from then on, and that is what `BookIsEvidence` states.
* A reservation lapses under a guest that runs longer than its time to live
  (`tenant.py:508`), so that two runs are billed under a cap of one; ADR-012 says "a cap
  of N admits exactly N runs". `CapsHoldButForLateSettles` names the exception.
* A redirected POST goes on as GET (`egress_sidecar.py:411`), also where the policy
  lists POST alone, although the handler promises the same policy (line 383).
* A component that runs in the host process gets a temporary sandbox whose capture
  directory nobody removes (`wasi_runtime.py:1164`), and a worker that is killed leaves
  its directories; `cleanup()` knows of neither. `ResidueKnown` lists them.
* `revoke`'s replay reports the first revoke line although `grant_ledger.py:315` says
  that it keeps the earliest: two concurrent revocations may be written in the reverse
  order of their clocks.
* The totals that seal a line of the tenant book cover settled sums only: the line
  of an admission that never settled can be dropped, which `tenant.py:476-478` says
  would show.
* With `abi="auto"` the ABI of the blockade, of the execution and of the stamp are three
  readings of the file: they can drift, which `wasi_runtime.py:769` and 1101 exclude.
  A failure of a worker that started nothing is stamped with an ABI all the same.
* A file that grows after the check of its size is compiled although it is over the cap.
* JSON nested beyond the recursion limit raises inside `handle_line`, which says that
  it never raises (`server.py:309`); the request goes unanswered. In the model
  such a line is `"deep"`.
* `serve` drops the `error` of a report of `process_tool_requests` (`server.py:845`, 887),
  which the comments there have surfaced.
* The refusal of an oversized line to a client that is gone raises out of `serve`.
* `verify_execution_attestation` compares the report that it is given; whether the tool
  in it is the tool that was called is left to the caller.

The window between `engine_for` and `retain` shows in `pool_evicted_live` too: an
engine may be evicted before it is retained, and the run then fails with
`ValueError`. The model takes that error path; the property that holds is that no
*guest* ever executes on an engine that does not tick.

## 4. Fairness

* `GrantLedger`: weak fairness of the steps inside the critical section. A thread
  that holds the `flock` is not waiting for anything. Nothing is assumed of a
  thread that waits for the lock, since `flock` promises no order, nor that a caller
  calls again. `LockReleased` follows on every path, the raising ones included.
* `EnginePool`: weak fairness of a compilation, and strong fairness of the epoch deadline
  of a guest *whose engine ticks*. The epoch is looked at when a guest executes, at its
  safepoints, and not inside a host call (`SECURITY.md:202-204`,
  `benchmarks/poll_oneoff_wall_hostcall_probe.py:9-17`): the deadline is enabled outside
  host calls only, and nothing is assumed of a guest inside one. It may stay there for ever,
  and `GuestsEnd` says so: a guest ends, or the pool is closed, or the guest is in a host call
  for good. Fairness is strong because a guest may go in and out of host calls: each time it
  is back it meets safepoints. `GuestsEnd` fails if an engine in use stops ticking. `close`
  stops the tickers of live engines, which `GuestsEnd` excepts.
* `RunPath`: weak fairness of the caller's thread, of an execution in its process, of its
  wall-clock timer, and of the parent's `communicate`, which times out. A guest in the host
  process that executes outside host calls again and again traps once its epoch has passed,
  and uses up its fuel if it has any (strong fairness, as above). Nothing is assumed of a
  guest in a host call, which the parent kills in a worker and nobody interrupts in the
  host; nor of a start function, beyond its fuel and the ticker of a pooled engine, which
  is running by then; nor of a worker, which may hang at any step. `EveryRunReturns`
  names what is left: it ends in a result, or the guest is `Stuck`. It fails if the timer is
  started only where an event is watched. A pooled run is taken to have its ticker, for
  `RunPath` has no other user of the pool who may close it.
* `McpSession`: the server's thread goes on. Nothing is assumed of the client, so a
  read that never comes is no answer owed. What `EveryRequestAnswered` owes is an answer
  or the end of `serve`, since the code ends it for a client that is gone.
* The other modules state safety only. `trust` does not check for deadlock: a server
  whose root does not load is down until an operator acts, and the acts are bounded.

## 5. Proofs

Every theorem is proved from the named assumptions on the constants, which TLC
evaluates in every run. None of the bounds of section 3 is used but as a number:
`MaxLines`, `MaxTime` and their like may be any.

### The grant book

`GrantLedger_proofs` proves, for any callers, grants, caps, windows, faults and
bounds:

| Theorem | Statement |
|---|---|
| `TypeCorrect` | `Spec => []TypeOK` |
| `BookInvariant` | `Spec => []BookInv` |
| `SlotsSpentOnce` | `Spec => []NoSlotSpentTwice` |
| `CapHolds` | `Spec => []SlotsWithinCap` |
| `RevocationIsFinal` | `Spec => RevocationSticks` |
| `TornBookFailsClosed` | `Spec => DamageFailsClosed` |
| `TheBookIsEvidence` | `Spec => []BookIsEvidence` |
| `BookImplementsMeter` | `Spec => ImplementsMeter` |

from `LogAssumption`, `GrantAssumption` and `DamagedIsNoLine` (the free lock is no
writer, bounds are numbers or absent, a damaged line is not a line).

The cap is not inductive by itself: a caller that has decided on an approval
must write it before the book changes. `BookInv` adds what makes it so:

* `SectionExclusive`: whoever decides holds the lock;
* `DecisionsCurrent`: an answer that is decided and not yet written is the one the
  book, which is intact, would still give;
* `HandedNumbered`: in an intact book the call lines number at least every slot that
  was ever handed out, so that the next slot is new. In a torn book this fails,
  and it is not needed, because `DecisionsCurrent` lets nobody approve there;
* `InFlightOwned`: approvals not yet spent are pairwise different slots, and none
  was spent;
* `RevocationsKept`: in an intact book an acknowledged revocation is a line.

The proof first reduces every step to what it may do to the file (`StepsFile`:
nothing, or one line landing at the end under the lock), proves that an intact book
comes from an intact book (`FileStepIntact`) and that counts and revocations only
grow (`FileStepMonotone`), then treats each conjunct with one step per action that
may disturb it. Counting a book with one more line is the lemma `CallsAppend`, from
the library's theorems on finite sets. The action properties follow from the
invariant and the fact that a handed slot was a decided approval
(`HandedMeansOpen`).

`BookIsEvidence` needs `EvidenceInv`: an intact book replays, an approval whose line was
lost shows as a torn book, call lines lie in their window. Each holds of a line when it
is decided and is not disturbed by what lands behind it (`CallsPrefix`). That a deleted call
line shows is a fact about any readable file (`DeletionMissed`): the next call line of
the grant repeats a count that is now one too high, by a bijection between the lines
before it (`CallsWithout`).

The refinement maps the slots of a grant to the numbers up to its cap, or to all positive
numbers if it has none, and the closed grants to those that are revoked or do not replay.
A write of an approval is the meter's hand-out (`HandsSlot`: the number is new by
`HandedNumbered`), `Fetch` its spending, and what closes a grant is never undone
(`ClosedStays`). Every other step is a stutter or closes a grant.

### The tenant book

`Books_proofs` proves, for any writers, tenants, caps, reservation, charges, time to live
and faults, and a book of any length:

| Theorem | Statement |
|---|---|
| `TenantBookStands` | `Spec => []TenantInv` |
| `TenantCapsHold` | `Spec => []CapsHoldButForLateSettles` |
| `DroppedChargesShow` | `Spec => []DroppedChargeShows` |
| `ReturnedRunsBilled` | `Spec => []ReturnedRunsAreBilled` |
| `DamageStopsBillingForGood` | `Spec => DamageStopsBilling` |

from `LogAssumption`, `TenantAssumption` and `DamagedIsNoLine` (what does not parse is
neither a line nor an account). The inductive invariant is `BookInv`, the first four
together, each of which needs the others:

* `TypeOK`, in which an unterminated line is a line;
* `DraftsStand`: whoever has decided holds the lock over an intact book, its line may
  still come next (`MayFollow`: it seals the account it was decided on, admits within the
  caps under an id of its own, or ends an admission that is open), and the caps held at
  the instant of the decision. Without that instant the caps are not inductive, for the
  clock moves on between decision and write;
* `AdmissionsAreOwn`: an id names the place of its admission, what is open was admitted,
  what ended was admitted before and is open for nobody. It is what makes a second end
  of an admission impossible, and what lets a settle line free a reservation that stood;
* the properties themselves.

The replay is a recursive function, and the library's induction takes an operator as its
argument, which the provers cannot instantiate. The proofs of what a fold computes therefore
go by the smallest counterexample (`SmallestNumber`): a recursion that yields accounts up
to any length does so at the next (`RecursionExists`), two recursions with the same steps
agree (`RecursionAgrees`), and with that the account of a book with one more line is the
account before it with that line folded in (`ReplayAppend`). Everything else is about one
line. `FollowSound`, `FollowDrops` and `FollowCaps` show that a book continued by a line
that may follow keeps each part:

* a line dropped from the book leaves an account whose sums differ (`FoldedMoves`), and
  the next line of the tenant, which seals the sums that were, makes the replay refuse
  (`FoldedDiffers`); an account that was refused once stays so;
* an admission adds one reservation to those that stood when it was decided, for which the
  decision left room; a settle line in time replaces a reservation that stood by its charge,
  of which at most the reservation is counted; a late one is counted by `LateSettles`; and
  reservations only lapse as the clock moves (`FollowStanding`, `CapsLater`).

A torn line makes every account `Damaged` (`DamageRefuses`), so that nobody decides on it,
and a line that is written lands whole on an intact book or leaves it torn
(`LandedIntact`).

### The execution ledger

`Books_proofs` proves, for any writers, records and faults, and a chain of any length:

| Theorem | Statement |
|---|---|
| `ChainStands` | `ChainSpec => []ChainInv` |
| `TamperingAlwaysShows` | `ChainSpec => []TamperingShows` |

from `LogAssumption`. A chain that verifies is not inductive, for the entry that is about
to be written was built earlier. `DecisionsStand` adds that between its decision and its
write an append holds the lock and its entry is still the one that seals the last line.
A write then appends this entry or leaves a damaged line (`LandedChain`), and the sealing
entry extends a chain that holds (`ChainGrows`). That tampering shows is a fact about every
chain that holds: the entry behind a rewritten one seals the old digest
(`RewritingShows`), the entry behind a dropped one seals an entry that is no longer before
it, as its position tells (`DroppingShows`).

### The engine pool

`EnginePool_proofs` proves, for any finite set of threads, any closers among them, any
configurations and any size of the pool:

| Theorem | Statement |
|---|---|
| `LeasesAreExact` | `Spec => []PoolInv` |
| `GuestsHaveTickers` | `Spec => []RunningEnginesTick` |
| `PoolGrowsOnlyWhenLive` | `Spec => GrowsOnlyWhenLive` |

from `PoolAssumption`. `PoolInv` says that the count of a pooled engine is the number of
runs on it (`RefcountTracksRuns`), that the engine's lock names the run that is at its
modules (`ModulesSerialized`, `LocksHeld`), that pooled engines tick and that `older` is
an order. A run that counts itself on an engine keeps it live (`HolderMeansLive`), so an
eviction leaves it, with its ticker. That the eviction loop removes enough needs an argument
about the order: of the idle engines that stay, one has the fewest older idle ones
(`SmallestNumber`, from the library's well-foundedness of the numbers); all of these were
evicted, and they are as many as the pool had engines too many (`EvictionsSuffice`).

### The tool inbox

`ToolInbox_proofs` proves, for any servers, proposals and names:

| Theorem | Statement |
|---|---|
| `InstallInvariant` | `Spec => []InstallInv` |
| `SignedPairsOnly` | `Spec => []OnlySignedPairsRegister` |
| `ModulesAreSigned` | `Spec => []NoBareModule` |
| `RejectedProposalsStay` | `Spec => RejectedStay` |

from `InboxAssumption` (signed proposals are proposals, and no file is no proposal).
`NoBareModule` is not inductive: `InstallInv` adds that whatever a server is
installing passed the signature check, that from the moment a server goes on to the
module some signed sidecar lies under that name, whichever server overwrote it since,
and that both lie there when the proposal is consumed. Files are only replaced,
never removed, so these facts survive the other servers.

### Egress

`EgressMediation_proofs` proves, for any runs, tools, policies, slots, loop limits and
answers of the origins:

| Theorem | Statement |
|---|---|
| `EgressInvariant` | `Spec => []EgressInv` |
| `NothingLeavesTheWalls` | `Spec => []HopsInsideAuthority` |
| `ChargedBeforeSent` | `Spec => []EveryFetchPaid` |
| `RefusalsCostNothing` | `Spec => []SlotsBuyPermittedRequests` |
| `AuditIsTrue` | `Spec => []AuditTellsHops` |
| `CutsAreTold` | `Spec => []TruncationTold` |
| `NoAskIsDropped` | `Spec => []EveryAskAnswered` |

from `EgressAssumption` (the types of the constants). `EgressInv` adds that a slot that
was handed out belongs to exactly one run, of the tool it names, whose request
both walls admit (`SlotsOwned`, `SlotsTraced`), that a run got past its start only
without a conflict of egress and isolation (`ConflictsRefused`), that requests are opened one
by one as they were issued (`OpenedInOrder`), and that the trail of a run that is
not done is what was issued (`TrailTrue`). The last holds because the handler
mirrors the stdlib's limit before it records a hop: `FollowRedirect` never reaches
the branch in which the stdlib stops. What is recorded need not have been opened: from
`OpenedInOrder` follows that only the last hop may be missing, and none when a body came
back. `NoAskIsDropped` is about the runs without an entry: `RequestRaises` comes before any
charge (`NothingYet`), and `DeliveryRaises` after a body, so that every request was opened
and the slot of a granted tool is spent (`EveryFetchPaid`). That a redirect stays inside needs no more than
the walls being constant during a run and every hop being compared with its
predecessor's scheme.

### The run path

`RunPath_proofs` proves, for any calls, contents of the module file and numbers of runs and
changes:

| Theorem | Statement |
|---|---|
| `RunCorrect` | `Spec => []RunInv` |
| `GatesHoldAlways` | `Spec => []GatesHold` |
| `ResultsTellTheRun` | `Spec => []ResultTellsTheRun` |
| `VerdictsAreTrueAlways` | `Spec => []VerdictsAreTrue` |
| `ResidueKnownAlways` | `Spec => []ResidueKnown` |

from `CallsAssumption`, `NamesAssumption`, `BytesAssumption` and `BoundsAssumption` (the types
of the constants; no file and no digest are no contents; a module may have no telling name). `RunInv` is, beside the types:

* `ControlInv`: who is where. An execution is in the host under a caller in `"exec"`, or in a
  live worker under a caller that waits;
* `GatesInv` and `GuestInv`: what the gates that were passed have established of the file *as
  it is now*. A change of the file keeps this, for it makes a call with `abi="auto"`
  `Unstable`, and for any other call the ABI is the caller's word and not a reading of
  the file. A protected call is bound to the digest that was inspected;
* `ResultInv`: what a result on its way says of the execution it is about;
* `SignalInv`: who raised the epoch, and that a guest that was interrupted saw it raised;
* `VerdictInv`: what the status makes of the end of the guest and of the names in its text: a
  success is a guest that returned, exited with 0, or has a name that says so, and
  likewise for a timeout;
* `ResidueInv`: a directory on disk is the instance's, a live worker's or in one of the lists.

The properties, which speak of the moment a guest runs or a result is returned, follow
from the invariant by the cases of where the guest was.

### The MCP session

`McpSession_proofs` proves, for any client, any lines, any way the stream is cut into reads,
any tools and any length:

| Theorem | Statement |
|---|---|
| `LinesAndAnswersMeet` | `Spec => []SessionInv` |
| `AnswersPairWithLines` | `Spec => []OneAnswerEach` |
| `HandshakeComesFirst` | `Spec => []HandshakeFirst` |
| `OnlyCallsRun` | `Spec => []OnlyServedCallsRun` |
| `StaleListsAreAnnounced` | `Spec => []StaleListAnnounced` |

from `SessionAssumption` (lines have a kind, a method and a size; the tools that are
asked for in vain are no tools; the sizes are numbers). Each step is one of a few sorts (`StepCases`): the client's
line arrives, the stream or the tools change behind the reader, a line is taken, pieces
are read or skipped, something is announced, a line is ignored, a handler answers, the
answer is sent. `SessionInv` is:

* `LinesArriveWhole`: the carry and the unread pieces are `Framed`, also while the rest of an
  oversized line is being skipped. `Framed` relates a piece to its successor alone, so that
  cutting a line off the front (`TakeKeepsRest`), reading more behind the carry
  (`ReadKeepsAll`) and a new line at the end (`LineArrives`) keep it, without an induction;
* `SentForTheTaken`, `AnswerIsDue`: what was sent belongs to lines that were taken, and the answer
  in hand is one message for the line taken last, that may be served now;
* `HandshakeKnown`: the flag is set exactly when the answer to an `initialize` is out or in hand;
* `StopsAreExplained`: `serve` ends on the end of its input with every line taken, on a
  client that is gone, or on an exception over the line taken last.

The other four are kept by each sort of step together with `SessionInv`.

### Receipts and trust

`Receipts_proofs` proves, for any keys, roots, grant documents, files, records and clocks:

| Theorem | Statement |
|---|---|
| `EvidenceInvariant` | `Spec => []EvidenceInv` |
| `TrustInvariant` | `Spec => []TrustInv` |
| `OnlySignedGrantsServe` | `Spec => []ServedGrantsWereSigned` |
| `IssuedGrantsAreAccepted` | `Spec => []IssuedGrantsLoad` |
| `ReceiptsAreEvidence` | `Spec => []AcceptedReceiptsTellTheRun` |
| `ChainsAreTrue` | `Spec => []ChainBindsTheRun` |

from `TrustAssumption`, `DocAssumption` and `ReceiptAssumption` (the first root is a root, no
root is none, documents are grant documents, bounds are numbers). Which keys sign
what is not assumed: the key of the host may be an operator's, and its receipts may
lie in the grants directory. None of the statements is inductive. `EvidenceInv` adds:

* `TypeOK`: every signature in an envelope, on disk or answered, was made by its key.
  Signing adds to `signed`; editing, merging and copying do not (`AlteredSigned`);
* `SignaturesMean`: what a key signed as a report is the report of a run, as an
  enveloped record is one the host enveloped, and as a native report belongs to the record
  it is linked to. The payload types are different, so that a grant is never a
  receipt, although the same key may have signed it;
* `HostEnvelopes`: what the host enveloped is a report or a record, and its envelope;
* `LoadProgress`: at each step of a start, the grants read so far are those of the files
  listed and not left, each verified at the instant it was read and still covered by a
  signature (`StaysVerified`), unless a file was refused.

A step then either adds one signature, whose meaning is what the action just did
(`MeaningStep`), or adds none; and a file that is accepted holds a document that the key
it names signed as a grant (`AcceptedVerified`).

### Model-checked only

* `LockReleased`, `GuestsEnd`, `EveryRunReturns`, `EveryRequestAnswered`: liveness under
  fairness.
* The three disagreements of section 3, which are counterexamples.

## 6. Assumptions of the models

* The wall clock does not go backwards.
* `flock` excludes threads and processes alike (every call opens the file anew),
  and is released when its holder dies.
* A write that stores everything is atomic under the lock; readers without the
  lock are not modelled.
* SHA-256 and signatures are ideal; `uuid4` does not repeat; an `os.replace` is atomic.
* The books are changed by the code alone. Tampering is a property of a file
  that the code has produced (`DeletionShows` in `BookIsEvidence`, `DroppedChargeShows`, `TamperingShows`),
  not an action. Grant files, roots, module files and receipts are changed by anyone.
* Calls on one sandbox instance do not overlap (`docs/recipes.md:239`).
* Two module files with the same bytes are one module, and a file is read at once.

## 7. Not modelled

* Parsing and validation of texts (URLs, JSON-RPC, grant documents, canonical
  JSON), path policies over strings, address filters: pure functions over
  bytes, better served by the repository's table tests.
* Of egress: the parsing of URLs and allowlist entries, the filter of resolved
  addresses (it appears as a fetch that is refused), and how long a deadline is (it
  may strike at any time of a fetch).
* The wire forms of reports, records and envelopes: canonical JSON, base64, PEM, and the
  detached JWS; the fields of a report that say how a run was configured; audit
  exports and fingerprints.
* Of the run path: the linking of host imports and of WASI 0.2, `run_profile`, the
  truncation of outputs. A guest appears as how it ended and what its names add to the
  text of that; how a text is made is wasmtime's affair.
* The state store: one dictionary with three caps. Which runs share one is the
  choice of the host, and `set` (`state.py:71`) promises nothing of concurrent ones.
* The builder, the command line, profiles and the module inspector: sequential, no state
  across calls.
* The lazy creation of the process-wide pool (`wasi_runtime.py:138`), which is
  unsynchronised, and the contents of an engine's module cache.
* Truncation of the execution ledger at its end (`ledger.py:264`), which the code says it
  cannot see; and the order of two revocations' clocks (`grant_ledger.py:320`).

## 8. Plan

The model of the system is complete but for the parts of section 7, and every safety
property that a run checks is proved for every value of the constants: the invariants and
the action properties of all nine passing runs, and the refinement of `CallMeter`. Liveness
stays with TLC.

A `StateStore` with two runs that share a store would follow, should the code come to promise
something of them.
