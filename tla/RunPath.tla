------------------------------- MODULE RunPath --------------------------------
(***************************************************************************)
(* One WASISandbox instance and the runs made on it: the gates that read   *)
(* the module file, the three execution paths (preview1 and component in   *)
(* the host process, either of them in a disposable worker), the timers    *)
(* and watchdogs that interrupt a guest, the worker's report, the parent   *)
(* that waits for it, the ABI stamped on the result and the directories    *)
(* left on disk.  Beside the caller run: whoever may replace the module    *)
(* file or redirect the preopened directory, the guest, the wall-clock     *)
(* timer, the byte watcher, the CPU watchdog and the worker process.       *)
(* Tenant billing around a run is TenantBook; the pooled engine's ticker   *)
(* is EnginePool.  Calls on one instance are not concurrent                *)
(* (docs/recipes.md:239).                                                  *)
(***************************************************************************)
EXTENDS ModuleGate, Naturals, FiniteSets

CONSTANTS
    Calls,      \* the calls made, records as described in ModuleGate
    MaxRuns,    \* bound: runs made on the instance
    MaxSwaps,   \* bound: changes of the module file and of the directory
    NoAbi,      \* the result names no ABI
    Names       \* what the names a module carries can add to an error text

ASSUME BoundsAssumption == MaxRuns \in Nat \ {0} /\ MaxSwaps \in Nat

ASSUME CallsAssumption ==
    /\ NoAbi \notin {"preview1", "component"}
    /\ \A c \in Calls :
         /\ c.abi \in {"preview1", "component", "auto"}
         /\ c.expected \in Bytes \cup {NoDigest}
         /\ {c.sub, c.protected, c.blockade, c.event, c.fuel, c.cpuWall,
             c.byteWall, c.fsync, c.dir, c.pool} \subseteq BOOLEAN

\* What the code looks for in the text of an exception: the traces of an end,
\* which a function, an export or an import of that name leaves as well.
Words == {"interrupt", "fuel", "all fuel consumed", "memory", "exit 0", "exit n"}

ASSUME NamesAssumption == {} \in Names /\ Names \subseteq SUBSET Words

VARIABLES
    path,      \* the bytes at wasm_path
    target,    \* where the entry of allow_dirs leads: "safe" or "forbidden"
    swaps,
    run,       \* number of the run in progress, or of the last one
    call,      \* its call
    digest,    \* expected_sha256 in force
    sub,       \* use_subprocess in force, after the isolation gate
    pc,        \* control of the caller, in run
    work,      \* control of the worker process
    stage,     \* control of the execution, in the host or in the worker
    guest,     \* where it executes, under which ABI, on which bytes, how it
               \* ended, and what its names add to the text of that
    sig,       \* what the timers and watchers have done
    granted,   \* the directory was granted when it was last revalidated
    result,
    dirs,      \* directories on disk
    held,      \* those the instance remembers (_sandbox_dir, _host_dir)
    \* History, read by the properties only.
    drift,     \* the file or the directory changed since the run began
    reported,  \* residue cleanup() returned
    lost       \* directories nobody will remove and nobody was told of

gates == <<path, target, swaps, call, digest, sub, drift>>
disk == <<dirs, held, reported, lost>>
vars == <<path, target, swaps, run, call, digest, sub, pc, work, stage, guest,
          sig, granted, result, dirs, held, drift, reported, lost>>

Owners == {"instance", "temporary", "worker"}
Dir(kind, owner) == [run |-> run, kind |-> kind, owner |-> owner]

FreshGuest(where, abi) ==
    [where |-> where, abi |-> abi, bytes |-> NoFile, how |-> "none",
     names |-> {}, dir |-> "none"]
NoGuest == FreshGuest("none", NoAbi)
Silent == [wall |-> FALSE, over |-> FALSE, interrupt |-> FALSE, epoch |-> FALSE]
Outcome(status, abi, mode) ==
    [status |-> status, abi |-> abi, mode |-> mode, io |-> FALSE,
     refused |-> FALSE]
NoResult == Outcome("none", NoAbi, "in_process")

Init ==
    /\ path \in FileStates
    /\ target = "safe"
    /\ swaps = 0 /\ run = 0
    /\ call \in Calls /\ digest = NoDigest /\ sub = FALSE
    /\ pc = "idle" /\ work = "none" /\ stage = "none"
    /\ guest = NoGuest /\ sig = Silent /\ granted = FALSE /\ result = NoResult
    /\ dirs = {} /\ held = {} /\ reported = {} /\ lost = {}
    /\ drift = FALSE

--------------------------------------------------------------------------------
(* The world beside the run *)

\* Somebody publishes other bytes at wasm_path, or removes the file.
Replace ==
    /\ swaps < MaxSwaps
    /\ path' \in FileStates \ {path}
    /\ swaps' = swaps + 1 /\ drift' = TRUE
    /\ UNCHANGED <<target, run, call, digest, sub, pc, work, stage, guest, sig,
                   granted, result, disk>>

\* The directory of allow_dirs is replaced by a link, or restored.
Redirect ==
    /\ swaps < MaxSwaps /\ call.dir /\ pc # "idle"
    /\ target' = IF target = "safe" THEN "forbidden" ELSE "safe"
    /\ swaps' = swaps + 1 /\ drift' = TRUE
    /\ UNCHANGED <<path, run, call, digest, sub, pc, work, stage, guest, sig,
                   granted, result, disk>>

--------------------------------------------------------------------------------
(* The gates of run *)

AfterProfile(c) == IF c.blockade THEN "blockade" ELSE "isolation"

\* The instance is configured once: its constructor refuses a forbidden
\* directory, and later runs keep the directory setting.
Begin ==
    /\ pc = "idle" /\ run < MaxRuns
    /\ call' \in IF held = {} THEN {c \in Calls : c.dir => target = "safe"}
                 ELSE {c \in Calls : c.dir = call.dir}
    /\ run' = run + 1
    /\ digest' = call'.expected /\ sub' = call'.sub
    /\ pc' = IF call'.protected THEN "profile" ELSE AfterProfile(call')
    /\ work' = "none" /\ stage' = "none" /\ guest' = NoGuest /\ sig' = Silent
    /\ granted' = FALSE /\ result' = NoResult /\ drift' = FALSE
    /\ UNCHANGED <<path, target, swaps, disk>>

\* A refusal is the run's result: nothing is started, _attest_abi is not reached.
Refuse(abi) ==
    /\ result' = [Outcome("error", abi, "in_process") EXCEPT !.refused = TRUE]
    /\ pc' = "returned"

\* _protected_component_guard, up to the size the file reports.
CheckProfile ==
    /\ pc = "profile"
    /\ IF ProfileAllows(call) /\ Admissible(path)
         THEN pc' = "inspect" /\ UNCHANGED result
         ELSE Refuse(NoAbi)
    /\ UNCHANGED <<gates, run, work, stage, guest, sig, granted, disk>>

\* The bounded read; a pass binds the run to the bytes that were inspected.
Inspect ==
    /\ pc = "inspect"
    /\ IF InspectionAllows(call, path) /\ ~call.blockade
         THEN digest' = path /\ pc' = "isolation" /\ UNCHANGED result
         ELSE Refuse(NoAbi) /\ UNCHANGED digest
    /\ UNCHANGED <<path, target, swaps, call, sub, drift, run, work, stage,
                   guest, sig, granted, disk>>

\* _sync_blockade_refusal: reads the file when abi is "auto".
CheckBlockade ==
    /\ pc = "blockade"
    /\ LET abi == ResolveAbi(path, call.abi) IN
         IF SyncBlockadeHolds(abi, call.fsync)
           THEN pc' = "isolation" /\ UNCHANGED result
           ELSE Refuse(abi)
    /\ UNCHANGED <<gates, run, work, stage, guest, sig, granted, disk>>

\* A mistyped posture leaves run as a ValueError.
Raise ==
    /\ result' = Outcome("raised", NoAbi, "in_process")
    /\ pc' = "returned"

\* mutant: the mandate is decided and the run stays where the call put it.
CheckIsolationUnforced ==
    /\ pc = "isolation"
    /\ pc' = "dispatch"
    /\ UNCHANGED <<gates, run, work, stage, guest, sig, granted, result, disk>>

\* _isolation_gate: reads the file again; the worker may not be importable.
CheckIsolation ==
    /\ pc = "isolation"
    /\ LET abi == ResolveAbi(path, call.abi)
           known == call.trust \in TrustPostures
           required == IsolationRequired(call.trust, abi)
       IN \/ ~known /\ Raise /\ UNCHANGED sub
          \/ known /\ ~required /\ pc' = "dispatch" /\ UNCHANGED <<sub, result>>
          \/ known /\ required /\ sub' = TRUE /\ pc' = "dispatch" /\ UNCHANGED result
          \/ known /\ required /\ Refuse(IF call.protected THEN NoAbi ELSE abi)
             /\ UNCHANGED sub
    /\ UNCHANGED <<path, target, swaps, call, digest, drift, run, work, stage,
                   guest, sig, granted, disk>>

\* _execute: the in-process choice reads the file once more, and the component
\* sandbox it constructs validates the directories.
Dispatch ==
    /\ pc = "dispatch"
    /\ LET abi == ResolveAbi(path, call.abi) IN
         IF sub
           THEN pc' = "spawn" /\ UNCHANGED <<stage, guest, result>>
           ELSE IF abi = "component" /\ call.dir /\ target = "forbidden"
                  THEN Raise /\ UNCHANGED <<stage, guest>>
                  ELSE /\ pc' = "exec" /\ stage' = "prepare"
                       /\ guest' = FreshGuest("host", abi)
                       /\ UNCHANGED result
    /\ UNCHANGED <<gates, run, work, sig, granted, disk>>

--------------------------------------------------------------------------------
(* The execution, in the host process or in the worker *)

InHost == guest.where = "host"

\* _execute takes a pooled engine for a run that no watcher can interrupt.
Pooled ==
    /\ InHost /\ guest.abi = "preview1" /\ call.pool
    /\ ~call.event /\ ~call.byteWall

\* The execution is over: in the host the result goes to _attest_abi.
Finish(outcome) ==
    /\ result' = outcome
    /\ stage' = "done"
    /\ pc' = IF InHost THEN "attest" ELSE pc

Failed == Outcome("error", NoAbi, "in_process")

NewDirs ==
    LET owner == IF ~InHost THEN "worker"
                 ELSE IF guest.abi = "preview1" THEN "instance" ELSE "temporary"
    IN IF guest.abi = "preview1" THEN {Dir("sandbox", owner), Dir("host", owner)}
       ELSE {Dir("host", owner)}

\* ComponentSandbox also looks for the component magic.
SandboxAccepts ==
    Admissible(path) /\ (guest.abi = "component" => IsComponent(path))

\* mutant: the instance takes its new directories and forgets the old ones.
PrepareForgets ==
    /\ stage = "prepare"
    /\ IF SandboxAccepts
         THEN /\ stage' = "load"
              /\ dirs' = dirs \cup NewDirs
              /\ held' = IF InHost /\ guest.abi = "preview1" THEN NewDirs ELSE held
              /\ UNCHANGED <<result, pc>>
         ELSE Finish(Failed) /\ UNCHANGED <<dirs, held>>
    /\ UNCHANGED <<gates, run, work, guest, sig, granted, reported, lost>>

\* A module that is missing or over the cap fails before any directory is
\* made; otherwise the previous run's directories are removed (a failure to
\* remove them is swallowed) and the run gets its own.
Prepare ==
    /\ stage = "prepare"
    /\ IF SandboxAccepts
         THEN /\ stage' = "load"
              /\ IF InHost /\ guest.abi = "preview1"
                   THEN \E kept \in SUBSET held :
                          /\ dirs' = (dirs \ (held \ kept)) \cup NewDirs
                          /\ lost' = lost \cup kept
                          /\ held' = NewDirs
                   ELSE dirs' = dirs \cup NewDirs /\ UNCHANGED <<held, lost>>
              /\ UNCHANGED <<result, pc>>
         ELSE Finish(Failed) /\ UNCHANGED <<dirs, held, lost>>
    /\ UNCHANGED <<gates, run, work, guest, sig, granted, reported>>

DigestMatches(file) == digest = NoDigest \/ file = digest

\* An exception the handler around the execution catches.
Caught == \E names \in Names :
    /\ guest' = [guest EXCEPT !.names = names]
    /\ stage' = "failed"

\* mutant: the bytes are compiled without a look at the digest.
LoadUnpinned ==
    /\ stage = "load"
    /\ IF Compiles(path, guest.abi)
         THEN guest' = [guest EXCEPT !.bytes = path] /\ stage' = "grant"
         ELSE Caught
    /\ UNCHANGED <<gates, run, pc, work, sig, granted, result, disk>>

\* The bytes are read, compared with the digest and compiled: those bytes run.
Load ==
    /\ stage = "load"
    /\ IF ~DigestMatches(path)
         THEN Finish(Failed) /\ UNCHANGED guest
         ELSE /\ IF Compiles(path, guest.abi)
                   THEN guest' = [guest EXCEPT !.bytes = path] /\ stage' = "grant"
                   ELSE Caught
              /\ UNCHANGED <<result, pc>>
    /\ UNCHANGED <<gates, run, work, sig, granted, disk>>

\* filter_dangerous_dirs and the revalidation of grant_preopens.
Grant ==
    /\ stage = "grant"
    /\ granted' = (call.dir /\ target = "safe")
    /\ stage' = "enter"
    /\ UNCHANGED <<gates, run, pc, work, guest, sig, result, disk>>

\* The directory is opened by its path, the imports are linked and the module
\* instantiated, which runs its start function.
Enter ==
    /\ stage = "enter"
    /\ guest' = [guest EXCEPT !.how = "running",
                              !.dir = IF granted THEN target ELSE "none"]
    /\ stage' = "start"
    /\ UNCHANGED <<gates, run, pc, work, sig, granted, result, disk>>

\* The stdin is over the host cap, or an import is unknown.
NoEntry ==
    /\ stage = "enter"
    /\ Caught
    /\ UNCHANGED <<gates, run, pc, work, sig, granted, result, disk>>

\* The timer and the watchers are started and the entry point is called.
Started ==
    /\ stage = "start" /\ guest.how = "running"
    /\ stage' = "run"
    /\ UNCHANGED <<gates, run, pc, work, guest, sig, granted, result, disk>>

\* mutant: the timer is started only where a caller's event is watched.
WallTimerWithEvent ==
    /\ stage = "run" /\ ~sig.wall /\ call.event
    /\ sig' = [sig EXCEPT !.wall = TRUE, !.epoch = TRUE]
    /\ UNCHANGED <<gates, run, pc, work, stage, guest, granted, result, disk>>

\* start_epoch_timer: one increment when the wall-clock time is over.  The
\* ticker of a pooled engine runs all the time.
WallTimer ==
    /\ stage = "run" \/ (stage = "start" /\ Pooled)
    /\ ~sig.wall
    /\ sig' = [sig EXCEPT !.wall = TRUE, !.epoch = TRUE]
    /\ UNCHANGED <<gates, run, pc, work, stage, guest, granted, result, disk>>

\* _bytes_watch, on the preview1 path: it may have passed its test of
\* timeout_event when the guest stops.
ByteWatch ==
    /\ stage \in {"run", "stop"} /\ ~sig.over
    /\ guest.abi = "preview1" /\ call.byteWall
    /\ sig' = [sig EXCEPT !.over = TRUE, !.epoch = TRUE]
    /\ UNCHANGED <<gates, run, pc, work, stage, guest, granted, result, disk>>

\* The worker's CPU watchdog, until the verdict is read; or, in the host, the
\* caller's own watchdog.
Interrupt ==
    /\ ~sig.interrupt
    /\ \/ work \in {"exec", "translate"} /\ call.cpuWall
       \/ InHost /\ pc = "exec" /\ call.event
    /\ sig' = [sig EXCEPT !.interrupt = TRUE]
    /\ UNCHANGED <<gates, run, pc, work, stage, guest, granted, result, disk>>

\* _execute does not pass the event on to the component sandbox.
Watched == ~InHost \/ (guest.abi = "preview1" /\ call.event)

InterruptWatch ==
    /\ stage = "run" /\ sig.interrupt /\ Watched /\ ~sig.epoch
    /\ sig' = [sig EXCEPT !.epoch = TRUE]
    /\ UNCHANGED <<gates, run, pc, work, stage, guest, granted, result, disk>>

\* The guest waits in a host call (poll_oneoff, a read): the epoch is looked
\* at when it is back.
HostCall ==
    /\ stage \in {"start", "run"} /\ guest.how = "running"
    /\ guest' = [guest EXCEPT !.how = "blocked"]
    /\ UNCHANGED <<gates, run, pc, work, stage, sig, granted, result, disk>>

HostCallReturns ==
    /\ stage \in {"start", "run"} /\ guest.how = "blocked"
    /\ guest' = [guest EXCEPT !.how = "running"]
    /\ UNCHANGED <<gates, run, pc, work, stage, sig, granted, result, disk>>

Stop(how, names, place) ==
    /\ stage \in {"start", "run"} /\ guest.how = "running"
    /\ guest' = [guest EXCEPT !.how = how, !.names = names]
    /\ stage' = place
    /\ UNCHANGED <<gates, run, pc, work, sig, granted, result, disk>>

GuestReturns == stage = "run" /\ Stop("ok", {}, "stop")

\* What a guest raises reaches the except Trap of the preview1 path ("stop")
\* or, as another exception or from instantiate, the handler around everything.
Handlers == {"failed"} \cup {p \in {"stop"} : stage = "run" /\ guest.abi = "preview1"}

Raises(how) == \E names \in Names, place \in Handlers : Stop(how, names, place)

GuestFails == \E how \in {"trap", "memory", "exit 0", "exit n"} : Raises(how)

OutOfFuel == call.fuel /\ Raises("all fuel consumed")

\* The engine's epoch passed the deadline: the guest traps.
GuestTraps == sig.epoch /\ Raises("interrupt")

--------------------------------------------------------------------------------
(* The verdict: the code searches the text of the exception, in which the     *)
(* names of the module stand beside what wasmtime says.                       *)

Ended(status) == Outcome(status, NoAbi, "in_process")

Text == ({guest.how} \cap Words) \cup guest.names

\* Of several exit statuses the preview1 path takes the first.
ExitsClean(clean) ==
    /\ clean => "exit 0" \in Text
    /\ ~clean => "exit 0" \notin Text \/ "exit n" \in Text

ComponentVerdict ==
    IF "all fuel consumed" \in Text THEN Ended("fuel_exhausted")
    ELSE IF "memory" \in Text THEN Ended("memory_exceeded")
    ELSE IF "interrupt" \in Text THEN Ended("timeout")
    ELSE Ended(IF "exit 0" \in Text THEN "success" ELSE "error")

\* The except Trap of the preview1 path also reads the flag of its byte watcher.
TrapVerdict(clean) ==
    IF "interrupt" \in Text
      THEN IF sig.over THEN [Failed EXCEPT !.io = TRUE] ELSE Ended("timeout")
    ELSE IF Text \cap {"fuel", "all fuel consumed"} # {} THEN Ended("fuel_exhausted")
    ELSE IF "memory" \in Text THEN Ended("memory_exceeded")
    ELSE Ended(IF clean THEN "success" ELSE "error")

\* Its outer handler.
RaiseVerdict(clean) ==
    IF "all fuel consumed" \in Text THEN Ended("fuel_exhausted")
    ELSE Ended(IF clean THEN "success" ELSE "error")

Verdict(clean) ==
    IF guest.how = "ok" THEN Ended("success")
    ELSE IF guest.abi = "component" THEN ComponentVerdict
    ELSE IF stage = "stop" THEN TrapVerdict(clean)
    ELSE RaiseVerdict(clean)

\* The outer handler asks a store for its fuel that was not made yet.
NoStore ==
    /\ stage = "failed" /\ guest.abi = "preview1" /\ guest.bytes = NoFile
    /\ "all fuel consumed" \in Text

Classify ==
    /\ stage \in {"stop", "failed"} /\ ~NoStore
    /\ \E clean \in BOOLEAN : ExitsClean(clean) /\ Finish(Verdict(clean))
    /\ UNCHANGED <<gates, run, work, guest, sig, granted, disk>>

\* An UnboundLocalError leaves run; in a worker it is one of the exceptions of
\* WorkerDies.
FuelUnread ==
    /\ NoStore /\ InHost
    /\ stage' = "done" /\ Raise
    /\ UNCHANGED <<gates, run, work, guest, sig, granted, disk>>

--------------------------------------------------------------------------------
(* The worker process and the parent that waits for it *)

\* _failure_result: a report of the parent, or of a worker that ran nothing.
WorkerFailure(status) == Outcome(status, NoAbi, "subprocess")

\* run_isolated: the parent's own checks, then the process is started.
Spawn ==
    /\ pc = "spawn"
    /\ IF Admissible(path)
         THEN work' = "check" /\ pc' = "wait" /\ UNCHANGED result
         ELSE /\ result' = WorkerFailure("error")
              /\ pc' = "attest" /\ UNCHANGED work
    /\ UNCHANGED <<gates, run, stage, guest, sig, granted, disk>>

\* run_worker checks the file again and picks the sandbox for the ABI it finds;
\* a failure here is a report that names no ABI.
WorkerPick ==
    /\ work = "check"
    /\ IF Admissible(path) /\ (call.dir => target = "safe")
         THEN /\ guest' = FreshGuest("worker", ResolveAbi(path, call.abi))
              /\ work' = "exec" /\ stage' = "prepare" /\ UNCHANGED result
         ELSE /\ result' = WorkerFailure("error")
              /\ work' = "report" /\ UNCHANGED <<guest, stage>>
    /\ UNCHANGED <<gates, run, pc, sig, granted, disk>>

MyWorkerDirs == {d \in dirs : d.run = run /\ d.owner = "worker"}

\* done_event, then sandbox.cleanup(): what it could not remove is not reported.
WorkerCleanup ==
    /\ work = "exec" /\ stage = "done"
    /\ \E kept \in SUBSET MyWorkerDirs :
         dirs' = dirs \ (MyWorkerDirs \ kept) /\ lost' = lost \cup kept
    /\ work' = "translate"
    /\ UNCHANGED <<gates, run, pc, stage, guest, sig, granted, result, held,
                   reported>>

\* mutant: the watchdog's event alone decides.
CpuBreachedByEvent == sig.interrupt /\ call.cpuWall

\* A timeout with the CPU watchdog's event set becomes a budget breach.
CpuBreached == sig.interrupt /\ call.cpuWall /\ result.status = "timeout"

\* mutant: the worker reports the result of its sandbox as it is.
WorkerTranslateRaw ==
    /\ work = "translate" /\ work' = "report"
    /\ result' = [result EXCEPT !.mode = "subprocess"]
    /\ UNCHANGED <<gates, run, pc, stage, guest, sig, granted, disk>>

WorkerTranslate ==
    /\ work = "translate"
    /\ result' = [result EXCEPT !.status = IF CpuBreached THEN "error" ELSE @,
                                !.io = @ \/ CpuBreached,
                                !.abi = guest.abi,
                                !.mode = "subprocess"]
    /\ work' = "report"
    /\ UNCHANGED <<gates, run, pc, stage, guest, sig, granted, disk>>

WorkerReport ==
    /\ work = "report"
    /\ work' = "exited"
    /\ UNCHANGED <<gates, run, pc, stage, guest, sig, granted, result, disk>>

Alive == work \in {"check", "exec", "translate", "report"}

\* A worker that is killed leaves its directories behind.
WorkerEnds(how, kept) ==
    /\ Alive
    /\ work' = how
    /\ stage' = "none"
    /\ dirs' = dirs \ (MyWorkerDirs \ kept) /\ lost' = lost \cup kept
    /\ UNCHANGED <<gates, run, guest, sig, granted, held, reported>>

\* A resource limit, a signal or an exception ends the worker without a report;
\* after an exception the sandbox is cleaned up.
WorkerDies ==
    /\ \E kept \in SUBSET MyWorkerDirs : WorkerEnds("crashed", kept)
    /\ UNCHANGED <<pc, result>>

\* communicate timed out: the parent kills the worker and drops what it wrote.
ParentTimeout ==
    /\ pc = "wait"
    /\ WorkerEnds("killed", MyWorkerDirs)
    /\ result' = WorkerFailure("timeout")
    /\ pc' = "attest"

ParentReceives ==
    /\ pc = "wait" /\ work \in {"exited", "crashed"}
    /\ result' = IF work = "exited" THEN result
                 ELSE WorkerFailure("error")
    /\ pc' = "attest"
    /\ UNCHANGED <<gates, run, work, stage, guest, sig, granted, disk>>

--------------------------------------------------------------------------------
(* The result, and the instance after it *)

\* _attest_abi: a result that names no ABI gets the one the file resolves to now.
Attest ==
    /\ pc = "attest"
    /\ result' = IF result.abi = NoAbi
                   THEN [result EXCEPT !.abi = ResolveAbi(path, call.abi)]
                   ELSE result
    /\ pc' = "returned"
    /\ UNCHANGED <<gates, run, work, stage, guest, sig, granted, disk>>

\* cleanup(): what could not be removed is returned to the caller.
Cleanup ==
    /\ pc = "returned"
    /\ \E kept \in SUBSET held :
         dirs' = dirs \ (held \ kept) /\ reported' = reported \cup kept
    /\ held' = {}
    /\ pc' = "idle"
    /\ UNCHANGED <<gates, run, work, stage, guest, sig, granted, result, lost>>

\* The caller goes on without cleaning up.
Keep ==
    /\ pc = "returned"
    /\ pc' = "idle"
    /\ UNCHANGED <<gates, run, work, stage, guest, sig, granted, result, disk>>

Done == pc = "idle" /\ run = MaxRuns /\ UNCHANGED vars

HostSteps ==
    \/ CheckProfile \/ Inspect \/ CheckBlockade \/ CheckIsolation \/ Dispatch
    \/ Spawn \/ ParentReceives \/ Attest

ExecutionSteps ==
    Prepare \/ Load \/ Grant \/ Enter \/ NoEntry \/ Classify \/ FuelUnread

GuestSteps ==
    \/ Started \/ HostCall \/ HostCallReturns
    \/ GuestReturns \/ GuestFails \/ OutOfFuel \/ GuestTraps

WorkerSteps == WorkerPick \/ WorkerCleanup \/ WorkerTranslate \/ WorkerReport

Next ==
    \/ Replace \/ Redirect \/ Begin \/ HostSteps \/ ExecutionSteps
    \/ WallTimer \/ ByteWatch \/ Interrupt \/ InterruptWatch
    \/ GuestSteps \/ WorkerSteps \/ WorkerDies \/ ParentTimeout
    \/ Cleanup \/ Keep \/ Done

\* The thread of the caller, in an execution in its own process too, until the
\* wait for a worker ends by a report or by its timeout.
CallerSteps == HostSteps \/ (InHost /\ ExecutionSteps) \/ ParentTimeout

\* The caller's thread goes on, and the timer of a run fires.  A guest that
\* goes on executing comes to a safepoint, where it traps when its epoch has
\* passed, and uses up its fuel, if it has any.  Nothing is assumed of a guest
\* in a host call, of a start function, nor of the worker: it may hang anywhere.
Fairness ==
    /\ WF_vars(CallerSteps)
    /\ WF_vars(InHost /\ WallTimer)
    /\ SF_vars(InHost /\ (GuestTraps \/ OutOfFuel))

Spec == Init /\ [][Next]_vars /\ Fairness

--------------------------------------------------------------------------------
(* Properties *)

GuestRan == guest.how # "none"

Gates == {"profile", "inspect", "blockade", "isolation", "dispatch", "spawn"}
Over == {"attest", "returned", "idle"}
Executing == {"prepare", "load", "grant", "enter", "start", "run", "stop", "failed"}
WorkerRuns == {"check", "exec", "translate", "report"}
Abis == {"preview1", "component"}
Hows == {"none", "running", "blocked", "ok", "trap", "memory", "exit 0", "exit n",
         "all fuel consumed", "interrupt"}
Statuses == {"none", "raised", "success", "error", "timeout", "fuel_exhausted",
             "memory_exceeded"}

Guests == [where : {"none", "host", "worker"}, abi : Abis \cup {NoAbi},
           bytes : FileStates, how : Hows, names : SUBSET Words,
           dir : {"none", "safe", "forbidden"}]
Signals == [wall : BOOLEAN, over : BOOLEAN, interrupt : BOOLEAN, epoch : BOOLEAN]
Results == [status : Statuses, abi : Abis \cup {NoAbi},
            mode : {"in_process", "subprocess"}, io : BOOLEAN, refused : BOOLEAN]

TypeOK ==
    /\ path \in FileStates /\ target \in {"safe", "forbidden"}
    /\ swaps \in Nat /\ run \in Nat
    /\ call \in Calls /\ digest \in Bytes \cup {NoDigest}
    /\ sub \in BOOLEAN /\ granted \in BOOLEAN /\ drift \in BOOLEAN
    /\ pc \in Gates \cup {"idle", "exec", "wait", "attest", "returned"}
    /\ work \in WorkerRuns \cup {"none", "exited", "crashed", "killed"}
    /\ stage \in Executing \cup {"none", "done"}
    /\ guest \in Guests /\ sig \in Signals /\ result \in Results
    /\ held \subseteq {d \in dirs : d.owner = "instance"}
    /\ dirs \subseteq [run : 0..run, kind : {"sandbox", "host"}, owner : Owners]

\* Who is where: the gates come before any execution, an execution is in the
\* host under a caller in "exec", or in a live worker under a caller that
\* waits, and no worker outlives the wait.
ControlInv ==
    /\ pc \in Gates => /\ guest = NoGuest /\ sig = Silent /\ result = NoResult
                       /\ stage = "none" /\ work = "none"
    /\ pc = "exec" => InHost /\ stage \in Executing
    /\ pc = "wait" => work \in WorkerRuns \cup {"exited", "crashed"}
    /\ work \in WorkerRuns => pc = "wait"
    /\ guest.where = "none" => guest = NoGuest /\ sig = Silent /\ stage = "none"
    /\ InHost => /\ work = "none"
                 /\ pc = "exec" \/ (pc \in Over /\ stage = "done")
    /\ guest.where = "worker" => /\ work \notin {"none", "check"}
                                 /\ pc \in Over \cup {"wait"}
                                 /\ stage \in Executing => work = "exec"
                                 /\ stage = "none" <=> work \in {"crashed", "killed"}
    /\ work \in {"exec", "translate"} => guest.where = "worker"
    /\ work = "check" => result = NoResult

\* What the gates that were passed have established, for the file as it is now
\* or as it was: a change of the file spoils it for calls with abi "auto" only.
Unstable == drift /\ call.abi = "auto"

GatesInv ==
    /\ pc \in {"profile", "inspect"} => call.protected
    /\ pc = "blockade" => ~call.protected
    /\ pc = "inspect" => ProfileAllows(call)
    /\ pc \in {"isolation", "dispatch", "spawn", "exec", "wait"} =>
         /\ call.protected => digest \in Bytes
         /\ call.blockade => Unstable
                \/ SyncBlockadeHolds(ResolveAbi(path, call.abi), call.fsync)
    /\ pc = "isolation" /\ call.protected =>
         ProfileAllows(call) /\ call.trust # "trusted" /\ (drift \/ IsComponent(path))
    /\ pc = "dispatch" /\ ~sub =>
         /\ Unstable \/ ~IsolationRequired(call.trust, ResolveAbi(path, call.abi))
         /\ call.protected => drift
    /\ granted => target = "safe" \/ drift

\* A guest has the ABI the gates decided about; and it runs only the bytes
\* whose digest is in force, under the ABI those bytes are compiled for.
GuestInv ==
    /\ guest.where # "none" =>
         /\ guest.abi \in Abis /\ ~result.refused
         /\ Unstable \/ guest.abi = ResolveAbi(path, call.abi)
         /\ call.blockade => Unstable \/ SyncBlockadeHolds(guest.abi, call.fsync)
         /\ InHost => Unstable \/ ~IsolationRequired(call.trust, guest.abi)
         /\ call.protected => digest \in Bytes /\ (InHost => drift)
    /\ stage \in {"grant", "enter"} \/ GuestRan =>
         DigestMatches(guest.bytes) /\ Compiles(guest.bytes, guest.abi)
    /\ stage \in {"prepare", "load", "grant", "enter"} => guest.how = "none"
    /\ stage \in {"start", "run"} => guest.how \in {"running", "blocked"}
    /\ stage \in {"stop", "failed", "done"} => guest.how \notin {"running", "blocked"}
    /\ stage = "stop" => GuestRan
    /\ guest.dir = "forbidden" => drift

\* What a result says of the execution it is about, while it is on its way.
ResultInv ==
    /\ pc \in Over /\ InHost =>
         /\ result.mode = "in_process"
         /\ result.abi = NoAbi \/ pc # "attest"
         /\ pc # "attest" => Unstable \/ result.abi = guest.abi \/ result.status = "raised"
         /\ result.status = "raised" => ~GuestRan
    /\ work \in {"report", "exited"} /\ guest.where = "worker" =>
         result.mode = "subprocess" /\ result.abi = guest.abi
    /\ pc \in Over /\ work \in {"crashed", "killed"} =>
         /\ result.mode = "subprocess" /\ ~result.io
         /\ result.status = IF work = "killed" THEN "timeout" ELSE "error"
         /\ pc = "attest" => result.abi = NoAbi
         /\ guest.where = "worker" /\ pc # "attest" => Unstable \/ result.abi = guest.abi

\* Who may have passed the epoch on, and ended a guest.
SignalInv ==
    /\ sig.epoch => sig.wall \/ sig.over \/ sig.interrupt
    /\ sig.over => guest.abi = "preview1"
    /\ sig.interrupt /\ guest.where = "worker" => call.cpuWall
    /\ guest.how = "interrupt" => sig.epoch
    /\ result.io => sig.over \/ sig.interrupt

\* What the status makes of the end of the guest.
VerdictInv ==
    stage = "done" =>
      /\ guest.how = "ok" => result.status = "success"
      /\ result.status = "success" =>
           guest.how \in {"ok", "exit 0"} \/ "exit 0" \in guest.names
      /\ result.status = "timeout" =>
           \/ "interrupt" \in guest.names
           \/ sig.wall
           \/ sig.interrupt /\ work \notin {"report", "exited"}

\* Directories on disk are somebody's: the instance's, a live worker's, or in
\* one of the lists.
ResidueInv ==
    \A d \in dirs :
      \/ d \in held \cup reported \cup lost
      \/ d.owner = "temporary"
      \/ d.owner = "worker" /\ d.run = run /\ work = "exec"

\* The inductive invariant of the proofs.
RunInv ==
    /\ TypeOK /\ ControlInv /\ GatesInv /\ GuestInv
    /\ ResultInv /\ SignalInv /\ VerdictInv /\ ResidueInv

\* The isolation mandate and the sync blockade hold of the guest that runs,
\* and the directory it holds is the one that was checked, unless the file or
\* the directory was changed while the run was on its way; for the two gates
\* only a call with abi "auto" is exposed to that.
GatesHold ==
    GuestRan =>
      /\ \/ ~(InHost /\ IsolationRequired(call.trust, guest.abi))
         \/ drift /\ call.abi = "auto"
      /\ \/ call.blockade => SyncBlockadeHolds(guest.abi, call.fsync)
         \/ drift /\ call.abi = "auto"
      /\ call.protected /\ ~drift => guest.where = "worker"
      /\ guest.dir = "forbidden" => drift

\* The result names the process of the guest that ran, and its ABI: a worker
\* that reports names it whatever happened to the file since, a result stamped
\* afterwards (_attest_abi) may name another only if the file changed under a
\* call with abi "auto".
ResultTellsTheRun ==
    pc = "returned" /\ GuestRan =>
      /\ result.mode = "subprocess" <=> guest.where = "worker"
      /\ \/ result.abi = guest.abi
         \/ drift /\ call.abi = "auto" /\ work # "exited"

\* A guest that finished is reported as finished whatever the watchers saw
\* afterwards, a budget breach is reported only when a budget was breached,
\* and success and a timeout only when the guest ended so, or the execution
\* failed with a text in which a name of the module says so.
VerdictsAreTrue ==
    pc = "returned" /\ guest.where # "none" =>
      /\ guest.how = "ok" /\ work \notin {"killed", "crashed"}
           => result.status = "success"
      /\ result.io => sig.over \/ sig.interrupt
      /\ result.status = "timeout"
           => \/ sig.wall \/ (InHost /\ sig.interrupt) \/ work = "killed"
              \/ "interrupt" \in guest.names
      /\ result.status = "success"
           => guest.how \in {"ok", "exit 0"} \/ "exit 0" \in guest.names

\* Every directory left on disk between runs is one the instance still
\* removes, one cleanup() told the caller of, one whose removal failed
\* unseen or whose worker died, or the capture directory of a component that
\* ran in the host.
ResidueKnown ==
    pc = "idle" =>
      dirs \subseteq held \cup reported \cup lost \cup {d \in dirs : d.owner = "temporary"}

\* What no timer ends: a guest in a host call, and the start function of a
\* module that has neither fuel nor the ticker of the pool.
Stuck ==
    InHost /\ \/ guest.how = "blocked"
              \/ stage = "start" /\ ~call.fuel /\ ~Pooled

\* A run that begins returns, or its guest is stuck for good in the host
\* process: the timer interrupts a guest in the host, the parent kills a worker.
EveryRunReturns ==
    pc \notin {"idle", "returned"} ~> pc = "returned" \/ []Stuck
===============================================================================
