---------------------------- MODULE RunPath_proofs -----------------------------
(***************************************************************************)
(* Proofs about the run path: for any calls, any contents of the module    *)
(* file and any number of runs and changes, the gates hold of the guest    *)
(* that runs, its result tells the truth about it, and no directory is     *)
(* forgotten.  One lemma for each part of the inductive invariant RunInv;  *)
(* the steps that leave a part alone are its last case.                    *)
(***************************************************************************)
EXTENDS RunPath, TLAPS

(***************************************************************************)
(* Typing: what the operators return, then one lemma for each variable     *)
(* that holds records.                                                     *)
(***************************************************************************)
LEMMA ResolveTyped ==
    ASSUME NEW c \in Calls, NEW file PROVE ResolveAbi(file, c.abi) \in Abis
  BY CallsAssumption DEF ResolveAbi, Abis

(* Every result is an outcome, or one with a mark of its own. *)
LEMMA OutcomeTyped ==
    ASSUME NEW status \in Statuses, NEW abi \in Abis \cup {NoAbi},
           NEW mode \in {"in_process", "subprocess"}
    PROVE  /\ Outcome(status, abi, mode) \in Results
           /\ [Outcome(status, abi, mode) EXCEPT !.io = TRUE] \in Results
           /\ [Outcome(status, abi, mode) EXCEPT !.refused = TRUE] \in Results
  BY DEF Outcome, Results

(* The results of the host and of the parent process that name no ABI. *)
LEMMA FailuresTyped ==
    /\ Failed \in Results
    /\ \A status \in Statuses : WorkerFailure(status) \in Results
    /\ NoResult \in Results
<1>1. {"error", "none"} \subseteq Statuses
  BY DEF Statuses
<1>2. QED
  BY <1>1, OutcomeTyped DEF Failed, WorkerFailure, NoResult

(* The status read off an exception, on either path. *)
LEMMA VerdictTyped ==
    ASSUME NEW clean PROVE Verdict(clean) \in Results
<1>1. {"timeout", "fuel_exhausted", "memory_exceeded", "success", "error"} \subseteq Statuses
  BY DEF Statuses
<1>2. \A status \in Statuses : Ended(status) \in Results
  BY OutcomeTyped DEF Ended
<1>3. ComponentVerdict \in Results
  BY <1>1, <1>2 DEF ComponentVerdict
<1>4. RaiseVerdict(clean) \in Results
  BY <1>1, <1>2 DEF RaiseVerdict
<1>5. TrapVerdict(clean) \in Results
  <2>1. [Failed EXCEPT !.io = TRUE] \in Results
    BY <1>1, OutcomeTyped DEF Failed
  <2>2. QED
    BY <1>1, <1>2, <2>1 DEF TrapVerdict
<1>6. QED
  BY <1>1, <1>2, <1>3, <1>4, <1>5 DEF Verdict

(* A verdict names no ABI yet, and is neither a refusal nor an exception. *)
LEMMA VerdictPlain ==
    ASSUME NEW clean
    PROVE  /\ Verdict(clean).mode = "in_process" /\ Verdict(clean).abi = NoAbi
           /\ Verdict(clean).status # "raised" /\ ~Verdict(clean).refused
  BY DEF Verdict, ComponentVerdict, TrapVerdict, RaiseVerdict, Ended, Failed, Outcome

(* How a guest stops: once, with a text, and by the epoch only when it passed. *)
LEMMA GuestStops ==
    ASSUME GuestReturns \/ GuestFails \/ OutOfFuel \/ GuestTraps
    PROVE  \E how \in Hows \ {"none", "running", "blocked"}, names \in SUBSET Words,
              place \in {"stop", "failed"} :
             Stop(how, names, place) /\ (how = "interrupt" => sig.epoch)
<1>1. {"ok", "trap", "memory", "exit 0", "exit n", "all fuel consumed", "interrupt"}
        \subseteq Hows \ {"none", "running", "blocked"}
  BY DEF Hows
<1>2. Handlers \subseteq {"stop", "failed"} /\ Names \subseteq SUBSET Words
  BY NamesAssumption DEF Handlers
<1>3. CASE GuestReturns
  BY <1>1, <1>3 DEF GuestReturns
<1>4. CASE GuestFails
  BY <1>1, <1>2, <1>4 DEF GuestFails, Raises
<1>5. CASE OutOfFuel \/ GuestTraps
  BY <1>1, <1>2, <1>5 DEF OutOfFuel, GuestTraps, Raises
<1>6. QED
  BY <1>3, <1>4, <1>5

(* The steps of a guest change nothing but the guest and its stage. *)
LEMMA GuestFrame ==
    ASSUME GuestSteps
    PROVE  /\ UNCHANGED <<gates, run, pc, work, sig, granted, result, disk>>
           /\ stage \in {"start", "run"}
           /\ stage' \in {stage, "run", "stop", "failed"}
<1>1. CASE Started \/ HostCall \/ HostCallReturns
  BY <1>1 DEF Started, HostCall, HostCallReturns
<1>2. CASE GuestReturns \/ GuestFails \/ OutOfFuel \/ GuestTraps
  BY <1>2, GuestStops DEF Stop
<1>3. QED
  BY <1>1, <1>2 DEF GuestSteps

(* The directories a run makes are its own. *)
LEMMA NewDirsTyped ==
    ASSUME run \in Nat
    PROVE  NewDirs \subseteq [run : 0..run, kind : {"sandbox", "host"}, owner : Owners]
  BY DEF NewDirs, Dir, Owners

(* A result is refused, failed, read off the guest, or stamped. *)
LEMMA ResultTyped ==
    ASSUME TypeOK, [Next]_vars PROVE result' \in Results
<1>1. CASE \/ CheckProfile \/ Inspect \/ CheckBlockade \/ CheckIsolation \/ Dispatch
           \/ FuelUnread
  <2>1. "error" \in Statuses /\ "raised" \in Statuses
    BY DEF Statuses
  <2>2. \A abi \in Abis \cup {NoAbi} : Refuse(abi) => result' \in Results
    BY <2>1, OutcomeTyped DEF Refuse
  <2>3. Raise => result' \in Results
    BY <2>1, OutcomeTyped DEF Raise
  <2>4. \/ result' = result
        \/ \E abi \in Abis \cup {NoAbi} : Refuse(abi)
        \/ Raise
    <3>1. ResolveAbi(path, call.abi) \in Abis
      BY ResolveTyped DEF TypeOK
    <3>2. QED
      BY <1>1, <3>1 DEF CheckProfile, Inspect, CheckBlockade, CheckIsolation, Dispatch,
        FuelUnread
  <2>5. QED
    BY <2>2, <2>3, <2>4 DEF TypeOK
<1>2. CASE Begin \/ Spawn \/ ParentReceives \/ WorkerPick \/ ParentTimeout
  <2>1. "error" \in Statuses /\ "timeout" \in Statuses
    BY DEF Statuses
  <2>2. result' \in {result, NoResult, WorkerFailure("error"), WorkerFailure("timeout")}
    BY <1>2 DEF Begin, Spawn, ParentReceives, WorkerPick, ParentTimeout
  <2>3. QED
    BY <2>1, <2>2, FailuresTyped DEF TypeOK
<1>3. CASE Prepare \/ Load \/ Classify
  <2>1. \/ result' \in {result, Failed}
        \/ \E clean \in BOOLEAN : result' = Verdict(clean)
    BY <1>3 DEF Prepare, Load, Classify, Finish
  <2>2. QED
    BY <2>1, FailuresTyped, VerdictTyped DEF TypeOK
<1>4. CASE Attest
  <2>1. ResolveAbi(path, call.abi) \in Abis
    BY ResolveTyped DEF TypeOK
  <2>2. QED
    BY <1>4, <2>1 DEF Attest, TypeOK, Results
<1>5. CASE WorkerTranslate
  <2>1. result.io \in BOOLEAN /\ CpuBreached \in BOOLEAN
    BY DEF TypeOK, Results, CpuBreached
  <2>2. QED
    BY <1>5, <2>1 DEF WorkerTranslate, TypeOK, Results, Guests, Statuses
<1>6. CASE result' = result
  BY <1>6 DEF TypeOK
<1>7. QED
  BY <1>1, <1>2, <1>3, <1>4, <1>5, <1>6
  DEF Next, HostSteps, ExecutionSteps, GuestSteps, WorkerSteps, Replace, Redirect, Grant, Enter,
      NoEntry, WallTimer, ByteWatch, Interrupt, InterruptWatch,
      GuestSteps, Started, HostCall, HostCallReturns, GuestReturns, GuestFails,
      OutOfFuel, GuestTraps, Raises, Stop,
      WorkerCleanup, WorkerReport, WorkerDies, WorkerEnds, Cleanup, Keep, Done, vars

(* A guest is fresh, or the same with its bytes, directory or end noted. *)
LEMMA GuestTyped ==
    ASSUME TypeOK, [Next]_vars PROVE guest' \in Guests
<1> USE DEF TypeOK
<1>1. \A place \in {"none", "host", "worker"}, abi \in Abis \cup {NoAbi} :
        FreshGuest(place, abi) \in Guests
  BY DEF FreshGuest, Guests, FileStates, Hows
<1>2. CASE Dispatch \/ WorkerPick
  <2>1. ResolveAbi(path, call.abi) \in Abis
    BY ResolveTyped
  <2>2. guest' \in {guest, FreshGuest("host", ResolveAbi(path, call.abi)),
                   FreshGuest("worker", ResolveAbi(path, call.abi))}
    BY <1>2 DEF Dispatch, WorkerPick, Raise
  <2>3. QED
    BY <1>1, <2>1, <2>2
<1>3. CASE Load \/ NoEntry
  <2>1. \/ guest' = guest
        \/ guest' = [guest EXCEPT !.bytes = path]
        \/ \E names \in Names : guest' = [guest EXCEPT !.names = names]
    BY <1>3 DEF Load, NoEntry, Caught
  <2>2. QED
    BY <2>1, NamesAssumption DEF Guests
<1>4. CASE Enter \/ HostCall \/ HostCallReturns
  BY <1>4 DEF Enter, HostCall, HostCallReturns, Guests, Hows
<1>5. CASE GuestReturns \/ GuestFails \/ OutOfFuel \/ GuestTraps
  BY <1>5, GuestStops DEF Stop, Guests
<1>6. CASE guest' \in {guest, NoGuest}
  BY <1>1, <1>6 DEF NoGuest
<1>7. QED
  BY <1>2, <1>3, <1>4, <1>5, <1>6
  DEF Next, HostSteps, ExecutionSteps, GuestSteps, WorkerSteps, Replace, Redirect, Begin,
      CheckProfile, Inspect, CheckBlockade, CheckIsolation, Spawn, ParentReceives,
      Attest, Prepare, Grant, Classify, FuelUnread, GuestSteps, Started,
      WallTimer, ByteWatch, Interrupt, InterruptWatch, WorkerTranslate,
      WorkerCleanup, WorkerReport, WorkerDies, ParentTimeout, WorkerEnds, Cleanup, Keep,
      Done, vars

(* Signals are only raised. *)
LEMMA SignalsTyped ==
    ASSUME TypeOK, [Next]_vars PROVE sig' \in Signals
<1> USE DEF TypeOK
<1>1. CASE WallTimer \/ ByteWatch \/ Interrupt \/ InterruptWatch
  <2>1. \/ sig' = sig
        \/ sig' = [sig EXCEPT !.wall = TRUE, !.epoch = TRUE]
        \/ sig' = [sig EXCEPT !.over = TRUE, !.epoch = TRUE]
        \/ sig' = [sig EXCEPT !.interrupt = TRUE]
        \/ sig' = [sig EXCEPT !.epoch = TRUE]
    BY <1>1 DEF WallTimer, ByteWatch, Interrupt, InterruptWatch
  <2>2. QED
    BY <2>1 DEF Signals
<1>2. CASE sig' \in {sig, Silent}
  <2>1. Silent \in Signals
    BY DEF Silent, Signals
  <2>2. QED
    BY <1>2, <2>1
<1>3. QED
  BY <1>1, <1>2
  DEF Next, HostSteps, ExecutionSteps, GuestSteps, WorkerSteps, Replace, Redirect, Begin,
      CheckProfile, Inspect, CheckBlockade, CheckIsolation, Dispatch, Spawn, ParentReceives,
      Attest, Prepare, Load, Grant, Enter, NoEntry, Caught, Classify, FuelUnread,
      GuestSteps, Started, HostCall, HostCallReturns, GuestReturns, GuestFails,
      OutOfFuel, GuestTraps, Raises, Stop, WorkerPick, WorkerTranslate,
      WorkerCleanup, WorkerReport, WorkerDies, ParentTimeout, WorkerEnds, Cleanup, Keep,
      Done, vars

(* The instance remembers only directories that are its own, so a worker that
   cleans up takes none of them. *)
LEMMA DirsTyped ==
    ASSUME TypeOK, [Next]_vars
    PROVE  /\ held' \subseteq {d \in dirs' : d.owner = "instance"}
           /\ dirs' \subseteq [run : 0..run', kind : {"sandbox", "host"}, owner : Owners]
<1> USE DEF TypeOK
<1>1. CASE Begin
  <2>1. run' = run + 1 /\ dirs' = dirs /\ held' = held
    BY <1>1 DEF Begin, disk
  <2>2. 0..run \subseteq 0..run'
    BY <2>1
  <2>3. QED
    BY <2>1, <2>2
<1>2. CASE Prepare
  <2>1. /\ held' \in {held, NewDirs}
        /\ held' = NewDirs => (InHost /\ guest.abi = "preview1") \/ held = NewDirs
        /\ held' \subseteq dirs'
        /\ dirs' \subseteq dirs \cup NewDirs
        /\ run' = run
    BY <1>2 DEF Prepare, Finish
  <2>2. ASSUME InHost, guest.abi = "preview1", NEW d \in NewDirs
        PROVE  d.owner = "instance"
    BY <2>2 DEF NewDirs, Dir
  <2>3. QED
    BY <2>1, <2>2, NewDirsTyped
<1>3. CASE WorkerCleanup \/ WorkerDies \/ ParentTimeout
  BY <1>3 DEF WorkerCleanup, WorkerDies, ParentTimeout, WorkerEnds, MyWorkerDirs
<1>4. CASE Cleanup
  BY <1>4 DEF Cleanup
<1>5. CASE run' = run /\ UNCHANGED <<dirs, held>>
  BY <1>5
<1>6. QED
  BY <1>1, <1>2, <1>3, <1>4, <1>5
  DEF Next, HostSteps, ExecutionSteps, GuestSteps, WorkerSteps, Replace, Redirect,
      CheckProfile, Inspect, CheckBlockade, CheckIsolation, Dispatch, Spawn, ParentReceives,
      Attest, Load, Grant, Enter, NoEntry, Caught, Classify, FuelUnread, WallTimer, ByteWatch, Interrupt,
      InterruptWatch, GuestSteps, Started, HostCall, HostCallReturns, GuestReturns, GuestFails,
      OutOfFuel, GuestTraps, Raises, Stop, WorkerPick, WorkerTranslate,
      WorkerReport, WorkerDies, ParentTimeout, WorkerEnds, Keep, Done, disk, vars

(* Typing, of all variables. *)
LEMMA TypeStep ==
    ASSUME RunInv, [Next]_vars PROVE TypeOK'
<1>1. TypeOK
  BY DEF RunInv
<1>2. /\ path' \in FileStates /\ target' \in {"safe", "forbidden"}
      /\ swaps' \in Nat /\ run' \in Nat
  BY <1>1, GuestFrame
  DEF TypeOK, Next, HostSteps, ExecutionSteps, WorkerSteps, Replace, Redirect, Begin,
      CheckProfile, Inspect, CheckBlockade, CheckIsolation, Dispatch, Spawn, ParentReceives,
      Attest, Prepare, Load, Grant, Enter, NoEntry, Caught, Classify, FuelUnread, WallTimer, ByteWatch, Interrupt,
      InterruptWatch, WorkerPick, WorkerCleanup, WorkerTranslate,
      WorkerReport, WorkerDies, ParentTimeout, WorkerEnds, Cleanup, Keep, Done, gates, vars
<1>3. /\ call' \in Calls /\ digest' \in Bytes \cup {NoDigest}
      /\ sub' \in BOOLEAN /\ granted' \in BOOLEAN /\ drift' \in BOOLEAN
  <2>1. CASE Begin
    BY <1>1, <2>1, CallsAssumption DEF TypeOK, Begin
  <2>2. CASE Inspect
    BY <1>1, <2>2 DEF TypeOK, Inspect, InspectionAllows, Admissible
  <2>3. CASE Grant
    BY <1>1, <2>3, CallsAssumption DEF TypeOK, Grant, gates
  <2>4. QED
    BY <1>1, <2>1, <2>2, <2>3, GuestFrame
    DEF TypeOK, Next, HostSteps, ExecutionSteps, WorkerSteps, Replace, Redirect,
        CheckProfile, CheckBlockade, CheckIsolation, Dispatch, Spawn, ParentReceives,
        Attest, Prepare, Load, Enter, NoEntry, Caught, Classify, FuelUnread, WallTimer, ByteWatch, Interrupt,
        InterruptWatch, WorkerPick, WorkerCleanup,
        WorkerTranslate, WorkerReport, WorkerDies, ParentTimeout, WorkerEnds, Cleanup,
        Keep, Done, gates, vars
<1>4. /\ pc' \in Gates \cup {"idle", "exec", "wait", "attest", "returned"}
      /\ work' \in WorkerRuns \cup {"none", "exited", "crashed", "killed"}
      /\ stage' \in Executing \cup {"none", "done"}
  BY <1>1, GuestFrame
  DEF Gates, WorkerRuns, Executing, AfterProfile, Refuse, Raise, Finish,
      TypeOK, Next, HostSteps, ExecutionSteps, WorkerSteps, Replace, Redirect, Begin,
      CheckProfile, Inspect, CheckBlockade, CheckIsolation, Dispatch, Spawn, ParentReceives,
      Attest, Prepare, Load, Grant, Enter, NoEntry, Caught, Classify, FuelUnread, WallTimer, ByteWatch, Interrupt,
      InterruptWatch, WorkerPick, WorkerCleanup, WorkerTranslate,
      WorkerReport, WorkerDies, ParentTimeout, WorkerEnds, Cleanup, Keep, Done, vars
<1>5. QED
  BY <1>1, <1>2, <1>3, <1>4, ResultTyped, GuestTyped, SignalsTyped, DirsTyped DEF TypeOK

(***************************************************************************)
(* Control: gates before executions, one execution at a time, and none     *)
(* that outlives the caller's wait.                                        *)
(***************************************************************************)
LEMMA ControlStep ==
    ASSUME RunInv, [Next]_vars PROVE ControlInv'
<1> USE DEF RunInv, TypeOK, ControlInv, InHost, Gates, Over, Executing, WorkerRuns,
    gates, disk, vars
<1>1. CASE Begin
  BY <1>1 DEF Begin, AfterProfile, NoResult, Silent, NoGuest, FreshGuest
<1>2. CASE CheckProfile
  BY <1>2 DEF CheckProfile, Refuse
<1>3. CASE Inspect
  BY <1>3 DEF Inspect, Refuse
<1>4. CASE CheckBlockade
  BY <1>4 DEF CheckBlockade, Refuse
<1>5. CASE CheckIsolation
  BY <1>5 DEF CheckIsolation, Refuse, Raise
<1>6. CASE Dispatch
  BY <1>6 DEF Dispatch, Raise, NoGuest, FreshGuest
<1>7. CASE Spawn \/ ParentReceives
  BY <1>7 DEF Spawn, ParentReceives
<1>8. CASE Attest \/ Cleanup \/ Keep
  BY <1>8 DEF Attest, Cleanup, Keep
<1>9. CASE Prepare
  BY <1>9 DEF Prepare, Finish, Guests
<1>10. CASE Load
  BY <1>10 DEF Load, Caught, Finish, Guests
<1>11. CASE Enter
  BY <1>11 DEF Enter, Guests
<1>12. CASE NoEntry
  BY <1>12 DEF NoEntry, Caught, Guests
<1>13. CASE Classify \/ FuelUnread
  BY <1>13 DEF Classify, Finish, FuelUnread, NoStore, Raise, Guests
<1>14. CASE GuestSteps
  <2>1. guest'.where = guest.where /\ guest.where # "none"
    <3>1. guest.where # "none"
      BY <1>14, GuestFrame DEF Guests
    <3>2. CASE Started \/ HostCall \/ HostCallReturns
      BY <3>2 DEF Started, HostCall, HostCallReturns, Guests
    <3>3. CASE GuestReturns \/ GuestFails \/ OutOfFuel \/ GuestTraps
      BY <3>3, GuestStops DEF Stop, Guests
    <3>4. QED
      BY <1>14, <3>1, <3>2, <3>3 DEF GuestSteps
  <2>2. /\ UNCHANGED <<pc, work, sig, result>>
        /\ stage \in Executing /\ stage' \in Executing
    BY <1>14, GuestFrame
  <2>3. QED
    BY <2>1, <2>2
<1>15. CASE WorkerPick
  BY <1>15 DEF WorkerPick, NoGuest, FreshGuest
<1>16. CASE WorkerCleanup \/ WorkerTranslate \/ WorkerReport
  BY <1>16 DEF WorkerCleanup, WorkerTranslate, WorkerReport
<1>17. CASE WorkerDies \/ ParentTimeout
  BY <1>17 DEF WorkerDies, WorkerEnds, ParentTimeout, Alive
<1>18. CASE Replace \/ Redirect \/ Grant \/ WallTimer \/ ByteWatch \/ Interrupt
            \/ InterruptWatch \/ Done \/ UNCHANGED vars
  BY <1>18 DEF Replace, Redirect, Grant, WallTimer, ByteWatch, Interrupt,
    InterruptWatch, Done
<1>19. QED
  BY <1>1, <1>2, <1>3, <1>4, <1>5, <1>6, <1>7, <1>8, <1>9, <1>10, <1>11, <1>12,
    <1>13, <1>14, <1>15, <1>16, <1>17, <1>18 DEF Next, HostSteps, ExecutionSteps,
    GuestSteps, WorkerSteps

(***************************************************************************)
(* Gates: a decision stays true of the file unless the file changed and    *)
(* the call leaves the ABI to it.                                          *)
(***************************************************************************)
LEMMA GatesStep ==
    ASSUME RunInv, [Next]_vars PROVE GatesInv'
<1> USE CallsAssumption, BytesAssumption DEF RunInv, TypeOK, ControlInv, GatesInv,
    Unstable, Gates, gates, disk, vars
<1>1. CASE Begin
  BY <1>1 DEF Begin, AfterProfile
<1>2. CASE CheckProfile
  BY <1>2 DEF CheckProfile, Refuse
<1>3. CASE Inspect
  BY <1>3 DEF Inspect, Refuse, InspectionAllows, Admissible, FileStates
<1>4. CASE CheckBlockade
  BY <1>4 DEF CheckBlockade, Refuse
<1>5. CASE CheckIsolation
  BY <1>5 DEF CheckIsolation, Refuse, Raise, IsolationRequired, ResolveAbi,
    ProfileAllows
<1>6. CASE Dispatch
  BY <1>6 DEF Dispatch, Raise
<1>7. CASE Spawn
  BY <1>7 DEF Spawn
<1>8. CASE Replace
  BY <1>8 DEF Replace, ResolveAbi, SyncBlockadeHolds, IsolationRequired, FileStates
<1>9. CASE Grant
  BY <1>9 DEF Grant
<1>10. CASE Redirect \/ ParentReceives \/ Attest \/ Prepare \/ Load \/ Enter \/
            NoEntry \/ Classify \/ WallTimer \/ ByteWatch \/ Interrupt \/
            InterruptWatch \/ GuestSteps \/ FuelUnread \/ WorkerPick \/
            WorkerCleanup \/ WorkerTranslate \/ WorkerReport \/ WorkerDies \/
            ParentTimeout \/ Cleanup \/ Keep \/ Done \/ UNCHANGED vars
  BY <1>10, GuestFrame DEF Redirect, ParentReceives, Attest, Prepare, Finish, Load, Enter,
    NoEntry, Caught, Classify, FuelUnread, Raise, WallTimer, ByteWatch, Interrupt,
    InterruptWatch, WorkerPick, WorkerCleanup, WorkerTranslate, WorkerReport,
    WorkerDies, WorkerEnds, ParentTimeout, Cleanup, Keep, Done
<1>11. QED
  BY <1>1, <1>2, <1>3, <1>4, <1>5, <1>6, <1>7, <1>8, <1>9, <1>10 DEF Next,
    HostSteps, ExecutionSteps, GuestSteps, WorkerSteps

(***************************************************************************)
(* Guest: it starts with the ABI the gates decided about, reads its bytes  *)
(* once, and the digest in force does not change under it.                 *)
(***************************************************************************)
LEMMA GuestStep ==
    ASSUME RunInv, [Next]_vars PROVE GuestInv'
<1> USE CallsAssumption, BytesAssumption DEF RunInv, TypeOK, ControlInv, GuestInv,
    InHost, Executing, Unstable, DigestMatches, GuestRan, gates, disk, vars
<1>1. CASE Begin
  BY <1>1 DEF Begin, AfterProfile, NoGuest, FreshGuest
<1>2. CASE CheckProfile
  BY <1>2 DEF CheckProfile, Refuse, Gates, NoGuest, FreshGuest
<1>3. CASE Inspect
  BY <1>3 DEF Inspect, Refuse, Gates, NoGuest, FreshGuest
<1>4. CASE CheckBlockade
  BY <1>4 DEF CheckBlockade, Refuse, Gates, NoGuest, FreshGuest
<1>5. CASE CheckIsolation
  BY <1>5 DEF CheckIsolation, Refuse, Raise, Gates, NoGuest, FreshGuest
<1>6. CASE Dispatch
  BY <1>6 DEF Dispatch, Raise, Gates, GatesInv, NoGuest, FreshGuest, NoResult,
    Outcome, ResolveAbi, Abis
<1>7. CASE Spawn
  BY <1>7 DEF Spawn, Gates, NoGuest, FreshGuest
<1>8. CASE Replace \/ Redirect
  BY <1>8 DEF Replace, Redirect, ResolveAbi
<1>9. CASE ParentReceives
  BY <1>9 DEF ParentReceives, WorkerFailure, Outcome
<1>10. CASE WorkerPick
  BY <1>10 DEF WorkerPick, Guests, GatesInv, NoGuest, FreshGuest, NoResult, Outcome,
    ResolveAbi, Abis
<1>11. CASE Prepare
  BY <1>11 DEF Prepare, Finish, Failed, Outcome
<1>12. CASE Load
  BY <1>12 DEF Load, Caught, Finish, Guests, Failed, Outcome
<1>13. CASE Grant
  BY <1>13 DEF Grant
<1>14. CASE Enter
  BY <1>14 DEF Enter, Guests, GatesInv
<1>15. CASE NoEntry
  BY <1>15 DEF NoEntry, Caught, Guests
<1>16. CASE Classify \/ FuelUnread
  <2>1. ~result'.refused
    BY <1>16, VerdictPlain DEF Classify, Finish, FuelUnread, Raise, Outcome
  <2>2. QED
    BY <1>16, <2>1 DEF Classify, Finish, FuelUnread, NoStore, Raise
<1>17. CASE Started \/ HostCall \/ HostCallReturns
  BY <1>17 DEF Started, HostCall, HostCallReturns, Guests
<1>18. CASE GuestReturns \/ GuestFails \/ OutOfFuel \/ GuestTraps
  <2>1. PICK how \in Hows \ {"none", "running", "blocked"}, names \in SUBSET Words,
             place \in {"stop", "failed"} : Stop(how, names, place)
    BY <1>18, GuestStops
  <2>2. /\ guest' = [guest EXCEPT !.how = how, !.names = names]
        /\ stage' = place /\ guest.how = "running"
        /\ UNCHANGED <<gates, run, pc, work, sig, granted, result, disk>>
    BY <2>1 DEF Stop
  <2>3. /\ guest'.how = how /\ guest'.where = guest.where /\ guest'.abi = guest.abi
        /\ guest'.bytes = guest.bytes /\ guest'.dir = guest.dir
    BY <2>2 DEF Guests
  <2>4. QED
    BY <2>2, <2>3
<1>19. CASE WorkerTranslate
  BY <1>19 DEF WorkerTranslate, Results
<1>20. CASE WorkerDies
  BY <1>20 DEF WorkerDies, WorkerEnds, Alive
<1>21. CASE ParentTimeout
  BY <1>21 DEF ParentTimeout, WorkerEnds, WorkerFailure, Outcome
<1>22. CASE Attest
  BY <1>22 DEF Attest, Results
<1>23. CASE WallTimer \/ ByteWatch \/ Interrupt \/ InterruptWatch \/
            WorkerCleanup \/ WorkerReport \/ Cleanup \/ Keep \/ Done \/
            UNCHANGED vars
  BY <1>23 DEF WallTimer, ByteWatch, Interrupt, InterruptWatch, WorkerCleanup,
    WorkerReport, Cleanup, Keep, Done
<1>24. QED
  BY <1>1, <1>2, <1>3, <1>4, <1>5, <1>6, <1>7, <1>8, <1>9, <1>10, <1>11, <1>12,
    <1>13, <1>14, <1>15, <1>16, <1>17, <1>18, <1>19, <1>20, <1>21, <1>22, <1>23 DEF
    Next, HostSteps, ExecutionSteps, GuestSteps, WorkerSteps

(***************************************************************************)
(* Result: what is reported on the way from the guest to the caller.       *)
(***************************************************************************)
LEMMA ResultStep ==
    ASSUME RunInv, [Next]_vars PROVE ResultInv'
<1> USE CallsAssumption DEF RunInv, TypeOK, ControlInv, ResultInv, InHost, GuestRan, Over,
    Executing, Unstable, gates, disk, vars
<1>1. CASE Begin
  BY <1>1 DEF Begin, AfterProfile, NoGuest, FreshGuest
<1>2. CASE CheckProfile
  BY <1>2 DEF CheckProfile, Refuse, Gates, NoGuest, FreshGuest
<1>3. CASE Inspect
  BY <1>3 DEF Inspect, Refuse, Gates, NoGuest, FreshGuest
<1>4. CASE CheckBlockade
  BY <1>4 DEF CheckBlockade, Refuse, Gates, NoGuest, FreshGuest
<1>5. CASE CheckIsolation
  BY <1>5 DEF CheckIsolation, Refuse, Raise, Gates, NoGuest, FreshGuest
<1>6. CASE Dispatch
  BY <1>6 DEF Dispatch, Raise, Gates, NoGuest, FreshGuest
<1>7. CASE Spawn
  BY <1>7 DEF Spawn, Gates, NoGuest, FreshGuest
<1>8. CASE Replace \/ Redirect
  BY <1>8 DEF Replace, Redirect
<1>9. CASE ParentReceives
  BY <1>9 DEF ParentReceives, WorkerFailure, Outcome, WorkerRuns
<1>10. CASE WorkerPick
  BY <1>10 DEF WorkerPick, NoGuest, FreshGuest
<1>11. CASE Prepare
  BY <1>11 DEF Prepare, Finish, Guests, Failed, Outcome
<1>12. CASE Load
  BY <1>12 DEF Load, Caught, Finish, Guests, Failed, Outcome
<1>13. CASE NoEntry
  BY <1>13 DEF NoEntry, Caught, Guests
<1>14. CASE Classify \/ FuelUnread
  <2>1. CASE Classify
    <3>1. result'.mode = "in_process" /\ result'.abi = NoAbi /\ result'.status # "raised"
      BY <2>1, VerdictPlain DEF Classify, Finish
    <3>2. QED
      BY <2>1, <3>1 DEF Classify, Finish, Guests
  <2>2. CASE FuelUnread
    <3>1. ~GuestRan
      BY <2>2, BytesAssumption DEF FuelUnread, NoStore, GuestInv, Compiles
    <3>2. QED
      BY <2>2, <3>1 DEF FuelUnread, NoStore, Raise, Outcome, Guests
  <2>3. QED
    BY <1>14, <2>1, <2>2
<1>15. CASE Enter
  BY <1>15 DEF Enter, Guests
<1>16. CASE GuestSteps
  <2>1. CASE Started \/ HostCall \/ HostCallReturns
    BY <2>1 DEF Started, HostCall, HostCallReturns, Guests
  <2>2. CASE GuestReturns \/ GuestFails \/ OutOfFuel \/ GuestTraps
    BY <2>2, GuestStops DEF Stop, Guests
  <2>3. QED
    BY <1>16, <2>1, <2>2 DEF GuestSteps
<1>17. CASE WorkerTranslate
  BY <1>17 DEF WorkerTranslate, Results, WorkerRuns
<1>18. CASE WorkerDies
  BY <1>18 DEF WorkerDies, WorkerEnds, Alive, WorkerRuns
<1>19. CASE ParentTimeout
  BY <1>19 DEF ParentTimeout, WorkerEnds, WorkerFailure, Outcome
<1>20. CASE Attest
  BY <1>20 DEF Attest, Results, GuestInv, Abis
<1>21. CASE Cleanup \/ Keep
  BY <1>21 DEF Cleanup, Keep
<1>22. CASE Grant \/ WallTimer \/ ByteWatch \/ Interrupt \/ InterruptWatch \/
            WorkerCleanup \/ WorkerReport \/ Done \/ UNCHANGED vars
  BY <1>22 DEF Grant, WallTimer, ByteWatch, Interrupt, InterruptWatch,
    WorkerCleanup, WorkerReport, Done
<1>23. QED
  BY <1>1, <1>2, <1>3, <1>4, <1>5, <1>6, <1>7, <1>8, <1>9, <1>10, <1>11, <1>12,
    <1>13, <1>14, <1>15, <1>16, <1>17, <1>18, <1>19, <1>20, <1>21, <1>22 DEF Next,
    HostSteps, ExecutionSteps, GuestSteps, WorkerSteps

(* What the handlers make of a text: a guest that returned is a success, and
   success, a timeout and a breach are read off the text and the flag. *)
LEMMA VerdictCaused ==
    ASSUME NEW clean, ExitsClean(clean)
    PROVE  /\ guest.how = "ok" => Verdict(clean).status = "success"
           /\ Verdict(clean).status = "success" =>
                guest.how \in {"ok", "exit 0"} \/ "exit 0" \in guest.names
           /\ Verdict(clean).status = "timeout" =>
                /\ guest.how = "interrupt" \/ "interrupt" \in guest.names
                /\ guest.abi = "component" \/ ~sig.over
           /\ Verdict(clean).io => sig.over
<1>1. ASSUME NEW word \in Text PROVE guest.how = word \/ word \in guest.names
  BY <1>1 DEF Text
<1>2. QED
  BY <1>1 DEF Verdict, ComponentVerdict, TrapVerdict, RaiseVerdict, ExitsClean,
    Ended, Failed, Outcome

(***************************************************************************)
(* Signals: every interruption has its cause.                              *)
(***************************************************************************)
LEMMA SignalStep ==
    ASSUME RunInv, [Next]_vars PROVE SignalInv'
<1> USE DEF RunInv, TypeOK, ControlInv, SignalInv, InHost, Over, Executing, gates,
    disk, vars
<1>1. CASE Begin
  BY <1>1 DEF Begin, AfterProfile, NoGuest, FreshGuest, Silent, NoResult, Outcome
<1>2. CASE \/ CheckProfile \/ Inspect \/ CheckBlockade \/ CheckIsolation
           \/ Dispatch \/ Spawn
  <2>1. sig = Silent /\ guest = NoGuest /\ result = NoResult
    BY <1>2 DEF CheckProfile, Inspect, CheckBlockade, CheckIsolation, Dispatch, Spawn,
      Gates
  <2>2. UNCHANGED <<sig, call>>
    BY <1>2 DEF CheckProfile, Inspect, CheckBlockade, CheckIsolation, Dispatch, Spawn
  <2>3. guest'.how = "none" /\ ~result'.io
    BY <1>2, <2>1 DEF CheckProfile, Inspect, CheckBlockade, CheckIsolation, Dispatch,
      Spawn, Refuse, Raise, WorkerFailure, Outcome, NoResult, NoGuest, FreshGuest
  <2>4. QED
    BY <2>1, <2>2, <2>3 DEF Silent
<1>3. CASE ParentReceives \/ ParentTimeout
  BY <1>3 DEF ParentReceives, ParentTimeout, WorkerEnds, WorkerFailure, Outcome
<1>4. CASE WorkerPick
  <2>1. sig = Silent /\ guest = NoGuest /\ result = NoResult
    BY <1>4 DEF WorkerPick, Guests
  <2>2. UNCHANGED <<sig, call>>
    BY <1>4 DEF WorkerPick
  <2>3. guest'.how = "none" /\ ~result'.io
    BY <1>4, <2>1 DEF WorkerPick, WorkerFailure, Outcome, NoResult, NoGuest, FreshGuest
  <2>4. QED
    BY <2>1, <2>2, <2>3 DEF Silent
<1>5. CASE Prepare \/ Load \/ NoEntry \/ Enter
  <2>1. UNCHANGED <<sig, call>>
    BY <1>5 DEF Prepare, Load, NoEntry, Enter
  <2>2. /\ guest'.where = guest.where /\ guest'.abi = guest.abi
        /\ guest'.how \in {guest.how, "running"}
    BY <1>5 DEF Prepare, Load, NoEntry, Enter, Caught, Guests
  <2>3. result'.io => result.io
    BY <1>5 DEF Prepare, Load, NoEntry, Enter, Finish, Failed, Outcome
  <2>4. QED
    BY <2>1, <2>2, <2>3
<1>6. CASE Classify
  BY <1>6, VerdictCaused DEF Classify, Finish
<1>7. CASE FuelUnread
  BY <1>7 DEF FuelUnread, Raise, Outcome
<1>8. CASE WallTimer \/ ByteWatch \/ InterruptWatch \/ Interrupt
  BY <1>8 DEF WallTimer, ByteWatch, InterruptWatch, Interrupt, Signals
<1>9. CASE Started \/ HostCall \/ HostCallReturns
  BY <1>9 DEF Started, HostCall, HostCallReturns, Guests
<1>10. CASE GuestReturns \/ GuestFails \/ OutOfFuel \/ GuestTraps
  <2>1. PICK how \in Hows \ {"none", "running", "blocked"}, names \in SUBSET Words,
             place \in {"stop", "failed"} :
               Stop(how, names, place) /\ (how = "interrupt" => sig.epoch)
    BY <1>10, GuestStops
  <2>2. /\ guest' = [guest EXCEPT !.how = how, !.names = names]
        /\ UNCHANGED <<sig, call, result>>
    BY <2>1 DEF Stop
  <2>3. /\ guest'.how = how /\ guest'.where = guest.where /\ guest'.abi = guest.abi
    BY <2>2 DEF Guests
  <2>4. QED
    BY <2>1, <2>2, <2>3
<1>11. CASE WorkerTranslate
  BY <1>11 DEF WorkerTranslate, Results, CpuBreached
<1>12. CASE Attest
  BY <1>12 DEF Attest, Results
<1>13. CASE Replace \/ Redirect \/ Grant \/ WorkerCleanup \/ WorkerReport
            \/ WorkerDies \/ Cleanup \/ Keep \/ Done \/ UNCHANGED vars
  BY <1>13 DEF Replace, Redirect, Grant, WorkerCleanup, WorkerReport, WorkerDies,
    WorkerEnds, Cleanup, Keep, Done
<1>14. QED
  BY <1>1, <1>2, <1>3, <1>4, <1>5, <1>6, <1>7, <1>8, <1>9, <1>10, <1>11, <1>12,
    <1>13 DEF Next, HostSteps, ExecutionSteps, GuestSteps, WorkerSteps

(***************************************************************************)
(* Verdict: the status against how the guest ended and who interrupted it. *)
(***************************************************************************)
LEMMA VerdictStep ==
    ASSUME RunInv, [Next]_vars PROVE VerdictInv'
<1> USE DEF RunInv, TypeOK, VerdictInv, gates, disk, vars
<1>1. CASE \/ Begin \/ Dispatch \/ WorkerPick \/ Grant \/ Enter \/ NoEntry
           \/ WorkerDies \/ ParentTimeout
  <2>1. CASE Begin \/ Grant \/ Enter \/ NoEntry \/ WorkerDies \/ ParentTimeout
    BY <2>1 DEF Begin, Grant, Enter, NoEntry, Caught, WorkerDies, ParentTimeout, WorkerEnds
  <2>2. CASE Dispatch
    BY <2>2 DEF Dispatch, Raise, ControlInv, Gates
  <2>3. CASE WorkerPick
    BY <2>3 DEF WorkerPick, ControlInv, InHost, Guests
  <2>4. QED
    BY <1>1, <2>1, <2>2, <2>3
<1>2. CASE CheckProfile \/ Inspect \/ CheckBlockade \/ CheckIsolation \/ Spawn
  <2>1. stage' # "done"
    BY <1>2 DEF CheckProfile, Inspect, CheckBlockade, CheckIsolation, Spawn,
      ControlInv, Gates
  <2>2. QED
    BY <2>1
<1>3. CASE GuestSteps
  <2>1. stage' # "done"
    BY <1>3, GuestFrame
  <2>2. QED
    BY <2>1
<1>4. CASE Prepare \/ Load
  <2>1. guest.how = "none"
    BY <1>4 DEF Prepare, Load, GuestInv
  <2>2. stage' = "done" => guest' = guest /\ result' = Failed
    BY <1>4 DEF Prepare, Load, Caught, Finish
  <2>3. Failed.status = "error"
    BY DEF Failed, Outcome
  <2>4. QED
    BY <2>1, <2>2, <2>3
<1>5. CASE Classify
  <2>1. PICK clean \in BOOLEAN : ExitsClean(clean) /\ result' = Verdict(clean)
    BY <1>5 DEF Classify, Finish
  <2>2. UNCHANGED <<guest, sig, work>>
    BY <1>5 DEF Classify
  <2>3. work \notin {"report", "exited"}
    BY <1>5 DEF Classify, ControlInv, InHost, Executing, NoGuest, FreshGuest, Guests,
      WorkerRuns
  <2>4. guest.abi = "component" => ~sig.over
    BY DEF SignalInv
  <2>5. guest.how = "interrupt" => sig.wall \/ sig.over \/ sig.interrupt
    BY DEF SignalInv
  <2>6. QED
    BY <2>1, <2>2, <2>3, <2>4, <2>5, VerdictCaused
<1>6. CASE FuelUnread
  <2>1. guest.how # "ok" /\ guest' = guest /\ result'.status = "raised"
    BY <1>6, BytesAssumption DEF FuelUnread, NoStore, Raise, Outcome, GuestInv,
      GuestRan, Compiles
  <2>2. QED
    BY <2>1
<1>7. CASE WallTimer \/ ByteWatch \/ InterruptWatch \/ Interrupt
  BY <1>7 DEF WallTimer, ByteWatch, InterruptWatch, Interrupt, Signals
<1>8. CASE WorkerTranslate
  BY <1>8 DEF WorkerTranslate, Results, CpuBreached, SignalInv, ControlInv
<1>9. CASE WorkerCleanup \/ WorkerReport
  BY <1>9 DEF WorkerCleanup, WorkerReport
<1>10. CASE Attest
  BY <1>10 DEF Attest, Results
<1>11. CASE ParentReceives
  <2>1. CASE work = "exited"
    BY <1>11, <2>1 DEF ParentReceives
  <2>2. CASE work = "crashed"
    <3>1. stage # "done"
      BY <2>2 DEF ControlInv, InHost, Guests
    <3>2. QED
      BY <1>11, <3>1 DEF ParentReceives
  <2>3. QED
    BY <1>11, <2>1, <2>2 DEF ParentReceives
<1>12. CASE Replace \/ Redirect \/ Cleanup \/ Keep \/ Done \/ UNCHANGED vars
  BY <1>12 DEF Replace, Redirect, Cleanup, Keep, Done
<1>13. QED
  BY <1>1, <1>2, <1>3, <1>4, <1>5, <1>6, <1>7, <1>8, <1>9, <1>10, <1>11, <1>12
  DEF Next, HostSteps, ExecutionSteps, WorkerSteps

(***************************************************************************)
(* Residue: only Prepare makes directories; whoever lets go of one removes *)
(* it or lists it.                                                         *)
(***************************************************************************)
LEMMA ResidueStep ==
    ASSUME RunInv, [Next]_vars PROVE ResidueInv'
<1> USE DEF RunInv, TypeOK, ControlInv, ResidueInv, InHost, Over, Executing,
    WorkerRuns, gates, disk, vars
<1>1. CASE Begin
  BY <1>1 DEF Begin, AfterProfile
<1>2. CASE Prepare
  BY <1>2 DEF Prepare, Finish, Guests, NewDirs, Dir, NoGuest, FreshGuest
<1>3. CASE WorkerPick
  BY <1>3 DEF WorkerPick
<1>4. CASE WorkerCleanup
  BY <1>4 DEF WorkerCleanup, MyWorkerDirs
<1>5. CASE WorkerTranslate
  BY <1>5 DEF WorkerTranslate
<1>6. CASE WorkerReport
  BY <1>6 DEF WorkerReport
<1>7. CASE WorkerDies
  BY <1>7 DEF WorkerDies, WorkerEnds, MyWorkerDirs
<1>8. CASE ParentTimeout
  BY <1>8 DEF ParentTimeout, WorkerEnds, MyWorkerDirs
<1>9. CASE Cleanup
  BY <1>9 DEF Cleanup
<1>10. CASE Spawn
  BY <1>10 DEF Spawn, Gates
<1>11. CASE Replace \/ Redirect \/ CheckProfile \/ Inspect \/ CheckBlockade \/
            CheckIsolation \/ Dispatch \/ ParentReceives \/ Attest \/ Load \/
            Grant \/ Enter \/ NoEntry \/ Classify \/ WallTimer \/ ByteWatch \/
            Interrupt \/ InterruptWatch \/ GuestSteps \/ FuelUnread \/ Keep \/
            Done \/ UNCHANGED vars
  BY <1>11 DEF Replace, Redirect, CheckProfile, Refuse, Inspect, CheckBlockade,
    CheckIsolation, Raise, Dispatch, ParentReceives, Attest, Load, Finish, Grant,
    Enter, NoEntry, Caught, Classify, FuelUnread, WallTimer, ByteWatch, Interrupt, InterruptWatch,
    GuestSteps, Started, HostCall, HostCallReturns, GuestReturns, GuestFails,
      OutOfFuel, GuestTraps, Raises, Stop, Keep, Done
<1>12. QED
  BY <1>1, <1>2, <1>3, <1>4, <1>5, <1>6, <1>7, <1>8, <1>9, <1>10, <1>11 DEF Next,
    HostSteps, ExecutionSteps, GuestSteps, WorkerSteps
--------------------------------------------------------------------------------
(* Before the first run there is neither guest nor directory. *)
LEMMA RunInit == Init => RunInv
<1> SUFFICES ASSUME Init PROVE RunInv
  OBVIOUS
<1>1. TypeOK
  <2>1. Silent \in Signals
    BY DEF Silent, Signals
  <2>2. NoGuest \in Guests
    BY DEF NoGuest, FreshGuest, Guests, FileStates, Hows
  <2>3. QED
    BY <2>1, <2>2, FailuresTyped DEF Init, TypeOK
<1>2. ControlInv
  BY DEF Init, ControlInv, InHost, NoGuest, FreshGuest, Gates, WorkerRuns, Over
<1>3. GatesInv /\ GuestInv
  BY DEF Init, GatesInv, GuestInv, GuestRan, NoGuest, FreshGuest
<1>4. ResultInv /\ SignalInv /\ VerdictInv
  BY DEF Init, ResultInv, SignalInv, VerdictInv, InHost, GuestRan, NoGuest, FreshGuest, Silent,
         NoResult, Outcome
<1>5. ResidueInv
  BY DEF Init, ResidueInv
<1>6. QED
  BY <1>1, <1>2, <1>3, <1>4, <1>5 DEF RunInv

(***************************************************************************)
(* The inductive invariant, for any calls, any contents of the module      *)
(* file and any number of runs and changes.                                *)
(***************************************************************************)
THEOREM RunCorrect == Spec => []RunInv
<1>1. Init => RunInv
  BY RunInit
<1>2. RunInv /\ [Next]_vars => RunInv'
  BY ControlStep, TypeStep, GatesStep, GuestStep, ResultStep, SignalStep,
     VerdictStep, ResidueStep
  DEF RunInv
<1>3. QED
  BY <1>1, <1>2, PTL DEF Spec

(***************************************************************************)
(* The guest that runs is one the gates allowed: the isolation mandate and *)
(* the sync blockade of run() hold of it, whatever replaced the file after *)
(* they were decided, except for a call that leaves the ABI to the file.   *)
(***************************************************************************)
THEOREM GatesHoldAlways == Spec => []GatesHold
<1>1. RunInv => GatesHold
  <2> SUFFICES ASSUME RunInv, GuestRan PROVE GatesHold
    BY DEF GatesHold
  <2>1. guest.where \in {"host", "worker"}
    BY DEF RunInv, TypeOK, Guests, ControlInv, GuestRan, NoGuest, FreshGuest
  <2>2. QED
    BY <2>1 DEF RunInv, GuestInv, Unstable, InHost, GatesHold
<1>2. QED
  BY <1>1, RunCorrect, PTL

(***************************************************************************)
(* The result run() returns names the process and the ABI of the guest.    *)
(***************************************************************************)
THEOREM ResultsTellTheRun == Spec => []ResultTellsTheRun
<1>1. RunInv => ResultTellsTheRun
  <2> SUFFICES ASSUME RunInv, pc = "returned", GuestRan PROVE ResultTellsTheRun
    BY DEF ResultTellsTheRun
  <2>1. guest.where \in {"host", "worker"}
    BY DEF RunInv, TypeOK, Guests, ControlInv, GuestRan, NoGuest, FreshGuest
  <2>2. CASE InHost
    BY <2>2 DEF RunInv, ResultInv, ControlInv, Over, Unstable, InHost, ResultTellsTheRun
  <2>3. CASE guest.where = "worker"
    <3>1. work \in {"exited", "crashed", "killed"}
      BY <2>3 DEF RunInv, TypeOK, ControlInv, WorkerRuns
    <3>2. QED
      BY <2>3, <3>1 DEF RunInv, ResultInv, Over, Unstable, ResultTellsTheRun
  <2>4. QED
    BY <2>1, <2>2, <2>3 DEF InHost
<1>2. QED
  BY <1>1, RunCorrect, PTL

(***************************************************************************)
(* The status run() returns: a guest that finished is a success whatever   *)
(* the watchers saw, a budget breach has a cause, and success and a        *)
(* timeout have one too, unless a name of the module put the word into the *)
(* text the status is read off.                                            *)
(***************************************************************************)
THEOREM VerdictsAreTrueAlways == Spec => []VerdictsAreTrue
<1>1. RunInv => VerdictsAreTrue
  <2> SUFFICES ASSUME RunInv, pc = "returned", guest.where # "none" PROVE VerdictsAreTrue
    BY DEF VerdictsAreTrue
  <2>1. guest.where \in {"host", "worker"}
    BY DEF RunInv, TypeOK, Guests, ControlInv, GuestRan, NoGuest, FreshGuest
  <2>2. CASE InHost
    <3>1. stage = "done" /\ work = "none"
      BY <2>2 DEF RunInv, ControlInv
    <3>2. QED
      BY <2>2, <3>1 DEF RunInv, SignalInv, VerdictInv, VerdictsAreTrue
  <2>3. CASE guest.where = "worker"
    <3>1. work \in {"exited", "crashed", "killed"}
      BY <2>3 DEF RunInv, TypeOK, ControlInv, WorkerRuns
    <3>2. CASE work = "exited"
      <4>1. stage = "done"
        BY <2>3, <3>2 DEF RunInv, TypeOK, ControlInv
      <4>2. QED
        BY <2>3, <3>2, <4>1 DEF RunInv, SignalInv, VerdictInv, VerdictsAreTrue
    <3>3. CASE work \in {"crashed", "killed"}
      BY <3>3 DEF RunInv, ResultInv, Over, VerdictsAreTrue
    <3>4. QED
      BY <3>1, <3>2, <3>3
  <2>4. QED
    BY <2>1, <2>2, <2>3 DEF InHost
<1>2. QED
  BY <1>1, RunCorrect, PTL

(***************************************************************************)
(* Between runs, every directory on disk has an owner or was told of.      *)
(***************************************************************************)
THEOREM ResidueKnownAlways == Spec => []ResidueKnown
<1>1. RunInv => ResidueKnown
  <2> SUFFICES ASSUME RunInv, pc = "idle" PROVE ResidueKnown
    BY DEF ResidueKnown
  <2>1. work # "exec"
    BY DEF RunInv, ControlInv, WorkerRuns
  <2>2. QED
    BY <2>1 DEF RunInv, ResidueInv, ResidueKnown
<1>2. QED
  BY <1>1, RunCorrect, PTL
===============================================================================
