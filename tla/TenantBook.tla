------------------------------ MODULE TenantBook ------------------------------
(***************************************************************************)
(* The tenant book (ephemora_cell/tenant.py) and the run() that bills      *)
(* through it (wasi_runtime.py).  Every run is admitted against the caps   *)
(* with a reservation, executes, and is settled; a run that raises hands   *)
(* its reservation back; one that dies leaves it standing until its time   *)
(* to live is over or the operator expires it.  The three charge           *)
(* dimensions (fuel, output bytes, wall time) are compared alike: one      *)
(* capped dimension, units, stands for them, next to the number of runs.   *)
(***************************************************************************)
EXTENDS AppendLog, Integers, FiniteSets

CONSTANTS
    Tenants,
    MaxUnits,   \* CumulativeBudget.max_total_* of each tenant, or None
    MaxRuns,    \* CumulativeBudget.max_runs of each tenant, or None
    None,
    Reserve,    \* WASISandbox.reservation(): the ceiling of one run
    Charges,    \* what a run may turn out to have consumed
    TTL,        \* ttl_seconds
    MaxLines,   \* bound: no operation starts once the book could exceed this
    MaxTime     \* bound: the last instant

ASSUME TenantAssumption ==
    /\ None \notin Int
    /\ MaxUnits \in [Tenants -> (Nat \ {0}) \cup {None}]
    /\ MaxRuns \in [Tenants -> (Nat \ {0}) \cup {None}]
    /\ Reserve \in Nat
    /\ Charges \subseteq Nat
    /\ TTL \in Nat \ {0}
    /\ MaxLines \in Nat
    /\ MaxTime \in Nat

VARIABLES
    now,        \* the host clock
    pc,         \* where each caller stands
    task,       \* what each caller is doing: operation, tenant, admission
    draft,      \* the line a caller has decided to write
    returned    \* history: the admissions whose run() returned a result

vars == <<file, cut, holder, now, pc, task, draft, returned>>

Ids == Writers \X Nat       \* uuid4().hex: never drawn twice

NoId == <<NoWriter, 0>>

Task == [op : {"none", "admit", "settle", "expire"}, tenant : Tenants \cup {None},
         id : Ids \cup {NoId}, charge : Nat, unknown : BOOLEAN]

NoTask == [op |-> "none", tenant |-> None, id |-> NoId, charge |-> 0, unknown |-> FALSE]

Sums == [runs : Nat, units : Nat, refused : Nat, unknown : Nat]

NoSums == [runs |-> 0, units |-> 0, refused |-> 0, unknown |-> 0]

Line == [kind : {"admit", "settle", "expire", "refuse"}, tenant : Tenants,
         id : Ids \cup {NoId}, charge : Nat, unknown : BOOLEAN, at : Nat,
         expires : Nat, totals : Sums]

Admission == [id : Ids \cup {NoId}, charge : Nat, expires : Nat]

Accounts == [sums : Sums, open : SUBSET Admission]

(* What does not parse is neither a line nor an account. *)
ASSUME DamagedIsNoLine == Damaged \notin Line \cup Accounts

------------------------------------------------------------------------------
(***************************************************************************)
(* _Replay: the account a tenant's lines fold into, its settled sums and   *)
(* its open admissions.                                                    *)
(***************************************************************************)
EmptyAccount == [sums |-> NoSums, open |-> {}]

OpenIds(a) == {o.id : o \in a.open}

Close(a, id) == {o \in a.open : o.id # id}

Folded(a, line) ==
    CASE line.kind = "admit" ->
            [a EXCEPT !.open = @ \cup {[id |-> line.id, charge |-> line.charge,
                                        expires |-> line.expires]}]
      [] line.kind = "settle" ->
            [open |-> Close(a, line.id),
             sums |-> [a.sums EXCEPT !.runs = @ + 1,
                                     !.units = @ + line.charge,
                                     !.unknown = @ + (IF line.unknown THEN 1 ELSE 0)]]
      [] line.kind = "expire" -> [a EXCEPT !.open = Close(a, line.id)]
      [] line.kind = "refuse" -> [a EXCEPT !.sums.refused = @ + 1]

Seals_AdmissionOnly(a, line) ==             \* mutant: totals are not compared
    line.kind = "settle" => line.id \in OpenIds(a)

Seals(a, line) ==
    /\ line.kind = "settle" => line.id \in OpenIds(a)
    /\ line.totals = Folded(a, line).sums

Replayed_SkippingDamage(a, line, t) ==      \* mutant: what does not parse is skipped
    IF line = Damaged THEN a ELSE IF line.tenant # t THEN a ELSE Folded(a, line)

(* One line of the replay: one that is not JSON, or that does not seal,    *)
(* makes it raise, whatever comes later.                                   *)
Replayed(a, line, t) ==
    IF a = Damaged \/ line = Damaged THEN Damaged
    ELSE IF line.tenant # t THEN a
    ELSE IF Seals(a, line) THEN Folded(a, line) ELSE Damaged

Replay(f, t) ==
    LET account[n \in 0..Len(f)] ==
            IF n = 0 THEN EmptyAccount ELSE Replayed(account[n - 1], f[n], t)
    IN  account[Len(f)]

Active_Never(a, clock) == {}                \* mutant: reservations not counted

(* active_open: the open admissions whose reservation has not lapsed. *)
Active(a, clock) == {o \in a.open : o.expires > clock}

(* usage().projected(): settled sums plus everything still reserved. *)
Projected(a, clock) ==
    [runs |-> a.sums.runs + Cardinality(Active(a, clock)),
     units |-> a.sums.units + Cardinality(Active(a, clock)) * Reserve]

------------------------------------------------------------------------------
(***************************************************************************)
(* CumulativeBudget.violation, of the account including this run.          *)
(***************************************************************************)
Exceeds(cap, value) == cap # None /\ value > cap

OverBudget(t, a, clock) ==
    \/ Exceeds(MaxUnits[t], Projected(a, clock).units + Reserve)
    \/ Exceeds(MaxRuns[t], Projected(a, clock).runs + 1)

(* A line, sealed with the totals the replay will derive from it. *)
Sealed(a, line) == [line EXCEPT !.totals = Folded(a, line).sums]

LineOf(c, kind) ==
    [kind |-> kind, tenant |-> task[c].tenant, id |-> task[c].id,
     charge |-> task[c].charge, unknown |-> task[c].unknown,
     at |-> now, expires |-> 0, totals |-> NoSums]

FreshId(c) == <<c, Len(file)>>

AdmitLine(c) ==
    [LineOf(c, "admit") EXCEPT !.id = FreshId(c), !.charge = Reserve,
                               !.expires = now + TTL]

------------------------------------------------------------------------------
Init ==
    /\ LogInit
    /\ now = 0
    /\ pc = [c \in Writers |-> "idle"]
    /\ task = [c \in Writers |-> NoTask]
    /\ draft = [c \in Writers |-> Damaged]
    /\ returned = {}

Goto(c, place) == pc' = [pc EXCEPT ![c] = place]

NoDraft(c) == draft' = [draft EXCEPT ![c] = Damaged]

Finish(c) ==
    /\ Goto(c, "idle")
    /\ task' = [task EXCEPT ![c] = NoTask]
    /\ NoDraft(c)

(* A caller that is not idle may still write an admission and its end. *)
RoomInBook ==
    Len(file) + 2 * Cardinality({c \in Writers : pc[c] # "idle"}) + 2 <= MaxLines

(* run() with a tenant reaches admit. *)
StartRun(c) ==
    /\ pc[c] = "idle"
    /\ RoomInBook
    /\ \E t \in Tenants :
          task' = [task EXCEPT ![c] = [NoTask EXCEPT !.op = "admit", !.tenant = t]]
    /\ Goto(c, "waiting")
    /\ UNCHANGED <<logVars, now, draft, returned>>

(* The operator releases a reservation held to be abandoned, rightly or not. *)
StartExpire(c) ==
    /\ pc[c] = "idle"
    /\ RoomInBook
    /\ \E t \in Tenants :
          /\ Replay(file, t) # Damaged
          /\ \E id \in OpenIds(Replay(file, t)) :
                task' = [task EXCEPT ![c] =
                            [NoTask EXCEPT !.op = "expire", !.tenant = t, !.id = id]]
    /\ Goto(c, "waiting")
    /\ UNCHANGED <<logVars, now, draft, returned>>

Acquire(c) ==
    /\ pc[c] = "waiting"
    /\ Lock(c)
    /\ Goto(c, "locked")
    /\ UNCHANGED <<file, cut, now, task, draft, returned>>

Account(c) == Replay(file, task[c].tenant)

(* The decide function of the operation returned a line. *)
Decide(c, line) ==
    /\ draft' = [draft EXCEPT ![c] = Sealed(Account(c), line)]
    /\ Goto(c, "decided")
    /\ UNCHANGED <<logVars, now, task, returned>>

DecideAdmit(c) ==
    /\ pc[c] = "locked"
    /\ task[c].op = "admit"
    /\ Account(c) # Damaged
    /\ Decide(c, IF OverBudget(task[c].tenant, Account(c), now)
                 THEN LineOf(c, "refuse")
                 ELSE AdmitLine(c))

Closable_Always(a, id) == TRUE              \* mutant: open is not consulted

(* settle and expire refuse an admission that is not open. *)
Closable(a, id) == id \in OpenIds(a)

DecideClose(c) ==
    /\ pc[c] = "locked"
    /\ task[c].op \in {"settle", "expire"}
    /\ Account(c) # Damaged
    /\ Closable(Account(c), task[c].id)
    /\ Decide(c, LineOf(c, task[c].op))

(***************************************************************************)
(* decide raises: the book does not replay, or the admission is not open.  *)
(* Out of admit and settle the error leaves run(), with the guest's result *)
(* in the case of settle; out of expire in run() it is swallowed.          *)
(***************************************************************************)
DecideRaises(c) ==
    /\ pc[c] = "locked"
    /\ IF Account(c) = Damaged
       THEN TRUE
       ELSE task[c].op # "admit" /\ ~Closable(Account(c), task[c].id)
    /\ UnlockOnRaise(c)
    /\ Finish(c)
    /\ UNCHANGED <<file, cut, now, returned>>

(* admit returned an admission: _execute starts. *)
WriteAdmit(c) ==
    /\ pc[c] = "decided"
    /\ draft[c].kind = "admit"
    /\ WriteReturns(draft[c])
    /\ Unlock(c)
    /\ Goto(c, "running")
    /\ task' = [task EXCEPT ![c].id = draft[c].id]
    /\ NoDraft(c)
    /\ UNCHANGED <<now, returned>>

(* admit returned a refusal: run() reports it without starting a guest. *)
WriteRefusal(c) ==
    /\ pc[c] = "decided"
    /\ draft[c].kind = "refuse"
    /\ WriteReturns(draft[c])
    /\ Unlock(c)
    /\ Finish(c)
    /\ UNCHANGED <<now, returned>>

(* settle returned: run() hands out the result. *)
WriteSettle(c) ==
    /\ pc[c] = "decided"
    /\ draft[c].kind = "settle"
    /\ WriteReturns(draft[c])
    /\ Unlock(c)
    /\ returned' = returned \cup {draft[c].id}
    /\ Finish(c)
    /\ UNCHANGED now

WriteExpire(c) ==
    /\ pc[c] = "decided"
    /\ draft[c].kind = "expire"
    /\ WriteReturns(draft[c])
    /\ Unlock(c)
    /\ Finish(c)
    /\ UNCHANGED <<now, returned>>

(* The write raised, and the error leaves run() or expire. *)
WriteFails(c) ==
    /\ pc[c] = "decided"
    /\ WriteRaises(draft[c])
    /\ UnlockOnRaise(c)
    /\ Finish(c)
    /\ UNCHANGED <<now, returned>>

(***************************************************************************)
(* _execute returns, with what the run consumed and whether no fuel figure *)
(* came back with it; or it raises, and run() expires the reservation.     *)
(***************************************************************************)
ExecuteReturns(c) ==
    /\ pc[c] = "running"
    /\ \E charge \in Charges, unknown \in BOOLEAN :
          task' = [task EXCEPT ![c].op = "settle", ![c].charge = charge,
                               ![c].unknown = unknown]
    /\ Goto(c, "waiting")
    /\ UNCHANGED <<logVars, now, draft, returned>>

ExecuteRaises(c) ==
    /\ pc[c] = "running"
    /\ task' = [task EXCEPT ![c].op = "expire"]
    /\ Goto(c, "waiting")
    /\ UNCHANGED <<logVars, now, draft, returned>>

(* The caller's process dies; the kernel drops its lock. *)
Die(c) ==
    /\ "crash" \in Faults
    /\ pc[c] # "idle"
    /\ IF pc[c] = "decided" THEN LandUntilDeath(draft[c]) ELSE LandNothing
    /\ holder' = Unlocked(c)
    /\ Finish(c)
    /\ UNCHANGED <<now, returned>>

Tick ==
    /\ now < MaxTime
    /\ now' = now + 1
    /\ UNCHANGED <<logVars, pc, task, draft, returned>>

(* No operation is under way: the system may stay so. *)
Rest ==
    /\ \A c \in Writers : pc[c] = "idle"
    /\ UNCHANGED vars

Steps(c) ==
    \/ StartRun(c) \/ StartExpire(c)
    \/ Acquire(c)
    \/ DecideAdmit(c) \/ DecideClose(c) \/ DecideRaises(c)
    \/ WriteAdmit(c) \/ WriteRefusal(c) \/ WriteSettle(c) \/ WriteExpire(c) \/ WriteFails(c)
    \/ ExecuteReturns(c) \/ ExecuteRaises(c)
    \/ Die(c)

Next == (\E c \in Writers : Steps(c)) \/ Tick \/ Rest

Spec == Init /\ [][Next]_vars

------------------------------------------------------------------------------
(* Types of the state: the lines of the book, the tasks and the drafts. *)
TypeOK ==
    /\ file \in Seq(Line \cup {Damaged})
    /\ cut \in BOOLEAN
    /\ cut => file # <<>>
    /\ holder \in Writers \cup {NoWriter}
    /\ now \in Nat
    /\ pc \in [Writers -> {"idle", "waiting", "locked", "decided", "running"}]
    /\ task \in [Writers -> Task]
    /\ draft \in [Writers -> Line \cup {Damaged}]
    /\ returned \subseteq Ids

Settles(f, t) == {i \in DOMAIN f : f[i].kind = "settle" /\ f[i].tenant = t}

(* A settle line of a run whose reservation had lapsed by then. *)
IsLate(f, line) ==
    \E j \in DOMAIN f :
        f[j].kind = "admit" /\ f[j].id = line.id /\ f[j].expires <= line.at

LateSettles(f, t) == {i \in Settles(f, t) : IsLate(f, f[i])}

Excess(line) == IF line.charge > Reserve THEN line.charge - Reserve ELSE 0

(* What the settle line in place i charges beyond a standing reservation. *)
Unreserved(f, t, i) ==
    IF i \in LateSettles(f, t) THEN f[i].charge
    ELSE IF i \in Settles(f, t) THEN Excess(f[i]) ELSE 0

LateUnits(f, t) ==
    LET sum[n \in 0..Len(f)] ==
            IF n = 0 THEN 0 ELSE sum[n - 1] + Unreserved(f, t, n)
    IN  sum[Len(f)]

CapsAt(f, t, clock) ==
    LET account == Projected(Replay(f, t), clock)
    IN  /\ ~Exceeds(MaxRuns[t], account.runs - Cardinality(LateSettles(f, t)))
        /\ ~Exceeds(MaxUnits[t], account.units - LateUnits(f, t))

(***************************************************************************)
(* "two threads that each read 'there is room' would otherwise spend the   *)
(* same budget twice" (tenant.py:246-251): what is settled and what is     *)
(* still reserved stay within both caps, but for the runs that outlived    *)
(* their reservation and for what a run consumed beyond its own.           *)
(***************************************************************************)
CapsHoldButForLateSettles ==
    Intact(file) =>
        \A t \in Tenants : Replay(file, t) # Damaged => CapsAt(file, t, now)

(***************************************************************************)
(* An admission ends at most once: the caller's own settle or expire, and  *)
(* the operator's expire, never both go into the book (tenant.py:368-372,  *)
(* 394-397).                                                               *)
(***************************************************************************)
AdmissionEndsOnce ==
    Intact(file) =>
        \A i, j \in DOMAIN file :
            /\ i < j
            /\ file[i].kind \in {"settle", "expire"}
            /\ file[j].kind \in {"settle", "expire"}
            => file[i].id # file[j].id

(***************************************************************************)
(* The book the callers produce never trips its own tamper check: whatever *)
(* the interleaving, only a torn line makes a replay refuse.               *)
(***************************************************************************)
IntactBookReplays == Intact(file) => \A t \in Tenants : Replay(file, t) # Damaged

Without(f, i) == SubSeq(f, 1, i - 1) \o SubSeq(f, i + 1, Len(f))

LaterLine(f, i, t) == \E j \in (i + 1)..Len(f) : f[j].tenant = t

DropShows(f, i) ==
    LET t == f[i].tenant
        left == Replay(Without(f, i), t)
    IN  IF LaterLine(f, i, t) THEN left = Damaged
        ELSE left = Damaged \/ left.sums # Replay(f, t).sums

(***************************************************************************)
(* A charge or a refusal that is dropped from the book shows at the next   *)
(* line of its tenant (tenant.py:475-479); until there is one, the account *)
(* that is left reads differently.                                         *)
(***************************************************************************)
DroppedChargeShows ==
    Intact(file) =>
        \A i \in DOMAIN file :
            file[i].kind \in {"settle", "refuse"} => DropShows(file, i)

(***************************************************************************)
(* A run whose result was handed out is billed exactly as it was settled,  *)
(* or the book refuses to replay: no charge goes missing silently.         *)
(***************************************************************************)
ReturnedRunsAreBilled ==
    Intact(file) =>
        \A id \in returned :
            \E i \in DOMAIN file : file[i].kind = "settle" /\ file[i].id = id

(***************************************************************************)
(* A line that may come next on the book f: it seals the account it was    *)
(* decided on, admits a run within the caps under an id of its own, or     *)
(* ends an admission that is open.                                         *)
(***************************************************************************)
MayFollow(f, line) ==
    LET account == Replay(f, line.tenant)
    IN  /\ line \in Line
        /\ line.totals = Folded(account, line).sums
        /\ line.kind = "admit" =>
              /\ line.id \in Writers \X {Len(f)}
              /\ ~OverBudget(line.tenant, account, line.at)
        /\ line.kind \in {"settle", "expire"} => line.id \in OpenIds(account)

(* Between its decision and its write an operation holds the lock, its line *)
(* is still the one to come next, and the caps held as its clock stood.     *)
DraftsStand ==
    \A c \in Writers :
        /\ pc[c] \in {"locked", "decided"} => holder = c
        /\ pc[c] # "idle" => task[c].tenant \in Tenants
        /\ pc[c] = "decided" =>
              /\ Intact(file)
              /\ MayFollow(file, draft[c])
              /\ draft[c].at <= now
              /\ CapsAt(file, draft[c].tenant, draft[c].at)

(* An id names the place of its admission, and so one admission only. *)
IdsAreOwn(f) ==
    \A j \in DOMAIN f : f[j].kind = "admit" => f[j].id \in Writers \X {j - 1}

(* What a tenant has open is what some line of its admitted. *)
OpenWasAdmitted(f) ==
    \A t \in Tenants : \A o \in Replay(f, t).open :
        \E j \in DOMAIN f :
            /\ f[j].kind = "admit"
            /\ f[j].tenant = t
            /\ o = [id |-> f[j].id, charge |-> f[j].charge, expires |-> f[j].expires]

(* What ended was admitted before, and is open for no tenant. *)
EndWasAdmitted(f) ==
    \A i \in DOMAIN f : f[i].kind \in {"settle", "expire"} =>
        \E j \in 1..(i - 1) : f[j].kind = "admit" /\ f[j].id = f[i].id

EndIsClosed(f) ==
    \A i \in DOMAIN f : f[i].kind \in {"settle", "expire"} =>
        \A t \in Tenants : f[i].id \notin OpenIds(Replay(f, t))

AdmissionsAreOwn ==
    Intact(file) =>
        /\ IdsAreOwn(file)
        /\ OpenWasAdmitted(file)
        /\ EndWasAdmitted(file)
        /\ EndIsClosed(file)

(***************************************************************************)
(* Types, and what the billing rests on: the book replays unless a line is *)
(* torn, an admission ends at most once, and a decision still stands when  *)
(* it is written.                                                          *)
(***************************************************************************)
TenantInv ==
    /\ TypeOK
    /\ DraftsStand
    /\ IntactBookReplays
    /\ AdmissionsAreOwn
    /\ AdmissionEndsOnce

(***************************************************************************)
(* A book with a torn line admits nothing and bills nothing any more: the  *)
(* guests that are running finish without a settle line.                   *)
(***************************************************************************)
DamageStopsBilling ==
    [][~Intact(file) => Len(file') = Len(file) /\ returned' = returned]_vars
===============================================================================
