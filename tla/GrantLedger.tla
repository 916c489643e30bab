----------------------------- MODULE GrantLedger -----------------------------
(***************************************************************************)
(* The grant book (ephemora_cell/grant_ledger.py) and the consumer that    *)
(* spends from it (mediate_with_grant in egress_sidecar.py).  Every caller *)
(* is a thread or a process.  record_call samples the clock, waits for the *)
(* exclusive lock, replays the whole book, decides, and writes one line;   *)
(* an approval is then spent on one mediated fetch.  revoke writes a line  *)
(* without a replay.  Lines may be torn and callers may die at any point.  *)
(***************************************************************************)
EXTENDS AppendLog, Integers, FiniteSets

CONSTANTS
    Grants,     \* grant ids
    Cap,        \* max_calls of each grant, or None
    From,       \* not_before of each grant, or None
    Until,      \* not_after of each grant, or None
    None,
    MaxLines,   \* bound: no caller starts once the book could exceed this
    MaxTime     \* bound: the last instant

ASSUME GrantAssumption ==
    /\ None \notin Int
    /\ Cap \in [Grants -> Nat \cup {None}]
    /\ From \in [Grants -> Nat \cup {None}]
    /\ Until \in [Grants -> Nat \cup {None}]
    /\ MaxLines \in Nat
    /\ MaxTime \in Nat

Verdicts == {"allowed", "revoked", "not_before", "expired", "max_calls"}

(* calls_after is absent from most refusals: NoCount. *)
NoCount == -1

Line == [kind : {"call", "revoke", "refuse"}, grant : Grants,
         at : Nat, after : Nat \cup {NoCount}]

ASSUME DamagedIsNoLine == Damaged \notin Line

VARIABLES
    now,            \* the host clock
    pc,             \* where each caller stands
    op,             \* the call each caller is in: operation, grant, clock
    answer,         \* what decide returned: verdict and GrantDecision.calls
    handed,         \* history: <<grant, calls>> of each approval returned
    fetched,        \* history: <<grant, calls>> of each approval spent
    acknowledged    \* history: the grants whose revoke() has returned

vars == <<file, cut, holder, now, pc, op, answer, handed, fetched, acknowledged>>
history == <<handed, fetched, acknowledged>>

NoOp == [kind |-> "none", grant |-> None, clock |-> 0]

NoAnswer == [verdict |-> "none", calls |-> 0]

Places == {"idle", "clocked", "locked", "decided", "answered"}

------------------------------------------------------------------------------
(***************************************************************************)
(* The replay.  _apply counts call lines and compares calls_after with the *)
(* count; a line that is not JSON raises for every grant.                  *)
(***************************************************************************)
OfGrant(line, g) == line # Damaged /\ line.grant = g

IsCall(line, g) == OfGrant(line, g) /\ line.kind = "call"

CallsUpTo(f, g, n) == Cardinality({i \in 1..n : IsCall(f[i], g)})

Calls(f, g) == CallsUpTo(f, g, Len(f))

Seals_IgnoringCount(f, g, i) == TRUE    \* mutant: calls_after is not compared

Seals(f, g, i) ==
    OfGrant(f[i], g) =>
        /\ f[i].kind = "call" => f[i].after = CallsUpTo(f, g, i)
        /\ f[i].kind = "refuse" => f[i].after \in {NoCount, CallsUpTo(f, g, i)}

Readable(f, g) == Intact(f) /\ \A i \in DOMAIN f : Seals(f, g, i)

IsRevoke(line, g) == OfGrant(line, g) /\ line.kind = "revoke"

RevokedIn_LastLineOnly(f, g) == f # <<>> /\ IsRevoke(f[Len(f)], g)  \* mutant

RevokedIn(f, g) == \E i \in DOMAIN f : IsRevoke(f[i], g)

------------------------------------------------------------------------------
(***************************************************************************)
(* The gates of record_call's decide, in their order.                      *)
(***************************************************************************)
OverCap_OffByOne(g, calls) == Cap[g] # None /\ calls > Cap[g]   \* mutant

OverCap(g, calls) == Cap[g] # None /\ calls + 1 > Cap[g]

Expired(g, clock) == Until[g] # None /\ clock >= Until[g]

Verdict(f, g, clock) ==
    IF RevokedIn(f, g) THEN "revoked"
    ELSE IF From[g] # None /\ clock < From[g] THEN "not_before"
    ELSE IF Expired(g, clock) THEN "expired"
    ELSE IF OverCap(g, Calls(f, g)) THEN "max_calls"
    ELSE "allowed"

CountAfter(verdict, calls) == IF verdict = "allowed" THEN calls + 1 ELSE calls

(* The line a decision writes. *)
BookedLine(c) ==
    LET a == answer[c]
    IN  [kind  |-> IF op[c].kind = "revoke" THEN "revoke"
                   ELSE IF a.verdict = "allowed" THEN "call" ELSE "refuse",
         grant |-> op[c].grant,
         at    |-> op[c].clock,
         after |-> IF op[c].kind = "call" /\ a.verdict \in {"allowed", "max_calls"}
                   THEN a.calls ELSE NoCount]

------------------------------------------------------------------------------
Init ==
    /\ LogInit
    /\ now = 0
    /\ pc = [c \in Writers |-> "idle"]
    /\ op = [c \in Writers |-> NoOp]
    /\ answer = [c \in Writers |-> NoAnswer]
    /\ handed = {}
    /\ fetched = {}
    /\ acknowledged = {}

Goto(c, place) == pc' = [pc EXCEPT ![c] = place]

(* A finished call is forgotten, so that it does not tell states apart. *)
Finish(c) ==
    /\ Goto(c, "idle")
    /\ op' = [op EXCEPT ![c] = NoOp]
    /\ answer' = [answer EXCEPT ![c] = NoAnswer]

RoomInBook == Len(file) + Cardinality({c \in Writers : pc[c] # "idle"}) < MaxLines

(***************************************************************************)
(* record_call and revoke up to the lock: the clock is sampled and, for a  *)
(* call, the bounds of the grant are parsed.                               *)
(***************************************************************************)
Begin(c, kind, g) ==
    /\ pc[c] = "idle"
    /\ RoomInBook
    /\ op' = [op EXCEPT ![c] = [kind |-> kind, grant |-> g, clock |-> now]]
    /\ Goto(c, "clocked")
    /\ UNCHANGED <<logVars, now, answer, history>>

StartCall(c) == \E g \in Grants : Begin(c, "call", g)

StartRevoke(c) == \E g \in Grants : Begin(c, "revoke", g)

Acquire(c) ==
    /\ pc[c] = "clocked"
    /\ Lock(c)
    /\ Goto(c, "locked")
    /\ UNCHANGED <<file, cut, now, op, answer, history>>

(* decide of record_call over a book that replays. *)
DecideCall(c) ==
    /\ pc[c] = "locked"
    /\ op[c].kind = "call"
    /\ LET g == op[c].grant
           v == Verdict(file, g, op[c].clock)
       IN  /\ Readable(file, g)
           /\ answer' = [answer EXCEPT ![c] =
                            [verdict |-> v, calls |-> CountAfter(v, Calls(file, g))]]
    /\ Goto(c, "decided")
    /\ UNCHANGED <<logVars, now, op, history>>

(***************************************************************************)
(* decide of record_call over a book that does not: GrantTamperError, the  *)
(* lock is released and mediate_with_grant answers "ledger".               *)
(***************************************************************************)
RefuseTampered(c) ==
    /\ pc[c] = "locked"
    /\ op[c].kind = "call"
    /\ ~Readable(file, op[c].grant)
    /\ UnlockOnRaise(c)
    /\ Finish(c)
    /\ UNCHANGED <<file, cut, now, history>>

(* decide of revoke reads nothing. *)
DecideRevoke(c) ==
    /\ pc[c] = "locked"
    /\ op[c].kind = "revoke"
    /\ Goto(c, "decided")
    /\ UNCHANGED <<logVars, now, op, answer, history>>

Approved(c) == op[c].kind = "call" /\ answer[c].verdict = "allowed"

Booking(c) == <<op[c].grant, answer[c].calls>>

(***************************************************************************)
(* The write and the release of the lock, when they return.                *)
(***************************************************************************)
WriteApproval(c) ==
    /\ pc[c] = "decided"
    /\ Approved(c)
    /\ WriteReturns(BookedLine(c))
    /\ Unlock(c)
    /\ handed' = handed \cup {Booking(c)}
    /\ Goto(c, "answered")
    /\ UNCHANGED <<now, op, answer, fetched, acknowledged>>

WriteRefusal(c) ==
    /\ pc[c] = "decided"
    /\ op[c].kind = "call"
    /\ ~Approved(c)
    /\ WriteReturns(BookedLine(c))
    /\ Unlock(c)
    /\ Finish(c)
    /\ UNCHANGED <<now, history>>

WriteRevoke(c) ==
    /\ pc[c] = "decided"
    /\ op[c].kind = "revoke"
    /\ WriteReturns(BookedLine(c))
    /\ Unlock(c)
    /\ acknowledged' = acknowledged \cup {op[c].grant}
    /\ Finish(c)
    /\ UNCHANGED <<now, handed, fetched>>

(* os.write or os.fsync raises: the caller is refused, or revoke raises. *)
WriteFails(c) ==
    /\ pc[c] = "decided"
    /\ WriteRaises(BookedLine(c))
    /\ UnlockOnRaise(c)
    /\ Finish(c)
    /\ UNCHANGED <<now, history>>

(* mediate_with_grant hands an approved request to execute_request. *)
Fetch(c) ==
    /\ pc[c] = "answered"
    /\ fetched' = fetched \cup {Booking(c)}
    /\ Finish(c)
    /\ UNCHANGED <<logVars, now, handed, acknowledged>>

(* The caller's process dies; the kernel drops its lock. *)
Die(c) ==
    /\ "crash" \in Faults
    /\ pc[c] # "idle"
    /\ IF pc[c] = "decided" THEN LandUntilDeath(BookedLine(c)) ELSE LandNothing
    /\ holder' = Unlocked(c)
    /\ Finish(c)
    /\ UNCHANGED <<now, history>>

Tick ==
    /\ now < MaxTime
    /\ now' = now + 1
    /\ UNCHANGED <<logVars, pc, op, answer, history>>

(* Nobody is inside a call: the system may stay so. *)
Rest ==
    /\ \A c \in Writers : pc[c] = "idle"
    /\ UNCHANGED vars

Steps(c) ==
    \/ StartCall(c) \/ StartRevoke(c)
    \/ Acquire(c)
    \/ DecideCall(c) \/ DecideRevoke(c) \/ RefuseTampered(c)
    \/ WriteApproval(c) \/ WriteRefusal(c) \/ WriteRevoke(c) \/ WriteFails(c)
    \/ Fetch(c)
    \/ Die(c)

Next == (\E c \in Writers : Steps(c)) \/ Tick \/ Rest

Spec == Init /\ [][Next]_vars

(***************************************************************************)
(* A thread inside the critical section keeps running.  Nothing is assumed *)
(* of a thread waiting for flock, nor of callers calling again.            *)
(***************************************************************************)
InSection(c) ==
    \/ DecideCall(c) \/ DecideRevoke(c) \/ RefuseTampered(c)
    \/ WriteApproval(c) \/ WriteRefusal(c) \/ WriteRevoke(c) \/ WriteFails(c)

FairSpec == Spec /\ \A c \in Writers : WF_vars(InSection(c))

------------------------------------------------------------------------------
TypeOK ==
    /\ file \in Seq(Line \cup {Damaged})
    /\ cut \in BOOLEAN
    /\ cut => file # <<>>
    /\ holder \in Writers \cup {NoWriter}
    /\ now \in Nat
    /\ pc \in [Writers -> Places]
    /\ op \in [Writers -> [kind : {"call", "revoke", "none"},
                           grant : Grants \cup {None}, clock : Nat]]
    /\ \A c \in Writers : pc[c] # "idle" =>
            op[c].kind \in {"call", "revoke"} /\ op[c].grant \in Grants
    /\ answer \in [Writers -> [verdict : Verdicts \cup {"none"}, calls : Nat]]
    /\ handed \subseteq Grants \X Nat
    /\ fetched \subseteq Grants \X Nat
    /\ acknowledged \subseteq Grants

InFlight == {c \in Writers : pc[c] = "answered"}

(***************************************************************************)
(* Two callers never hold the same slot of a grant, and nobody holds one   *)
(* that was already spent: "two threads each seeing calls < max_calls      *)
(* cannot both spend the last slot" (grant_ledger.py:13-19).               *)
(***************************************************************************)
NoSlotSpentTwice ==
    \A c \in InFlight :
        /\ Booking(c) \notin fetched
        /\ \A d \in InFlight \ {c} : Booking(d) # Booking(c)

(* Every slot handed out lies within the cap: max_calls of N is N calls.   *)
SlotsWithinCap ==
    \A b \in handed : Cap[b[1]] # None => b[2] \in 1..Cap[b[1]]

(***************************************************************************)
(* The book the writers produce never trips its own tamper check: whatever *)
(* the interleaving, only a torn line makes a replay refuse.               *)
(***************************************************************************)
IntactBookReplays == Intact(file) => \A g \in Grants : Readable(file, g)

Without(f, i) == SubSeq(f, 1, i - 1) \o SubSeq(f, i + 1, Len(f))

(***************************************************************************)
(* "deleting ... a call line shows up as a mismatch" (grant_ledger.py:     *)
(* 22-25), for every call line but the last of its grant.                  *)
(***************************************************************************)
DeletionShows ==
    Intact(file) =>
        \A i \in DOMAIN file, g \in Grants :
            /\ IsCall(file[i], g)
            /\ \E j \in (i + 1)..Len(file) : IsCall(file[j], g)
            => ~Readable(Without(file, i), g)

(***************************************************************************)
(* Once revoke() has returned, no further call is approved under the grant *)
(* (grant_ledger.py:312-316), whatever became of the revoke line on disk.  *)
(***************************************************************************)
RevocationSticks ==
    [][\A b \in handed' \ handed : b[1] \notin acknowledged]_vars

(* A book with a torn line approves nothing ever again: it fails closed.   *)
DamageFailsClosed ==
    [][~Intact(file) => handed' = handed]_vars

(***************************************************************************)
(* "The file is the evidence. Each approved line records calls_after"      *)
(* (grant_ledger.py:22-25): every approval returned is a call line of the  *)
(* book.                                                                   *)
(***************************************************************************)
ApprovalsAreBooked ==
    \A b \in handed : \E i \in DOMAIN file :
        IsCall(file[i], b[1]) /\ file[i].after = b[2]

(* An approval without a call line leaves a book that refuses: no approval *)
(* goes missing from a book that still replays.                            *)
LostApprovalShows == Intact(file) => ApprovalsAreBooked

(* Every call line of the book carries a clock inside the grant's window.  *)
CallLinesInsideWindow ==
    \A i \in DOMAIN file, g \in Grants :
        IsCall(file[i], g) =>
            /\ From[g] # None => From[g] <= file[i].at
            /\ Until[g] # None => file[i].at < Until[g]

(***************************************************************************)
(* "The file is the evidence" (grant_ledger.py:22): a book without a torn  *)
(* line replays, has every approval as a call line inside its window, and  *)
(* shows the deletion of one.                                              *)
(***************************************************************************)
BookIsEvidence ==
    /\ IntactBookReplays
    /\ LostApprovalShows
    /\ DeletionShows
    /\ CallLinesInsideWindow

(* Whoever enters the critical section leaves it, also through an error.   *)
LockReleased == \A c \in Writers : holder = c ~> holder # c

(***************************************************************************)
(* Why the cap and the revocation hold, as one inductive invariant: who    *)
(* decides holds the lock, so that a decision stays the one the book would *)
(* give until it is written; and the call lines of an intact book number   *)
(* every slot that was ever handed out.                                    *)
(***************************************************************************)
SectionExclusive ==
    \A c \in Writers : pc[c] \in {"locked", "decided"} => holder = c

DecisionsCurrent ==
    \A c \in Writers : pc[c] = "decided" /\ op[c].kind = "call" =>
        LET g == op[c].grant
            v == Verdict(file, g, op[c].clock)
        IN  /\ Intact(file)
            /\ answer[c] = [verdict |-> v, calls |-> CountAfter(v, Calls(file, g))]

HandedNumbered ==
    \A b \in handed :
        /\ Intact(file) => b[2] <= Calls(file, b[1])
        /\ Cap[b[1]] # None => b[2] \in 1..Cap[b[1]]

InFlightOwned ==
    /\ fetched \subseteq handed
    /\ \A c \in InFlight : Booking(c) \in handed
    /\ NoSlotSpentTwice

RevocationsKept ==
    \A g \in acknowledged : Intact(file) => RevokedIn(file, g)

BookInv ==
    /\ TypeOK
    /\ SectionExclusive
    /\ DecisionsCurrent
    /\ HandedNumbered
    /\ InFlightOwned
    /\ RevocationsKept

(***************************************************************************)
(* What the book promises its consumers, as a meter of slots.              *)
(***************************************************************************)
Meter == INSTANCE CallMeter WITH
    Slots  <- [g \in Grants |-> IF Cap[g] = None THEN Nat \ {0} ELSE 1..Cap[g]],
    closed <- {g \in Grants : ~Readable(file, g) \/ RevokedIn(file, g)}

ImplementsMeter == Meter!Spec
===============================================================================
