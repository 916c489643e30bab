-------------------------- MODULE GrantLedger_proofs --------------------------
(***************************************************************************)
(* Theorems about the grant book, for any number of callers and grants,    *)
(* any caps and windows, and any of the host's faults.                     *)
(***************************************************************************)
EXTENDS GrantLedger, SequenceTheorems, FiniteSetTheorems, TLAPS

(***************************************************************************)
(* What one write does to the lines of the log.                            *)
(***************************************************************************)

(* A log of lines of S, some of them damaged. *)
LogOver(S) == Seq(S \cup {Damaged})

(* A cut log has a last line, the one that is not terminated. *)
LogType(S) ==
    /\ file \in LogOver(S)
    /\ cut \in BOOLEAN
    /\ cut => file # <<>>

(* One write keeps the log a log: Landed only appends or damages a line.   *)
LEMMA LandedType ==
    ASSUME NEW S, NEW f \in LogOver(S), NEW b \in BOOLEAN,
           NEW piece \in S \cup {Damaged}, b => f # <<>>
    PROVE  /\ Landed(f, b, piece) \in LogOver(S)
           /\ Landed(f, b, piece) # <<>>
<1>1. CASE b
  <2>1. Len(f) \in 1..Len(f)
    BY <1>1 DEF LogOver
  <2>2. [f EXCEPT ![Len(f)] = Damaged] \in LogOver(S)
    BY <2>1, ExceptSeq DEF LogOver
  <2>3. Len([f EXCEPT ![Len(f)] = Damaged]) = Len(f)
    BY <2>1, ExceptSeq DEF LogOver
  <2>4. QED
    BY <1>1, <2>1, <2>2, <2>3 DEF Landed, LogOver
<1>2. CASE ~b
  BY <1>2, AppendProperties DEF Landed, LogOver
<1>3. QED
  BY <1>1, <1>2

(* After a write the log is intact only if it was, was terminated, and the *)
(* whole record was stored as a line of its own.                           *)
LEMMA LandedIntact ==
    ASSUME NEW S, NEW f \in LogOver(S), NEW b \in BOOLEAN,
           NEW piece \in S \cup {Damaged}, b => f # <<>>,
           Intact(Landed(f, b, piece))
    PROVE  /\ Intact(f)
           /\ piece # Damaged
           /\ Landed(f, b, piece) = Append(f, piece)
<1>1. ~b
  <2> SUFFICES ASSUME b PROVE FALSE
    OBVIOUS
  <2>1. Len(f) \in DOMAIN f
    BY DEF LogOver
  <2>2. Landed(f, b, piece)[Len(f)] = Damaged /\ Len(f) \in DOMAIN Landed(f, b, piece)
    BY <2>1 DEF Landed, LogOver
  <2>3. QED
    BY <2>2 DEF Intact
<1>2. Landed(f, b, piece) = Append(f, piece)
  BY <1>1 DEF Landed
<1>3. piece # Damaged
  <2>1. Append(f, piece)[Len(f) + 1] = piece /\ Len(f) + 1 \in DOMAIN Append(f, piece)
    BY AppendProperties DEF LogOver
  <2>2. QED
    BY <1>2, <2>1 DEF Intact
<1>4. Intact(f)
  <2> SUFFICES ASSUME NEW i \in DOMAIN f PROVE f[i] # Damaged
    BY DEF Intact
  <2>1. Append(f, piece)[i] = f[i] /\ i \in DOMAIN Append(f, piece)
    BY AppendProperties DEF LogOver
  <2>2. QED
    BY <1>2, <2>1 DEF Intact
<1>5. QED
  BY <1>2, <1>3, <1>4

------------------------------------------------------------------------------
USE LogAssumption, GrantAssumption, DamagedIsNoLine

Lines == LogOver(Line)

(***************************************************************************)
(* The count the replay folds: a natural number, raised by one by a call   *)
(* line of the grant and by no other line.                                 *)
(***************************************************************************)
LEMMA CallsType ==
    ASSUME NEW f \in Lines, NEW g \in Grants, NEW n \in 0..Len(f)
    PROVE  /\ CallsUpTo(f, g, n) \in Nat
           /\ IsFiniteSet({i \in 1..n : IsCall(f[i], g)})
<1>1. IsFiniteSet(1..n)
  BY FS_Interval DEF Lines, LogOver
<1>2. {i \in 1..n : IsCall(f[i], g)} \in SUBSET (1..n)
  OBVIOUS
<1>3. IsFiniteSet({i \in 1..n : IsCall(f[i], g)})
  BY <1>1, <1>2, FS_Subset
<1>4. QED
  BY <1>3, FS_CardinalityType DEF CallsUpTo

LEMMA CallsAppend ==
    ASSUME NEW f \in Lines, NEW g \in Grants, NEW line \in Line \cup {Damaged}
    PROVE  /\ Append(f, line) \in Lines
           /\ Calls(f, g) \in Nat
           /\ Calls(Append(f, line), g) =
                 IF IsCall(line, g) THEN Calls(f, g) + 1 ELSE Calls(f, g)
<1> DEFINE n == Len(f)
           a == Append(f, line)
           old == {i \in 1..n : IsCall(f[i], g)}
           new == {i \in 1..(n + 1) : IsCall(a[i], g)}
<1>1. /\ a \in Lines
      /\ Len(a) = n + 1
      /\ n \in Nat
      /\ \A i \in 1..n : a[i] = f[i]
      /\ a[n + 1] = line
  BY AppendProperties DEF Lines, LogOver
<1>2. IsFiniteSet(old) /\ Cardinality(old) \in Nat
  <2>1. n \in 0..Len(f)
    BY <1>1
  <2>2. IsFiniteSet(old)
    BY <2>1, CallsType
  <2>3. QED
    BY <2>2, FS_CardinalityType
<1>3. CASE IsCall(line, g)
  <2>1. new = old \cup {n + 1}
    BY <1>1, <1>3
  <2>2. n + 1 \notin old
    BY <1>1
  <2>3. Cardinality(old \cup {n + 1}) = Cardinality(old) + 1
    BY <1>2, <2>2, FS_AddElement
  <2>4. QED
    BY <1>1, <1>2, <1>3, <2>1, <2>3 DEF Calls, CallsUpTo
<1>4. CASE ~IsCall(line, g)
  <2>1. new = old
    BY <1>1, <1>4
  <2>2. QED
    BY <1>1, <1>2, <1>4, <2>1 DEF Calls, CallsUpTo
<1>5. QED
  BY <1>3, <1>4

(* A revocation in the book stays in it as lines are appended.             *)
LEMMA RevokedAppend ==
    ASSUME NEW f \in Lines, NEW g \in Grants, NEW line \in Line \cup {Damaged}
    PROVE  RevokedIn(Append(f, line), g) <=> RevokedIn(f, g) \/ IsRevoke(line, g)
<1> DEFINE a == Append(f, line)
<1>1. /\ DOMAIN a = 1..(Len(f) + 1)
      /\ DOMAIN f = 1..Len(f)
      /\ Len(f) \in Nat
      /\ \A i \in 1..Len(f) : a[i] = f[i]
      /\ a[Len(f) + 1] = line
  BY AppendProperties DEF Lines, LogOver
<1>2. QED
  BY <1>1 DEF RevokedIn
------------------------------------------------------------------------------
(* A decided caller books a well-formed line. *)
LEMMA BookedLineType ==
    ASSUME TypeOK, NEW c \in Writers, pc[c] = "decided"
    PROVE  BookedLine(c) \in Line
<1>1. op[c].grant \in Grants /\ op[c].clock \in Nat
  BY DEF TypeOK
<1>2. answer[c].calls \in Nat
  BY DEF TypeOK
<1>3. QED
  BY <1>1, <1>2 DEF BookedLine, Line, NoCount

(* The three ways a step treats the file. *)
Lands(piece) == file' = Landed(file, cut, piece) /\ cut' \in BOOLEAN

LEMMA LandType ==
    ASSUME TypeOK, NEW piece \in Line \cup {Damaged}, Lands(piece)
    PROVE  /\ file' \in Lines
           /\ cut' \in BOOLEAN
           /\ file' # <<>>
BY LandedType DEF TypeOK, Lands, Lines, LogOver

LEMMA WriteReturnsLands ==
    ASSUME NEW line, WriteReturns(line)
    PROVE  Lands(line) \/ Lands(Damaged)
BY DEF WriteReturns, LandWhole, LandWithoutBreak, LandPrefix, Lands

LEMMA WriteRaisesLands ==
    ASSUME NEW line, WriteRaises(line)
    PROVE  Lands(line) \/ UNCHANGED <<file, cut>>
BY DEF WriteRaises, LandWhole, LandNothing, Lands

LEMMA UntilDeathLands ==
    ASSUME NEW line, LandUntilDeath(line)
    PROVE  Lands(line) \/ Lands(Damaged) \/ UNCHANGED <<file, cut>>
BY DEF LandUntilDeath, LandWhole, LandWithoutBreak, LandPrefix, LandNothing, Lands

(* What every step of a caller does to the file. *)
FileStep(c) ==
    \/ UNCHANGED <<file, cut>>
    \/ /\ pc[c] = "decided"
       /\ Lands(BookedLine(c)) \/ Lands(Damaged)

LEMMA StepsFile ==
    ASSUME NEW c \in Writers, Steps(c)
    PROVE  FileStep(c)
<1>1. CASE WriteApproval(c) \/ WriteRefusal(c) \/ WriteRevoke(c)
  BY <1>1, WriteReturnsLands DEF WriteApproval, WriteRefusal, WriteRevoke, FileStep
<1>2. CASE WriteFails(c)
  BY <1>2, WriteRaisesLands DEF WriteFails, FileStep
<1>3. CASE Die(c)
  BY <1>3, UntilDeathLands DEF Die, FileStep, LandNothing
<1>4. CASE StartCall(c) \/ StartRevoke(c) \/ Acquire(c) \/ DecideCall(c)
           \/ DecideRevoke(c) \/ RefuseTampered(c) \/ Fetch(c)
  BY <1>4 DEF StartCall, StartRevoke, Begin, Acquire, DecideCall, DecideRevoke,
              RefuseTampered, Fetch, FileStep, logVars
<1>5. QED
  BY <1>1, <1>2, <1>3, <1>4 DEF Steps

LEMMA FileStepType ==
    ASSUME TypeOK, NEW c \in Writers, FileStep(c)
    PROVE  /\ file' \in Lines
           /\ cut' \in BOOLEAN
           /\ cut' => file' # <<>>
<1>1. CASE UNCHANGED <<file, cut>>
  BY <1>1 DEF TypeOK, Lines, LogOver
<1>2. CASE pc[c] = "decided" /\ (Lands(BookedLine(c)) \/ Lands(Damaged))
  BY <1>2, BookedLineType, LandType
<1>3. QED
  BY <1>1, <1>2 DEF FileStep

(***************************************************************************)
(* The verdict is one of the five gates' answers, the count a natural.     *)
(***************************************************************************)
LEMMA DecisionType ==
    ASSUME TypeOK, NEW c \in Writers, DecideCall(c)
    PROVE  answer' \in [Writers -> [verdict : Verdicts \cup {"none"}, calls : Nat]]
<1> DEFINE g == op[c].grant
           v == Verdict(file, g, op[c].clock)
           k == CountAfter(v, Calls(file, g))
<1>1. g \in Grants /\ file \in Lines
  BY DEF DecideCall, TypeOK, Lines, LogOver
<1>2. v \in Verdicts
  BY DEF Verdict, Verdicts
<1>3. Len(file) \in 0..Len(file)
  BY <1>1 DEF Lines, LogOver
<1>4. k \in Nat
  <2>1. CallsUpTo(file, g, Len(file)) \in Nat
    BY <1>1, <1>3, CallsType
  <2>2. Calls(file, g) \in Nat
    BY <2>1 DEF Calls
  <2>3. QED
    BY <2>2 DEF CountAfter
<1>5. answer' = [answer EXCEPT ![c] = [verdict |-> v, calls |-> k]]
  BY DEF DecideCall
<1>6. QED
  BY <1>2, <1>4, <1>5 DEF TypeOK

LEMMA TypeInit == Init => TypeOK
<1> SUFFICES ASSUME Init PROVE TypeOK
  OBVIOUS
<1>1. file \in Seq(Line \cup {Damaged})
  BY DEF Init, LogInit
<1>2. op \in [Writers -> [kind : {"call", "revoke", "none"},
                         grant : Grants \cup {None}, clock : Nat]]
  BY DEF Init, NoOp
<1>3. answer \in [Writers -> [verdict : Verdicts \cup {"none"}, calls : Nat]]
  BY DEF Init, NoAnswer
<1>4. pc \in [Writers -> Places] /\ \A c \in Writers : pc[c] = "idle"
  BY DEF Init, Places
<1>5. QED
  BY <1>1, <1>2, <1>3, <1>4 DEF Init, LogInit, TypeOK

LEMMA TypeStep == TypeOK /\ [Next]_vars => TypeOK'
<1> SUFFICES ASSUME TypeOK, [Next]_vars PROVE TypeOK'
  OBVIOUS
<1>1. ASSUME NEW c \in Writers, Steps(c) PROVE TypeOK'
  <2>1. /\ file' \in Seq(Line \cup {Damaged})
        /\ cut' \in BOOLEAN
        /\ cut' => file' # <<>>
    BY <1>1, StepsFile, FileStepType DEF Lines, LogOver
  <2>2. ASSUME Finish(c)
        PROVE  /\ pc' \in [Writers -> Places]
               /\ op' \in [Writers -> [kind : {"call", "revoke", "none"},
                                       grant : Grants \cup {None}, clock : Nat]]
               /\ \A d \in Writers : pc'[d] # "idle" =>
                     op'[d].kind \in {"call", "revoke"} /\ op'[d].grant \in Grants
               /\ answer' \in [Writers -> [verdict : Verdicts \cup {"none"}, calls : Nat]]
    BY <2>2 DEF Finish, Goto, TypeOK, Places, NoOp, NoAnswer
  <2>3. ASSUME NEW kind \in {"call", "revoke"}, NEW g \in Grants, Begin(c, kind, g)
        PROVE  TypeOK'
    BY <2>1, <2>3 DEF Begin, Goto, TypeOK, Places, logVars, history
  <2>4. CASE Acquire(c)
    BY <2>1, <2>4 DEF Acquire, Lock, Goto, TypeOK, Places, history
  <2>5. CASE DecideCall(c)
    BY <2>1, <2>5, DecisionType DEF DecideCall, Goto, TypeOK, Places, logVars, history
  <2>6. CASE DecideRevoke(c)
    BY <2>1, <2>6 DEF DecideRevoke, Goto, TypeOK, Places, logVars, history
  <2>7. CASE RefuseTampered(c)
    BY <2>1, <2>2, <2>7 DEF RefuseTampered, UnlockOnRaise, Unlocked, TypeOK, history
  <2>8. CASE WriteApproval(c)
    <3>1. Booking(c) \in Grants \X Nat
      BY <2>8 DEF WriteApproval, Booking, TypeOK
    <3>2. QED
      BY <2>1, <2>8, <3>1 DEF WriteApproval, Unlock, Unlocked, Goto, TypeOK, Places
  <2>9. CASE WriteRefusal(c)
    BY <2>1, <2>2, <2>9 DEF WriteRefusal, Unlock, Unlocked, TypeOK, history
  <2>10. CASE WriteRevoke(c)
    <3>1. op[c].grant \in Grants
      BY <2>10 DEF WriteRevoke, TypeOK
    <3>2. QED
      BY <2>1, <2>2, <2>10, <3>1 DEF WriteRevoke, Unlock, Unlocked, TypeOK
  <2>11. CASE WriteFails(c)
    BY <2>1, <2>2, <2>11 DEF WriteFails, UnlockOnRaise, Unlocked, TypeOK, history
  <2>12. CASE Fetch(c)
    <3>1. Booking(c) \in Grants \X Nat
      BY <2>12 DEF Fetch, Booking, TypeOK
    <3>2. QED
      BY <2>1, <2>2, <2>12, <3>1 DEF Fetch, TypeOK, logVars
  <2>13. CASE Die(c)
    BY <2>1, <2>2, <2>13 DEF Die, Unlocked, TypeOK, history
  <2>14. QED
    BY <1>1, <2>3, <2>4, <2>5, <2>6, <2>7, <2>8, <2>9, <2>10, <2>11, <2>12, <2>13
       DEF Steps, StartCall, StartRevoke
<1>2. CASE Tick
  BY <1>2 DEF Tick, TypeOK, logVars, history
<1>3. CASE UNCHANGED vars
  BY <1>3 DEF TypeOK, vars
<1>4. QED
  BY <1>1, <1>2, <1>3 DEF Next, Rest

(* Every variable keeps its type, whatever the faults. *)
THEOREM TypeCorrect == Spec => []TypeOK
<1>1. Init => TypeOK
  BY TypeInit
<1>2. TypeOK /\ [Next]_vars => TypeOK'
  BY TypeStep
<1>3. QED
  BY <1>1, <1>2, PTL DEF Spec

------------------------------------------------------------------------------
(***************************************************************************)
(* What a write leaves: an intact file is the old file, itself intact, and *)
(* one whole line after it.                                                *)
(***************************************************************************)
LEMMA LandIntact ==
    ASSUME TypeOK, NEW piece \in Line \cup {Damaged}, Lands(piece), Intact(file')
    PROVE  Intact(file) /\ piece # Damaged /\ file' = Append(file, piece)
<1>1. file \in LogOver(Line) /\ cut \in BOOLEAN /\ (cut => file # <<>>)
  BY DEF TypeOK, LogOver
<1>2. file' = Landed(file, cut, piece) /\ Intact(Landed(file, cut, piece))
  BY DEF Lands
<1>3. QED
  BY <1>1, <1>2, LandedIntact

LEMMA FileStepIntact ==
    ASSUME TypeOK, NEW c \in Writers, FileStep(c), Intact(file')
    PROVE  /\ Intact(file)
           /\ \/ file' = file
              \/ pc[c] = "decided" /\ file' = Append(file, BookedLine(c))
<1>1. CASE UNCHANGED <<file, cut>>
  BY <1>1
<1>2. CASE pc[c] = "decided" /\ Lands(BookedLine(c))
  BY <1>2, BookedLineType, LandIntact
<1>3. CASE pc[c] = "decided" /\ Lands(Damaged)
  BY <1>3, LandIntact
<1>4. QED
  BY <1>1, <1>2, <1>3 DEF FileStep

(* Counts and revocations of an intact book are never taken back. *)
LEMMA FileStepMonotone ==
    ASSUME TypeOK, NEW c \in Writers, FileStep(c), Intact(file'), NEW g \in Grants
    PROVE  /\ Calls(file, g) \in Nat
           /\ Calls(file', g) \in Nat
           /\ Calls(file, g) <= Calls(file', g)
           /\ RevokedIn(file, g) => RevokedIn(file', g)
<1>1. file \in Lines
  BY DEF TypeOK, Lines, LogOver
<1>2. Calls(file, g) \in Nat
  BY <1>1, CallsAppend
<1>3. CASE file' = file
  BY <1>2, <1>3
<1>4. CASE pc[c] = "decided" /\ file' = Append(file, BookedLine(c))
  <2>1. BookedLine(c) \in Line
    BY <1>4, BookedLineType
  <2>2. Calls(Append(file, BookedLine(c)), g)
            \in {Calls(file, g), Calls(file, g) + 1}
    BY <1>1, <2>1, CallsAppend
  <2>3. /\ Calls(file', g) \in Nat
        /\ Calls(file, g) <= Calls(file', g)
    BY <1>2, <1>4, <2>2
  <2>4. RevokedIn(file, g) => RevokedIn(file', g)
    BY <1>1, <1>4, <2>1, RevokedAppend
  <2>5. QED
    BY <1>2, <2>3, <2>4
<1>5. QED
  BY <1>3, <1>4, FileStepIntact

(***************************************************************************)
(* A decided approval: the book is intact, the grant not revoked and below *)
(* its cap, the clock in the window, and the slot the next one.            *)
(***************************************************************************)
LEMMA ApprovedMeans ==
    ASSUME BookInv, NEW c \in Writers, pc[c] = "decided", Approved(c)
    PROVE  LET g == op[c].grant
               clock == op[c].clock
           IN  /\ g \in Grants
               /\ Intact(file)
               /\ ~RevokedIn(file, g)
               /\ From[g] # None => From[g] <= clock
               /\ Until[g] # None => clock < Until[g]
               /\ ~OverCap(g, Calls(file, g))
               /\ Calls(file, g) \in Nat
               /\ answer[c].calls = Calls(file, g) + 1
<1> DEFINE g == op[c].grant
           clock == op[c].clock
           v == Verdict(file, g, clock)
<1>1. /\ g \in Grants
      /\ clock \in Nat
      /\ file \in Lines
  BY DEF BookInv, TypeOK, Lines, LogOver
<1>2. /\ Intact(file)
      /\ answer[c] = [verdict |-> v, calls |-> CountAfter(v, Calls(file, g))]
  BY DEF BookInv, DecisionsCurrent, Approved
<1>3. v = "allowed"
  BY <1>2 DEF Approved
<1>4. /\ ~RevokedIn(file, g)
      /\ ~(From[g] # None /\ clock < From[g])
      /\ ~Expired(g, clock)
      /\ ~OverCap(g, Calls(file, g))
  BY <1>3 DEF Verdict
<1>5. /\ From[g] # None => From[g] <= clock
      /\ Until[g] # None => clock < Until[g]
  BY <1>1, <1>4 DEF Expired
<1>6. Calls(file, g) \in Nat
  BY <1>1, CallsAppend
<1>7. answer[c].calls = Calls(file, g) + 1
  BY <1>2, <1>3 DEF CountAfter
<1>8. QED
  BY <1>1, <1>2, <1>4, <1>5, <1>6, <1>7

(* An approval that reaches the file whole raises the count to its number. *)
LEMMA ApprovalCounted ==
    ASSUME BookInv, NEW c \in Writers, WriteApproval(c), Intact(file')
    PROVE  answer[c].calls <= Calls(file', op[c].grant)
<1> DEFINE g == op[c].grant
<1>1. /\ g \in Grants
      /\ pc[c] = "decided"
      /\ Approved(c)
      /\ answer[c].calls = Calls(file, g) + 1
  BY ApprovedMeans DEF WriteApproval
<1>2. Lands(BookedLine(c)) \/ Lands(Damaged)
  BY WriteReturnsLands DEF WriteApproval
<1>3. BookedLine(c) \in Line
  BY <1>1, BookedLineType DEF BookInv
<1>4. Lands(BookedLine(c)) /\ file' = Append(file, BookedLine(c))
  BY <1>2, <1>3, LandIntact DEF BookInv
<1>5. IsCall(BookedLine(c), g)
  <2>1. BookedLine(c).kind = "call" /\ BookedLine(c).grant = g
    BY <1>1 DEF BookedLine, Approved
  <2>2. QED
    BY <1>3, <2>1 DEF IsCall, OfGrant
<1>6. file \in Lines
  BY DEF BookInv, TypeOK, Lines, LogOver
<1>7. Calls(file', g) = Calls(file, g) + 1 /\ Calls(file, g) \in Nat
  BY <1>1, <1>3, <1>4, <1>5, <1>6, CallsAppend
<1>8. QED
  BY <1>1, <1>7

(***************************************************************************)
(* What a step of c leaves of the other callers and of the history.        *)
(***************************************************************************)
LEMMA StepFrame ==
    ASSUME TypeOK, NEW c \in Writers, Steps(c)
    PROVE  /\ \A d \in Writers \ {c} :
                 pc'[d] = pc[d] /\ op'[d] = op[d] /\ answer'[d] = answer[d]
           /\ handed' = handed \/ WriteApproval(c)
           /\ fetched' = fetched \/ Fetch(c)
           /\ acknowledged' = acknowledged \/ WriteRevoke(c)
<1> USE DEF TypeOK, Goto, history
<1>1. CASE StartCall(c) \/ StartRevoke(c)
  BY <1>1 DEF StartCall, StartRevoke, Begin
<1>2. CASE Acquire(c)
  BY <1>2 DEF Acquire
<1>3. CASE DecideCall(c)
  BY <1>3 DEF DecideCall
<1>4. CASE DecideRevoke(c)
  BY <1>4 DEF DecideRevoke
<1>5. CASE RefuseTampered(c) \/ WriteRefusal(c) \/ WriteFails(c) \/ Die(c)
  BY <1>5 DEF RefuseTampered, WriteRefusal, WriteFails, Die, Finish
<1>6. CASE WriteApproval(c)
  BY <1>6 DEF WriteApproval
<1>7. CASE WriteRevoke(c)
  BY <1>7 DEF WriteRevoke, Finish
<1>8. CASE Fetch(c)
  BY <1>8 DEF Fetch, Finish
<1>9. QED
  BY <1>1, <1>2, <1>3, <1>4, <1>5, <1>6, <1>7, <1>8 DEF Steps

(* The lock: only its holder decides and writes. *)
LEMMA SectionStep ==
    ASSUME TypeOK, SectionExclusive, NEW c \in Writers, Steps(c)
    PROVE  SectionExclusive'
<1> SUFFICES ASSUME NEW d \in Writers, pc'[d] \in {"locked", "decided"}
             PROVE  holder' = d
  BY DEF SectionExclusive
<1> USE DEF TypeOK, SectionExclusive, Goto
<1>1. CASE StartCall(c) \/ StartRevoke(c)
  BY <1>1 DEF StartCall, StartRevoke, Begin, logVars
<1>2. CASE Acquire(c)
  BY <1>2 DEF Acquire, Lock, LockFree
<1>3. CASE DecideCall(c)
  BY <1>3 DEF DecideCall, logVars
<1>4. CASE DecideRevoke(c)
  BY <1>4 DEF DecideRevoke, logVars
<1>5. CASE RefuseTampered(c) \/ WriteFails(c)
  BY <1>5 DEF RefuseTampered, WriteFails, Finish, UnlockOnRaise, Unlocked
<1>6. CASE WriteApproval(c)
  BY <1>6 DEF WriteApproval, Unlock, Unlocked
<1>7. CASE WriteRefusal(c) \/ WriteRevoke(c)
  BY <1>7 DEF WriteRefusal, WriteRevoke, Finish, Unlock, Unlocked
<1>8. CASE Fetch(c)
  BY <1>8 DEF Fetch, Finish, logVars
<1>9. CASE Die(c)
  BY <1>9 DEF Die, Finish, Unlocked
<1>10. QED
  BY <1>1, <1>2, <1>3, <1>4, <1>5, <1>6, <1>7, <1>8, <1>9 DEF Steps

(* A caller that has decided, and did not just decide, sees the same file. *)
LEMMA DecidedSameFile ==
    ASSUME BookInv, NEW c \in Writers, Steps(c), NEW d \in Writers,
           pc'[d] = "decided", ~(d = c /\ (DecideCall(c) \/ DecideRevoke(c)))
    PROVE  /\ pc[d] = "decided"
           /\ file' = file
           /\ op'[d] = op[d]
           /\ answer'[d] = answer[d]
<1>1. CASE d = c
  <2>1. FALSE
    BY <1>1 DEF Steps, StartCall, StartRevoke, Begin, Acquire, RefuseTampered,
                WriteApproval, WriteRefusal, WriteRevoke, WriteFails, Fetch, Die,
                Finish, Goto, BookInv, TypeOK
  <2>2. QED
    BY <2>1
<1>2. CASE d # c
  <2>1. pc[d] = "decided" /\ op'[d] = op[d] /\ answer'[d] = answer[d]
    BY <1>2, StepFrame DEF BookInv
  <2>2. pc[c] # "decided"
    BY <1>2, <2>1 DEF BookInv, SectionExclusive
  <2>3. file' = file
    BY <2>2, StepsFile DEF FileStep
  <2>4. QED
    BY <2>1, <2>3
<1>3. QED
  BY <1>1, <1>2

(* A decision stays the one the book would give until it is written. *)
LEMMA DecisionsStep ==
    ASSUME BookInv, NEW c \in Writers, Steps(c)
    PROVE  DecisionsCurrent'
<1> SUFFICES ASSUME NEW d \in Writers, pc'[d] = "decided", op'[d].kind = "call"
             PROVE  LET g == op'[d].grant
                        v == Verdict(file', g, op'[d].clock)
                    IN  /\ Intact(file')
                        /\ answer'[d] = [verdict |-> v,
                                         calls |-> CountAfter(v, Calls(file', g))]
  BY DEF DecisionsCurrent
<1>1. CASE d = c /\ DecideCall(c)
  BY <1>1 DEF DecideCall, logVars, Readable, BookInv, TypeOK
<1>2. CASE d = c /\ DecideRevoke(c)
  BY <1>2 DEF DecideRevoke
<1>3. CASE ~(d = c /\ (DecideCall(c) \/ DecideRevoke(c)))
  BY <1>3, DecidedSameFile DEF BookInv, DecisionsCurrent
<1>4. QED
  BY <1>1, <1>2, <1>3

(* The slot a decided approval carries is new, and within the cap. *)
LEMMA ApprovedSlot ==
    ASSUME BookInv, NEW c \in Writers, WriteApproval(c)
    PROVE  /\ Booking(c) \in Grants \X Nat
           /\ Booking(c) \notin handed
           /\ answer[c].calls # 0
           /\ Cap[op[c].grant] # None => answer[c].calls \in 1..Cap[op[c].grant]
<1> DEFINE g == op[c].grant
<1>1. /\ g \in Grants
      /\ Intact(file)
      /\ ~OverCap(g, Calls(file, g))
      /\ answer[c].calls = Calls(file, g) + 1
      /\ Calls(file, g) \in Nat
  BY ApprovedMeans DEF WriteApproval
<1>2. answer[c].calls \in Nat \ {0}
  BY <1>1
<1>3. Booking(c) \notin handed
  BY <1>1, <1>2 DEF Booking, BookInv, HandedNumbered
<1>4. Cap[g] # None => answer[c].calls \in 1..Cap[g]
  BY <1>1, <1>2 DEF OverCap
<1>5. QED
  BY <1>1, <1>2, <1>3, <1>4 DEF Booking

(* Every slot handed out is numbered by the book while it is intact. *)
LEMMA HandedStep ==
    ASSUME BookInv, NEW c \in Writers, Steps(c)
    PROVE  HandedNumbered'
<1> SUFFICES ASSUME NEW b \in handed'
             PROVE  /\ Intact(file') => b[2] <= Calls(file', b[1])
                    /\ Cap[b[1]] # None => b[2] \in 1..Cap[b[1]]
  BY DEF HandedNumbered
<1>1. CASE b \in handed
  <2>1. b[1] \in Grants /\ b[2] \in Nat
    BY <1>1 DEF BookInv, TypeOK
  <2>2. ASSUME Intact(file') PROVE b[2] <= Calls(file', b[1])
    <3>1. FileStep(c) /\ TypeOK
      BY StepsFile DEF BookInv
    <3>2. Intact(file)
      BY <2>2, <3>1, FileStepIntact
    <3>3. b[2] <= Calls(file, b[1])
      BY <1>1, <3>2 DEF BookInv, HandedNumbered
    <3>4. /\ Calls(file, b[1]) \in Nat
          /\ Calls(file', b[1]) \in Nat
          /\ Calls(file, b[1]) <= Calls(file', b[1])
      BY <2>1, <2>2, <3>1, FileStepMonotone
    <3>5. QED
      BY <2>1, <3>3, <3>4
  <2>3. QED
    BY <1>1, <2>2 DEF BookInv, HandedNumbered
<1>2. CASE b \notin handed
  <2>1. WriteApproval(c) /\ b = Booking(c)
    BY <1>2, StepFrame DEF BookInv, WriteApproval
  <2>2. b[1] = op[c].grant /\ b[2] = answer[c].calls
    BY <2>1 DEF Booking
  <2>3. QED
    BY <2>1, <2>2, ApprovedSlot, ApprovalCounted
<1>3. QED
  BY <1>1, <1>2

(* Callers in flight hold distinct slots, all handed out and none spent. *)
LEMMA InFlightStep ==
    ASSUME BookInv, NEW c \in Writers, Steps(c)
    PROVE  InFlightOwned'
<1> USE DEF InFlight, Booking
<1>1. TypeOK /\ TypeOK'
  BY TypeStep DEF BookInv, Next
<1>2. /\ fetched \subseteq handed
      /\ \A d \in Writers : pc[d] = "answered" =>
            /\ Booking(d) \in handed
            /\ Booking(d) \notin fetched
            /\ \A e \in Writers \ {d} : pc[e] = "answered" => Booking(e) # Booking(d)
  BY DEF BookInv, InFlightOwned, NoSlotSpentTwice
<1>3. \A d \in Writers \ {c} : pc'[d] = pc[d] /\ Booking(d)' = Booking(d)
  BY <1>1, StepFrame
<1>4. CASE WriteApproval(c)
  <2>1. Booking(c) \notin handed
    BY <1>4, ApprovedSlot
  <2>2. Booking(c)' = Booking(c)
    BY <1>4 DEF WriteApproval
  <2>3. handed' = handed \cup {Booking(c)} /\ fetched' = fetched
    BY <1>4 DEF WriteApproval
  <2>4. QED
    BY <1>2, <1>3, <2>1, <2>2, <2>3 DEF InFlightOwned, NoSlotSpentTwice
<1>5. CASE Fetch(c)
  <2>1. /\ fetched' = fetched \cup {Booking(c)}
        /\ handed' = handed
        /\ pc[c] = "answered"
        /\ pc'[c] = "idle"
    BY <1>1, <1>5 DEF Fetch, Finish, Goto, TypeOK
  <2>2. QED
    BY <1>2, <1>3, <2>1 DEF InFlightOwned, NoSlotSpentTwice
<1>6. CASE ~WriteApproval(c) /\ ~Fetch(c)
  <2>1. handed' = handed /\ fetched' = fetched
    BY <1>1, <1>6, StepFrame
  <2>2. pc'[c] # "answered"
    BY <1>1, <1>6 DEF Steps, StartCall, StartRevoke, Begin, Acquire, DecideCall,
          DecideRevoke, RefuseTampered, WriteRefusal, WriteRevoke, WriteFails, Die,
          Finish, Goto, TypeOK
  <2>3. QED
    BY <1>2, <1>3, <2>1, <2>2 DEF InFlightOwned, NoSlotSpentTwice
<1>7. QED
  BY <1>4, <1>5, <1>6

(* A revocation acknowledged to its caller is in the book, or the book is torn. *)
LEMMA RevocationsStep ==
    ASSUME BookInv, NEW c \in Writers, Steps(c)
    PROVE  RevocationsKept'
<1> SUFFICES ASSUME NEW g \in acknowledged', Intact(file')
             PROVE  RevokedIn(file', g)
  BY DEF RevocationsKept
<1>1. TypeOK /\ FileStep(c)
  BY StepsFile DEF BookInv
<1>2. Intact(file)
  BY <1>1, FileStepIntact
<1>3. CASE g \in acknowledged
  <2>1. g \in Grants /\ RevokedIn(file, g)
    BY <1>2, <1>3 DEF BookInv, TypeOK, RevocationsKept
  <2>2. QED
    BY <1>1, <2>1, FileStepMonotone
<1>4. CASE g \notin acknowledged
  <2>1. WriteRevoke(c) /\ g = op[c].grant /\ pc[c] = "decided" /\ op[c].kind = "revoke"
    BY <1>1, <1>4, StepFrame DEF WriteRevoke
  <2>2. BookedLine(c) \in Line /\ g \in Grants
    BY <1>1, <2>1, BookedLineType DEF TypeOK
  <2>3. Lands(BookedLine(c)) \/ Lands(Damaged)
    BY <2>1, WriteReturnsLands DEF WriteRevoke
  <2>4. file' = Append(file, BookedLine(c))
    BY <1>1, <2>2, <2>3, LandIntact
  <2>5. BookedLine(c).kind = "revoke" /\ BookedLine(c).grant = g
    BY <2>1 DEF BookedLine
  <2>6. IsRevoke(BookedLine(c), g)
    BY <2>2, <2>5 DEF IsRevoke, OfGrant
  <2>7. file \in Lines
    BY <1>1 DEF TypeOK, Lines, LogOver
  <2>8. QED
    BY <2>2, <2>4, <2>6, <2>7, RevokedAppend
<1>5. QED
  BY <1>3, <1>4

(* The inductive invariant of the book. *)
THEOREM BookInvariant == Spec => []BookInv
<1>1. Init => BookInv
  <2> SUFFICES ASSUME Init PROVE BookInv
    OBVIOUS
  <2>1. TypeOK
    BY TypeInit
  <2>2. \A c \in Writers : pc[c] = "idle"
    BY DEF Init
  <2>3. QED
    BY <2>1, <2>2 DEF Init, BookInv, SectionExclusive, DecisionsCurrent, HandedNumbered,
                      InFlightOwned, InFlight, NoSlotSpentTwice, RevocationsKept
<1>2. BookInv /\ [Next]_vars => BookInv'
  <2> SUFFICES ASSUME BookInv, [Next]_vars PROVE BookInv'
    OBVIOUS
  <2>1. TypeOK'
    BY TypeStep DEF BookInv
  <2>2. ASSUME NEW c \in Writers, Steps(c) PROVE BookInv'
    BY <2>1, <2>2, SectionStep, DecisionsStep, HandedStep, InFlightStep, RevocationsStep
       DEF BookInv
  <2>3. CASE UNCHANGED <<file, holder, pc, op, answer, handed, fetched, acknowledged>>
    BY <2>1, <2>3 DEF BookInv, SectionExclusive, DecisionsCurrent, HandedNumbered,
          InFlightOwned, InFlight, NoSlotSpentTwice, RevocationsKept, Approved, Booking
  <2>4. QED
    BY <2>2, <2>3 DEF Next, Tick, Rest, vars, logVars, history
<1>3. QED
  BY <1>1, <1>2, PTL DEF Spec

(***************************************************************************)
(* No two callers ever hold one slot, and no slot is spent again.          *)
(***************************************************************************)
THEOREM SlotsSpentOnce == Spec => []NoSlotSpentTwice
<1>1. BookInv => NoSlotSpentTwice
  BY DEF BookInv, InFlightOwned
<1>2. QED
  BY <1>1, BookInvariant, PTL

(* A grant with max_calls of N hands out slots 1..N and no other. *)
THEOREM CapHolds == Spec => []SlotsWithinCap
<1>1. BookInv => SlotsWithinCap
  BY DEF BookInv, HandedNumbered, SlotsWithinCap
<1>2. QED
  BY <1>1, BookInvariant, PTL

(***************************************************************************)
(* A new slot is handed out only over a book that is intact and holds no   *)
(* revocation of its grant.                                                *)
(***************************************************************************)
LEMMA HandedMeansOpen ==
    ASSUME BookInv, [Next]_vars, NEW b \in handed' \ handed
    PROVE  Intact(file) /\ b[1] \in Grants /\ ~RevokedIn(file, b[1])
<1>1. PICK c \in Writers : Steps(c)
  BY DEF Next, Tick, Rest, vars, history
<1>2. WriteApproval(c) /\ b = Booking(c)
  BY <1>1, StepFrame DEF BookInv, WriteApproval
<1>3. b[1] = op[c].grant /\ pc[c] = "decided" /\ Approved(c)
  BY <1>2 DEF Booking, WriteApproval
<1>4. QED
  BY <1>3, ApprovedMeans

(* After revoke() has returned, no call is approved under the grant. *)
THEOREM RevocationIsFinal == Spec => RevocationSticks
<1>1. BookInv /\ [Next]_vars =>
        [\A b \in handed' \ handed : b[1] \notin acknowledged]_vars
  <2> SUFFICES ASSUME BookInv, [Next]_vars, NEW b \in handed' \ handed
               PROVE  b[1] \notin acknowledged
    OBVIOUS
  <2>1. Intact(file) /\ ~RevokedIn(file, b[1])
    BY HandedMeansOpen
  <2>2. QED
    BY <2>1 DEF BookInv, RevocationsKept
<1>2. QED
  BY <1>1, BookInvariant, PTL DEF Spec, RevocationSticks

(* A torn book approves nothing, whatever is written to it afterwards. *)
THEOREM TornBookFailsClosed == Spec => DamageFailsClosed
<1>1. BookInv /\ [Next]_vars => [~Intact(file) => handed' = handed]_vars
  <2> SUFFICES ASSUME BookInv, [Next]_vars, ~Intact(file) PROVE handed' = handed
    OBVIOUS
  <2>1. handed' \ handed = {}
    BY HandedMeansOpen
  <2>2. handed \subseteq handed'
    BY StepFrame DEF BookInv, Next, WriteApproval, Tick, Rest, vars, history
  <2>3. QED
    BY <2>1, <2>2
<1>2. QED
  BY <1>1, BookInvariant, PTL DEF Spec, DamageFailsClosed

------------------------------------------------------------------------------
(***************************************************************************)
(* "The file is the evidence": the book the writers leave behind.          *)
(***************************************************************************)
EvidenceInv ==
    /\ BookInv
    /\ IntactBookReplays
    /\ LostApprovalShows
    /\ CallLinesInsideWindow

(* What a replay counts up to a line does not depend on what follows it. *)
LEMMA CallsPrefix ==
    ASSUME NEW f \in Lines, NEW line \in Line \cup {Damaged}, NEW g \in Grants,
           NEW n \in 1..Len(f)
    PROVE  /\ Append(f, line)[n] = f[n]
           /\ CallsUpTo(Append(f, line), g, n) = CallsUpTo(f, g, n)
           /\ Seals(Append(f, line), g, n) <=> Seals(f, g, n)
<1>1. Len(f) \in Nat /\ \A i \in 1..Len(f) : Append(f, line)[i] = f[i]
  BY AppendProperties DEF Lines, LogOver
<1>2. \A i \in 1..n : Append(f, line)[i] = f[i]
  BY <1>1
<1>3. {i \in 1..n : IsCall(Append(f, line)[i], g)} = {i \in 1..n : IsCall(f[i], g)}
  BY <1>2
<1>4. CallsUpTo(Append(f, line), g, n) = CallsUpTo(f, g, n)
  BY <1>3 DEF CallsUpTo
<1>5. QED
  BY <1>1, <1>4 DEF Seals

(* The line a decided caller books carries the count a replay reaches there. *)
LEMMA BookedLineSeals ==
    ASSUME BookInv, NEW c \in Writers, pc[c] = "decided", NEW g \in Grants
    PROVE  LET f == Append(file, BookedLine(c))
           IN  Seals(f, g, Len(f))
<1> DEFINE line == BookedLine(c)
           f == Append(file, line)
           v == Verdict(file, g, op[c].clock)
<1> SUFFICES ASSUME OfGrant(line, g) PROVE Seals(f, g, Len(f))
  <2>1. Len(f) \in Nat /\ f[Len(f)] = line
    BY AppendProperties DEF BookInv, TypeOK
  <2>2. QED
    BY <2>1 DEF Seals
<1>1. /\ file \in Lines
      /\ line \in Line
      /\ g = op[c].grant
      /\ op[c].kind \in {"call", "revoke"}
  BY BookedLineType DEF BookInv, TypeOK, Lines, LogOver, OfGrant, BookedLine
<1>2. f[Len(f)] = line
  BY <1>1, AppendProperties DEF Lines, LogOver
<1>3. /\ Calls(file, g) \in Nat
      /\ Calls(f, g) = CallsUpTo(f, g, Len(f))
      /\ Calls(f, g) = IF IsCall(line, g) THEN Calls(file, g) + 1 ELSE Calls(file, g)
  BY <1>1, CallsAppend DEF Calls
<1>4. CASE op[c].kind = "revoke"
  <2>1. line.kind = "revoke"
    BY <1>4 DEF BookedLine
  <2>2. QED
    BY <1>2, <2>1 DEF Seals
<1>5. CASE op[c].kind = "call"
  <2>1. answer[c] = [verdict |-> v, calls |-> CountAfter(v, Calls(file, g))]
    BY <1>1, <1>5 DEF BookInv, DecisionsCurrent
  <2>2. CASE v = "allowed"
    <3>1. line.kind = "call" /\ line.after = Calls(file, g) + 1
      BY <1>5, <2>1, <2>2 DEF BookedLine, CountAfter
    <3>2. IsCall(line, g)
      BY <3>1 DEF IsCall
    <3>3. QED
      BY <1>2, <1>3, <3>1, <3>2 DEF Seals
  <2>3. CASE v # "allowed"
    <3>1. line.kind = "refuse" /\ line.after \in {NoCount, Calls(file, g)}
      BY <1>5, <2>1, <2>3 DEF BookedLine, CountAfter
    <3>2. ~IsCall(line, g)
      BY <3>1 DEF IsCall
    <3>3. QED
      BY <1>2, <1>3, <3>1, <3>2 DEF Seals
  <2>4. QED
    BY <2>2, <2>3
<1>6. QED
  BY <1>1, <1>4, <1>5

(* An intact book stays one that replays. *)
LEMMA ReplaysStep ==
    ASSUME EvidenceInv, NEW c \in Writers, Steps(c)
    PROVE  IntactBookReplays'
<1> SUFFICES ASSUME Intact(file'), NEW g \in Grants PROVE Readable(file', g)
  BY DEF IntactBookReplays
<1>1. TypeOK /\ FileStep(c)
  BY StepsFile DEF EvidenceInv, BookInv
<1>2. Intact(file) /\ Readable(file, g)
  BY <1>1, FileStepIntact DEF EvidenceInv, IntactBookReplays
<1>3. CASE file' = file
  BY <1>2, <1>3
<1>4. CASE pc[c] = "decided" /\ file' = Append(file, BookedLine(c))
  <2> DEFINE f == Append(file, BookedLine(c))
  <2>1. file \in Lines /\ BookedLine(c) \in Line
    BY <1>1, <1>4, BookedLineType DEF TypeOK, Lines, LogOver
  <2>2. /\ Len(file) \in Nat
        /\ Len(f) = Len(file) + 1
        /\ DOMAIN f = 1..Len(f)
        /\ DOMAIN file = 1..Len(file)
    BY <2>1, AppendProperties DEF Lines, LogOver
  <2>3. \A i \in 1..Len(file) : Seals(f, g, i)
    BY <1>2, <2>1, <2>2, CallsPrefix DEF Readable
  <2>4. Seals(f, g, Len(f))
    BY <1>4, BookedLineSeals DEF EvidenceInv
  <2>5. \A i \in DOMAIN f : Seals(f, g, i)
    BY <2>2, <2>3, <2>4
  <2>6. QED
    BY <1>4, <2>5 DEF Readable
<1>5. QED
  BY <1>1, <1>3, <1>4, FileStepIntact

(* An approval stays a call line of every book that is intact. *)
LEMMA LostApprovalStep ==
    ASSUME EvidenceInv, NEW c \in Writers, Steps(c)
    PROVE  LostApprovalShows'
<1> SUFFICES ASSUME Intact(file'), NEW b \in handed'
             PROVE  \E i \in DOMAIN file' :
                        IsCall(file'[i], b[1]) /\ file'[i].after = b[2]
  BY DEF LostApprovalShows, ApprovalsAreBooked
<1>1. TypeOK /\ FileStep(c)
  BY StepsFile DEF EvidenceInv, BookInv
<1>2. Intact(file) /\ file \in Lines
  BY <1>1, FileStepIntact DEF TypeOK, Lines, LogOver
<1>3. CASE b \in handed
  <2>1. PICK i \in DOMAIN file : IsCall(file[i], b[1]) /\ file[i].after = b[2]
    BY <1>2, <1>3 DEF EvidenceInv, LostApprovalShows, ApprovalsAreBooked
  <2>2. CASE file' = file
    BY <2>1, <2>2
  <2>3. CASE pc[c] = "decided" /\ file' = Append(file, BookedLine(c))
    <3>1. BookedLine(c) \in Line
      BY <1>1, <2>3, BookedLineType
    <3>2. i \in DOMAIN file' /\ file'[i] = file[i]
      BY <1>2, <2>1, <2>3, <3>1, AppendProperties DEF Lines, LogOver
    <3>3. QED
      BY <2>1, <3>2
  <2>4. QED
    BY <1>1, <2>2, <2>3, FileStepIntact
<1>4. CASE b \notin handed
  <2>1. WriteApproval(c) /\ b = Booking(c)
    BY <1>1, <1>4, StepFrame DEF WriteApproval
  <2>2. /\ pc[c] = "decided"
        /\ Approved(c)
        /\ b[1] = op[c].grant
        /\ b[2] = answer[c].calls
    BY <2>1 DEF WriteApproval, Booking
  <2>3. BookedLine(c) \in Line
    BY <1>1, <2>2, BookedLineType
  <2>4. Lands(BookedLine(c)) \/ Lands(Damaged)
    BY <2>1, WriteReturnsLands DEF WriteApproval
  <2>5. file' = Append(file, BookedLine(c))
    BY <1>1, <2>3, <2>4, LandIntact
  <2>6. Len(file') \in DOMAIN file' /\ file'[Len(file')] = BookedLine(c)
    BY <1>2, <2>3, <2>5, AppendProperties DEF Lines, LogOver
  <2>7. /\ BookedLine(c).kind = "call"
        /\ BookedLine(c).grant = b[1]
        /\ BookedLine(c).after = b[2]
    BY <2>2 DEF BookedLine, Approved
  <2>8. IsCall(BookedLine(c), b[1])
    BY <2>3, <2>7 DEF IsCall, OfGrant
  <2>9. QED
    BY <2>6, <2>7, <2>8
<1>5. QED
  BY <1>3, <1>4

(* Whatever a write leaves, its call lines are old ones or the booked one. *)
LEMMA WindowStep ==
    ASSUME EvidenceInv, NEW c \in Writers, Steps(c)
    PROVE  CallLinesInsideWindow'
<1> SUFFICES ASSUME NEW i \in DOMAIN file', NEW g \in Grants, IsCall(file'[i], g)
             PROVE  /\ From[g] # None => From[g] <= file'[i].at
                    /\ Until[g] # None => file'[i].at < Until[g]
  BY DEF CallLinesInsideWindow
<1>1. /\ TypeOK
      /\ FileStep(c)
      /\ file \in Seq(Line \cup {Damaged})
      /\ cut \in BOOLEAN
  BY StepsFile DEF EvidenceInv, BookInv, TypeOK
<1>2. CASE i \in DOMAIN file /\ file'[i] = file[i]
  BY <1>2 DEF EvidenceInv, CallLinesInsideWindow
<1>3. CASE pc[c] = "decided" /\ file'[i] = BookedLine(c)
  <2>1. BookedLine(c).kind = "call" /\ BookedLine(c).grant = g
    BY <1>3 DEF IsCall, OfGrant
  <2>2. op[c].grant = g /\ Approved(c) /\ BookedLine(c).at = op[c].clock
    BY <1>1, <1>3, <2>1 DEF BookedLine, Approved, TypeOK
  <2>3. QED
    BY <1>3, <2>2, ApprovedMeans DEF EvidenceInv
<1>4. \/ i \in DOMAIN file /\ file'[i] = file[i]
      \/ file'[i] = Damaged
      \/ pc[c] = "decided" /\ file'[i] = BookedLine(c)
  <2>1. ASSUME NEW piece \in Line \cup {Damaged}, Lands(piece)
        PROVE  (i \in DOMAIN file /\ file'[i] = file[i]) \/ file'[i] \in {Damaged, piece}
    <3>1. CASE cut
      BY <1>1, <2>1, <3>1 DEF Lands, Landed
    <3>2. CASE ~cut
      BY <1>1, <2>1, <3>2, AppendProperties DEF Lands, Landed
    <3>3. QED
      BY <1>1, <3>1, <3>2
  <2>2. CASE UNCHANGED <<file, cut>>
    BY <2>2
  <2>3. CASE pc[c] = "decided" /\ Lands(BookedLine(c))
    BY <1>1, <2>1, <2>3, BookedLineType
  <2>4. CASE pc[c] = "decided" /\ Lands(Damaged)
    BY <2>1, <2>4
  <2>5. QED
    BY <1>1, <2>2, <2>3, <2>4 DEF FileStep
<1>5. file'[i] # Damaged
  BY DEF IsCall, OfGrant
<1>6. QED
  BY <1>2, <1>3, <1>4, <1>5

(* The book is evidence, step by step. *)
LEMMA EvidenceInvariant == Spec => []EvidenceInv
<1>1. BookInv /\ Init => EvidenceInv
  <2> SUFFICES ASSUME Init, BookInv PROVE EvidenceInv
    OBVIOUS
  <2>1. file = <<>> /\ handed = {} /\ DOMAIN file = {}
    BY DEF Init, LogInit
  <2>2. QED
    BY <2>1 DEF EvidenceInv, IntactBookReplays, Readable, LostApprovalShows,
                ApprovalsAreBooked, CallLinesInsideWindow
<1>2. BookInv' /\ EvidenceInv /\ [Next]_vars => EvidenceInv'
  <2> SUFFICES ASSUME BookInv', EvidenceInv, [Next]_vars PROVE EvidenceInv'
    OBVIOUS
  <2>1. ASSUME NEW c \in Writers, Steps(c) PROVE EvidenceInv'
    BY <2>1, ReplaysStep, LostApprovalStep, WindowStep DEF EvidenceInv
  <2>2. CASE UNCHANGED <<file, handed>>
    BY <2>2 DEF EvidenceInv, IntactBookReplays, LostApprovalShows, ApprovalsAreBooked,
                CallLinesInsideWindow
  <2>3. QED
    BY <2>1, <2>2 DEF Next, Tick, Rest, vars, logVars, history
<1>3. QED
  BY <1>1, <1>2, BookInvariant, PTL DEF Spec

------------------------------------------------------------------------------
(* Line i taken out: the lines before it stay, those after it move up. *)
LEMMA WithoutLine ==
    ASSUME NEW f \in Lines, NEW i \in 1..Len(f)
    PROVE  /\ Len(Without(f, i)) = Len(f) - 1
           /\ DOMAIN Without(f, i) = 1..(Len(f) - 1)
           /\ \A k \in 1..(Len(f) - 1) :
                 Without(f, i)[k] = IF k < i THEN f[k] ELSE f[k + 1]
<1> DEFINE front == SubSeq(f, 1, i - 1)
           back  == SubSeq(f, i + 1, Len(f))
<1>1. /\ f \in Seq(Line \cup {Damaged})
      /\ Len(f) \in Nat
      /\ i \in Nat /\ 1 <= i /\ i <= Len(f)
  BY DEF Lines, LogOver
<1>2. /\ front \in Seq(Line \cup {Damaged})
      /\ Len(front) = i - 1
      /\ \A k \in 1..(i - 1) : front[k] = f[k]
  BY <1>1, SubSeqProperties
<1>3. /\ back \in Seq(Line \cup {Damaged})
      /\ Len(back) = Len(f) - i
      /\ \A k \in 1..(Len(f) - i) : back[k] = f[i + k]
  BY <1>1, SubSeqProperties
<1> DEFINE whole == front \o back
           entries == Line \cup {Damaged}
<1>3a. front \in Seq(entries) /\ back \in Seq(entries)
  BY <1>2, <1>3
<1> HIDE DEF front, back, entries
<1>4. /\ whole \in Seq(entries)
      /\ Len(whole) = Len(front) + Len(back)
      /\ \A k \in 1..(Len(front) + Len(back)) :
            whole[k] = IF k <= Len(front) THEN front[k] ELSE back[k - Len(front)]
  BY <1>3a, ConcatProperties
<1> HIDE DEF whole
<1>5. /\ Len(whole) = Len(f) - 1
      /\ DOMAIN whole = 1..(Len(f) - 1)
      /\ \A k \in 1..(Len(f) - 1) :
            whole[k] = IF k < i THEN front[k] ELSE back[k - (i - 1)]
  <2>1. Len(front) + Len(back) = Len(f) - 1
    BY <1>1, <1>2, <1>3
  <2>2. Len(whole) = Len(f) - 1 /\ DOMAIN whole = 1..(Len(f) - 1)
    BY <1>4, <2>1
  <2>3. \A k \in 1..(Len(f) - 1) :
            whole[k] = IF k <= i - 1 THEN front[k] ELSE back[k - (i - 1)]
    BY <1>2, <1>4, <2>1
  <2>4. \A k \in 1..(Len(f) - 1) : k < i <=> k <= i - 1
    BY <1>1
  <2>5. QED
    BY <2>2, <2>3, <2>4
<1>6. ASSUME NEW k \in 1..(Len(f) - 1)
      PROVE  whole[k] = IF k < i THEN f[k] ELSE f[k + 1]
  <2>1. CASE k < i
    <3>1. k \in 1..(i - 1)
      BY <1>1, <2>1
    <3>2. QED
      BY <1>2, <1>5, <2>1, <3>1
  <2>2. CASE ~(k < i)
    <3>1. k - (i - 1) \in 1..(Len(f) - i) /\ i + (k - (i - 1)) = k + 1
      BY <1>1, <2>2
    <3>2. back[k - (i - 1)] = f[k + 1]
      BY <1>3, <3>1
    <3>3. QED
      BY <1>5, <2>2, <3>2
  <2>3. QED
    BY <2>1, <2>2
<1>7. Without(f, i) = whole
  BY DEF Without, whole, front, back
<1>8. QED
  BY <1>5, <1>6, <1>7

(***************************************************************************)
(* Without one of its call lines, a book counts one call less at every     *)
(* later line.                                                             *)
(***************************************************************************)
LEMMA CallsWithout ==
    ASSUME NEW f \in Lines, NEW g \in Grants, NEW i \in 1..Len(f),
           IsCall(f[i], g), NEW j \in (i + 1)..Len(f)
    PROVE  CallsUpTo(Without(f, i), g, j - 1) = CallsUpTo(f, g, j) - 1
<1> DEFINE w == Without(f, i)
           new == {k \in 1..(j - 1) : IsCall(w[k], g)}
           old == {k \in 1..j : IsCall(f[k], g)}
           move == [k \in new |-> IF k < i THEN k ELSE k + 1]
<1>1. /\ Len(f) \in Nat
      /\ i \in Nat /\ 1 <= i /\ i < j
      /\ j \in Nat /\ j <= Len(f)
      /\ 1..(j - 1) \subseteq 1..(Len(f) - 1)
  BY DEF Lines, LogOver
<1>2. \A k \in 1..(j - 1) : w[k] = IF k < i THEN f[k] ELSE f[k + 1]
  <2>1. \A k \in 1..(Len(f) - 1) : w[k] = IF k < i THEN f[k] ELSE f[k + 1]
    BY WithoutLine
  <2>2. QED
    BY <1>1, <2>1
<1>3. move \in [new -> old \ {i}]
  BY <1>1, <1>2
<1>4. \A a, b \in new : move[a] = move[b] => a = b
  BY <1>1
<1>5. ASSUME NEW t \in old \ {i} PROVE \E k \in new : move[k] = t
  <2>1. CASE t < i
    <3>1. t \in new /\ move[t] = t
      BY <1>1, <1>2, <1>5, <2>1
    <3>2. QED
      BY <3>1
  <2>2. CASE ~(t < i)
    <3>1. t - 1 \in new /\ move[t - 1] = t
      BY <1>1, <1>2, <1>5, <2>2
    <3>2. QED
      BY <3>1
  <2>3. QED
    BY <2>1, <2>2
<1>6. move \in Bijection(new, old \ {i})
  <2>1. move \in Injection(new, old \ {i})
    BY <1>3, <1>4 DEF Injection, IsInjective
  <2>2. move \in Surjection(new, old \ {i})
    BY <1>3, <1>5 DEF Surjection
  <2>3. QED
    BY <2>1, <2>2 DEF Bijection
<1>7. IsFiniteSet(new)
  <2>1. 1 \in Int /\ j - 1 \in Int
    BY <1>1
  <2>2. IsFiniteSet(1..(j - 1))
    BY <2>1, FS_Interval
  <2>3. new \in SUBSET (1..(j - 1))
    OBVIOUS
  <2>4. QED
    BY <2>2, <2>3, FS_Subset
<1>8. Cardinality(new) = Cardinality(old \ {i})
  BY <1>6, <1>7, FS_Bijection DEF ExistsBijection
<1>9. IsFiniteSet(old) /\ i \in old
  <2>1. j \in 0..Len(f) /\ i \in 1..j
    BY <1>1
  <2>2. QED
    BY <2>1, CallsType
<1> HIDE DEF old, new
<1>10. Cardinality(old \ {i}) = Cardinality(old) - 1
  <2>1. Cardinality(old \ {i}) =
            IF i \in old THEN Cardinality(old) - 1 ELSE Cardinality(old)
    BY <1>9, FS_RemoveElement
  <2>2. QED
    BY <1>9, <2>1
<1>11. QED
  <2>1. CallsUpTo(w, g, j - 1) = Cardinality(new) /\ CallsUpTo(f, g, j) = Cardinality(old)
    BY DEF CallsUpTo, new, old
  <2>2. QED
    BY <1>8, <1>10, <2>1

(* A call line deleted from a book that replays is missed by the next one. *)
LEMMA DeletionMissed ==
    ASSUME NEW f \in Lines, NEW g \in Grants, Readable(f, g),
           NEW i \in 1..Len(f), IsCall(f[i], g),
           NEW j \in (i + 1)..Len(f), IsCall(f[j], g)
    PROVE  ~Readable(Without(f, i), g)
<1> DEFINE w == Without(f, i)
           counted == CallsUpTo(f, g, j)
<1>1. /\ Len(f) \in Nat
      /\ j - 1 \in 1..(Len(f) - 1)
      /\ ~(j - 1 < i)
      /\ (j - 1) + 1 = j
      /\ j \in 1..Len(f)
      /\ DOMAIN f = 1..Len(f)
  BY DEF Lines, LogOver
<1>2. j - 1 \in DOMAIN w /\ w[j - 1] = f[j]
  BY <1>1, WithoutLine
<1>3. f[j].after = counted /\ counted \in Nat
  <2>1. j \in 0..Len(f) /\ j \in DOMAIN f
    BY <1>1
  <2>2. counted \in Nat
    BY <2>1, CallsType
  <2>3. QED
    BY <2>1, <2>2 DEF Readable, Seals, IsCall
<1>4. CallsUpTo(w, g, j - 1) = counted - 1
  BY CallsWithout
<1>5. ~Seals(w, g, j - 1)
  BY <1>2, <1>3, <1>4 DEF Seals, IsCall
<1>6. QED
  BY <1>2, <1>5 DEF Readable

(***************************************************************************)
(* The book is the evidence: intact, it replays for every grant, it shows  *)
(* every approval as a call line inside its window, and it betrays the     *)
(* deletion of any but the last.                                           *)
(***************************************************************************)
THEOREM TheBookIsEvidence == Spec => []BookIsEvidence
<1>1. EvidenceInv => BookIsEvidence
  <2> SUFFICES ASSUME EvidenceInv PROVE DeletionShows
    BY DEF EvidenceInv, BookIsEvidence
  <2>1. file \in Lines
    BY DEF EvidenceInv, BookInv, TypeOK, Lines, LogOver
  <2>2. DOMAIN file = 1..Len(file)
    BY <2>1 DEF Lines, LogOver
  <2>3. ASSUME Intact(file), NEW i \in DOMAIN file, NEW g \in Grants, IsCall(file[i], g),
               NEW j \in (i + 1)..Len(file), IsCall(file[j], g)
        PROVE  ~Readable(Without(file, i), g)
    BY <2>1, <2>2, <2>3, DeletionMissed DEF EvidenceInv, IntactBookReplays
  <2>4. QED
    BY <2>3 DEF DeletionShows
<1>2. QED
  BY <1>1, EvidenceInvariant, PTL

------------------------------------------------------------------------------
(***************************************************************************)
(* The book implements the abstract meter of slots.                        *)
(***************************************************************************)
Closed == {g \in Grants : ~Readable(file, g) \/ RevokedIn(file, g)}

(* A grant the book has closed, by a revocation or by damage, stays closed. *)
LEMMA ClosedStays ==
    ASSUME EvidenceInv, [Next]_vars
    PROVE  Closed \subseteq Closed'
<1> SUFFICES ASSUME NEW g \in Closed, Intact(file') PROVE RevokedIn(file', g)
  BY DEF Closed, Readable
<1>1. CASE file' = file
  BY <1>1 DEF Closed, EvidenceInv, IntactBookReplays
<1>2. ASSUME NEW c \in Writers, Steps(c) PROVE RevokedIn(file', g)
  <2>1. TypeOK /\ FileStep(c)
    BY <1>2, StepsFile DEF EvidenceInv, BookInv
  <2>2. Intact(file) /\ Readable(file, g)
    BY <2>1, FileStepIntact DEF EvidenceInv, IntactBookReplays, Closed
  <2>3. QED
    BY <2>1, <2>2, FileStepMonotone DEF Closed
<1>3. QED
  BY <1>1, <1>2 DEF Next, Tick, Rest, vars, logVars

(* A slot handed out is a fresh one of an open grant. *)
LEMMA HandsSlot ==
    ASSUME EvidenceInv, NEW c \in Writers, WriteApproval(c)
    PROVE  Meter!Hand
<1> DEFINE g == op[c].grant
           n == answer[c].calls
<1>1. /\ g \in Grants
      /\ n \in Nat \ {0}
      /\ <<g, n>> \notin handed
      /\ Cap[g] # None => n \in 1..Cap[g]
  BY ApprovedSlot DEF EvidenceInv, Booking
<1>2. handed' = handed \cup {<<g, n>>} /\ fetched' = fetched
  BY DEF WriteApproval, Booking
<1>3. g \notin Closed
  BY ApprovedMeans DEF EvidenceInv, WriteApproval, IntactBookReplays, Closed
<1>4. n \in [h \in Grants |-> IF Cap[h] = None THEN Nat \ {0} ELSE 1..Cap[h]][g]
  BY <1>1
<1>5. Meter!HandSlot(g, n)
  BY <1>1, <1>2, <1>3 DEF Meter!HandSlot, Closed
<1>6. <<g, n>> \in handed' /\ <<g, n>>[1] = g /\ <<g, n>>[2] = n
  BY <1>2
<1>7. QED
  BY <1>1, <1>4, <1>5, <1>6 DEF Meter!Hand

(* An approval is spent by the caller it was handed to. *)
LEMMA SpendsSlot ==
    ASSUME EvidenceInv, NEW c \in Writers, Fetch(c)
    PROVE  Meter!Spend
<1>1. Booking(c) \in handed \ fetched
  BY DEF Fetch, EvidenceInv, BookInv, InFlightOwned, NoSlotSpentTwice, InFlight
<1>2. fetched' = fetched \cup {Booking(c)} /\ handed' = handed
  BY DEF Fetch
<1>3. QED
  BY <1>1, <1>2 DEF Meter!Spend, Meter!SpendSlot

(* Every run of the book is a run of the meter. *)
THEOREM BookImplementsMeter == Spec => ImplementsMeter
<1>1. Init /\ EvidenceInv => Meter!Init
  <2> SUFFICES ASSUME Init, EvidenceInv PROVE Closed = {}
    BY DEF Init, Meter!Init, Closed
  <2>1. file = <<>>
    BY DEF Init, LogInit
  <2>2. QED
    BY <2>1 DEF Closed, Readable, Intact, RevokedIn
<1>2. EvidenceInv /\ [Next]_vars
        => [Meter!Next]_<<handed, fetched, {g \in Grants : ~Readable(file, g) \/ RevokedIn(file, g)}>>
  <2> SUFFICES ASSUME EvidenceInv, [Next]_vars PROVE Meter!Next
    OBVIOUS
  <2>1. Closed \subseteq Closed'
    BY ClosedStays
  <2>2. Meter!Hand \/ Meter!Spend \/ UNCHANGED <<handed, fetched>>
    <3>1. ASSUME NEW c \in Writers, Steps(c)
          PROVE  Meter!Hand \/ Meter!Spend \/ UNCHANGED <<handed, fetched>>
      BY <3>1, StepFrame, HandsSlot, SpendsSlot DEF EvidenceInv, BookInv
    <3>2. QED
      BY <3>1 DEF Next, Tick, Rest, vars, history
  <2>3. QED
    BY <2>1, <2>2 DEF Meter!Next, Closed
<1>3. QED
  BY <1>1, <1>2, EvidenceInvariant, PTL DEF Spec, ImplementsMeter, Meter!Spec
===============================================================================
