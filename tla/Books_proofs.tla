----------------------------- MODULE Books_proofs -----------------------------
(***************************************************************************)
(* Theorems about the two books that fold or chain the lines of a shared   *)
(* log: the tenant book and the execution ledger.  They hold for any       *)
(* writers, tenants, caps, reservations and records, books of any length,  *)
(* and any of the host's faults.                                           *)
(***************************************************************************)
EXTENDS TenantBook, LedgerChain, SequenceTheorems, FiniteSetTheorems,
        WellFoundedInduction, TLAPS

(***************************************************************************)
(* What one write does to the lines of the log.                            *)
(***************************************************************************)

(* A log of lines of S, some of them damaged. *)
LogOver(S) == Seq(S \cup {Damaged})

LEMMA LogLines ==
    ASSUME NEW S, NEW f \in LogOver(S)
    PROVE  /\ Len(f) \in Nat
           /\ DOMAIN f = 1..Len(f)
           /\ \A i \in 1..Len(f) : f[i] \in S \cup {Damaged}
BY LenProperties, ElementOfSeq DEF LogOver

LEMMA AppendedLines ==
    ASSUME NEW S, NEW f \in LogOver(S), NEW line \in S \cup {Damaged},
           NEW g, g = Append(f, line), NEW n, n = Len(f) + 1
    PROVE  /\ g \in LogOver(S)
           /\ Len(g) = n
           /\ DOMAIN g = 1..n
           /\ g[n] = line
           /\ \A i \in 1..Len(f) : g[i] = f[i]
BY AppendProperties, LogLines DEF LogOver

(* One write keeps the log a log: Landed only appends or damages a line.   *)
LEMMA LandedType ==
    ASSUME NEW S, NEW f \in LogOver(S), NEW b \in BOOLEAN,
           NEW piece \in S \cup {Damaged}, b => f # <<>>
    PROVE  /\ Landed(f, b, piece) \in LogOver(S)
           /\ Landed(f, b, piece) # <<>>
<1>1. CASE b
  <2>1. Len(f) \in 1..Len(f)
    BY <1>1 DEF LogOver
  <2>2. [f EXCEPT ![Len(f)] = Damaged] \in LogOver(S)
    BY <2>1, ExceptSeq DEF LogOver
  <2>3. Len([f EXCEPT ![Len(f)] = Damaged]) = Len(f)
    BY <2>1, ExceptSeq DEF LogOver
  <2>4. QED
    BY <1>1, <2>1, <2>2, <2>3 DEF Landed, LogOver
<1>2. CASE ~b
  BY <1>2, AppendProperties DEF Landed, LogOver
<1>3. QED
  BY <1>1, <1>2

(* After a write the log is intact only if it was, was terminated, and the *)
(* whole record was stored as a line of its own.                           *)
LEMMA LandedIntact ==
    ASSUME NEW S, NEW f \in LogOver(S), NEW b \in BOOLEAN,
           NEW piece \in S \cup {Damaged}, b => f # <<>>,
           Intact(Landed(f, b, piece))
    PROVE  /\ Intact(f)
           /\ piece # Damaged
           /\ Landed(f, b, piece) = Append(f, piece)
<1>1. ~b
  <2> SUFFICES ASSUME b PROVE FALSE
    OBVIOUS
  <2>1. Len(f) \in DOMAIN f
    BY DEF LogOver
  <2>2. Landed(f, b, piece)[Len(f)] = Damaged /\ Len(f) \in DOMAIN Landed(f, b, piece)
    BY <2>1 DEF Landed, LogOver
  <2>3. QED
    BY <2>2 DEF Intact
<1>2. Landed(f, b, piece) = Append(f, piece)
  BY <1>1 DEF Landed
<1>3. /\ DOMAIN Append(f, piece) = 1..(Len(f) + 1)
      /\ Append(f, piece)[Len(f) + 1] = piece
      /\ \A i \in 1..Len(f) : Append(f, piece)[i] = f[i]
      /\ Len(f) \in Nat /\ DOMAIN f = 1..Len(f)
  BY AppendedLines, LogLines
<1>4. QED
  BY <1>2, <1>3 DEF Intact

------------------------------------------------------------------------------
(***************************************************************************)
(* Recursion over the lines: the replay and the late charges are functions *)
(* defined by their value before the first line and a step per line.       *)
(***************************************************************************)
LEMMA SmallestNumber ==
    ASSUME NEW S \in SUBSET Nat, S # {}
    PROVE  \E m \in S : \A n \in S : m <= n
<1>1. PICK m \in S : \A n \in S : <<n, m>> \notin OpToRel(<, Nat)
  BY NatLessThanWellFounded, WFMin
<1>2. ASSUME NEW n \in S PROVE m <= n
  <2>1. <<n, m>> \in Nat \X Nat /\ <<n, m>>[1] = n /\ <<n, m>>[2] = m
    OBVIOUS
  <2>2. ~(n < m)
    BY <1>1, <2>1, Zenon DEF OpToRel
  <2>3. n \in Nat /\ m \in Nat
    OBVIOUS
  <2>4. QED
    BY <2>2, <2>3
<1>3. QED
  BY <1>2

(* Induction, for a set of numbers: there is no smallest one outside it.   *)
LEMMA AllNumbers ==
    ASSUME NEW S \in SUBSET Nat, 0 \in S, \A n \in S : n + 1 \in S
    PROVE  S = Nat
<1> SUFFICES ASSUME Nat \ S # {} PROVE FALSE
  OBVIOUS
<1>1. PICK m \in Nat \ S : \A n \in Nat \ S : m <= n
  BY SmallestNumber
<1>2. m # 0 /\ m - 1 \in Nat /\ ~(m <= m - 1) /\ (m - 1) + 1 = m
  BY <1>1
<1>3. m - 1 \in S
  BY <1>1, <1>2
<1>4. QED
  BY <1>1, <1>2, <1>3

(* The value before the first line, and the step at line k.                *)
Recurs(h, n, A, z, step) ==
    /\ h \in [0..n -> A]
    /\ h[0] = z
    /\ \A k \in 1..n : h[k] = step[<<h[k - 1], k>>]

LEMMA RecursionExists ==
    ASSUME NEW A, NEW z \in A, NEW m \in Nat, NEW step \in [A \X (1..m) -> A]
    PROVE  \E h : Recurs(h, m, A, z, step)
<1> DEFINE S == {n \in Nat : n <= m => \E h : Recurs(h, n, A, z, step)}
<1>1. 0 \in S
  <2>1. Recurs([k \in 0..0 |-> z], 0, A, z, step)
    BY DEF Recurs
  <2>2. QED
    BY <2>1
<1>2. ASSUME NEW n \in S PROVE n + 1 \in S
  <2> SUFFICES ASSUME n + 1 <= m
               PROVE  \E h : Recurs(h, n + 1, A, z, step)
    OBVIOUS
  <2>1. n \in Nat /\ n + 1 \in 1..m /\ n <= m
    OBVIOUS
  <2>2. PICK h : Recurs(h, n, A, z, step)
    BY <2>1
  <2> DEFINE next == step[<<h[n], n + 1>>]
             g == [k \in 0..(n + 1) |-> IF k = n + 1 THEN next ELSE h[k]]
  <2>3. h \in [0..n -> A] /\ h[n] \in A
    BY <2>1, <2>2 DEF Recurs
  <2>4. next \in A
    <3>1. <<h[n], n + 1>> \in A \X (1..m)
      BY <2>1, <2>3
    <3>2. QED
      BY <3>1
  <2> HIDE DEF next
  <2>5. g \in [0..(n + 1) -> A]
    BY <2>1, <2>3, <2>4
  <2>6. g[0] = z
    BY <2>1, <2>2 DEF Recurs
  <2>7. ASSUME NEW k \in 1..(n + 1) PROVE g[k] = step[<<g[k - 1], k>>]
    <3>1. k - 1 \in 0..n /\ k - 1 # n + 1 /\ k - 1 \in 0..(n + 1) /\ k \in 0..(n + 1)
      BY <2>1
    <3>2. g[k - 1] = h[k - 1]
      BY <3>1
    <3>3. CASE k = n + 1
      <4>1. g[k] = next /\ k - 1 = n
        BY <3>3, <2>1
      <4>2. QED
        BY <3>2, <3>3, <4>1 DEF next
    <3>4. CASE k # n + 1
      <4>1. k \in 1..n
        BY <3>4, <2>1
      <4>2. g[k] = h[k]
        BY <3>1, <3>4
      <4>3. QED
        BY <2>2, <3>2, <4>1, <4>2 DEF Recurs
    <3>5. QED
      BY <3>3, <3>4
  <2> HIDE DEF g
  <2>8. Recurs(g, n + 1, A, z, step)
    BY <2>5, <2>6, <2>7 DEF Recurs
  <2>9. QED
    BY <2>8
<1>3. S = Nat
  BY <1>1, <1>2, AllNumbers
<1>4. QED
  BY <1>3

SameSteps(step1, step2, m, A) ==
    \A a \in A : \A k \in 1..m : step1[<<a, k>>] = step2[<<a, k>>]

(* Two recursions whose steps agree on the shorter one agree on it.        *)
LEMMA RecursionAgrees ==
    ASSUME NEW A, NEW z, NEW m \in Nat, NEW n \in Nat, m <= n, NEW step1, NEW step2,
           SameSteps(step1, step2, m, A),
           NEW h1, Recurs(h1, m, A, z, step1),
           NEW h2, Recurs(h2, n, A, z, step2)
    PROVE  \A k \in 0..m : h1[k] = h2[k]
<1> DEFINE S == {k \in Nat : k <= m => h1[k] = h2[k]}
<1>1. 0 \in S
  BY DEF Recurs
<1>2. ASSUME NEW k \in S PROVE k + 1 \in S
  <2> SUFFICES ASSUME k + 1 <= m PROVE h1[k + 1] = h2[k + 1]
    OBVIOUS
  <2>1. k \in Nat /\ k <= m /\ k \in 0..m /\ (k + 1) - 1 = k
        /\ k + 1 \in 1..m /\ k + 1 \in 1..n
    OBVIOUS
  <2>2. h1[k] = h2[k] /\ h1[k] \in A
    BY <2>1 DEF Recurs
  <2>3. h1[k + 1] = step1[<<h1[k], k + 1>>] /\ h2[k + 1] = step2[<<h2[k], k + 1>>]
    BY <2>1 DEF Recurs
  <2>4. QED
    BY <2>1, <2>2, <2>3 DEF SameSteps
<1>3. S = Nat
  BY <1>1, <1>2, AllNumbers
<1>4. QED
  BY <1>3

(* A function that starts as the recursion does, and steps as it does      *)
(* wherever it is in A, is the recursion.                                  *)
LEMMA RecursionTyped ==
    ASSUME NEW A, NEW z \in A, NEW m \in Nat, NEW step \in [A \X (1..m) -> A],
           NEW h, h = [k \in 0..m |-> h[k]], h[0] = z,
           \A k \in 1..m : h[k - 1] \in A => h[k] = step[<<h[k - 1], k>>]
    PROVE  Recurs(h, m, A, z, step)
<1> DEFINE S == {k \in Nat : k <= m => h[k] \in A}
<1>1. 0 \in S
  OBVIOUS
<1>2. ASSUME NEW k \in S PROVE k + 1 \in S
  <2> SUFFICES ASSUME k + 1 <= m PROVE h[k + 1] \in A
    OBVIOUS
  <2>1. k \in Nat /\ k <= m /\ k + 1 \in 1..m /\ (k + 1) - 1 = k /\ h[k] \in A
    OBVIOUS
  <2>2. h[k + 1] = step[<<h[k], k + 1>>]
    BY <2>1
  <2>3. <<h[k], k + 1>> \in A \X (1..m)
    BY <2>1
  <2>4. QED
    BY <2>2, <2>3
<1>3. S = Nat
  BY <1>1, <1>2, AllNumbers
<1>4. \A k \in 0..m : h[k] \in A
  BY <1>3
<1>5. \A k \in 1..m : k - 1 \in 0..m
  OBVIOUS
<1>6. QED
  BY <1>4, <1>5 DEF Recurs

------------------------------------------------------------------------------
(***************************************************************************)
(* The account of a tenant: what a line makes of it.                       *)
(***************************************************************************)
Lines == LogOver(Line)

AccountsRead == Accounts \cup {Damaged}

Charged(s, charge, one) ==
    [s EXCEPT !.runs = @ + 1, !.units = @ + charge, !.unknown = @ + one]

LEMMA ChargedSums ==
    ASSUME NEW s \in Sums, NEW charge \in Nat, NEW one \in Nat
    PROVE  /\ Charged(s, charge, one) \in Sums
           /\ Charged(s, charge, one).runs = s.runs + 1
           /\ Charged(s, charge, one).units = s.units + charge
           /\ Charged(s, charge, one).refused = s.refused
           /\ Charged(s, charge, one).unknown = s.unknown + one
<1> DEFINE first == [s EXCEPT !.runs = @ + 1]
           second == [first EXCEPT !.units = @ + charge]
           third == [second EXCEPT !.unknown = @ + one]
<1>1. Charged(s, charge, one) = third
  BY DEF Charged
<1>2. /\ first \in Sums
      /\ first.runs = s.runs + 1 /\ first.units = s.units
      /\ first.refused = s.refused /\ first.unknown = s.unknown
  BY DEF Sums
<1> HIDE DEF first
<1>3. /\ second \in Sums
      /\ second.runs = first.runs /\ second.units = first.units + charge
      /\ second.refused = first.refused /\ second.unknown = first.unknown
  BY <1>2 DEF Sums
<1> HIDE DEF second
<1>4. /\ third \in Sums
      /\ third.runs = second.runs /\ third.units = second.units
      /\ third.refused = second.refused /\ third.unknown = second.unknown + one
  BY <1>3 DEF Sums
<1>5. QED
  BY <1>1, <1>2, <1>3, <1>4

LEMMA FoldedType ==
    ASSUME NEW a \in Accounts, NEW line \in Line
    PROVE  Folded(a, line) \in Accounts
<1>1. /\ a.sums \in Sums /\ a.open \in SUBSET Admission
      /\ a = [sums |-> a.sums, open |-> a.open]
      /\ line.kind \in {"admit", "settle", "expire", "refuse"}
      /\ line.id \in Ids \cup {NoId} /\ line.charge \in Nat /\ line.expires \in Nat
  BY DEF Accounts, Line
<1>2. Close(a, line.id) \in SUBSET Admission
  BY <1>1 DEF Close
<1>3. CASE line.kind = "admit"
  <2>1. [id |-> line.id, charge |-> line.charge, expires |-> line.expires] \in Admission
    BY <1>1 DEF Admission
  <2>2. QED
    BY <1>1, <1>3, <2>1 DEF Folded, Accounts
<1>4. CASE line.kind = "settle"
  <2> DEFINE one == IF line.unknown THEN 1 ELSE 0
  <2>1. one \in Nat
    OBVIOUS
  <2>2. Folded(a, line) =
           [open |-> Close(a, line.id), sums |-> Charged(a.sums, line.charge, one)]
    BY <1>4 DEF Folded, Charged
  <2> HIDE DEF one
  <2>3. Charged(a.sums, line.charge, one) \in Sums
    BY <1>1, <2>1, ChargedSums
  <2>4. QED
    BY <1>2, <2>2, <2>3 DEF Accounts
<1>5. CASE line.kind = "expire"
  BY <1>1, <1>2, <1>5 DEF Folded, Accounts
<1>6. CASE line.kind = "refuse"
  BY <1>1, <1>6 DEF Folded, Accounts, Sums
<1>7. QED
  BY <1>1, <1>3, <1>4, <1>5, <1>6

LEMMA ReplayedType ==
    ASSUME NEW a \in AccountsRead, NEW line \in Line \cup {Damaged}, NEW t
    PROVE  Replayed(a, line, t) \in AccountsRead
BY FoldedType DEF Replayed, AccountsRead

LEMMA EmptyAccountType == EmptyAccount \in Accounts /\ EmptyAccount \in AccountsRead
BY DEF EmptyAccount, Accounts, Sums, NoSums, AccountsRead

ReplayStep(f, t) ==
    [p \in AccountsRead \X (1..Len(f)) |-> Replayed(p[1], f[p[2]], t)]

LEMMA ReplayStepType ==
    ASSUME NEW f \in Lines, NEW t
    PROVE  /\ ReplayStep(f, t) \in [AccountsRead \X (1..Len(f)) -> AccountsRead]
           /\ \A a \in AccountsRead : \A k \in 1..Len(f) :
                 ReplayStep(f, t)[<<a, k>>] = Replayed(a, f[k], t)
<1>1. \A p \in AccountsRead \X (1..Len(f)) : Replayed(p[1], f[p[2]], t) \in AccountsRead
  BY LogLines, ReplayedType DEF Lines
<1>2. QED
  BY <1>1 DEF ReplayStep

(* The replay is the recursion over the lines. *)
LEMMA ReplayRecurs ==
    ASSUME NEW f \in Lines, NEW t
    PROVE  \E h : /\ Recurs(h, Len(f), AccountsRead, EmptyAccount, ReplayStep(f, t))
                  /\ Replay(f, t) = h[Len(f)]
<1> DEFINE m == Len(f)
           Is(h) == h = [n \in 0..m |->
                           IF n = 0 THEN EmptyAccount
                           ELSE Replayed(h[n - 1], f[n], t)]
           account == CHOOSE h : Is(h)
<1>1. m \in Nat
  BY LogLines DEF Lines
<1>2. \E h : Is(h)
  <2>1. PICK h : Recurs(h, m, AccountsRead, EmptyAccount, ReplayStep(f, t))
    BY <1>1, RecursionExists, ReplayStepType, EmptyAccountType
  <2>2. ASSUME NEW n \in 0..m
        PROVE  h[n] = IF n = 0 THEN EmptyAccount ELSE Replayed(h[n - 1], f[n], t)
    <3>1. n # 0 => n \in 1..m /\ n - 1 \in 0..m
      BY <1>1
    <3>2. QED
      BY <2>1, <3>1, ReplayStepType DEF Recurs
  <2>3. h = [n \in 0..m |-> h[n]]
    BY <2>1 DEF Recurs
  <2>4. Is(h)
    BY <2>2, <2>3
  <2>5. QED
    BY <2>4
<1>3. Is(account)
  BY <1>2
<1>4. Replay(f, t) = account[m]
  BY DEF Replay
<1> HIDE DEF account
<1>5. /\ account = [n \in 0..m |-> account[n]]
      /\ account[0] = EmptyAccount
      /\ \A k \in 1..m : account[k] = Replayed(account[k - 1], f[k], t)
  BY <1>1, <1>3
<1>6. \A k \in 1..m : account[k - 1] \in AccountsRead =>
         account[k] = ReplayStep(f, t)[<<account[k - 1], k>>]
  BY <1>5, ReplayStepType
<1>7. Recurs(account, m, AccountsRead, EmptyAccount, ReplayStep(f, t))
  BY <1>1, <1>5, <1>6, RecursionTyped, ReplayStepType, EmptyAccountType
<1>8. QED
  BY <1>4, <1>7

LEMMA ReplayType ==
    ASSUME NEW f \in Lines, NEW t
    PROVE  Replay(f, t) \in AccountsRead
<1>1. PICK h : /\ Recurs(h, Len(f), AccountsRead, EmptyAccount, ReplayStep(f, t))
               /\ Replay(f, t) = h[Len(f)]
  BY ReplayRecurs
<1>2. Len(f) \in 0..Len(f)
  BY LogLines DEF Lines
<1>3. QED
  BY <1>1, <1>2 DEF Recurs

LEMMA ReplayEmpty ==
    ASSUME NEW t
    PROVE  <<>> \in Lines /\ Replay(<<>>, t) = EmptyAccount
<1>1. <<>> \in Lines /\ Len(<<>>) = 0
  BY EmptySeq DEF Lines, LogOver
<1>2. PICK h : /\ Recurs(h, Len(<<>>), AccountsRead, EmptyAccount, ReplayStep(<<>>, t))
               /\ Replay(<<>>, t) = h[Len(<<>>)]
  BY <1>1, ReplayRecurs
<1>3. QED
  BY <1>1, <1>2 DEF Recurs

(* The replay of a longer book is the replay of the book, and one line.    *)
LEMMA ReplayAppend ==
    ASSUME NEW f \in Lines, NEW line \in Line \cup {Damaged}, NEW t
    PROVE  /\ Append(f, line) \in Lines
           /\ Replay(Append(f, line), t) = Replayed(Replay(f, t), line, t)
<1> SUFFICES ASSUME NEW g, g = Append(f, line), NEW n, n = Len(f), NEW m, m = n + 1
             PROVE  /\ g \in Lines
                    /\ Replay(g, t) = Replayed(Replay(f, t), line, t)
  OBVIOUS
<1>1. /\ n \in Nat /\ m \in Nat /\ n <= n /\ n <= m
      /\ m \in 1..m /\ m - 1 = n /\ n \in 0..n
      /\ \A k \in 1..n : k \in 1..m
  BY LogLines DEF Lines
<1>2. /\ g \in Lines /\ Len(g) = m /\ g[m] = line
      /\ \A i \in 1..n : g[i] = f[i]
  <2>1. f \in LogOver(Line) /\ m = Len(f) + 1
    BY DEF Lines
  <2>2. /\ g \in LogOver(Line) /\ Len(g) = m /\ g[m] = line
        /\ \A i \in 1..Len(f) : g[i] = f[i]
    BY <2>1, AppendProperties, LogLines DEF LogOver
  <2>3. QED
    BY <2>2 DEF Lines
<1>3. PICK h1 : /\ Recurs(h1, n, AccountsRead, EmptyAccount, ReplayStep(f, t))
                /\ Replay(f, t) = h1[n]
  BY ReplayRecurs
<1>4. PICK h2 : /\ Recurs(h2, m, AccountsRead, EmptyAccount, ReplayStep(g, t))
                /\ Replay(g, t) = h2[m]
  <2>1. \E h : /\ Recurs(h, Len(g), AccountsRead, EmptyAccount, ReplayStep(g, t))
               /\ Replay(g, t) = h[Len(g)]
    BY <1>2, ReplayRecurs
  <2>2. QED
    BY <1>2, <2>1
<1>5. ASSUME NEW a \in AccountsRead
      PROVE  /\ \A k \in 1..n : ReplayStep(f, t)[<<a, k>>] = Replayed(a, f[k], t)
             /\ \A k \in 1..m : ReplayStep(g, t)[<<a, k>>] = Replayed(a, g[k], t)
  BY <1>2, ReplayStepType
<1>6. SameSteps(ReplayStep(f, t), ReplayStep(g, t), n, AccountsRead)
  <2> SUFFICES ASSUME NEW a \in AccountsRead, NEW k \in 1..n
               PROVE  ReplayStep(f, t)[<<a, k>>] = ReplayStep(g, t)[<<a, k>>]
    BY DEF SameSteps
  <2>1. ReplayStep(f, t)[<<a, k>>] = Replayed(a, f[k], t)
    BY <1>5
  <2>2. ReplayStep(g, t)[<<a, k>>] = Replayed(a, g[k], t)
    BY <1>1, <1>5
  <2>3. g[k] = f[k]
    BY <1>2
  <2>4. QED
    BY <2>1, <2>2, <2>3
<1>7. h1[n] = h2[n] /\ h1[n] \in AccountsRead
  <2>1. \A k \in 0..n : h1[k] = h2[k]
    BY <1>1, <1>3, <1>4, <1>6, RecursionAgrees
  <2>2. QED
    BY <1>1, <1>3, <2>1 DEF Recurs
<1>8. h2[m] = ReplayStep(g, t)[<<h2[n], m>>]
  BY <1>1, <1>4 DEF Recurs
<1>9. ReplayStep(g, t)[<<h2[n], m>>] = Replayed(h2[n], g[m], t)
  BY <1>1, <1>5, <1>7
<1>10. QED
  BY <1>2, <1>3, <1>4, <1>7, <1>8, <1>9

(* A line that does not parse spoils every replay that reads it.           *)
LEMMA DamageRefuses ==
    ASSUME NEW f \in Lines, ~Intact(f), NEW t
    PROVE  Replay(f, t) = Damaged
<1> DEFINE n == Len(f)
<1>1. n \in Nat /\ DOMAIN f = 1..n
  BY LogLines DEF Lines
<1>2. PICK i \in 1..n : f[i] = Damaged
  BY <1>1 DEF Intact
<1>3. PICK h : /\ Recurs(h, n, AccountsRead, EmptyAccount, ReplayStep(f, t))
               /\ Replay(f, t) = h[n]
  BY ReplayRecurs
<1>4. ASSUME NEW k \in 1..n
      PROVE  h[k] = Replayed(h[k - 1], f[k], t)
  <2>1. k - 1 \in 0..n
    BY <1>1
  <2>2. h[k - 1] \in AccountsRead
    BY <1>3, <2>1 DEF Recurs
  <2>3. QED
    BY <1>3, <2>2, ReplayStepType DEF Recurs
<1> DEFINE S == {k \in Nat : i + k <= n => h[i + k] = Damaged}
<1>5. 0 \in S
  <2>1. h[i] = Damaged
    BY <1>2, <1>4 DEF Replayed
  <2>2. i + 0 = i
    BY <1>2
  <2>3. QED
    BY <2>1, <2>2
<1>6. ASSUME NEW k \in S PROVE k + 1 \in S
  <2> SUFFICES ASSUME i + (k + 1) <= n PROVE h[i + (k + 1)] = Damaged
    OBVIOUS
  <2>1. /\ k \in Nat /\ i + k <= n /\ i + (k + 1) \in 1..n
        /\ (i + (k + 1)) - 1 = i + k
    BY <1>1, <1>2
  <2>2. h[i + (k + 1)] = Replayed(h[i + k], f[i + (k + 1)], t)
    BY <1>4, <2>1
  <2>3. QED
    BY <2>1, <2>2 DEF Replayed
<1>7. S = Nat
  BY <1>5, <1>6, AllNumbers
<1>8. n - i \in Nat /\ i + (n - i) = n
  BY <1>1, <1>2
<1>9. n - i \in S
  BY <1>7, <1>8
<1>10. QED
  BY <1>3, <1>8, <1>9

(* What each kind of line does to the sums and to what is open.            *)
LEMMA FoldedSums ==
    ASSUME NEW a \in Accounts, NEW line \in Line
    PROVE  LET s == Folded(a, line).sums IN
           /\ line.kind \in {"admit", "expire"} => s = a.sums
           /\ line.kind = "settle" =>
                 /\ s.runs = a.sums.runs + 1
                 /\ s.units = a.sums.units + line.charge
                 /\ s.refused = a.sums.refused
                 /\ s.unknown = a.sums.unknown + (IF line.unknown THEN 1 ELSE 0)
           /\ line.kind = "refuse" =>
                 /\ s.runs = a.sums.runs
                 /\ s.units = a.sums.units
                 /\ s.refused = a.sums.refused + 1
                 /\ s.unknown = a.sums.unknown
<1>1. /\ a.sums \in Sums /\ a.open \in SUBSET Admission
      /\ a = [sums |-> a.sums, open |-> a.open]
      /\ line.kind \in {"admit", "settle", "expire", "refuse"} /\ line.charge \in Nat
  BY DEF Accounts, Line
<1>2. CASE line.kind = "admit"
  BY <1>1, <1>2 DEF Folded
<1>3. CASE line.kind = "settle"
  <2> DEFINE one == IF line.unknown THEN 1 ELSE 0
             sums == a.sums
             charge == line.charge
             new == Charged(sums, charge, one)
  <2>1. one \in Nat /\ sums \in Sums /\ charge \in Nat
    BY <1>1
  <2>2. Folded(a, line).sums = new
    BY <1>3 DEF Folded, Charged
  <2> HIDE DEF one, sums, charge
  <2>3. /\ new.runs = sums.runs + 1
        /\ new.units = sums.units + charge
        /\ new.refused = sums.refused
        /\ new.unknown = sums.unknown + one
    BY <2>1, ChargedSums
  <2> HIDE DEF new
  <2>4. QED
    BY <1>3, <2>2, <2>3 DEF one, sums, charge
<1>4. CASE line.kind = "expire"
  BY <1>1, <1>4 DEF Folded
<1>5. CASE line.kind = "refuse"
  <2>1. Folded(a, line).sums = [a.sums EXCEPT !.refused = @ + 1]
    BY <1>1, <1>5 DEF Folded
  <2>2. QED
    BY <1>1, <1>5, <2>1 DEF Sums
<1>6. QED
  BY <1>1, <1>2, <1>3, <1>4, <1>5

LEMMA FoldedOpen ==
    ASSUME NEW a \in Accounts, NEW line \in Line
    PROVE  /\ line.kind = "admit" =>
                 Folded(a, line).open =
                    a.open \cup {[id |-> line.id, charge |-> line.charge,
                                  expires |-> line.expires]}
           /\ line.kind \in {"settle", "expire"} =>
                 Folded(a, line).open = {o \in a.open : o.id # line.id}
           /\ line.kind = "refuse" => Folded(a, line).open = a.open
<1>1. a = [sums |-> a.sums, open |-> a.open]
  BY DEF Accounts
<1>2. CASE line.kind = "admit"
  BY <1>1, <1>2 DEF Folded
<1>3. CASE line.kind = "settle"
  BY <1>1, <1>3 DEF Folded, Close
<1>4. CASE line.kind = "expire"
  BY <1>1, <1>4 DEF Folded, Close
<1>5. CASE line.kind = "refuse"
  BY <1>1, <1>5 DEF Folded
<1>6. QED
  BY <1>2, <1>3, <1>4, <1>5

------------------------------------------------------------------------------
(***************************************************************************)
(* A line that may follow: the book it makes.                              *)
(***************************************************************************)
USE DamagedIsNoLine

LEMMA AccountOf ==
    ASSUME NEW f \in Lines, NEW t, Replay(f, t) # Damaged
    PROVE  Replay(f, t) \in Accounts
BY ReplayType DEF AccountsRead

LEMMA FollowReplay ==
    ASSUME NEW f \in Lines, NEW line, MayFollow(f, line),
           Replay(f, line.tenant) # Damaged, NEW g, g = Append(f, line)
    PROVE  /\ line \in Line /\ line.tenant \in Tenants
           /\ g \in Lines
           /\ Replay(g, line.tenant) = Folded(Replay(f, line.tenant), line)
           /\ Replay(g, line.tenant) \in Accounts
<1>1. line \in Line /\ line # Damaged /\ line.tenant \in Tenants
  BY DEF MayFollow, Line
<1>2. /\ g \in Lines
      /\ \A t : Replay(g, t) = Replayed(Replay(f, t), line, t)
  BY <1>1, ReplayAppend
<1>3. Seals(Replay(f, line.tenant), line)
  BY DEF MayFollow, Seals
<1>4. Replay(g, line.tenant) = Folded(Replay(f, line.tenant), line)
  BY <1>1, <1>2, <1>3 DEF Replayed
<1>5. Folded(Replay(f, line.tenant), line) \in Accounts
  BY <1>1, AccountOf, FoldedType
<1>6. QED
  BY <1>1, <1>2, <1>4, <1>5

LEMMA FollowOthers ==
    ASSUME NEW f \in Lines, NEW line \in Line, NEW t, t # line.tenant,
           NEW g, g = Append(f, line)
    PROVE  Replay(g, t) = Replay(f, t)
<1>1. Replay(g, t) = Replayed(Replay(f, t), line, t)
  BY ReplayAppend
<1>2. QED
  BY <1>1 DEF Replayed

(* What is known of a book without a torn line. *)
SoundBook(f) ==
    /\ \A t \in Tenants : Replay(f, t) # Damaged
    /\ IdsAreOwn(f)
    /\ OpenWasAdmitted(f)
    /\ EndWasAdmitted(f)
    /\ EndIsClosed(f)

LEMMA EmptyBook == SoundBook(<<>>)
<1>1. \A t \in Tenants : Replay(<<>>, t) = EmptyAccount
  BY ReplayEmpty
<1>2. EmptyAccount # Damaged /\ EmptyAccount.open = {}
  <2>1. EmptyAccount \in Accounts
    BY EmptyAccountType
  <2>2. QED
    BY <2>1 DEF EmptyAccount
<1>3. DOMAIN <<>> = {}
  OBVIOUS
<1>4. QED
  BY <1>1, <1>2, <1>3 DEF SoundBook, IdsAreOwn, OpenWasAdmitted, EndWasAdmitted, EndIsClosed

(* Two admissions of one id are one line. *)
LEMMA OneAdmission ==
    ASSUME NEW f \in Lines, IdsAreOwn(f),
           NEW i \in DOMAIN f, f[i].kind = "admit",
           NEW j \in DOMAIN f, f[j].kind = "admit", f[i].id = f[j].id
    PROVE  i = j
<1>1. f[i].id[2] = i - 1 /\ f[j].id[2] = j - 1
  BY DEF IdsAreOwn
<1>2. i \in Nat /\ j \in Nat
  BY LogLines DEF Lines
<1>3. QED
  BY <1>1, <1>2

(* An open id names an admission of this tenant in the book. *)
LEMMA OpenId ==
    ASSUME NEW f, OpenWasAdmitted(f), NEW t \in Tenants,
           NEW id \in OpenIds(Replay(f, t))
    PROVE  \E j \in DOMAIN f : f[j].kind = "admit" /\ f[j].tenant = t /\ f[j].id = id
<1>1. PICK o \in Replay(f, t).open : o.id = id
  BY DEF OpenIds
<1>2. PICK j \in DOMAIN f :
         /\ f[j].kind = "admit" /\ f[j].tenant = t
         /\ o = [id |-> f[j].id, charge |-> f[j].charge, expires |-> f[j].expires]
  BY DEF OpenWasAdmitted
<1>3. o.id = f[j].id
  BY <1>2
<1>4. QED
  BY <1>1, <1>2, <1>3

(* No admission of the book has the id of a fresh one. *)
LEMMA FreshAdmission ==
    ASSUME NEW f \in Lines, IdsAreOwn(f), NEW id \in Writers \X {Len(f)},
           NEW j \in DOMAIN f, f[j].kind = "admit"
    PROVE  f[j].id # id
<1>1. f[j].id[2] = j - 1 /\ id[2] = Len(f)
  BY DEF IdsAreOwn
<1>2. Len(f) \in Nat /\ j \in 1..Len(f)
  BY LogLines DEF Lines
<1>3. QED
  BY <1>1, <1>2

EndsOnce(f) ==
    \A i, j \in DOMAIN f :
        /\ i < j
        /\ f[i].kind \in {"settle", "expire"}
        /\ f[j].kind \in {"settle", "expire"}
        => f[i].id # f[j].id

LEMMA FollowSound ==
    ASSUME NEW f \in Lines, SoundBook(f), NEW line, MayFollow(f, line),
           NEW g, g = Append(f, line)
    PROVE  SoundBook(g) /\ (EndsOnce(f) => EndsOnce(g))
<1> SUFFICES ASSUME NEW n, n = Len(f), NEW m, m = n + 1
             PROVE  SoundBook(g) /\ (EndsOnce(f) => EndsOnce(g))
  OBVIOUS
<1> DEFINE u == line.tenant
<1>1. /\ n \in Nat /\ m \in Nat /\ DOMAIN f = 1..n /\ m - 1 = n
      /\ \A i \in 1..n : i \in 1..m /\ i < m /\ i # m
      /\ \A i \in 1..m : i \in 1..n \/ i = m
      /\ m \in 1..m /\ 1..(m - 1) = 1..n
  BY LogLines DEF Lines
<1>2. /\ DOMAIN g = 1..m /\ g[m] = line
      /\ \A i \in 1..n : g[i] = f[i]
  <2>1. line \in Line \cup {Damaged} /\ f \in LogOver(Line)
    BY DEF MayFollow, Lines
  <2>2. QED
    BY <2>1, <1>1, AppendProperties, LogLines DEF LogOver
<1>3. /\ \A t \in Tenants : Replay(f, t) # Damaged
      /\ IdsAreOwn(f) /\ OpenWasAdmitted(f) /\ EndWasAdmitted(f) /\ EndIsClosed(f)
  BY DEF SoundBook
<1>4. /\ line \in Line /\ u \in Tenants
      /\ Replay(f, u) \in Accounts
      /\ Replay(g, u) = Folded(Replay(f, u), line)
      /\ Replay(g, u) \in Accounts
      /\ \A t \in Tenants : t # u => Replay(g, t) = Replay(f, t)
  <2>1. u \in Tenants
    BY DEF MayFollow, Line
  <2>2. Replay(f, u) # Damaged
    BY <2>1, <1>3
  <2>3. Replay(f, u) \in Accounts
    BY <2>2, AccountOf
  <2>4. line \in Line /\ Replay(g, u) = Folded(Replay(f, u), line)
    BY <2>2, FollowReplay
  <2>5. Replay(g, u) \in Accounts
    BY <2>2, FollowReplay
  <2>6. ASSUME NEW t \in Tenants, t # u PROVE Replay(g, t) = Replay(f, t)
    BY <2>4, <2>6, FollowOthers
  <2>7. QED
    BY <2>1, <2>3, <2>4, <2>5, <2>6
<1>5. \A t \in Tenants : Replay(g, t) # Damaged
  BY <1>3, <1>4
<1>6. /\ line.kind = "admit" => line.id \in Writers \X {n}
      /\ line.kind \in {"settle", "expire"} => line.id \in OpenIds(Replay(f, u))
      /\ line.kind \in {"admit", "settle", "expire", "refuse"}
  BY <1>4 DEF MayFollow, Line
<1>7. /\ line.kind = "admit" =>
            Replay(g, u).open = Replay(f, u).open \cup
               {[id |-> line.id, charge |-> line.charge, expires |-> line.expires]}
      /\ line.kind # "admit" => Replay(g, u).open \subseteq Replay(f, u).open
      /\ line.kind \in {"settle", "expire"} =>
            Replay(g, u).open = {o \in Replay(f, u).open : o.id # line.id}
  BY <1>4, <1>6, FoldedOpen
<1>8. IdsAreOwn(g)
  BY <1>1, <1>2, <1>3, <1>6 DEF IdsAreOwn
<1>9. OpenWasAdmitted(g)
  <2> SUFFICES ASSUME NEW t \in Tenants, NEW o \in Replay(g, t).open
               PROVE  \E j \in DOMAIN g :
                         /\ g[j].kind = "admit" /\ g[j].tenant = t
                         /\ o = [id |-> g[j].id, charge |-> g[j].charge,
                                 expires |-> g[j].expires]
    BY DEF OpenWasAdmitted
  <2>1. CASE o \in Replay(f, t).open
    <3>1. PICK j \in DOMAIN f :
             /\ f[j].kind = "admit" /\ f[j].tenant = t
             /\ o = [id |-> f[j].id, charge |-> f[j].charge, expires |-> f[j].expires]
      BY <1>3, <2>1 DEF OpenWasAdmitted
    <3>2. j \in DOMAIN g /\ g[j] = f[j]
      BY <3>1, <1>1, <1>2
    <3>3. QED
      BY <3>1, <3>2
  <2>2. CASE o \notin Replay(f, t).open
    <3>1. t = u /\ line.kind = "admit"
      BY <2>2, <1>4, <1>7
    <3>2. o = [id |-> line.id, charge |-> line.charge, expires |-> line.expires]
      BY <2>2, <3>1, <1>7
    <3>3. m \in DOMAIN g /\ g[m] = line
      BY <1>1, <1>2
    <3>4. QED
      BY <3>1, <3>2, <3>3
  <2>3. QED
    BY <2>1, <2>2
<1>10. ASSUME NEW i \in DOMAIN g, g[i].kind \in {"settle", "expire"}
       PROVE  \E j \in 1..n : /\ f[j].kind = "admit" /\ f[j].id = g[i].id
                              /\ j \in 1..(i - 1)
  <2>1. CASE i \in 1..n
    <3>1. PICK j \in 1..(i - 1) : f[j].kind = "admit" /\ f[j].id = f[i].id
      BY <2>1, <1>1, <1>2, <1>3, <1>10 DEF EndWasAdmitted
    <3>2. j \in 1..n
      BY <2>1, <3>1, <1>1
    <3>3. QED
      BY <2>1, <3>1, <3>2, <1>2
  <2>2. CASE i = m
    <3>1. line.id \in OpenIds(Replay(f, u))
      BY <2>2, <1>2, <1>6, <1>10
    <3>2. PICK j \in DOMAIN f : f[j].kind = "admit" /\ f[j].id = line.id
      BY <3>1, <1>3, <1>4, OpenId
    <3>3. QED
      BY <2>2, <3>2, <1>1, <1>2
  <2>3. QED
    BY <2>1, <2>2, <1>1, <1>2
<1>11. EndWasAdmitted(g)
  <2> SUFFICES ASSUME NEW i \in DOMAIN g, g[i].kind \in {"settle", "expire"}
               PROVE  \E j \in 1..(i - 1) : g[j].kind = "admit" /\ g[j].id = g[i].id
    BY DEF EndWasAdmitted
  <2>1. PICK j \in 1..n : f[j].kind = "admit" /\ f[j].id = g[i].id /\ j \in 1..(i - 1)
    BY <1>10
  <2>2. QED
    BY <2>1, <1>2
<1>12. EndIsClosed(g)
  <2> SUFFICES ASSUME NEW i \in DOMAIN g, g[i].kind \in {"settle", "expire"},
                      NEW t \in Tenants, g[i].id \in OpenIds(Replay(g, t))
               PROVE  FALSE
    BY DEF EndIsClosed
  <2>1. PICK j \in 1..n : f[j].kind = "admit" /\ f[j].id = g[i].id
    BY <1>10
  <2>2. PICK o \in Replay(g, t).open : o.id = g[i].id
    BY DEF OpenIds
  <2>3. o \in Replay(f, t).open
    <3> SUFFICES ASSUME o \notin Replay(f, t).open PROVE FALSE
      OBVIOUS
    <3>1. t = u /\ line.kind = "admit"
      BY <2>2, <1>4, <1>7
    <3>2. o.id = line.id /\ line.id \in Writers \X {Len(f)}
      BY <2>2, <3>1, <1>6, <1>7
    <3>3. QED
      BY <2>1, <2>2, <3>2, <1>1, <1>3, FreshAdmission
  <2>4. g[i].id \in OpenIds(Replay(f, t))
    BY <2>2, <2>3 DEF OpenIds
  <2>5. CASE i \in 1..n
    BY <2>4, <2>5, <1>1, <1>2, <1>3 DEF EndIsClosed
  <2>6. CASE i = m
    <3>1. line.id \in OpenIds(Replay(f, t)) /\ line.id \in OpenIds(Replay(f, u))
      BY <2>4, <2>6, <1>2, <1>6
    <3>2. PICK k \in DOMAIN f :
             f[k].kind = "admit" /\ f[k].tenant = t /\ f[k].id = line.id
      BY <3>1, <1>3, OpenId
    <3>3. PICK l \in DOMAIN f :
             f[l].kind = "admit" /\ f[l].tenant = u /\ f[l].id = line.id
      BY <3>1, <1>3, <1>4, OpenId
    <3>4. k = l
      BY <3>2, <3>3, <1>3, OneAdmission
    <3>5. t = u
      BY <3>2, <3>3, <3>4
    <3>6. o.id # line.id
      BY <2>2, <2>6, <3>5, <1>2, <1>7
    <3>7. QED
      BY <2>2, <2>6, <3>6, <1>2
  <2>7. QED
    BY <2>5, <2>6, <1>1, <1>2
<1>13. ASSUME EndsOnce(f) PROVE EndsOnce(g)
  <2> SUFFICES ASSUME NEW i \in DOMAIN g, NEW j \in DOMAIN g, i < j,
                      g[i].kind \in {"settle", "expire"},
                      g[j].kind \in {"settle", "expire"}, g[i].id = g[j].id
               PROVE  FALSE
    BY DEF EndsOnce
  <2>1. i \in 1..n
    BY <1>1, <1>2
  <2>2. CASE j \in 1..n
    BY <2>1, <2>2, <1>1, <1>2, <1>13 DEF EndsOnce
  <2>3. CASE j = m
    <3>1. f[i].id \in OpenIds(Replay(f, u))
      BY <2>1, <2>3, <1>2, <1>6
    <3>2. QED
      BY <2>1, <3>1, <1>1, <1>2, <1>3, <1>4 DEF EndIsClosed
  <2>4. QED
    BY <2>2, <2>3, <1>1, <1>2
<1>14. QED
  BY <1>5, <1>8, <1>9, <1>11, <1>12, <1>13 DEF SoundBook

------------------------------------------------------------------------------
(***************************************************************************)
(* A line that is dropped.                                                 *)
(***************************************************************************)
LEMMA WithoutLine ==
    ASSUME NEW S, NEW f \in Seq(S), NEW i \in 1..Len(f)
    PROVE  /\ Without(f, i) \in Seq(S)
           /\ Len(Without(f, i)) = Len(f) - 1
           /\ \A k \in 1..(Len(f) - 1) :
                 Without(f, i)[k] = IF k < i THEN f[k] ELSE f[k + 1]
<1> SUFFICES ASSUME NEW n, n = Len(f)
             PROVE  /\ Without(f, i) \in Seq(S)
                    /\ Len(Without(f, i)) = n - 1
                    /\ \A k \in 1..(n - 1) :
                          Without(f, i)[k] = IF k < i THEN f[k] ELSE f[k + 1]
  OBVIOUS
<1> DEFINE head == SubSeq(f, 1, i - 1)
           tail == SubSeq(f, i + 1, n)
<1>1. /\ n \in Nat /\ i \in Int /\ i - 1 \in Int /\ i + 1 \in Int /\ n \in Int
      /\ \A k \in 1..n : f[k] \in S
  BY LenProperties
<1>2. /\ head \in Seq(S) /\ Len(head) = i - 1
      /\ \A k \in 1..(i - 1) : head[k] = f[k]
  <2>1. \A k \in 1..(i - 1) : f[k] \in S
    BY <1>1
  <2>2. /\ head \in Seq(S)
        /\ Len(head) = IF 1 <= i - 1 THEN (i - 1) - 1 + 1 ELSE 0
        /\ \A k \in 1..((i - 1) - 1 + 1) : head[k] = f[1 + k - 1]
    BY <1>1, <2>1, SubSeqProperties
  <2>3. \A k \in 1..(i - 1) : k \in 1..((i - 1) - 1 + 1) /\ 1 + k - 1 = k
    BY <1>1
  <2> HIDE DEF head
  <2>4. QED
    BY <1>1, <2>2, <2>3
<1>3. /\ tail \in Seq(S) /\ Len(tail) = n - i
      /\ \A k \in 1..(n - i) : tail[k] = f[i + k]
  <2>1. \A k \in (i + 1)..n : f[k] \in S
    BY <1>1
  <2>2. /\ tail \in Seq(S)
        /\ Len(tail) = IF i + 1 <= n THEN n - (i + 1) + 1 ELSE 0
        /\ \A k \in 1..(n - (i + 1) + 1) : tail[k] = f[(i + 1) + k - 1]
    BY <1>1, <2>1, SubSeqProperties
  <2>3. \A k \in 1..(n - i) : k \in 1..(n - (i + 1) + 1) /\ (i + 1) + k - 1 = i + k
    BY <1>1
  <2> HIDE DEF tail
  <2>4. QED
    BY <1>1, <2>2, <2>3
<1>4. Without(f, i) = head \o tail
  BY DEF Without
<1> HIDE DEF head, tail
<1>5. /\ head \o tail \in Seq(S)
      /\ Len(head \o tail) = Len(head) + Len(tail)
      /\ \A k \in 1..(Len(head) + Len(tail)) :
            (head \o tail)[k] = IF k <= Len(head) THEN head[k] ELSE tail[k - Len(head)]
  BY <1>2, <1>3, ConcatProperties
<1>6. Len(head) + Len(tail) = n - 1
  BY <1>1, <1>2, <1>3
<1>7. ASSUME NEW k \in 1..(n - 1)
      PROVE  (head \o tail)[k] = IF k < i THEN f[k] ELSE f[k + 1]
  <2>1. CASE k < i
    <3>1. k \in 1..(i - 1) /\ k <= Len(head)
      BY <2>1, <1>1, <1>2
    <3>2. QED
      BY <2>1, <3>1, <1>2, <1>5, <1>6
  <2>2. CASE ~(k < i)
    <3>1. /\ ~(k <= Len(head))
          /\ k - Len(head) \in 1..(n - i) /\ i + (k - Len(head)) = k + 1
      BY <2>2, <1>1, <1>2
    <3>2. (head \o tail)[k] = tail[k - Len(head)]
      BY <3>1, <1>5, <1>6
    <3>3. tail[k - Len(head)] = f[k + 1]
      BY <3>1, <1>3
    <3>4. QED
      BY <2>2, <3>2, <3>3
  <2>3. QED
    BY <2>1, <2>2
<1>8. QED
  BY <1>4, <1>5, <1>6, <1>7

(* Dropping an earlier line and appending one commute. *)
LEMMA WithoutAppend ==
    ASSUME NEW S, NEW f \in Seq(S), NEW line \in S
    PROVE  /\ \A i \in 1..Len(f) :
                 Without(Append(f, line), i) = Append(Without(f, i), line)
           /\ Without(Append(f, line), Len(f) + 1) = f
<1> SUFFICES ASSUME NEW n, n = Len(f), NEW m, m = n + 1, NEW g, g = Append(f, line)
             PROVE  /\ \A i \in 1..n : Without(g, i) = Append(Without(f, i), line)
                    /\ Without(g, m) = f
  OBVIOUS
<1>1. /\ n \in Nat
      /\ g \in Seq(S) /\ Len(g) = n + 1 /\ g[n + 1] = line
      /\ \A k \in 1..n : g[k] = f[k]
  BY LenProperties, AppendProperties
<1>2. m \in Nat /\ m - 1 = n /\ m = Len(g) /\ \A i \in 1..n : i \in 1..m
  BY <1>1
<1>3. ASSUME NEW i \in 1..m
      PROVE  /\ Without(g, i) \in Seq(S)
             /\ Len(Without(g, i)) = n
             /\ \A k \in 1..n : Without(g, i)[k] = IF k < i THEN g[k] ELSE g[k + 1]
  <2>1. /\ Without(g, i) \in Seq(S)
        /\ Len(Without(g, i)) = m - 1
        /\ \A k \in 1..(m - 1) : Without(g, i)[k] = IF k < i THEN g[k] ELSE g[k + 1]
    <3>1. g \in Seq(S) /\ m = Len(g) /\ i \in 1..Len(g)
      BY <1>1, <1>2
    <3>2. /\ Without(g, i) \in Seq(S)
          /\ Len(Without(g, i)) = Len(g) - 1
          /\ \A k \in 1..(Len(g) - 1) :
                Without(g, i)[k] = IF k < i THEN g[k] ELSE g[k + 1]
      BY <3>1, WithoutLine
    <3>3. QED
      BY <3>1, <3>2
  <2>2. QED
    BY <1>2, <2>1
<1>4. ASSUME NEW i \in 1..n PROVE Without(g, i) = Append(Without(f, i), line)
  <2> DEFINE v == Without(g, i)
             w == Without(f, i)
             x == Append(w, line)
  <2>1. /\ w \in Seq(S) /\ Len(w) = n - 1
        /\ \A k \in 1..(n - 1) : w[k] = IF k < i THEN f[k] ELSE f[k + 1]
    BY WithoutLine
  <2>2. /\ v \in Seq(S) /\ Len(v) = n
        /\ \A k \in 1..n : v[k] = IF k < i THEN g[k] ELSE g[k + 1]
    BY <1>2, <1>3
  <2> HIDE DEF w, v
  <2>3. /\ x \in Seq(S) /\ Len(x) = (n - 1) + 1
        /\ \A k \in 1..(n - 1) : x[k] = w[k]
        /\ x[(n - 1) + 1] = line
    BY <2>1, AppendProperties
  <2> HIDE DEF x
  <2>4. (n - 1) + 1 = n
    BY <1>1
  <2>5. ASSUME NEW k \in 1..n PROVE v[k] = x[k]
    <3>1. CASE k \in 1..(n - 1)
      <4>1. k + 1 \in 1..n
        BY <3>1, <1>1
      <4>2. g[k] = f[k] /\ g[k + 1] = f[k + 1]
        BY <4>1, <1>1
      <4>3. QED
        BY <3>1, <4>2, <2>1, <2>2, <2>3
    <3>2. CASE k = n
      <4>1. ~(k < i) /\ g[k + 1] = line
        BY <3>2, <1>1
      <4>2. QED
        BY <3>2, <4>1, <2>2, <2>3, <2>4
    <3>3. QED
      BY <3>1, <3>2, <1>1
  <2>6. v = x
    BY <2>2, <2>3, <2>4, <2>5, SeqEqual
  <2>7. QED
    BY <2>6 DEF v, w, x
<1>5. Without(g, m) = f
  <2>1. m \in 1..m /\ \A k \in 1..n : k < m
    BY <1>1, <1>2
  <2>2. /\ Without(g, m) \in Seq(S) /\ Len(Without(g, m)) = Len(f)
        /\ \A k \in 1..n : Without(g, m)[k] = f[k]
    BY <2>1, <1>1, <1>3
  <2>3. QED
    BY <2>2, SeqEqual
<1>6. QED
  BY <1>4, <1>5

(* Folding a line tells two accounts apart whose sums differ, and a charge *)
(* or a refusal changes the sums.                                          *)
LEMMA FoldedDiffers ==
    ASSUME NEW a \in Accounts, NEW b \in Accounts, NEW line \in Line,
           a.sums # b.sums
    PROVE  Folded(a, line).sums # Folded(b, line).sums
<1>1. a.sums \in Sums /\ b.sums \in Sums
  BY DEF Accounts
<1>2. \/ a.sums.runs # b.sums.runs \/ a.sums.units # b.sums.units
      \/ a.sums.refused # b.sums.refused \/ a.sums.unknown # b.sums.unknown
  BY <1>1 DEF Sums
<1>3. /\ a.sums.runs \in Nat /\ b.sums.runs \in Nat
      /\ a.sums.units \in Nat /\ b.sums.units \in Nat
      /\ a.sums.refused \in Nat /\ b.sums.refused \in Nat
      /\ a.sums.unknown \in Nat /\ b.sums.unknown \in Nat
      /\ line.charge \in Nat
  BY <1>1 DEF Sums, Line
<1>4. line.kind \in {"admit", "settle", "expire", "refuse"}
  BY DEF Line
<1>5. CASE line.kind \in {"admit", "expire"}
  <2>1. Folded(a, line).sums = a.sums /\ Folded(b, line).sums = b.sums
    BY <1>5, FoldedSums
  <2>2. QED
    BY <2>1
<1> DEFINE one == IF line.unknown THEN 1 ELSE 0
           x == Folded(a, line).sums
           y == Folded(b, line).sums
<1>6. one \in Nat
  OBVIOUS
<1>7. CASE line.kind = "settle"
  <2>1. /\ x.runs = a.sums.runs + 1 /\ x.units = a.sums.units + line.charge
        /\ x.refused = a.sums.refused /\ x.unknown = a.sums.unknown + one
    BY <1>7, FoldedSums
  <2>2. /\ y.runs = b.sums.runs + 1 /\ y.units = b.sums.units + line.charge
        /\ y.refused = b.sums.refused /\ y.unknown = b.sums.unknown + one
    BY <1>7, FoldedSums
  <2> HIDE DEF one, x, y
  <2>3. x # y
    BY <1>2, <1>3, <1>6, <2>1, <2>2
  <2>4. QED
    BY <2>3 DEF x, y
<1>8. CASE line.kind = "refuse"
  <2>1. /\ x.runs = a.sums.runs /\ x.units = a.sums.units
        /\ x.refused = a.sums.refused + 1 /\ x.unknown = a.sums.unknown
    BY <1>8, FoldedSums
  <2>2. /\ y.runs = b.sums.runs /\ y.units = b.sums.units
        /\ y.refused = b.sums.refused + 1 /\ y.unknown = b.sums.unknown
    BY <1>8, FoldedSums
  <2> HIDE DEF x, y
  <2>3. x # y
    BY <1>2, <1>3, <2>1, <2>2
  <2>4. QED
    BY <2>3 DEF x, y
<1>9. QED
  BY <1>4, <1>5, <1>7, <1>8

LEMMA FoldedMoves ==
    ASSUME NEW a \in Accounts, NEW line \in Line, line.kind \in {"settle", "refuse"}
    PROVE  Folded(a, line).sums # a.sums
<1>1. a.sums.runs \in Nat /\ a.sums.refused \in Nat
  BY DEF Accounts, Sums
<1>2. \/ Folded(a, line).sums.runs = a.sums.runs + 1
      \/ Folded(a, line).sums.refused = a.sums.refused + 1
  BY FoldedSums
<1>3. QED
  BY <1>1, <1>2

DropsShow(f) ==
    \A i \in DOMAIN f : f[i].kind \in {"settle", "refuse"} => DropShows(f, i)

LEMMA FollowDrops ==
    ASSUME NEW f \in Lines, SoundBook(f), DropsShow(f), NEW line, MayFollow(f, line),
           NEW g, g = Append(f, line)
    PROVE  DropsShow(g)
<1> SUFFICES ASSUME NEW n, n = Len(f), NEW m, m = n + 1
             PROVE  DropsShow(g)
  OBVIOUS
<1>1. /\ n \in Nat /\ m \in Nat /\ DOMAIN f = 1..n /\ m \in 1..m /\ (m + 1)..m = {}
      /\ \A i \in 1..m : i \in 1..n \/ i = m
  BY LogLines DEF Lines
<1>2. line \in Line /\ line \in Line \cup {Damaged} /\ line.tenant \in Tenants
  BY DEF MayFollow, Line
<1>3. /\ DOMAIN g = 1..m /\ Len(g) = m /\ g[m] = line
      /\ \A i \in 1..n : g[i] = f[i]
  BY <1>1, <1>2, AppendProperties, LogLines DEF LogOver, Lines
<1> DEFINE S == Line \cup {Damaged}
<1>9. /\ \A k \in 1..n : Without(g, k) = Append(Without(f, k), line)
      /\ Without(g, m) = f
      /\ \A k \in 1..n : Without(f, k) \in Lines
  <2>1. f \in Seq(S) /\ line \in S
    BY <1>2 DEF Lines, LogOver
  <2> HIDE DEF S
  <2>2. \A k \in 1..n : Without(f, k) \in Seq(S)
    BY <2>1, WithoutLine
  <2>3. /\ \A k \in 1..n : Without(g, k) = Append(Without(f, k), line)
        /\ Without(g, m) = f
    BY <2>1, WithoutAppend
  <2>4. QED
    BY <2>2, <2>3 DEF S, Lines, LogOver
<1> HIDE DEF S
<1>4. ASSUME NEW t \in Tenants
      PROVE  Replay(f, t) # Damaged /\ Replay(f, t) \in Accounts
  <2>1. Replay(f, t) # Damaged
    BY DEF SoundBook
  <2>2. QED
    BY <2>1, AccountOf
<1>5. /\ Replay(g, line.tenant) = Folded(Replay(f, line.tenant), line)
      /\ line.totals = Folded(Replay(f, line.tenant), line).sums
  <2>1. Replay(f, line.tenant) # Damaged
    BY <1>2, <1>4
  <2>2. Replay(g, line.tenant) = Folded(Replay(f, line.tenant), line)
    BY <2>1, FollowReplay
  <2>3. QED
    BY <2>2 DEF MayFollow
<1> SUFFICES ASSUME NEW i \in 1..m, g[i].kind \in {"settle", "refuse"}
             PROVE  DropShows(g, i)
  BY <1>3 DEF DropsShow
<1>6. CASE i \in 1..n
  <2> DEFINE t == f[i].tenant
             w == Without(f, i)
             left == Replay(w, t)
             next == Replay(Without(g, i), t)
  <2>1. /\ f[i].kind \in {"settle", "refuse"} /\ g[i].tenant = t
        /\ DropShows(f, i)
    BY <1>1, <1>3, <1>6 DEF DropsShow
  <2>2. w \in Lines /\ Without(g, i) = Append(w, line)
    BY <1>6, <1>9
  <2>3. next = Replayed(left, line, t)
    <3> HIDE DEF w
    <3>1. Replay(Append(w, line), t) = Replayed(Replay(w, t), line, t)
      BY <1>2, <2>2, ReplayAppend
    <3>2. QED
      BY <2>2, <3>1
  <2>4. left = Damaged => next = Damaged
    BY <2>3 DEF Replayed
  <2>5. LaterLine(f, i, t) => left = Damaged
    BY <2>1 DEF DropShows
  <2>6. left # Damaged => left \in Accounts /\ left.sums # Replay(f, t).sums
    <3>1. left # Damaged => left \in Accounts
      BY <2>2, AccountOf
    <3>2. QED
      BY <3>1, <2>1, <2>5 DEF DropShows
  <2> HIDE DEF left, next
  <2>7. CASE line.tenant = t
    <3>1. left # Damaged => ~Seals(left, line)
      <4> SUFFICES ASSUME left # Damaged, Seals(left, line) PROVE FALSE
        OBVIOUS
      <4>1. line.totals = Folded(left, line).sums
        BY DEF Seals
      <4>2. Replay(f, t) \in Accounts
        BY <1>2, <1>4, <2>7
      <4>3. Folded(left, line).sums # Folded(Replay(f, t), line).sums
        BY <1>2, <2>6, <4>2, FoldedDiffers
      <4>4. QED
        BY <1>5, <2>7, <4>1, <4>3
    <3>2. next = Damaged
      BY <2>3, <2>4, <2>7, <3>1 DEF Replayed
    <3>3. QED
      BY <2>1, <3>2 DEF DropShows, next
  <2>8. CASE line.tenant # t
    <3>1. Replay(g, t) = Replay(f, t)
      BY <1>2, <2>8, FollowOthers
    <3>2. left # Damaged => next = left
      BY <1>2, <2>3, <2>8 DEF Replayed
    <3>3. LaterLine(g, i, t) => LaterLine(f, i, t)
      <4> SUFFICES ASSUME NEW j \in (i + 1)..m, g[j].tenant = t
                   PROVE  \E k \in (i + 1)..n : f[k].tenant = t
        BY <1>3 DEF LaterLine
      <4>1. j # m
        BY <1>3, <2>8
      <4>2. j \in (i + 1)..n /\ j \in 1..n
        BY <1>1, <4>1
      <4>3. QED
        BY <1>3, <4>2
    <3>4. LaterLine(g, i, t) => next = Damaged
      BY <2>4, <2>5, <3>3 DEF left
    <3>5. next = Damaged \/ next.sums # Replay(g, t).sums
      BY <2>4, <2>6, <3>1, <3>2
    <3>6. QED
      BY <2>1, <3>4, <3>5 DEF DropShows, next
  <2>9. QED
    BY <2>7, <2>8
<1>7. CASE i = m
  <2> DEFINE t == line.tenant
  <2>1. g[m].tenant = t /\ line.kind \in {"settle", "refuse"}
    BY <1>3, <1>7
  <2>2. Without(g, m) = f
    BY <1>9
  <2>3. ~LaterLine(g, m, t)
    BY <1>1, <1>3 DEF LaterLine
  <2>4. Replay(f, t).sums # Replay(g, t).sums
    BY <1>2, <1>4, <1>5, <2>1, FoldedMoves
  <2>5. QED
    BY <1>7, <2>1, <2>2, <2>3, <2>4 DEF DropShows
<1>8. QED
  BY <1>1, <1>6, <1>7

------------------------------------------------------------------------------
(***************************************************************************)
(* The charges beyond a standing reservation.                              *)
(***************************************************************************)
USE TenantAssumption

LEMMA IntactLines ==
    ASSUME NEW f \in Lines, Intact(f)
    PROVE  /\ Len(f) \in Nat /\ DOMAIN f = 1..Len(f)
           /\ \A i \in 1..Len(f) : f[i] \in Line
<1>1. /\ Len(f) \in Nat /\ DOMAIN f = 1..Len(f)
      /\ \A i \in 1..Len(f) : f[i] \in Line \cup {Damaged}
  BY LogLines DEF Lines
<1>2. QED
  BY <1>1 DEF Intact

LEMMA UnreservedType ==
    ASSUME NEW f \in Lines, Intact(f), NEW t, NEW i \in 1..Len(f)
    PROVE  Unreserved(f, t, i) \in Nat
<1>1. f[i] \in Line
  BY IntactLines
<1>2. f[i].charge \in Nat /\ Reserve \in Nat
  BY <1>1 DEF Line
<1>3. Excess(f[i]) \in Nat
  BY <1>2 DEF Excess
<1>4. QED
  BY <1>2, <1>3 DEF Unreserved

(* Opaque to the provers, so that the lemmas on recursion apply as they do *)
(* to the replay.                                                          *)
Amounts == Nat

Nothing == 0

LateStep(f, t) == [p \in Amounts \X (1..Len(f)) |-> p[1] + Unreserved(f, t, p[2])]

LEMMA LateStepType ==
    ASSUME NEW f \in Lines, Intact(f), NEW t
    PROVE  /\ LateStep(f, t) \in [Amounts \X (1..Len(f)) -> Amounts]
           /\ \A a \in Amounts : \A k \in 1..Len(f) :
                 LateStep(f, t)[<<a, k>>] = a + Unreserved(f, t, k)
<1>1. \A k \in 1..Len(f) : Unreserved(f, t, k) \in Nat
  BY UnreservedType
<1>2. \A p \in Amounts \X (1..Len(f)) : p[1] + Unreserved(f, t, p[2]) \in Amounts
  BY <1>1 DEF Amounts
<1>3. QED
  BY <1>2 DEF LateStep

LEMMA LateRecurs ==
    ASSUME NEW f \in Lines, Intact(f), NEW t
    PROVE  \E h : /\ Recurs(h, Len(f), Amounts, Nothing, LateStep(f, t))
                  /\ LateUnits(f, t) = h[Len(f)]
<1> DEFINE m == Len(f)
           Is(h) == h = [n \in 0..m |->
                           IF n = 0 THEN 0 ELSE h[n - 1] + Unreserved(f, t, n)]
           sum == CHOOSE h : Is(h)
<1>1. m \in Nat /\ Nothing \in Amounts
  BY IntactLines DEF Amounts, Nothing
<1>2. \E h : Is(h)
  <2>1. PICK h : Recurs(h, m, Amounts, Nothing, LateStep(f, t))
    BY <1>1, RecursionExists, LateStepType
  <2>2. ASSUME NEW n \in 0..m
        PROVE  h[n] = IF n = 0 THEN 0 ELSE h[n - 1] + Unreserved(f, t, n)
    <3>1. CASE n = 0
      BY <2>1, <3>1 DEF Recurs, Nothing
    <3>2. CASE n # 0
      <4>1. n \in 1..m /\ n - 1 \in 0..m
        BY <1>1, <3>2
      <4>2. h[n - 1] \in Amounts /\ h[n] = LateStep(f, t)[<<h[n - 1], n>>]
        BY <2>1, <4>1 DEF Recurs
      <4>3. LateStep(f, t)[<<h[n - 1], n>>] = h[n - 1] + Unreserved(f, t, n)
        BY <4>1, <4>2, LateStepType
      <4>4. QED
        BY <3>2, <4>2, <4>3
    <3>3. QED
      BY <3>1, <3>2
  <2>3. h = [n \in 0..m |-> h[n]]
    BY <2>1 DEF Recurs
  <2>4. Is(h)
    BY <2>2, <2>3
  <2>5. QED
    BY <2>4
<1>3. Is(sum)
  BY <1>2
<1>4. LateUnits(f, t) = sum[m]
  BY DEF LateUnits
<1> HIDE DEF sum
<1>5. /\ sum = [n \in 0..m |-> sum[n]]
      /\ sum[0] = Nothing
      /\ \A k \in 1..m : sum[k] = sum[k - 1] + Unreserved(f, t, k)
  <2>1. 0 \in 0..m /\ \A k \in 1..m : k \in 0..m /\ k # 0
    BY <1>1
  <2>2. /\ sum = [n \in 0..m |-> sum[n]]
        /\ \A n \in 0..m :
              sum[n] = IF n = 0 THEN 0 ELSE sum[n - 1] + Unreserved(f, t, n)
    BY <1>3, Zenon
  <2>3. QED
    BY <2>1, <2>2 DEF Nothing
<1>6. ASSUME NEW k \in 1..m, sum[k - 1] \in Amounts
      PROVE  sum[k] = LateStep(f, t)[<<sum[k - 1], k>>]
  <2>1. LateStep(f, t)[<<sum[k - 1], k>>] = sum[k - 1] + Unreserved(f, t, k)
    BY <1>6, LateStepType
  <2>2. QED
    BY <1>5, <2>1
<1>7. Recurs(sum, m, Amounts, Nothing, LateStep(f, t))
  BY <1>1, <1>5, <1>6, RecursionTyped, LateStepType
<1>8. QED
  BY <1>4, <1>7

LEMMA LateType ==
    ASSUME NEW f \in Lines, Intact(f), NEW t
    PROVE  /\ LateUnits(f, t) \in Nat
           /\ IsFiniteSet(LateSettles(f, t))
           /\ Cardinality(LateSettles(f, t)) \in Nat
<1>1. Len(f) \in Nat /\ DOMAIN f = 1..Len(f)
  BY IntactLines
<1>2. PICK h : /\ Recurs(h, Len(f), Amounts, Nothing, LateStep(f, t))
               /\ LateUnits(f, t) = h[Len(f)]
  BY LateRecurs
<1>3. LateUnits(f, t) \in Nat
  BY <1>1, <1>2 DEF Recurs, Amounts
<1>4. IsFiniteSet(1..Len(f))
  BY <1>1, FS_Interval
<1>5. LateSettles(f, t) \in SUBSET (1..Len(f))
  BY <1>1 DEF LateSettles, Settles
<1>6. IsFiniteSet(LateSettles(f, t))
  BY <1>4, <1>5, FS_Subset
<1>7. QED
  BY <1>3, <1>6, FS_CardinalityType

(* The late charges of a book that is longer by one line. *)
LongerByOne(f, g, t) ==
    /\ Len(g) = Len(f) + 1
    /\ \A k \in 1..Len(f) : Unreserved(g, t, k) = Unreserved(f, t, k)

LEMMA LateUnitsNext ==
    ASSUME NEW t, NEW f \in Lines, Intact(f), NEW g \in Lines, Intact(g),
           LongerByOne(f, g, t)
    PROVE  LateUnits(g, t) = LateUnits(f, t) + Unreserved(g, t, Len(g))
<1> SUFFICES ASSUME NEW n, n = Len(f), NEW m, m = Len(g)
             PROVE  LateUnits(g, t) = LateUnits(f, t) + Unreserved(g, t, m)
  OBVIOUS
<1>1. m = n + 1 /\ \A k \in 1..n : Unreserved(g, t, k) = Unreserved(f, t, k)
  BY DEF LongerByOne
<1>2. /\ n \in Nat /\ m \in Nat /\ n <= m /\ m \in 1..m /\ m - 1 = n /\ n \in 0..n
      /\ \A k \in 1..n : k \in 1..m
  BY <1>1, IntactLines
<1>3. \A a \in Amounts : \A k \in 1..n :
         LateStep(f, t)[<<a, k>>] = a + Unreserved(f, t, k)
  BY LateStepType
<1>4. \A a \in Amounts : \A k \in 1..m :
         LateStep(g, t)[<<a, k>>] = a + Unreserved(g, t, k)
  BY LateStepType
<1>5. PICK h1 : Recurs(h1, n, Amounts, Nothing, LateStep(f, t)) /\ LateUnits(f, t) = h1[n]
  BY LateRecurs
<1>6. PICK h2 : Recurs(h2, m, Amounts, Nothing, LateStep(g, t)) /\ LateUnits(g, t) = h2[m]
  BY LateRecurs
<1>7. SameSteps(LateStep(f, t), LateStep(g, t), n, Amounts)
  <2> SUFFICES ASSUME NEW a \in Amounts, NEW k \in 1..n
               PROVE  LateStep(f, t)[<<a, k>>] = LateStep(g, t)[<<a, k>>]
    BY DEF SameSteps
  <2>1. LateStep(f, t)[<<a, k>>] = a + Unreserved(f, t, k)
    BY <1>3
  <2>2. LateStep(g, t)[<<a, k>>] = a + Unreserved(g, t, k)
    BY <1>2, <1>4
  <2>3. Unreserved(g, t, k) = Unreserved(f, t, k)
    BY <1>1
  <2>4. QED
    BY <2>1, <2>2, <2>3
<1>8. \A k \in 0..n : h1[k] = h2[k]
  <2>1. n \in Nat /\ m \in Nat /\ n <= m
    BY <1>2
  <2>2. Recurs(h1, n, Amounts, Nothing, LateStep(f, t))
    BY <1>5
  <2>3. Recurs(h2, m, Amounts, Nothing, LateStep(g, t))
    BY <1>6
  <2>4. QED
    BY <1>7, <2>1, <2>2, <2>3, RecursionAgrees
<1>9. h1[n] = h2[n] /\ h2[n] \in Amounts
  BY <1>2, <1>5, <1>8 DEF Recurs
<1>10. h2[m] = LateStep(g, t)[<<h2[n], m>>]
  BY <1>2, <1>6 DEF Recurs
<1>11. LateStep(g, t)[<<h2[n], m>>] = h2[n] + Unreserved(g, t, m)
  BY <1>2, <1>4, <1>9
<1>12. QED
  BY <1>5, <1>6, <1>9, <1>10, <1>11

(* What the line a book is continued by charges beyond its reservation.    *)
IsSettleOf(line, t) == line.kind = "settle" /\ line.tenant = t

LateCount(f, line, t) == IF IsSettleOf(line, t) /\ IsLate(f, line) THEN 1 ELSE 0

LateCharge(f, line, t) ==
    IF IsSettleOf(line, t) /\ IsLate(f, line) THEN line.charge
    ELSE IF IsSettleOf(line, t) THEN Excess(line) ELSE 0

LEMMA FollowLate ==
    ASSUME NEW f \in Lines, Intact(f), SoundBook(f), NEW line, MayFollow(f, line),
           NEW g, g = Append(f, line), NEW t \in Tenants
    PROVE  /\ Intact(g)
           /\ Cardinality(LateSettles(g, t)) =
                 Cardinality(LateSettles(f, t)) + LateCount(f, line, t)
           /\ LateUnits(g, t) = LateUnits(f, t) + LateCharge(f, line, t)
<1> SUFFICES ASSUME NEW n, n = Len(f), NEW m, m = n + 1
             PROVE  /\ Intact(g)
                    /\ Cardinality(LateSettles(g, t)) =
                          Cardinality(LateSettles(f, t)) + LateCount(f, line, t)
                    /\ LateUnits(g, t) = LateUnits(f, t) + LateCharge(f, line, t)
  OBVIOUS
<1>1. /\ n \in Nat /\ m \in Nat /\ DOMAIN f = 1..n /\ n <= m
      /\ m \in 1..m /\ m - 1 = n /\ n \in 0..n
      /\ \A i \in 1..m : i \in 1..n \/ i = m
      /\ \A i \in 1..n : i \in 1..m /\ i # m
  BY LogLines DEF Lines
<1>2. line \in Line /\ line # Damaged
  BY DEF MayFollow
<1>3. /\ DOMAIN g = 1..m /\ Len(g) = m /\ g[m] = line
      /\ \A i \in 1..n : g[i] = f[i]
      /\ g \in Lines
  BY <1>1, <1>2, AppendProperties, LogLines DEF LogOver, Lines
<1>4. Intact(g)
  BY <1>1, <1>2, <1>3 DEF Intact
<1>5. ASSUME NEW other, other.kind = "settle",
             line.kind = "admit" => line.id # other.id
      PROVE  IsLate(g, other) <=> IsLate(f, other)
  <2>1. ASSUME IsLate(f, other) PROVE IsLate(g, other)
    <3>1. PICK j \in 1..n :
             f[j].kind = "admit" /\ f[j].id = other.id /\ f[j].expires <= other.at
      BY <1>1, <2>1 DEF IsLate
    <3>2. j \in DOMAIN g /\ g[j] = f[j]
      BY <1>1, <1>3
    <3>3. QED
      BY <3>1, <3>2 DEF IsLate
  <2>2. ASSUME IsLate(g, other) PROVE IsLate(f, other)
    <3>1. PICK j \in 1..m :
             g[j].kind = "admit" /\ g[j].id = other.id /\ g[j].expires <= other.at
      BY <1>3, <2>2 DEF IsLate
    <3>2. j \in 1..n
      BY <1>1, <1>3, <1>5, <3>1
    <3>3. j \in DOMAIN f /\ g[j] = f[j]
      BY <1>1, <1>3, <3>2
    <3>4. QED
      BY <3>1, <3>3 DEF IsLate
  <2>3. QED
    BY <2>1, <2>2
<1>6. ASSUME NEW i \in 1..n
      PROVE  /\ i \in Settles(g, t) <=> i \in Settles(f, t)
             /\ i \in LateSettles(g, t) <=> i \in LateSettles(f, t)
             /\ Unreserved(g, t, i) = Unreserved(f, t, i)
  <2>1. g[i] = f[i] /\ i \in DOMAIN g /\ i \in DOMAIN f
    BY <1>1, <1>3
  <2>2. i \in Settles(g, t) <=> i \in Settles(f, t)
    BY <2>1 DEF Settles
  <2>3. ASSUME i \in Settles(f, t)
        PROVE  IsLate(g, f[i]) <=> IsLate(f, f[i])
    <3>1. f[i].kind = "settle"
      BY <2>3 DEF Settles
    <3>2. PICK j \in 1..(i - 1) : f[j].kind = "admit" /\ f[j].id = f[i].id
      BY <2>1, <3>1 DEF SoundBook, EndWasAdmitted
    <3>3. j \in DOMAIN f
      BY <1>1, <3>2
    <3>4. line.kind = "admit" => line.id # f[i].id
      <4> SUFFICES ASSUME line.kind = "admit" PROVE line.id # f[i].id
        OBVIOUS
      <4>1. line.id \in Writers \X {Len(f)}
        BY DEF MayFollow
      <4>2. f[j].id # line.id
        BY <3>2, <3>3, <4>1, FreshAdmission DEF SoundBook
      <4>3. QED
        BY <3>2, <4>2
    <3>5. QED
      BY <1>5, <3>1, <3>4
  <2>4. i \in LateSettles(g, t) <=> i \in LateSettles(f, t)
    BY <2>1, <2>2, <2>3 DEF LateSettles
  <2>5. QED
    BY <2>1, <2>2, <2>4 DEF Unreserved
<1>7. /\ m \in Settles(g, t) <=> IsSettleOf(line, t)
      /\ m \in LateSettles(g, t) <=> IsSettleOf(line, t) /\ IsLate(f, line)
  <2>1. m \in Settles(g, t) <=> IsSettleOf(line, t)
    BY <1>1, <1>3 DEF Settles, IsSettleOf
  <2>2. IsSettleOf(line, t) => (IsLate(g, line) <=> IsLate(f, line))
    BY <1>5 DEF IsSettleOf
  <2>3. QED
    BY <1>3, <2>1, <2>2 DEF LateSettles
<1>8. Unreserved(g, t, m) = LateCharge(f, line, t)
  BY <1>3, <1>7 DEF Unreserved, LateCharge
<1>9. Cardinality(LateSettles(g, t)) =
         Cardinality(LateSettles(f, t)) + LateCount(f, line, t)
  <2>1. /\ LateSettles(f, t) \subseteq 1..n
        /\ LateSettles(g, t) \subseteq 1..m
    BY <1>1, <1>3 DEF LateSettles, Settles
  <2>2. m \notin LateSettles(f, t)
    BY <1>1, <2>1
  <2>3. CASE m \in LateSettles(g, t)
    <3>1. LateSettles(g, t) = LateSettles(f, t) \cup {m}
      BY <1>1, <1>6, <2>1, <2>3
    <3>2. Cardinality(LateSettles(f, t) \cup {m}) = Cardinality(LateSettles(f, t)) + 1
      BY <2>2, LateType, FS_AddElement
    <3>3. LateCount(f, line, t) = 1
      BY <1>7, <2>3 DEF LateCount
    <3>4. QED
      BY <3>1, <3>2, <3>3
  <2>4. CASE m \notin LateSettles(g, t)
    <3>1. LateSettles(g, t) = LateSettles(f, t)
      BY <1>1, <1>6, <2>1, <2>4
    <3>2. LateCount(f, line, t) = 0
      BY <1>7, <2>4 DEF LateCount
    <3>3. QED
      BY <3>1, <3>2, LateType
  <2>5. QED
    BY <2>3, <2>4
<1>10. LateUnits(g, t) = LateUnits(f, t) + LateCharge(f, line, t)
  <2>1. LateUnits(g, t) = LateUnits(f, t) + Unreserved(g, t, m)
    <3>1. g \in Lines /\ Intact(g) /\ m = Len(g)
      BY <1>3, <1>4
    <3>2. LongerByOne(f, g, t)
      BY <1>6, <3>1 DEF LongerByOne
    <3>3. LateUnits(g, t) = LateUnits(f, t) + Unreserved(g, t, Len(g))
      BY <3>1, <3>2, LateUnitsNext
    <3>4. QED
      BY <3>1, <3>3
  <2>2. QED
    BY <1>8, <2>1
<1>11. QED
  BY <1>4, <1>9, <1>10

------------------------------------------------------------------------------
(***************************************************************************)
(* The caps: a line that may follow keeps them, at every later instant.    *)
(***************************************************************************)
LEMMA Products ==
    ASSUME NEW a \in Nat, NEW b \in Nat, a <= b
    PROVE  /\ a * Reserve \in Nat /\ b * Reserve \in Nat
           /\ a * Reserve <= b * Reserve
           /\ (a + 1) * Reserve = a * Reserve + Reserve
<1>1. Reserve \in Nat
  OBVIOUS
<1>2. b - a \in Nat /\ b = a + (b - a)
  OBVIOUS
<1>3. (b - a) * Reserve \in Nat /\ a * Reserve \in Nat
  BY <1>1, <1>2
<1>4. b * Reserve = a * Reserve + (b - a) * Reserve
  BY <1>1, <1>2
<1>5. QED
  BY <1>1, <1>3, <1>4

LEMMA LessIsWithin ==
    ASSUME NEW t \in Tenants, NEW v \in Int, NEW w \in Int, v <= w
    PROVE  /\ ~Exceeds(MaxRuns[t], w) => ~Exceeds(MaxRuns[t], v)
           /\ ~Exceeds(MaxUnits[t], w) => ~Exceeds(MaxUnits[t], v)
<1>1. /\ MaxRuns[t] \in (Nat \ {0}) \cup {None}
      /\ MaxUnits[t] \in (Nat \ {0}) \cup {None}
  OBVIOUS
<1>2. QED
  BY <1>1 DEF Exceeds

Standing(f, t, clock) == Cardinality(Active(Replay(f, t), clock))

LEMMA CapsMeans ==
    ASSUME NEW f, NEW t, NEW clock
    PROVE  CapsAt(f, t, clock) <=>
              /\ ~Exceeds(MaxRuns[t],
                          (Replay(f, t).sums.runs + Standing(f, t, clock))
                             - Cardinality(LateSettles(f, t)))
              /\ ~Exceeds(MaxUnits[t],
                          (Replay(f, t).sums.units + Standing(f, t, clock) * Reserve)
                             - LateUnits(f, t))
<1> DEFINE account == Projected(Replay(f, t), clock)
<1>1. CapsAt(f, t, clock) <=>
         /\ ~Exceeds(MaxRuns[t], account.runs - Cardinality(LateSettles(f, t)))
         /\ ~Exceeds(MaxUnits[t], account.units - LateUnits(f, t))
  BY Zenon DEF CapsAt
<1>2. account.runs = Replay(f, t).sums.runs + Standing(f, t, clock)
  BY DEF Projected, Standing
<1>3. account.units = Replay(f, t).sums.units + Standing(f, t, clock) * Reserve
  BY DEF Projected, Standing
<1> HIDE DEF account
<1>4. QED
  BY <1>1, <1>2, <1>3, Zenon

(* What is open is finite: one admission for a line at most. *)
LEMMA OpenFinite ==
    ASSUME NEW f \in Lines, OpenWasAdmitted(f), NEW t \in Tenants
    PROVE  IsFiniteSet(Replay(f, t).open)
<1> DEFINE D == 1..Len(f)
           Of(j) == [id |-> f[j].id, charge |-> f[j].charge, expires |-> f[j].expires]
           I == {Of(j) : j \in D}
<1>1. DOMAIN f = D /\ IsFiniteSet(D)
  BY LogLines, FS_Interval DEF Lines
<1>2. IsFiniteSet(I)
  <2> DEFINE h == [j \in D |-> Of(j)]
  <2>1. h \in [D -> I]
    OBVIOUS
  <2>2. h \in Surjection(D, I)
    BY <2>1 DEF Surjection
  <2>3. QED
    BY <1>1, <2>2, FS_Surjection
<1>3. Replay(f, t).open \in SUBSET I
  BY <1>1 DEF OpenWasAdmitted
<1>4. QED
  BY <1>2, <1>3, FS_Subset

LEMMA StandingType ==
    ASSUME NEW f \in Lines, SoundBook(f), NEW t \in Tenants, NEW clock
    PROVE  /\ IsFiniteSet(Active(Replay(f, t), clock))
           /\ Standing(f, t, clock) \in Nat
           /\ Replay(f, t) \in Accounts
           /\ Replay(f, t).sums.runs \in Nat
           /\ Replay(f, t).sums.units \in Nat
           /\ \A o \in Replay(f, t).open : o.expires \in Nat
<1>1. Replay(f, t) \in Accounts
  <2>1. Replay(f, t) # Damaged
    BY DEF SoundBook
  <2>2. QED
    BY <2>1, AccountOf
<1>2. IsFiniteSet(Replay(f, t).open)
  BY OpenFinite DEF SoundBook
<1>3. Active(Replay(f, t), clock) \in SUBSET Replay(f, t).open
  BY DEF Active
<1>4. IsFiniteSet(Active(Replay(f, t), clock))
  BY <1>2, <1>3, FS_Subset
<1>5. Standing(f, t, clock) \in Nat
  BY <1>4, FS_CardinalityType DEF Standing
<1>6. /\ Replay(f, t).sums \in Sums
      /\ Replay(f, t).open \in SUBSET Admission
  BY <1>1 DEF Accounts
<1>7. QED
  BY <1>1, <1>4, <1>5, <1>6 DEF Sums, Admission

(* Reservations only lapse: what the caps allow now they allow later.      *)
LEMMA CapsLater ==
    ASSUME NEW f \in Lines, Intact(f), SoundBook(f), NEW t \in Tenants,
           NEW x \in Nat, NEW y \in Nat, x <= y, CapsAt(f, t, x)
    PROVE  CapsAt(f, t, y)
<1> DEFINE a == Replay(f, t)
           c == Standing(f, t, x)
           d == Standing(f, t, y)
           L == Cardinality(LateSettles(f, t))
           U == LateUnits(f, t)
           R == a.sums.runs
           V == a.sums.units
<1>1. /\ c \in Nat /\ d \in Nat /\ R \in Nat /\ V \in Nat
      /\ \A o \in a.open : o.expires \in Nat
      /\ IsFiniteSet(Active(a, x))
  BY StandingType
<1>2. L \in Nat /\ U \in Nat
  BY LateType
<1>3. d <= c
  <2>1. Active(a, y) \in SUBSET Active(a, x)
    BY <1>1 DEF Active
  <2>2. QED
    BY <1>1, <2>1, FS_Subset DEF Standing
<1>4. /\ ~Exceeds(MaxRuns[t], (R + c) - L)
      /\ ~Exceeds(MaxUnits[t], (V + c * Reserve) - U)
  BY CapsMeans
<1>5. c * Reserve \in Nat /\ d * Reserve \in Nat /\ d * Reserve <= c * Reserve
  BY <1>1, <1>3, Products
<1> DEFINE P == c * Reserve
           Q == d * Reserve
<1> HIDE DEF a, c, d, L, U, R, V, P, Q
<1>6. P \in Nat /\ Q \in Nat /\ Q <= P
  BY <1>5 DEF P, Q
<1>7. ~Exceeds(MaxRuns[t], (R + d) - L)
  <2>1. (R + d) - L \in Int /\ (R + c) - L \in Int /\ (R + d) - L <= (R + c) - L
    BY <1>1, <1>2, <1>3
  <2>2. QED
    BY <1>4, <2>1, LessIsWithin
<1>8. ~Exceeds(MaxUnits[t], (V + Q) - U)
  <2>1. (V + Q) - U \in Int /\ (V + P) - U \in Int /\ (V + Q) - U <= (V + P) - U
    BY <1>1, <1>2, <1>6
  <2>2. QED
    BY <1>4, <2>1, LessIsWithin DEF P
<1>9. QED
  BY <1>7, <1>8, CapsMeans DEF a, d, L, U, R, V, Q

(* What stands reserved after a line, of what stood when it was decided.   *)
LEMMA FollowActive ==
    ASSUME NEW f \in Lines, SoundBook(f), NEW line, MayFollow(f, line),
           NEW clock \in Nat, line.at <= clock
    PROVE  LET was == Active(Replay(f, line.tenant), line.at)
               stays == Active(Replay(Append(f, line), line.tenant), clock)
           IN  /\ line.kind # "admit" => stays \subseteq was
               /\ line.kind = "admit" =>
                     stays \subseteq was \cup {[id |-> line.id, charge |-> line.charge,
                                                expires |-> line.expires]}
               /\ line.kind = "settle" => \A o \in stays : o.id # line.id
<1> DEFINE a == Replay(f, line.tenant)
           b == Replay(Append(f, line), line.tenant)
<1>1. line \in Line /\ line.tenant \in Tenants
  BY DEF MayFollow, Line
<1>2. line.at \in Nat /\ line.kind \in {"admit", "settle", "expire", "refuse"}
  BY <1>1 DEF Line
<1>3. a # Damaged /\ a \in Accounts
  BY <1>1, AccountOf DEF SoundBook
<1>4. b = Folded(a, line)
  BY <1>3, FollowReplay
<1>5. \A o \in a.open : o.expires \in Nat
  BY <1>3 DEF Accounts, Admission
<1> DEFINE opened == [id |-> line.id, charge |-> line.charge, expires |-> line.expires]
<1>6. /\ line.kind = "admit" => b.open = a.open \cup {opened}
      /\ line.kind \in {"settle", "expire"} => b.open = {o \in a.open : o.id # line.id}
      /\ line.kind = "refuse" => b.open = a.open
  BY <1>1, <1>3, <1>4, FoldedOpen
<1> HIDE DEF a, b, opened
<1>7. \A o \in a.open : o.expires > clock => o.expires > line.at
  BY <1>2, <1>5
<1>8. line.kind # "admit" => b.open \subseteq a.open
  BY <1>2, <1>6
<1>9. line.kind # "admit" => Active(b, clock) \subseteq Active(a, line.at)
  BY <1>7, <1>8 DEF Active
<1>10. line.kind = "admit" => Active(b, clock) \subseteq Active(a, line.at) \cup {opened}
  BY <1>6, <1>7 DEF Active
<1>11. line.kind = "settle" => \A o \in Active(b, clock) : o.id # line.id
  BY <1>6 DEF Active
<1>12. QED
  BY <1>9, <1>10, <1>11 DEF a, b, opened

(* An admission that is settled in time frees the reservation it had. *)
LEMMA SettledStood ==
    ASSUME NEW f \in Lines, Intact(f), SoundBook(f), NEW line, MayFollow(f, line),
           line.kind = "settle", ~IsLate(f, line)
    PROVE  \E o \in Active(Replay(f, line.tenant), line.at) : o.id = line.id
<1> DEFINE a == Replay(f, line.tenant)
<1>1. line \in Line /\ line.tenant \in Tenants /\ line.id \in OpenIds(a)
  BY DEF MayFollow, Line
<1>2. PICK o \in a.open : o.id = line.id
  BY <1>1 DEF OpenIds
<1>3. PICK j \in DOMAIN f :
         /\ f[j].kind = "admit"
         /\ o = [id |-> f[j].id, charge |-> f[j].charge, expires |-> f[j].expires]
  BY <1>1, <1>2 DEF SoundBook, OpenWasAdmitted
<1>4. o.id = f[j].id /\ o.expires = f[j].expires
  BY <1>3
<1>5. ~(o.expires <= line.at)
  BY <1>2, <1>3, <1>4 DEF IsLate
<1>6. line.at \in Nat /\ o.expires \in Nat
  <2>1. a \in Accounts
    BY <1>1, AccountOf DEF SoundBook
  <2>2. QED
    BY <1>1, <1>2, <2>1 DEF Accounts, Admission, Line
<1>7. o \in Active(a, line.at)
  <2>1. o.expires > line.at
    BY <1>5, <1>6
  <2>2. QED
    BY <1>2, <2>1 DEF Active
<1>8. QED
  BY <1>2, <1>7

(* How many reservations stand after a line, and how many stood. *)
LEMMA FollowStanding ==
    ASSUME NEW f \in Lines, Intact(f), SoundBook(f), NEW line, MayFollow(f, line),
           NEW clock \in Nat, line.at <= clock
    PROVE  LET was == Standing(f, line.tenant, line.at)
               stays == Standing(Append(f, line), line.tenant, clock)
           IN  /\ was \in Nat
               /\ stays \in Nat
               /\ line.kind # "admit" => stays <= was
               /\ line.kind = "admit" => stays <= was + 1
               /\ line.kind = "settle" /\ ~IsLate(f, line) => stays + 1 <= was
<1> DEFINE A == Active(Replay(f, line.tenant), line.at)
           B == Active(Replay(Append(f, line), line.tenant), clock)
           opened == [id |-> line.id, charge |-> line.charge, expires |-> line.expires]
<1>1. line \in Line /\ line.tenant \in Tenants
  BY DEF MayFollow, Line
<1>2. IsFiniteSet(A) /\ Cardinality(A) \in Nat
  BY <1>1, StandingType DEF Standing
<1>3. /\ line.kind # "admit" => B \subseteq A
      /\ line.kind = "admit" => B \subseteq A \cup {opened}
      /\ line.kind = "settle" => \A o \in B : o.id # line.id
  BY FollowActive
<1>4. line.kind = "settle" /\ ~IsLate(f, line) => \E o \in A : o.id = line.id
  BY SettledStood
<1>5. /\ Standing(f, line.tenant, line.at) = Cardinality(A)
      /\ Standing(Append(f, line), line.tenant, clock) = Cardinality(B)
  BY DEF Standing
<1> HIDE DEF A, B, opened
<1>6. IsFiniteSet(A \cup {opened}) /\ Cardinality(A \cup {opened}) <= Cardinality(A) + 1
  <2>1. CASE opened \in A
    <3>1. A \cup {opened} = A
      BY <2>1
    <3>2. QED
      BY <1>2, <3>1
  <2>2. CASE opened \notin A
    <3>1. IsFiniteSet(A \cup {opened})
      BY <1>2, FS_AddElement
    <3>2. Cardinality(A \cup {opened}) = Cardinality(A) + 1
      BY <1>2, <2>2, FS_AddElement
    <3>3. QED
      BY <1>2, <3>1, <3>2
  <2>3. QED
    BY <2>1, <2>2
<1>7. IsFiniteSet(B) /\ Cardinality(B) \in Nat
  <2>1. B \subseteq A \cup {opened}
    BY <1>3
  <2>2. QED
    BY <1>6, <2>1, FS_Subset, FS_CardinalityType
<1>8. line.kind # "admit" => Cardinality(B) <= Cardinality(A)
  BY <1>2, <1>3, FS_Subset
<1>9. line.kind = "admit" => Cardinality(B) <= Cardinality(A) + 1
  <2> SUFFICES ASSUME line.kind = "admit" PROVE Cardinality(B) <= Cardinality(A) + 1
    OBVIOUS
  <2>1. Cardinality(B) <= Cardinality(A \cup {opened})
    BY <1>3, <1>6, FS_Subset
  <2>2. Cardinality(A \cup {opened}) \in Nat
    BY <1>6, FS_CardinalityType
  <2>3. QED
    BY <1>2, <1>6, <1>7, <2>1, <2>2
<1>10. line.kind = "settle" /\ ~IsLate(f, line) => Cardinality(B) + 1 <= Cardinality(A)
  <2> SUFFICES ASSUME line.kind = "settle", ~IsLate(f, line)
               PROVE  Cardinality(B) + 1 <= Cardinality(A)
    OBVIOUS
  <2>1. PICK o \in A : o.id = line.id
    BY <1>4
  <2>2. o \notin B
    BY <1>3, <2>1
  <2>3. B \cup {o} \subseteq A
    BY <1>3, <2>1
  <2>4. Cardinality(B \cup {o}) = Cardinality(B) + 1
    BY <1>7, <2>2, FS_AddElement
  <2>5. Cardinality(B \cup {o}) <= Cardinality(A)
    BY <1>2, <2>3, FS_Subset
  <2>6. QED
    BY <2>4, <2>5
<1>11. QED
  BY <1>2, <1>5, <1>7, <1>8, <1>9, <1>10

(* The tenant of the line stays within its caps. *)
LEMMA FollowOwnCaps ==
    ASSUME NEW f \in Lines, Intact(f), SoundBook(f), NEW line, MayFollow(f, line),
           NEW clock \in Nat, line.at <= clock, CapsAt(f, line.tenant, line.at)
    PROVE  CapsAt(Append(f, line), line.tenant, clock)
<1> DEFINE t == line.tenant
           g == Append(f, line)
           a == Replay(f, t)
           s == Folded(a, line).sums
           c == Standing(f, t, line.at)
           d == Standing(g, t, clock)
           L == Cardinality(LateSettles(f, t))
           M == Cardinality(LateSettles(g, t))
           U == LateUnits(f, t)
           W == LateUnits(g, t)
           P == c * Reserve
           Q == d * Reserve
           charge == line.charge
           over == Excess(line)
<1>1. line \in Line /\ t \in Tenants
  BY DEF MayFollow, Line
<1>2. charge \in Nat /\ line.kind \in {"admit", "settle", "expire", "refuse"}
  BY <1>1 DEF Line
<1>3. a # Damaged /\ a \in Accounts
  BY <1>1, AccountOf DEF SoundBook
<1>4. Replay(g, t) = Folded(a, line)
  BY <1>3, FollowReplay
<1>5. a.sums.runs \in Nat /\ a.sums.units \in Nat
  BY <1>3 DEF Accounts, Sums
<1>6. /\ line.kind # "settle" => s.runs = a.sums.runs /\ s.units = a.sums.units
      /\ line.kind = "settle" =>
            s.runs = a.sums.runs + 1 /\ s.units = a.sums.units + charge
  BY <1>1, <1>2, <1>3, FoldedSums
<1>7. /\ c \in Nat /\ d \in Nat
      /\ line.kind # "admit" => d <= c
      /\ line.kind = "admit" => d <= c + 1
      /\ line.kind = "settle" /\ ~IsLate(f, line) => d + 1 <= c
  BY FollowStanding
<1>8. L \in Nat /\ U \in Nat
  BY LateType
<1>9. M = L + LateCount(f, line, t) /\ W = U + LateCharge(f, line, t)
  BY <1>1, FollowLate
<1>10. /\ line.kind # "settle" => M = L /\ W = U
       /\ line.kind = "settle" /\ IsLate(f, line) => M = L + 1 /\ W = U + charge
       /\ line.kind = "settle" /\ ~IsLate(f, line) => M = L /\ W = U + over
  BY <1>8, <1>9 DEF LateCount, LateCharge, IsSettleOf
<1>11. Reserve \in Nat /\ over \in Nat /\ charge <= over + Reserve
  BY <1>2 DEF Excess
<1>12. P \in Nat /\ Q \in Nat /\ (d <= c => Q <= P)
  BY <1>7, Products
<1>13. d <= c + 1 => Q <= P + Reserve
  BY <1>7, Products
<1>14. d + 1 <= c => Q + Reserve <= P
  BY <1>7, Products
<1>15. /\ ~Exceeds(MaxRuns[t], (a.sums.runs + c) - L)
       /\ ~Exceeds(MaxUnits[t], (a.sums.units + P) - U)
  BY CapsMeans
<1>16. line.kind = "admit" =>
          /\ ~Exceeds(MaxRuns[t], a.sums.runs + c + 1)
          /\ ~Exceeds(MaxUnits[t], a.sums.units + P + Reserve)
  BY DEF MayFollow, OverBudget, Projected, Standing
<1>17. CapsAt(g, t, clock) <=>
          /\ ~Exceeds(MaxRuns[t], (s.runs + d) - M)
          /\ ~Exceeds(MaxUnits[t], (s.units + Q) - W)
  BY <1>4, CapsMeans
<1> DEFINE R == a.sums.runs
           V == a.sums.units
<1> SUFFICES /\ ~Exceeds(MaxRuns[t], (s.runs + d) - M)
             /\ ~Exceeds(MaxUnits[t], (s.units + Q) - W)
  BY <1>17
<1> HIDE DEF t, g, a, s, c, d, L, M, U, W, P, Q, R, V, charge, over
<1>18. R \in Nat /\ V \in Nat
  BY <1>5 DEF R, V
<1>19. CASE line.kind = "admit"
  <2>1. /\ (s.runs + d) - M \in Int /\ R + c + 1 \in Int
        /\ (s.runs + d) - M <= R + c + 1
    BY <1>6, <1>7, <1>8, <1>10, <1>18, <1>19 DEF R
  <2>2. /\ (s.units + Q) - W \in Int /\ V + P + Reserve \in Int
        /\ (s.units + Q) - W <= V + P + Reserve
    BY <1>6, <1>7, <1>8, <1>10, <1>11, <1>12, <1>13, <1>18, <1>19 DEF V
  <2>3. QED
    BY <1>1, <1>16, <1>19, <2>1, <2>2, LessIsWithin DEF R, V
<1>20. CASE line.kind # "admit"
  <2>1. /\ (s.runs + d) - M \in Int /\ (R + c) - L \in Int
        /\ (s.runs + d) - M <= (R + c) - L
    BY <1>6, <1>7, <1>8, <1>10, <1>18, <1>20 DEF R
  <2>2. CASE line.kind # "settle"
    <3>1. /\ (s.units + Q) - W \in Int /\ (V + P) - U \in Int
          /\ (s.units + Q) - W <= (V + P) - U
      BY <1>6, <1>7, <1>8, <1>10, <1>12, <1>18, <1>20, <2>2 DEF V
    <3>2. QED
      BY <1>1, <1>15, <2>1, <3>1, LessIsWithin DEF R, V
  <2>3. CASE line.kind = "settle"
    <3>1. /\ (s.units + Q) - W \in Int /\ (V + P) - U \in Int
          /\ (s.units + Q) - W <= (V + P) - U
      BY <1>2, <1>6, <1>7, <1>8, <1>10, <1>11, <1>12, <1>14, <1>18, <2>3 DEF V
    <3>2. QED
      BY <1>1, <1>15, <2>1, <3>1, LessIsWithin DEF R, V
  <2>4. QED
    BY <2>2, <2>3
<1>21. QED
  BY <1>19, <1>20

(* So does every tenant, at any later instant. *)
LEMMA FollowCaps ==
    ASSUME NEW f \in Lines, Intact(f), SoundBook(f), NEW line, MayFollow(f, line),
           NEW clock \in Nat, line.at <= clock, CapsAt(f, line.tenant, line.at),
           NEW t \in Tenants, CapsAt(f, t, clock)
    PROVE  CapsAt(Append(f, line), t, clock)
<1>1. CASE t = line.tenant
  BY <1>1, FollowOwnCaps
<1>2. CASE t # line.tenant
  <2> DEFINE g == Append(f, line)
  <2>1. line \in Line
    BY DEF MayFollow
  <2>2. Replay(g, t) = Replay(f, t)
    BY <1>2, <2>1, FollowOthers
  <2>3. /\ Cardinality(LateSettles(g, t)) =
              Cardinality(LateSettles(f, t)) + LateCount(f, line, t)
        /\ LateUnits(g, t) = LateUnits(f, t) + LateCharge(f, line, t)
    BY FollowLate
  <2>4. LateCount(f, line, t) = 0 /\ LateCharge(f, line, t) = 0
    BY <1>2 DEF LateCount, LateCharge, IsSettleOf
  <2>5. /\ Cardinality(LateSettles(g, t)) = Cardinality(LateSettles(f, t))
        /\ LateUnits(g, t) = LateUnits(f, t)
    BY <2>3, <2>4, LateType
  <2> HIDE DEF g
  <2>6. CapsAt(g, t, clock) <=> CapsAt(f, t, clock)
    BY <2>2, <2>5, Zenon DEF CapsAt
  <2>7. QED
    BY <2>6 DEF g
<1>3. QED
  BY <1>1, <1>2

------------------------------------------------------------------------------
(***************************************************************************)
(* What a step of one caller does to the book.                             *)
(***************************************************************************)

(* The book is left alone, or a decided caller lands a piece on it: the    *)
(* line it decided, or bytes that do not parse.                            *)
BookKept == UNCHANGED <<file, cut, returned>>

BookWritten(c) ==
    /\ pc[c] = "decided"
    /\ \E piece \in {draft[c], Damaged} : file' = Landed(file, cut, piece)
    /\ cut' \in BOOLEAN

Returns(c) ==
    \/ returned' = returned
    \/ draft[c].kind = "settle" /\ returned' = returned \cup {draft[c].id}

LEMMA WriteReturnsWrites ==
    ASSUME NEW c, pc[c] = "decided", WriteReturns(draft[c])
    PROVE  BookWritten(c)
BY DEF WriteReturns, LandWhole, LandPrefix, LandWithoutBreak, BookWritten

LEMMA WriteRaisesWrites ==
    ASSUME NEW c, pc[c] = "decided", WriteRaises(draft[c]), returned' = returned
    PROVE  BookWritten(c) \/ BookKept
BY DEF WriteRaises, LandWhole, LandNothing, BookWritten, BookKept

LEMMA DeathWrites ==
    ASSUME NEW c, pc[c] = "decided", LandUntilDeath(draft[c]), returned' = returned
    PROVE  BookWritten(c) \/ BookKept
BY DEF LandUntilDeath, LandWhole, LandPrefix, LandWithoutBreak, LandNothing,
       BookWritten, BookKept

LEMMA StepsBook ==
    ASSUME NEW c \in Writers, Steps(c)
    PROVE  now' = now /\ (BookKept \/ (BookWritten(c) /\ Returns(c)))
<1>1. CASE StartRun(c)
  BY <1>1 DEF StartRun, logVars, BookKept
<1>2. CASE StartExpire(c)
  BY <1>2 DEF StartExpire, logVars, BookKept
<1>3. CASE Acquire(c)
  BY <1>3 DEF Acquire, BookKept
<1>4. CASE DecideAdmit(c)
  BY <1>4 DEF DecideAdmit, Decide, logVars, BookKept
<1>5. CASE DecideClose(c)
  BY <1>5 DEF DecideClose, Decide, logVars, BookKept
<1>6. CASE DecideRaises(c)
  BY <1>6 DEF DecideRaises, BookKept
<1>7. CASE WriteAdmit(c)
  BY <1>7, WriteReturnsWrites DEF WriteAdmit, Returns
<1>8. CASE WriteRefusal(c)
  BY <1>8, WriteReturnsWrites DEF WriteRefusal, Returns
<1>9. CASE WriteSettle(c)
  BY <1>9, WriteReturnsWrites DEF WriteSettle, Returns
<1>10. CASE WriteExpire(c)
  BY <1>10, WriteReturnsWrites DEF WriteExpire, Returns
<1>11. CASE WriteFails(c)
  BY <1>11, WriteRaisesWrites DEF WriteFails, Returns
<1>12. CASE ExecuteReturns(c)
  BY <1>12 DEF ExecuteReturns, logVars, BookKept
<1>13. CASE ExecuteRaises(c)
  BY <1>13 DEF ExecuteRaises, logVars, BookKept
<1>14. CASE Die(c)
  <2>1. now' = now /\ returned' = returned
    BY <1>14 DEF Die
  <2>2. CASE pc[c] = "decided"
    BY <1>14, <2>1, <2>2, DeathWrites DEF Die, Returns
  <2>3. CASE pc[c] # "decided"
    BY <1>14, <2>1, <2>3 DEF Die, LandNothing, BookKept
  <2>4. QED
    BY <2>2, <2>3
<1>15. QED
  BY <1>1, <1>2, <1>3, <1>4, <1>5, <1>6, <1>7, <1>8, <1>9, <1>10, <1>11, <1>12,
     <1>13, <1>14 DEF Steps

(* A caller moves itself only, and gives back only its own lock.           *)
LEMMA CallersApart ==
    ASSUME TypeOK, NEW c \in Writers, Steps(c)
    PROVE  /\ \E place : pc' = [pc EXCEPT ![c] = place]
           /\ task' = task \/ \E work : task' = [task EXCEPT ![c] = work]
           /\ draft' = draft \/ \E line : draft' = [draft EXCEPT ![c] = line]
           /\ \A other \in Writers \ {c} : holder = other => holder' = other
           /\ holder' \in Writers \cup {NoWriter}
<1> USE DEF Goto, Finish, NoDraft
<1>1. \E place : pc' = [pc EXCEPT ![c] = place]
  BY DEF Steps, StartRun, StartExpire, Acquire, Decide, DecideAdmit, DecideClose,
         DecideRaises, WriteAdmit, WriteRefusal, WriteSettle, WriteExpire, WriteFails,
         ExecuteReturns, ExecuteRaises, Die
<1>2. task' = task \/ \E work : task' = [task EXCEPT ![c] = work]
  BY DEF Steps, StartRun, StartExpire, Acquire, Decide, DecideAdmit, DecideClose,
         DecideRaises, WriteAdmit, WriteRefusal, WriteSettle, WriteExpire, WriteFails,
         ExecuteReturns, ExecuteRaises, Die
<1>3. draft' = draft \/ \E line : draft' = [draft EXCEPT ![c] = line]
  BY DEF Steps, StartRun, StartExpire, Acquire, Decide, DecideAdmit, DecideClose,
         DecideRaises, WriteAdmit, WriteRefusal, WriteSettle, WriteExpire, WriteFails,
         ExecuteReturns, ExecuteRaises, Die
<1>4. \/ holder' = holder
      \/ holder = NoWriter /\ holder' = c
      \/ holder' = Unlocked(c)
  BY DEF Steps, StartRun, StartExpire, Acquire, Decide, DecideAdmit, DecideClose,
         DecideRaises, WriteAdmit, WriteRefusal, WriteSettle, WriteExpire, WriteFails,
         ExecuteReturns, ExecuteRaises, Die, logVars, Lock, LockFree, Unlock,
         UnlockOnRaise
<1>5. holder \in Writers \cup {NoWriter}
  BY DEF TypeOK
<1>6. QED
  BY <1>1, <1>2, <1>3, <1>4, <1>5, LogAssumption DEF Unlocked

------------------------------------------------------------------------------
(***************************************************************************)
(* What a decision rests on.                                               *)
(***************************************************************************)

(* What the inductive invariant says of the book at an instant. *)
WithinCaps(f, clock) == \A t \in Tenants : CapsAt(f, t, clock)

(* A line that a caller has decided, and that still may come next. *)
Decided(f, line, clock) ==
    /\ Intact(f)
    /\ MayFollow(f, line)
    /\ line.at <= clock
    /\ CapsAt(f, line.tenant, line.at)

(* What TypeOK and DraftsStand say of one caller. *)
CallerStands(c, place, work, line, f, h, clock) ==
    /\ place \in {"idle", "waiting", "locked", "decided", "running"}
    /\ work \in Task
    /\ line \in Line \cup {Damaged}
    /\ place \in {"locked", "decided"} => h = c
    /\ place # "idle" => work.tenant \in Tenants
    /\ place = "decided" => Decided(f, line, clock)

LEMMA SealedLine ==
    ASSUME NEW a \in Accounts, NEW line \in Line
    PROVE  /\ Sealed(a, line) \in Line
           /\ Sealed(a, line) = [kind |-> line.kind, tenant |-> line.tenant,
                 id |-> line.id, charge |-> line.charge, unknown |-> line.unknown,
                 at |-> line.at, expires |-> line.expires,
                 totals |-> Folded(a, line).sums]
           /\ Folded(a, Sealed(a, line)) = Folded(a, line)
<1> DEFINE sums == Folded(a, line).sums
           sealed == [kind |-> line.kind, tenant |-> line.tenant,
                      id |-> line.id, charge |-> line.charge, unknown |-> line.unknown,
                      at |-> line.at, expires |-> line.expires, totals |-> sums]
<1>1. sums \in Sums
  BY FoldedType DEF Accounts
<1>2. Sealed(a, line) = [line EXCEPT !.totals = sums]
  BY DEF Sealed
<1> HIDE DEF sums
<1>3. Sealed(a, line) = sealed
  BY <1>2 DEF Line
<1>4. sealed \in Line
  BY <1>1 DEF Line
<1>5. Folded(a, sealed) = Folded(a, line)
  BY DEF Folded, Close
<1>6. QED
  BY <1>3, <1>4, <1>5 DEF sums

(* The lines the operations write are lines. *)
LEMMA LineOfType ==
    ASSUME TypeOK, NEW c \in Writers, task[c].tenant \in Tenants,
           NEW kind \in {"admit", "settle", "expire", "refuse"}
    PROVE  /\ LineOf(c, kind) \in Line
           /\ LineOf(c, kind).kind = kind
           /\ LineOf(c, kind).tenant = task[c].tenant
           /\ LineOf(c, kind).id = task[c].id
           /\ LineOf(c, kind).at = now
<1>1. task[c] \in Task /\ now \in Nat
  BY DEF TypeOK
<1>2. NoSums \in Sums
  BY DEF NoSums, Sums
<1>3. QED
  BY <1>1, <1>2 DEF LineOf, Task, Line

LEMMA AdmitLineType ==
    ASSUME TypeOK, NEW c \in Writers, task[c].tenant \in Tenants
    PROVE  /\ AdmitLine(c) \in Line
           /\ AdmitLine(c).kind = "admit"
           /\ AdmitLine(c).tenant = task[c].tenant
           /\ AdmitLine(c).id = FreshId(c)
           /\ AdmitLine(c).at = now
<1>1. task[c] \in Task /\ now \in Nat /\ file \in Lines
  BY DEF TypeOK, Lines, LogOver
<1>2. NoSums \in Sums
  BY DEF NoSums, Sums
<1>3. FreshId(c) \in Ids
  BY <1>1, LogLines DEF FreshId, Ids, Lines
<1>4. AdmitLine(c) = [kind |-> "admit", tenant |-> task[c].tenant, id |-> FreshId(c),
         charge |-> Reserve, unknown |-> task[c].unknown, at |-> now,
         expires |-> now + TTL, totals |-> NoSums]
  <2> DEFINE line == LineOf(c, "admit")
             id == FreshId(c)
             lapse == now + TTL
  <2>1. line \in Line
    BY LineOfType
  <2>2. /\ line.kind = "admit" /\ line.tenant = task[c].tenant
        /\ line.unknown = task[c].unknown /\ line.at = now /\ line.totals = NoSums
    BY DEF LineOf
  <2> HIDE DEF line, id, lapse
  <2>3. [line EXCEPT !.id = id, !.charge = Reserve, !.expires = lapse] =
           [kind |-> line.kind, tenant |-> line.tenant, id |-> id, charge |-> Reserve,
            unknown |-> line.unknown, at |-> line.at, expires |-> lapse,
            totals |-> line.totals]
    <3> DEFINE first == [line EXCEPT !.id = id]
               second == [first EXCEPT !.charge = Reserve]
               third == [second EXCEPT !.expires = lapse]
    <3>1. first = [kind |-> line.kind, tenant |-> line.tenant, id |-> id,
                   charge |-> line.charge, unknown |-> line.unknown, at |-> line.at,
                   expires |-> line.expires, totals |-> line.totals]
      BY <2>1 DEF Line
    <3> HIDE DEF first
    <3>2. second = [kind |-> line.kind, tenant |-> line.tenant, id |-> id,
                    charge |-> Reserve, unknown |-> line.unknown, at |-> line.at,
                    expires |-> line.expires, totals |-> line.totals]
      BY <3>1
    <3> HIDE DEF second
    <3>3. third = [kind |-> line.kind, tenant |-> line.tenant, id |-> id,
                   charge |-> Reserve, unknown |-> line.unknown, at |-> line.at,
                   expires |-> lapse, totals |-> line.totals]
      BY <3>2
    <3>4. [line EXCEPT !.id = id, !.charge = Reserve, !.expires = lapse] = third
      BY DEF third, second, first
    <3>5. QED
      BY <3>3, <3>4
  <2>4. QED
    BY <2>2, <2>3 DEF AdmitLine, line, id, lapse
<1>5. now + TTL \in Nat
  BY <1>1
<1>6. QED
  BY <1>1, <1>2, <1>3, <1>4, <1>5 DEF Task, Line

(* A decision on an account that replays may come next, as long as its     *)
(* line admits within the caps, or ends an admission that is open.         *)
LEMMA DecisionMayFollow ==
    ASSUME NEW f \in Lines, NEW clock \in Nat, WithinCaps(f, clock) \/ ~Intact(f),
           NEW line \in Line, line.at = clock, Replay(f, line.tenant) # Damaged,
           line.kind = "admit" =>
              /\ line.id \in Writers \X {Len(f)}
              /\ ~OverBudget(line.tenant, Replay(f, line.tenant), clock),
           line.kind \in {"settle", "expire"} =>
              line.id \in OpenIds(Replay(f, line.tenant))
    PROVE  /\ Sealed(Replay(f, line.tenant), line) \in Line
           /\ Decided(f, Sealed(Replay(f, line.tenant), line), clock)
<1> DEFINE a == Replay(f, line.tenant)
           sealed == Sealed(a, line)
<1>1. a \in Accounts
  BY AccountOf
<1>2. /\ sealed \in Line
      /\ sealed.kind = line.kind /\ sealed.tenant = line.tenant /\ sealed.id = line.id
      /\ sealed.at = line.at /\ sealed.totals = Folded(a, line).sums
      /\ Folded(a, sealed) = Folded(a, line)
  BY <1>1, SealedLine
<1>3. Intact(f)
  BY DamageRefuses
<1>4. line.tenant \in Tenants
  BY DEF Line
<1>5. CapsAt(f, line.tenant, clock)
  BY <1>3, <1>4 DEF WithinCaps
<1>6. Replay(f, sealed.tenant) = a
  BY <1>2
<1> HIDE DEF a, sealed
<1>7. MayFollow(f, sealed)
  BY <1>2, <1>6 DEF MayFollow, a
<1>8. Decided(f, sealed, clock)
  BY <1>2, <1>3, <1>5, <1>7 DEF Decided
<1>9. QED
  BY <1>2, <1>8 DEF a, sealed

LEMMA Standstill ==
    ASSUME TypeOK, DraftsStand, NEW c \in Writers
    PROVE  CallerStands(c, pc[c], task[c], draft[c], file, holder, now)
<1>1. /\ pc[c] \in {"idle", "waiting", "locked", "decided", "running"}
      /\ task[c] \in Task /\ draft[c] \in Line \cup {Damaged}
  BY DEF TypeOK
<1>2. QED
  BY <1>1 DEF DraftsStand, CallerStands, Decided

(* Each step leaves the caller that takes it where the invariant wants it. *)
LEMMA StepsStand ==
    ASSUME TypeOK, DraftsStand, WithinCaps(file, now) \/ ~Intact(file),
           NEW c \in Writers, Steps(c)
    PROVE  CallerStands(c, pc'[c], task'[c], draft'[c], file', holder', now')
<1> DEFINE Goal == CallerStands(c, pc'[c], task'[c], draft'[c], file', holder', now')
<1>1. /\ DOMAIN pc = Writers /\ DOMAIN task = Writers /\ DOMAIN draft = Writers
      /\ task[c] \in Task /\ draft[c] \in Line \cup {Damaged}
      /\ file \in Lines /\ now \in Nat
  BY DEF TypeOK, Lines, LogOver
<1>2. /\ pc[c] \in {"locked", "decided"} => holder = c
      /\ pc[c] # "idle" => task[c].tenant \in Tenants
      /\ pc[c] = "decided" => MayFollow(file, draft[c])
  BY DEF DraftsStand
<1>3. NoTask \in Task
  BY DEF NoTask, Task, Ids
<1>4. ASSUME Finish(c) PROVE Goal
  <2>1. pc'[c] = "idle" /\ task'[c] = NoTask /\ draft'[c] = Damaged
    BY <1>1, <1>4 DEF Finish, Goto, NoDraft
  <2>2. QED
    BY <1>3, <2>1 DEF CallerStands
<1>5. CASE StartRun(c)
  <2>1. PICK t \in Tenants :
           task' = [task EXCEPT ![c] = [NoTask EXCEPT !.op = "admit", !.tenant = t]]
    BY <1>5 DEF StartRun
  <2>2. task'[c] = [op |-> "admit", tenant |-> t, id |-> NoId, charge |-> 0,
                    unknown |-> FALSE]
    BY <1>1, <2>1 DEF NoTask
  <2>3. task'[c] \in Task /\ task'[c].tenant \in Tenants
    BY <2>2 DEF Task
  <2>4. pc'[c] = "waiting" /\ draft'[c] = draft[c]
    BY <1>1, <1>5 DEF StartRun, Goto
  <2>5. QED
    BY <1>1, <2>3, <2>4 DEF CallerStands
<1>6. CASE StartExpire(c)
  <2>1. PICK t \in Tenants :
           /\ Replay(file, t) # Damaged
           /\ \E id \in OpenIds(Replay(file, t)) :
                 task' = [task EXCEPT ![c] =
                             [NoTask EXCEPT !.op = "expire", !.tenant = t, !.id = id]]
    BY <1>6 DEF StartExpire
  <2>2. PICK id \in OpenIds(Replay(file, t)) :
           task' = [task EXCEPT ![c] =
                       [NoTask EXCEPT !.op = "expire", !.tenant = t, !.id = id]]
    BY <2>1
  <2>3. id \in Ids \cup {NoId}
    BY <1>1, <2>1, <2>2, AccountOf DEF OpenIds, Accounts, Admission
  <2>4. task'[c] = [op |-> "expire", tenant |-> t, id |-> id, charge |-> 0,
                    unknown |-> FALSE]
    BY <1>1, <2>2 DEF NoTask
  <2>5. task'[c] \in Task /\ task'[c].tenant \in Tenants
    BY <2>3, <2>4 DEF Task
  <2>6. pc'[c] = "waiting" /\ draft'[c] = draft[c]
    BY <1>1, <1>6 DEF StartExpire, Goto
  <2>7. QED
    BY <1>1, <2>5, <2>6 DEF CallerStands
<1>7. CASE Acquire(c)
  <2>1. /\ pc'[c] = "locked" /\ task'[c] = task[c] /\ draft'[c] = draft[c]
        /\ holder' = c /\ task[c].tenant \in Tenants
    BY <1>1, <1>2, <1>7 DEF Acquire, Goto, Lock
  <2>2. QED
    BY <1>1, <2>1 DEF CallerStands
<1>8. ASSUME NEW line \in Line, Decide(c, line), pc[c] = "locked", Account(c) # Damaged,
             line.at = now, line.tenant = task[c].tenant,
             line.kind = "admit" =>
                /\ line.id \in Writers \X {Len(file)}
                /\ ~OverBudget(task[c].tenant, Account(c), now),
             line.kind \in {"settle", "expire"} => line.id \in OpenIds(Account(c))
      PROVE  Goal
  <2> DEFINE sealed == Sealed(Account(c), line)
  <2>1. /\ pc'[c] = "decided" /\ draft'[c] = sealed /\ task'[c] = task[c]
        /\ file' = file /\ holder' = holder /\ now' = now
    BY <1>1, <1>8 DEF Decide, Goto, logVars
  <2>2. Account(c) = Replay(file, line.tenant)
    BY <1>8 DEF Account
  <2>3. sealed \in Line /\ Decided(file, sealed, now)
    BY <1>1, <1>8, <2>2, DecisionMayFollow
  <2> HIDE DEF sealed
  <2>4. QED
    BY <1>1, <1>2, <1>8, <2>1, <2>3 DEF CallerStands
<1>9. CASE DecideAdmit(c)
  <2>1. /\ pc[c] = "locked" /\ Account(c) # Damaged /\ task[c].tenant \in Tenants
        /\ Decide(c, IF OverBudget(task[c].tenant, Account(c), now)
                     THEN LineOf(c, "refuse") ELSE AdmitLine(c))
    BY <1>2, <1>9 DEF DecideAdmit
  <2>2. CASE OverBudget(task[c].tenant, Account(c), now)
    <3>1. Decide(c, LineOf(c, "refuse"))
      BY <2>1, <2>2
    <3>2. /\ LineOf(c, "refuse") \in Line /\ LineOf(c, "refuse").kind = "refuse"
          /\ LineOf(c, "refuse").at = now
          /\ LineOf(c, "refuse").tenant = task[c].tenant
      BY <2>1, LineOfType
    <3>3. QED
      BY <1>8, <2>1, <3>1, <3>2
  <2>3. CASE ~OverBudget(task[c].tenant, Account(c), now)
    <3>1. Decide(c, AdmitLine(c))
      BY <2>1, <2>3
    <3>2. /\ AdmitLine(c) \in Line /\ AdmitLine(c).kind = "admit"
          /\ AdmitLine(c).at = now /\ AdmitLine(c).tenant = task[c].tenant
          /\ AdmitLine(c).id = FreshId(c)
      BY <2>1, AdmitLineType
    <3>3. FreshId(c) \in Writers \X {Len(file)}
      BY DEF FreshId
    <3>4. QED
      BY <1>8, <2>1, <2>3, <3>1, <3>2, <3>3
  <2>4. QED
    BY <2>2, <2>3
<1>10. CASE DecideClose(c)
  <2>1. /\ pc[c] = "locked" /\ Account(c) # Damaged /\ task[c].tenant \in Tenants
        /\ task[c].op \in {"settle", "expire"}
        /\ task[c].id \in OpenIds(Account(c))
        /\ Decide(c, LineOf(c, task[c].op))
    BY <1>2, <1>10 DEF DecideClose, Closable
  <2>2. PICK kind \in {"settle", "expire"} : kind = task[c].op
    BY <2>1
  <2>3. /\ LineOf(c, kind) \in Line /\ LineOf(c, kind).kind = kind
        /\ LineOf(c, kind).at = now /\ LineOf(c, kind).id = task[c].id
        /\ LineOf(c, kind).tenant = task[c].tenant
    BY <2>1, <2>2, LineOfType
  <2>4. Decide(c, LineOf(c, kind))
    BY <2>1, <2>2
  <2>5. QED
    BY <1>8, <2>1, <2>2, <2>3, <2>4
<1>11. CASE WriteAdmit(c)
  <2>1. /\ pc[c] = "decided" /\ pc'[c] = "running" /\ draft'[c] = Damaged
        /\ task' = [task EXCEPT ![c].id = draft[c].id]
    BY <1>1, <1>11 DEF WriteAdmit, Goto, NoDraft
  <2>2. task[c].tenant \in Tenants /\ draft[c] \in Line
    BY <1>2, <2>1 DEF MayFollow
  <2>3. task'[c] = [task[c] EXCEPT !.id = draft[c].id]
    BY <1>1, <2>1
  <2>4. task'[c] \in Task /\ task'[c].tenant = task[c].tenant
    BY <1>1, <2>2, <2>3 DEF Task, Line
  <2>5. QED
    BY <2>1, <2>2, <2>4 DEF CallerStands
<1>12. CASE WriteRefusal(c)
  BY <1>4, <1>12 DEF WriteRefusal
<1>13. CASE WriteSettle(c)
  BY <1>4, <1>13 DEF WriteSettle
<1>14. CASE WriteExpire(c)
  BY <1>4, <1>14 DEF WriteExpire
<1>15. CASE WriteFails(c)
  BY <1>4, <1>15 DEF WriteFails
<1>16. CASE DecideRaises(c)
  BY <1>4, <1>16 DEF DecideRaises
<1>17. CASE Die(c)
  BY <1>4, <1>17 DEF Die
<1>18. CASE ExecuteReturns(c)
  <2>1. PICK charge \in Charges, unknown \in BOOLEAN :
           task' = [task EXCEPT ![c].op = "settle", ![c].charge = charge,
                                ![c].unknown = unknown]
    BY <1>18 DEF ExecuteReturns
  <2>2. task'[c] = [op |-> "settle", tenant |-> task[c].tenant, id |-> task[c].id,
                    charge |-> charge, unknown |-> unknown]
    BY <1>1, <2>1 DEF Task
  <2>3. task[c].tenant \in Tenants
    BY <1>2, <1>18 DEF ExecuteReturns
  <2>4. charge \in Nat
    BY TenantAssumption
  <2>5. task'[c] \in Task /\ task'[c].tenant \in Tenants
    BY <1>1, <2>2, <2>3, <2>4 DEF Task
  <2>6. pc'[c] = "waiting" /\ draft'[c] = draft[c]
    BY <1>1, <1>18 DEF ExecuteReturns, Goto
  <2>7. QED
    BY <1>1, <2>5, <2>6 DEF CallerStands
<1>19. CASE ExecuteRaises(c)
  <2>1. task' = [task EXCEPT ![c].op = "expire"] /\ task[c].tenant \in Tenants
    BY <1>2, <1>19 DEF ExecuteRaises
  <2>2. task'[c] = [task[c] EXCEPT !.op = "expire"]
    BY <1>1, <2>1
  <2>3. task'[c] \in Task /\ task'[c].tenant \in Tenants
    BY <1>1, <2>1, <2>2 DEF Task
  <2>4. pc'[c] = "waiting" /\ draft'[c] = draft[c]
    BY <1>1, <1>19 DEF ExecuteRaises, Goto
  <2>5. QED
    BY <1>1, <2>3, <2>4 DEF CallerStands
<1> HIDE DEF Goal
<1>20. QED
  BY <1>5, <1>6, <1>7, <1>9, <1>10, <1>11, <1>12, <1>13, <1>14, <1>15, <1>16, <1>17,
     <1>18, <1>19 DEF Steps

------------------------------------------------------------------------------
(***************************************************************************)
(* The inductive invariant of the tenant book.                             *)
(***************************************************************************)
Billed(f, done) ==
    \A id \in done : \E i \in DOMAIN f : f[i].kind = "settle" /\ f[i].id = id

(* What holds of a book no line of which is damaged. *)
GoodBook(f, clock, done) ==
    /\ SoundBook(f)
    /\ EndsOnce(f)
    /\ DropsShow(f)
    /\ WithinCaps(f, clock)
    /\ Billed(f, done)

BookInv ==
    /\ TenantInv
    /\ CapsHoldButForLateSettles
    /\ DroppedChargeShows
    /\ ReturnedRunsAreBilled

BookGood == Intact(file) => GoodBook(file, now, returned)

LEMMA BookMeans ==
    BookInv <=> TypeOK /\ DraftsStand /\ BookGood
<1>1. ASSUME BookInv PROVE BookGood
  <2> SUFFICES ASSUME Intact(file) PROVE GoodBook(file, now, returned)
    BY DEF BookGood
  <2>1. IntactBookReplays /\ AdmissionsAreOwn /\ AdmissionEndsOnce
    BY <1>1 DEF BookInv, TenantInv
  <2>2. SoundBook(file)
    BY <2>1 DEF SoundBook, IntactBookReplays, AdmissionsAreOwn
  <2>3. EndsOnce(file)
    BY <2>1 DEF EndsOnce, AdmissionEndsOnce
  <2>4. DropsShow(file)
    BY <1>1 DEF BookInv, DroppedChargeShows, DropsShow
  <2>5. WithinCaps(file, now)
    BY <1>1, <2>2 DEF BookInv, CapsHoldButForLateSettles, SoundBook, WithinCaps
  <2>6. Billed(file, returned)
    BY <1>1 DEF BookInv, ReturnedRunsAreBilled, Billed
  <2>7. QED
    BY <2>2, <2>3, <2>4, <2>5, <2>6 DEF GoodBook
<1>2. ASSUME TypeOK, DraftsStand, BookGood PROVE BookInv
  <2> USE DEF BookGood
  <2>1. IntactBookReplays /\ AdmissionsAreOwn
    BY <1>2 DEF GoodBook, SoundBook, IntactBookReplays, AdmissionsAreOwn
  <2>2. AdmissionEndsOnce
    BY <1>2 DEF GoodBook, EndsOnce, AdmissionEndsOnce
  <2>3. TenantInv
    BY <1>2, <2>1, <2>2 DEF TenantInv
  <2>4. CapsHoldButForLateSettles
    BY <1>2 DEF GoodBook, CapsHoldButForLateSettles, WithinCaps
  <2>5. DroppedChargeShows
    BY <1>2 DEF GoodBook, DroppedChargeShows, DropsShow
  <2>6. ReturnedRunsAreBilled
    BY <1>2 DEF GoodBook, ReturnedRunsAreBilled, Billed
  <2>7. QED
    BY <2>3, <2>4, <2>5, <2>6 DEF BookInv
<1>3. BookInv => TypeOK /\ DraftsStand
  BY DEF BookInv, TenantInv
<1>4. QED
  BY <1>1, <1>2, <1>3

(* A book that is continued as decided stays good. *)
LEMMA FollowGood ==
    ASSUME NEW f \in Lines, NEW clock \in Nat, NEW done, GoodBook(f, clock, done),
           NEW line, Decided(f, line, clock), NEW doneNow,
           doneNow \subseteq done \cup {line.id},
           line.kind = "settle" \/ doneNow = done
    PROVE  GoodBook(Append(f, line), clock, doneNow)
<1> DEFINE g == Append(f, line)
<1>1. /\ SoundBook(f) /\ EndsOnce(f) /\ DropsShow(f)
      /\ WithinCaps(f, clock) /\ Billed(f, done)
  BY DEF GoodBook
<1>2. /\ Intact(f) /\ MayFollow(f, line) /\ line.at <= clock
      /\ CapsAt(f, line.tenant, line.at)
  BY DEF Decided
<1>3. SoundBook(g) /\ EndsOnce(g)
  BY <1>1, <1>2, FollowSound
<1>4. DropsShow(g)
  BY <1>1, <1>2, FollowDrops
<1>5. WithinCaps(g, clock)
  <2> SUFFICES ASSUME NEW t \in Tenants PROVE CapsAt(g, t, clock)
    BY DEF WithinCaps
  <2>1. CapsAt(f, t, clock)
    BY <1>1 DEF WithinCaps
  <2>2. QED
    BY <1>1, <1>2, <2>1, FollowCaps
<1>6. Billed(g, doneNow)
  <2>1. line \in Line
    BY <1>2 DEF MayFollow
  <2>2. /\ Len(f) \in Nat /\ DOMAIN f = 1..Len(f)
        /\ DOMAIN g = 1..(Len(f) + 1) /\ g[Len(f) + 1] = line
        /\ \A i \in 1..Len(f) : g[i] = f[i]
    BY <2>1, AppendProperties, LogLines DEF LogOver, Lines
  <2> HIDE DEF g
  <2>3. ASSUME NEW id \in doneNow
        PROVE  \E i \in DOMAIN g : g[i].kind = "settle" /\ g[i].id = id
    <3>1. CASE id \in done
      <4>1. PICK i \in DOMAIN f : f[i].kind = "settle" /\ f[i].id = id
        BY <1>1, <3>1 DEF Billed
      <4>2. i \in DOMAIN g /\ g[i] = f[i]
        BY <2>2
      <4>3. QED
        BY <4>1, <4>2
    <3>2. CASE id \notin done
      <4>1. line.kind = "settle" /\ id = line.id
        BY <3>2
      <4>2. Len(f) + 1 \in DOMAIN g
        BY <2>2
      <4>3. QED
        BY <2>2, <4>1, <4>2
    <3>3. QED
      BY <3>1, <3>2
  <2>4. QED
    BY <2>3 DEF Billed
<1>7. QED
  BY <1>3, <1>4, <1>5, <1>6 DEF GoodBook

(* What a settle line bills has an id of its own. *)
LEMMA SettledId ==
    ASSUME NEW f \in Lines, SoundBook(f), NEW line, MayFollow(f, line),
           line.kind = "settle"
    PROVE  line.id \in Ids
<1>1. line.tenant \in Tenants /\ line.id \in OpenIds(Replay(f, line.tenant))
  BY DEF MayFollow, Line
<1>2. PICK j \in DOMAIN f : f[j].kind = "admit" /\ f[j].id = line.id
  BY <1>1, OpenId DEF SoundBook
<1>3. f[j].id \in Writers \X {j - 1}
  BY <1>2 DEF SoundBook, IdsAreOwn
<1>4. j - 1 \in Nat
  BY LogLines DEF Lines
<1>5. QED
  BY <1>2, <1>3, <1>4 DEF Ids

LEMMA BookStep ==
    ASSUME TypeOK, DraftsStand, Intact(file) => GoodBook(file, now, returned),
           NEW c \in Writers, Steps(c)
    PROVE  /\ file' \in Lines
           /\ cut' \in BOOLEAN
           /\ cut' => file' # <<>>
           /\ returned' \subseteq Ids
           /\ now' = now
           /\ pc[c] # "decided" => file' = file
           /\ Intact(file') => GoodBook(file', now', returned')
<1>1. /\ file \in Lines /\ cut \in BOOLEAN /\ (cut => file # <<>>)
      /\ returned \subseteq Ids /\ now \in Nat
  BY DEF TypeOK, Lines, LogOver
<1>2. now' = now
  BY StepsBook
<1>3. CASE BookKept
  BY <1>1, <1>2, <1>3 DEF BookKept
<1>4. CASE BookWritten(c) /\ Returns(c)
  <2>1. pc[c] = "decided" /\ cut' \in BOOLEAN
    BY <1>4 DEF BookWritten
  <2>2. PICK piece \in {draft[c], Damaged} : file' = Landed(file, cut, piece)
    BY <1>4 DEF BookWritten
  <2>3. Decided(file, draft[c], now)
    BY <2>1 DEF DraftsStand, Decided
  <2>4. draft[c] \in Line /\ Intact(file) /\ MayFollow(file, draft[c])
    BY <2>3 DEF Decided, MayFollow
  <2>5. GoodBook(file, now, returned)
    BY <2>4
  <2>6. piece \in Line \cup {Damaged}
    BY <2>2, <2>4
  <2>7. file' \in Lines /\ file' # <<>>
    BY <1>1, <2>2, <2>6, LandedType DEF Lines
  <2>8. /\ returned' \subseteq returned \cup {draft[c].id}
        /\ draft[c].kind = "settle" \/ returned' = returned
    BY <1>4 DEF Returns
  <2>9. returned' \subseteq Ids
    <3>1. draft[c].kind = "settle" => draft[c].id \in Ids
      BY <1>1, <2>4, <2>5, SettledId DEF GoodBook
    <3>2. QED
      BY <1>1, <2>8, <3>1
  <2>10. ASSUME Intact(file') PROVE GoodBook(file', now', returned')
    <3>1. piece # Damaged /\ file' = Append(file, piece)
      BY <1>1, <2>2, <2>6, <2>10, LandedIntact DEF Lines
    <3>2. file' = Append(file, draft[c])
      BY <2>2, <3>1
    <3>3. GoodBook(Append(file, draft[c]), now, returned')
      BY <1>1, <2>3, <2>5, <2>8, FollowGood
    <3>4. QED
      BY <1>2, <3>2, <3>3
  <2>11. QED
    BY <1>2, <2>1, <2>7, <2>9, <2>10
<1>5. QED
  BY <1>3, <1>4, StepsBook

(* The steps of one caller: everybody's draft still stands. *)
LEMMA CallersStep ==
    ASSUME TypeOK, DraftsStand, Intact(file) => GoodBook(file, now, returned),
           NEW c \in Writers, Steps(c)
    PROVE  TypeOK' /\ DraftsStand'
<1>1. /\ file' \in Lines /\ cut' \in BOOLEAN /\ (cut' => file' # <<>>)
      /\ returned' \subseteq Ids /\ now' = now
      /\ pc[c] # "decided" => file' = file
  BY BookStep
<1>2. CallerStands(c, pc'[c], task'[c], draft'[c], file', holder', now')
  BY StepsStand DEF GoodBook
<1>3. /\ DOMAIN pc = Writers /\ DOMAIN task = Writers /\ DOMAIN draft = Writers
      /\ pc = [v \in Writers |-> pc[v]]
      /\ task = [v \in Writers |-> task[v]]
      /\ draft = [v \in Writers |-> draft[v]]
      /\ now \in Nat
  BY DEF TypeOK
<1>4. PICK place : pc' = [pc EXCEPT ![c] = place]
  BY CallersApart
<1>5. task' = task \/ \E work : task' = [task EXCEPT ![c] = work]
  BY CallersApart
<1>6. draft' = draft \/ \E line : draft' = [draft EXCEPT ![c] = line]
  BY CallersApart
<1>7. /\ \A other \in Writers \ {c} : holder = other => holder' = other
      /\ holder' \in Writers \cup {NoWriter}
  BY CallersApart
<1>8. /\ pc' = [v \in Writers |-> pc'[v]]
      /\ \A v \in Writers \ {c} : pc'[v] = pc[v]
  BY <1>3, <1>4
<1>9. /\ task' = [v \in Writers |-> task'[v]]
      /\ \A v \in Writers \ {c} : task'[v] = task[v]
  BY <1>3, <1>5
<1>10. /\ draft' = [v \in Writers |-> draft'[v]]
       /\ \A v \in Writers \ {c} : draft'[v] = draft[v]
  BY <1>3, <1>6
<1>11. ASSUME NEW v \in Writers
       PROVE  CallerStands(v, pc'[v], task'[v], draft'[v], file', holder', now')
  <2>1. CASE v = c
    BY <1>2, <2>1
  <2>2. CASE v # c
    <3>1. /\ pc'[v] = pc[v] /\ task'[v] = task[v] /\ draft'[v] = draft[v]
          /\ holder = v => holder' = v
      BY <1>7, <1>8, <1>9, <1>10, <2>2
    <3>2. CallerStands(v, pc[v], task[v], draft[v], file, holder, now)
      BY Standstill
    <3>3. pc[v] \in {"locked", "decided"} => file' = file
      <4> SUFFICES ASSUME pc[v] \in {"locked", "decided"}, pc[c] = "decided"
                   PROVE  FALSE
        BY <1>1
      <4>1. holder = v /\ holder = c
        BY DEF DraftsStand
      <4>2. QED
        BY <2>2, <4>1
    <3>4. QED
      BY <1>1, <3>1, <3>2, <3>3 DEF CallerStands
  <2>3. QED
    BY <2>1, <2>2
<1>12. /\ pc' \in [Writers -> {"idle", "waiting", "locked", "decided", "running"}]
       /\ task' \in [Writers -> Task]
       /\ draft' \in [Writers -> Line \cup {Damaged}]
  BY <1>8, <1>9, <1>10, <1>11 DEF CallerStands
<1>13. TypeOK'
  BY <1>1, <1>3, <1>7, <1>12 DEF TypeOK, Lines, LogOver
<1>14. DraftsStand'
  BY <1>11 DEF DraftsStand, CallerStands, Decided
<1>15. QED
  BY <1>13, <1>14

LEMMA TickStep ==
    ASSUME TypeOK, DraftsStand, Intact(file) => GoodBook(file, now, returned), Tick
    PROVE  /\ TypeOK'
           /\ DraftsStand'
           /\ Intact(file') => GoodBook(file', now', returned')
<1>1. /\ file' = file /\ cut' = cut /\ holder' = holder /\ now' = now + 1
      /\ pc' = pc /\ task' = task /\ draft' = draft /\ returned' = returned
  BY DEF Tick, logVars
<1>2. now \in Nat /\ now' \in Nat /\ now <= now'
  BY <1>1 DEF TypeOK
<1>3. TypeOK'
  BY <1>1, <1>2 DEF TypeOK
<1>4. DraftsStand'
  <2> SUFFICES ASSUME NEW c \in Writers
               PROVE  /\ pc[c] \in {"locked", "decided"} => holder = c
                      /\ pc[c] # "idle" => task[c].tenant \in Tenants
                      /\ pc[c] = "decided" => /\ Intact(file)
                                              /\ MayFollow(file, draft[c])
                                              /\ draft[c].at <= now'
                                              /\ CapsAt(file, draft[c].tenant, draft[c].at)
    BY <1>1 DEF DraftsStand
  <2>1. pc[c] = "decided" => draft[c].at <= now'
    <3> SUFFICES ASSUME pc[c] = "decided" PROVE draft[c].at <= now'
      OBVIOUS
    <3>1. draft[c].at <= now /\ MayFollow(file, draft[c])
      BY DEF DraftsStand
    <3>2. draft[c].at \in Nat
      BY <3>1 DEF MayFollow, Line
    <3>3. QED
      BY <1>2, <3>1, <3>2
  <2>2. QED
    BY <2>1 DEF DraftsStand
<1>5. ASSUME Intact(file) PROVE GoodBook(file, now', returned)
  <2>1. SoundBook(file) /\ file \in Lines
    BY <1>5 DEF GoodBook, TypeOK, Lines, LogOver
  <2>2. ASSUME NEW t \in Tenants PROVE CapsAt(file, t, now')
    <3>1. CapsAt(file, t, now)
      BY <1>5 DEF GoodBook, WithinCaps
    <3>2. QED
      BY <1>2, <1>5, <2>1, <3>1, CapsLater
  <2>3. WithinCaps(file, now')
    BY <2>2 DEF WithinCaps
  <2>4. QED
    BY <1>5, <2>3 DEF GoodBook
<1>6. QED
  BY <1>1, <1>3, <1>4, <1>5

LEMMA BookStarts ==
    ASSUME Init
    PROVE  /\ TypeOK
           /\ DraftsStand
           /\ GoodBook(file, now, returned)
<1>1. /\ file = <<>> /\ cut = FALSE /\ holder = NoWriter /\ now = 0 /\ returned = {}
      /\ pc = [c \in Writers |-> "idle"]
      /\ task = [c \in Writers |-> NoTask]
      /\ draft = [c \in Writers |-> Damaged]
  BY DEF Init, LogInit
<1>2. NoTask \in Task
  BY DEF NoTask, Task, Ids
<1>3. TypeOK
  <2>1. file \in Seq(Line \cup {Damaged}) /\ returned \subseteq Ids
    BY <1>1
  <2>2. /\ pc \in [Writers -> {"idle", "waiting", "locked", "decided", "running"}]
        /\ task \in [Writers -> Task]
        /\ draft \in [Writers -> Line \cup {Damaged}]
    BY <1>1, <1>2
  <2>3. cut \in BOOLEAN /\ ~cut /\ holder \in Writers \cup {NoWriter} /\ now \in Nat
    BY <1>1
  <2>4. QED
    BY <2>1, <2>2, <2>3, Zenon DEF TypeOK
<1>4. DraftsStand
  BY <1>1 DEF DraftsStand
<1>5. <<>> \in Lines /\ DOMAIN <<>> = {} /\ Intact(<<>>)
  BY DEF Lines, LogOver, Intact
<1>6. EndsOnce(<<>>) /\ DropsShow(<<>>)
  BY <1>5 DEF EndsOnce, DropsShow
<1>7. WithinCaps(<<>>, 0)
  <2> SUFFICES ASSUME NEW t \in Tenants PROVE CapsAt(<<>>, t, 0)
    BY DEF WithinCaps
  <2>1. Replay(<<>>, t) = EmptyAccount
    BY ReplayEmpty
  <2>2. Standing(<<>>, t, 0) = 0
    <3>1. Active(EmptyAccount, 0) = {}
      BY DEF Active, EmptyAccount
    <3>2. QED
      BY <2>1, <3>1, FS_EmptySet DEF Standing
  <2>3. /\ LateUnits(<<>>, t) \in Nat
        /\ Cardinality(LateSettles(<<>>, t)) \in Nat
    BY <1>5, LateType
  <2>4. Replay(<<>>, t).sums.runs = 0 /\ Replay(<<>>, t).sums.units = 0
    BY <2>1 DEF EmptyAccount, NoSums
  <2>5. ~Exceeds(MaxRuns[t], 0) /\ ~Exceeds(MaxUnits[t], 0)
    <3>1. /\ MaxRuns[t] \in (Nat \ {0}) \cup {None}
          /\ MaxUnits[t] \in (Nat \ {0}) \cup {None}
      BY TenantAssumption
    <3>2. QED
      BY <3>1 DEF Exceeds
  <2> DEFINE L == Cardinality(LateSettles(<<>>, t))
             U == LateUnits(<<>>, t)
  <2> HIDE DEF L, U
  <2>6. /\ (0 + 0) - L \in Int /\ (0 + 0) - L <= 0
        /\ (0 + 0 * Reserve) - U \in Int /\ (0 + 0 * Reserve) - U <= 0
    BY <2>3, TenantAssumption DEF L, U
  <2>7. ~Exceeds(MaxRuns[t], (0 + 0) - L) /\ ~Exceeds(MaxUnits[t], (0 + 0 * Reserve) - U)
    BY <2>5, <2>6, LessIsWithin
  <2>8. QED
    BY <2>2, <2>4, <2>7, CapsMeans DEF L, U
<1>8. Billed(<<>>, {})
  BY DEF Billed
<1>9. GoodBook(file, now, returned)
  BY <1>1, <1>6, <1>7, <1>8, EmptyBook DEF GoodBook
<1>10. QED
  BY <1>3, <1>4, <1>9

LEMMA BookStutters ==
    ASSUME BookInv, UNCHANGED vars
    PROVE  BookInv'
<1>1. TypeOK /\ DraftsStand /\ BookGood
  BY BookMeans
<1>2. TypeOK' /\ DraftsStand'
  BY <1>1 DEF vars, TypeOK, DraftsStand
<1>3. BookGood'
  BY <1>1 DEF vars, BookGood
<1>4. QED
  BY <1>2, <1>3, BookMeans, PTL

LEMMA BookNext ==
    ASSUME BookInv, [Next]_vars
    PROVE  BookInv'
<1>1. TypeOK /\ DraftsStand /\ BookGood
  BY BookMeans
<1>2. ASSUME TypeOK', DraftsStand', BookGood' PROVE BookInv'
  BY <1>2, BookMeans, PTL
<1>3. CASE UNCHANGED vars
  BY <1>3, BookStutters
<1>4. ASSUME NEW c \in Writers, Steps(c) PROVE BookInv'
  <2>1. TypeOK' /\ DraftsStand'
    BY <1>1, <1>4, CallersStep DEF BookGood
  <2>2. BookGood'
    BY <1>1, <1>4, BookStep DEF BookGood
  <2>3. QED
    BY <1>2, <2>1, <2>2
<1>5. CASE Tick
  BY <1>1, <1>2, <1>5, TickStep DEF BookGood
<1>6. QED
  BY <1>3, <1>4, <1>5 DEF Next, Rest

LEMMA BookStands == Spec => []BookInv
<1>1. Init => BookInv
  BY BookStarts, BookMeans DEF BookGood
<1>2. BookInv /\ [Next]_vars => BookInv'
  BY BookNext
<1>3. QED
  BY <1>1, <1>2, PTL DEF Spec

(***************************************************************************)
(* Whatever the interleaving of runs, operator expiries, torn writes and   *)
(* deaths: the book the callers write replays unless a line is torn, an    *)
(* admission ends at most once, and a decision still stands, under the     *)
(* lock it was made under, when it is written (settle and expire,          *)
(* tenant.py:365-406; _Replay.apply, tenant.py:587-596).                   *)
(***************************************************************************)
THEOREM TenantBookStands == Spec => []TenantInv
<1>1. BookInv => TenantInv
  BY DEF BookInv
<1>2. QED
  BY <1>1, BookStands, PTL

(***************************************************************************)
(* "two threads that each read 'there is room' would otherwise spend the   *)
(* same budget twice" (tenant.py:246-251): whatever the caps, what is      *)
(* settled and reserved stays within them at every instant, but for the    *)
(* runs that outlived their reservation and what a run consumed beyond it. *)
(***************************************************************************)
THEOREM TenantCapsHold == Spec => []CapsHoldButForLateSettles
<1>1. BookInv => CapsHoldButForLateSettles
  BY DEF BookInv
<1>2. QED
  BY <1>1, BookStands, PTL

(***************************************************************************)
(* A settle or a refusal that somebody drops from the book makes the next  *)
(* replay of its tenant raise once it has a later line; until then the     *)
(* account that is left reads differently (tenant.py:475-479).             *)
(***************************************************************************)
THEOREM DroppedChargesShow == Spec => []DroppedChargeShows
<1>1. BookInv => DroppedChargeShows
  BY DEF BookInv
<1>2. QED
  BY <1>1, BookStands, PTL

(***************************************************************************)
(* A run whose result run() handed out has its settle line in the book, or *)
(* the book refuses to replay (wasi_runtime.py:686-710).                   *)
(***************************************************************************)
THEOREM ReturnedRunsBilled == Spec => []ReturnedRunsAreBilled
<1>1. BookInv => ReturnedRunsAreBilled
  BY DEF BookInv
<1>2. QED
  BY <1>1, BookStands, PTL

(***************************************************************************)
(* Once a line is torn the book grows no more and no run that is billed    *)
(* returns: every decision replays the book first, and a caller that has   *)
(* already decided holds the lock over a book that is still intact.        *)
(***************************************************************************)
THEOREM DamageStopsBillingForGood == Spec => DamageStopsBilling
<1>1. ASSUME BookInv, [Next]_vars
      PROVE  [~Intact(file) => Len(file') = Len(file) /\ returned' = returned]_vars
  <2> SUFFICES ASSUME ~Intact(file), Next
               PROVE  file' = file /\ returned' = returned
    BY <1>1 DEF vars
  <2>1. ASSUME NEW c \in Writers, Steps(c) PROVE file' = file /\ returned' = returned
    <3>1. pc[c] # "decided"
      BY <1>1, BookMeans DEF DraftsStand
    <3>2. QED
      BY <2>1, <3>1, StepsBook DEF BookKept, BookWritten
  <2>2. CASE Tick
    BY <2>2 DEF Tick, logVars
  <2>3. CASE Rest
    BY <2>3 DEF Rest, vars
  <2>4. QED
    BY <2>1, <2>2, <2>3 DEF Next
<1>2. BookInv /\ [Next]_vars =>
         [~Intact(file) => Len(file') = Len(file) /\ returned' = returned]_vars
  BY <1>1
<1>3. QED
  BY <1>2, BookStands, PTL DEF Spec, DamageStopsBilling

------------------------------------------------------------------------------
(***************************************************************************)
(* The execution ledger: its chain holds by induction on the appends.      *)
(***************************************************************************)

(* A log whose lines are entries, some of them damaged. *)
IsChainLine(l) == l = Damaged \/ IsEntry(l)

IsChain(f) ==
    /\ f \in Seq(LinesOf(f))
    /\ \A i \in DOMAIN f : IsChainLine(f[i])

(* What ChainTypeOK says of one append. *)
EntryTyped(place, e) ==
    /\ place \in {"idle", "waiting", "locked", "decided"}
    /\ DOMAIN e = DOMAIN NoEntry
    /\ place # "idle" => e.record \in Records

(* What DecisionsStand says of one append. *)
EntryStands(w, place, e, f, h) ==
    /\ place \in {"locked", "decided"} => h = w
    /\ place = "decided" =>
          /\ f # <<>> => TailLine(f) # Damaged
          /\ e = Sealing(f, e.record)

------------------------------------------------------------------------------
(***************************************************************************)
(* The lines of a chain.                                                   *)
(***************************************************************************)

LEMMA ChainLength ==
    ASSUME NEW f, IsChain(f)
    PROVE  /\ Len(f) \in Nat
           /\ DOMAIN f = 1..Len(f)
           /\ f # <<>> => Len(f) \in DOMAIN f
           /\ f = <<>> => Len(f) = 0
<1>1. f \in Seq(LinesOf(f))
  BY DEF IsChain
<1>2. QED
  BY <1>1, LenProperties, EmptySeq

LEMMA OwnEntries ==
    ASSUME NEW S, NEW f \in Seq(S)
    PROVE  f \in Seq(LinesOf(f))
<1>1. /\ Len(f) \in Nat
      /\ DOMAIN f = 1..Len(f)
      /\ f = [i \in DOMAIN f |-> f[i]]
  BY LenProperties
<1>2. f \in [1..Len(f) -> LinesOf(f)]
  BY <1>1 DEF LinesOf
<1>3. QED
  BY <1>1, <1>2, SeqDef

(* A record that is written whole, behind a terminated line. *)
LEMMA AppendedChain ==
    ASSUME NEW f, IsChain(f), NEW piece, IsChainLine(piece)
    PROVE  /\ IsChain(Append(f, piece))
           /\ Append(f, piece) # <<>>
           /\ Len(Append(f, piece)) = Len(f) + 1
           /\ DOMAIN Append(f, piece) = 1..(Len(f) + 1)
           /\ \A i \in DOMAIN f : Append(f, piece)[i] = f[i]
           /\ Append(f, piece)[Len(f) + 1] = piece
<1> DEFINE g == Append(f, piece)
           S == LinesOf(f) \cup {piece}
<1>1. f \in Seq(S)
  BY SeqMonotonic DEF IsChain
<1>2. /\ g \in Seq(S)
      /\ Len(g) = Len(f) + 1
      /\ \A i \in 1..Len(f) : g[i] = f[i]
      /\ g[Len(f) + 1] = piece
  BY <1>1, AppendProperties
<1>3. DOMAIN f = 1..Len(f) /\ Len(f) \in Nat
  BY ChainLength
<1>4. DOMAIN g = 1..(Len(f) + 1)
  BY <1>2, LenProperties
<1>5. g \in Seq(LinesOf(g))
  BY <1>2, OwnEntries
<1>6. \A i \in DOMAIN g : IsChainLine(g[i])
  <2> SUFFICES ASSUME NEW i \in DOMAIN g PROVE IsChainLine(g[i])
    OBVIOUS
  <2>1. CASE i \in 1..Len(f)
    BY <2>1, <1>2, <1>3 DEF IsChain
  <2>2. CASE i = Len(f) + 1
    BY <2>2, <1>2
  <2>3. QED
    BY <2>1, <2>2, <1>3, <1>4
<1>7. g # <<>>
  BY <1>2, <1>3, EmptySeq
<1>8. QED
  BY <1>2, <1>3, <1>4, <1>5, <1>6, <1>7 DEF IsChain

(* A record that is glued to the line the log was cut in. *)
LEMMA DamagedChain ==
    ASSUME NEW f, IsChain(f), f # <<>>
    PROVE  /\ IsChain([f EXCEPT ![Len(f)] = Damaged])
           /\ [f EXCEPT ![Len(f)] = Damaged] # <<>>
           /\ ~Intact([f EXCEPT ![Len(f)] = Damaged])
<1> DEFINE g == [f EXCEPT ![Len(f)] = Damaged]
           S == LinesOf(f) \cup {Damaged}
<1>1. f \in Seq(S)
  BY SeqMonotonic DEF IsChain
<1>2. Len(f) \in 1..Len(f) /\ DOMAIN f = 1..Len(f)
  BY ChainLength
<1>3. /\ g \in Seq(S)
      /\ Len(g) = Len(f)
      /\ \A i \in 1..Len(f) : g[i] = IF i = Len(f) THEN Damaged ELSE f[i]
  BY <1>1, <1>2, ExceptSeq
<1>4. DOMAIN g = 1..Len(f)
  BY <1>2
<1>5. g \in Seq(LinesOf(g))
  BY <1>3, OwnEntries
<1>6. \A i \in DOMAIN g : IsChainLine(g[i])
  BY <1>2, <1>3, <1>4 DEF IsChain, IsChainLine
<1>7. g[Len(f)] = Damaged /\ Len(f) \in DOMAIN g
  BY <1>2, <1>3, <1>4
<1>8. g # <<>>
  BY <1>7, <1>2, <1>3, EmptySeq
<1>9. QED
  BY <1>5, <1>6, <1>7, <1>8 DEF IsChain, Intact

(***************************************************************************)
(* Landed only appends a line or damages one: the log stays a log, and it  *)
(* is intact only if it was, and the record became a line of its own.      *)
(***************************************************************************)
LEMMA LandedChain ==
    ASSUME NEW f, IsChain(f), NEW b \in BOOLEAN, b => f # <<>>,
           NEW piece, IsChainLine(piece)
    PROVE  /\ IsChain(Landed(f, b, piece))
           /\ Landed(f, b, piece) # <<>>
           /\ Intact(Landed(f, b, piece)) =>
                 /\ Intact(f)
                 /\ piece # Damaged
                 /\ Landed(f, b, piece) = Append(f, piece)
<1>1. CASE b
  BY <1>1, DamagedChain DEF Landed
<1>2. CASE ~b
  <2>1. Landed(f, b, piece) = Append(f, piece)
    BY <1>2 DEF Landed
  <2>2. ASSUME Intact(Append(f, piece))
        PROVE  Intact(f) /\ piece # Damaged
    <3>1. Len(f) \in Nat /\ DOMAIN f = 1..Len(f)
      BY ChainLength
    <3>2. /\ DOMAIN Append(f, piece) = 1..(Len(f) + 1)
          /\ \A i \in DOMAIN f : Append(f, piece)[i] = f[i]
          /\ Append(f, piece)[Len(f) + 1] = piece
      BY AppendedChain
    <3>3. QED
      BY <3>1, <3>2, <2>2 DEF Intact
  <2>3. QED
    BY <2>1, <2>2, AppendedChain
<1>3. QED
  BY <1>1, <1>2

------------------------------------------------------------------------------
(***************************************************************************)
(* The entry that is decided is an entry, and the next of the chain.       *)
(***************************************************************************)
LEMMA SealingEntry ==
    ASSUME NEW f, IsChain(f), f # <<>> => TailLine(f) # Damaged,
           NEW record \in Records
    PROVE  /\ IsEntry(Sealing(f, record))
           /\ Sealing(f, record).record = record
<1>1. CASE f = <<>>
  BY <1>1 DEF Sealing, IsEntry, Genesis
<1>2. CASE f # <<>>
  <2>1. IsEntry(TailLine(f))
    BY <1>2, ChainLength DEF IsChain, IsChainLine, TailLine
  <2>2. TailLine(f).sequence \in Nat
    BY <2>1 DEF IsEntry
  <2>3. Digest(TailLine(f)) # Genesis
    BY DEF Digest, Genesis
  <2>4. QED
    BY <1>2, <2>2, <2>3 DEF Sealing, IsEntry
<1>3. QED
  BY <1>1, <1>2

(* Appending the entry that seals the last one extends a chain that holds. *)
LEMMA ChainGrows ==
    ASSUME NEW f, IsChain(f), Intact(f), f # <<>> => ChainHolds(f),
           NEW record \in Records, Sealing(f, record) # Damaged
    PROVE  ChainHolds(Append(f, Sealing(f, record)))
<1> DEFINE e == Sealing(f, record)
           g == Append(f, e)
           n == Len(f)
<1>1. n \in Nat /\ DOMAIN f = 1..n /\ (f # <<>> => n \in DOMAIN f) /\ (f = <<>> => n = 0)
  BY ChainLength
<1>2. f # <<>> => TailLine(f) # Damaged
  BY <1>1 DEF Intact, TailLine
<1>3. IsEntry(e) /\ IsChainLine(e)
  BY <1>2, SealingEntry DEF IsChainLine
<1>4. /\ g # <<>>
      /\ DOMAIN g = 1..(n + 1)
      /\ \A i \in 1..n : g[i] = f[i]
      /\ g[n + 1] = e
      /\ IsChain(g)
  BY <1>1, <1>3, AppendedChain
<1> HIDE DEF g
<1>5. ASSUME NEW i \in 1..n
      PROVE  /\ g[i] # Damaged
             /\ g[i].sequence = i - 1
             /\ g[i].prev_hash = PrevHash(g, i)
  <2>1. f # <<>> /\ i \in DOMAIN f
    BY <1>1
  <2>2. ChainHolds(f)
    BY <2>1
  <2>3. /\ f[i] # Damaged
        /\ f[i].sequence = i - 1
        /\ f[i].prev_hash = PrevHash(f, i)
    BY <2>1, <2>2 DEF ChainHolds
  <2>4. i # 1 => i - 1 \in 1..n
    BY <1>1
  <2>5. PrevHash(g, i) = PrevHash(f, i)
    BY <2>4, <1>4 DEF PrevHash
  <2>6. QED
    BY <2>3, <2>5, <1>4
<1>6. e.sequence = n /\ e.prev_hash = PrevHash(g, n + 1)
  <2>1. CASE f = <<>>
    <3> QED
      BY <2>1, <1>1 DEF Sealing, PrevHash
  <2>2. CASE f # <<>>
    <3>1. n \in DOMAIN f /\ n # 0
      BY <2>2, <1>1
    <3>2. f[n].sequence = n - 1
      BY <2>2, <3>1 DEF ChainHolds
    <3>3. e.sequence = n /\ e.prev_hash = Digest(f[n])
      BY <2>2, <3>2, <1>1 DEF Sealing, TailLine
    <3>4. PrevHash(g, n + 1) = Digest(f[n])
      BY <3>1, <1>1, <1>4 DEF PrevHash
    <3>5. QED
      BY <3>3, <3>4
  <2>3. QED
    BY <2>1, <2>2
<1>7. QED
  <2> SUFFICES ASSUME NEW i \in 1..(n + 1)
               PROVE  /\ g[i] # Damaged
                      /\ g[i].sequence = i - 1
                      /\ g[i].prev_hash = PrevHash(g, i)
    BY <1>4 DEF ChainHolds, g
  <2>1. CASE i \in 1..n
    BY <2>1, <1>5
  <2>2. CASE i = n + 1
    BY <2>2, <1>1, <1>4, <1>6
  <2>3. QED
    BY <2>1, <2>2, <1>1

------------------------------------------------------------------------------
(***************************************************************************)
(* What a step does to the file.                                           *)
(***************************************************************************)

(* The file is left alone, or a decided writer lands a piece on it: the    *)
(* entry it built, or bytes that do not parse.                             *)
EntryLands(w) ==
    /\ stage[w] = "decided"
    /\ \E piece \in {entry[w], Damaged} : file' = Landed(file, cut, piece)
    /\ cut' \in BOOLEAN

ChainKept == UNCHANGED <<file, cut>>

LEMMA WriteReturnsEntry ==
    ASSUME NEW w, stage[w] = "decided", WriteReturns(entry[w])
    PROVE  EntryLands(w)
BY DEF WriteReturns, LandWhole, LandPrefix, LandWithoutBreak, EntryLands

LEMMA WriteRaisesEntry ==
    ASSUME NEW w, stage[w] = "decided", WriteRaises(entry[w])
    PROVE  EntryLands(w) \/ ChainKept
BY DEF WriteRaises, LandWhole, LandNothing, EntryLands, ChainKept

LEMMA DeathLeavesEntry ==
    ASSUME NEW w, stage[w] = "decided", LandUntilDeath(entry[w])
    PROVE  EntryLands(w) \/ ChainKept
BY DEF LandUntilDeath, LandWhole, LandPrefix, LandWithoutBreak, LandNothing,
       EntryLands, ChainKept

LEMMA AppendsFile ==
    ASSUME NEW w \in Writers, AppendSteps(w)
    PROVE  \/ ChainKept /\ acknowledged' = acknowledged
           \/ EntryLands(w) /\ acknowledged' \in {acknowledged, acknowledged \cup {entry[w]}}
<1>1. CASE StartAppend(w)
  BY <1>1 DEF StartAppend, logVars, ChainKept
<1>2. CASE LockChain(w)
  BY <1>2 DEF LockChain, ChainKept
<1>3. CASE DecideEntry(w)
  BY <1>3 DEF DecideEntry, logVars, ChainKept
<1>4. CASE DecideEntryRaises(w)
  BY <1>4 DEF DecideEntryRaises, ChainKept
<1>5. CASE WriteEntry(w)
  BY <1>5, WriteReturnsEntry DEF WriteEntry
<1>6. CASE WriteEntryFails(w)
  BY <1>6, WriteRaisesEntry DEF WriteEntryFails
<1>7. CASE DieInAppend(w)
  <2>1. CASE stage[w] = "decided"
    BY <1>7, <2>1, DeathLeavesEntry DEF DieInAppend
  <2>2. CASE stage[w] # "decided"
    BY <1>7, <2>2 DEF DieInAppend, LandNothing, ChainKept
  <2>3. QED
    BY <2>1, <2>2
<1>8. QED
  BY <1>1, <1>2, <1>3, <1>4, <1>5, <1>6, <1>7 DEF AppendSteps

(* A step of one append leaves the drafts of the others alone, and only    *)
(* the holder of the lock gives it back.                                   *)
LEMMA WritersApart ==
    ASSUME ChainTypeOK, NEW w \in Writers, AppendSteps(w)
    PROVE  /\ DOMAIN stage' = Writers /\ DOMAIN entry' = Writers
           /\ stage' = [v \in Writers |-> stage'[v]]
           /\ \A v \in Writers \ {w} : stage'[v] = stage[v] /\ entry'[v] = entry[v]
           /\ \A v \in Writers \ {w} : holder = v => holder' = v
           /\ holder' \in Writers \cup {NoWriter}
<1>1. /\ stage \in [Writers -> {"idle", "waiting", "locked", "decided"}]
      /\ DOMAIN entry = Writers
  BY DEF ChainTypeOK
<1>2. holder \in Writers \cup {NoWriter}
  BY DEF ChainTypeOK
<1>3. \/ holder' = holder
      \/ holder = NoWriter /\ holder' = w
      \/ holder' = Unlocked(w)
  BY DEF AppendSteps, StartAppend, LockChain, DecideEntry, DecideEntryRaises, WriteEntry,
         WriteEntryFails, DieInAppend,
         logVars, Lock, LockFree, Unlock, UnlockOnRaise
<1>4. /\ \A v \in Writers \ {w} : holder = v => holder' = v
      /\ holder' \in Writers \cup {NoWriter}
  BY <1>2, <1>3, LogAssumption DEF Unlocked
<1>5. \E place : stage' = [stage EXCEPT ![w] = place]
  BY DEF AppendSteps, StartAppend, LockChain, DecideEntry, DecideEntryRaises, WriteEntry,
         WriteEntryFails, DieInAppend,
         MoveTo, EndAppend
<1>6. entry' = entry \/ \E e : entry' = [entry EXCEPT ![w] = e]
  BY DEF AppendSteps, StartAppend, LockChain, DecideEntry, DecideEntryRaises, WriteEntry,
         WriteEntryFails, DieInAppend,
         EndAppend
<1>7. DOMAIN stage' = Writers /\ \A v \in Writers \ {w} : stage'[v] = stage[v]
  BY <1>1, <1>5
<1>8. DOMAIN entry' = Writers /\ \A v \in Writers \ {w} : entry'[v] = entry[v]
  BY <1>1, <1>6
<1>9. stage' = [v \in Writers |-> stage'[v]]
  BY <1>1, <1>5
<1>10. QED
  BY <1>4, <1>7, <1>8, <1>9

------------------------------------------------------------------------------
(***************************************************************************)
(* The append that steps: its draft stays typed, and what it decides is    *)
(* the next entry of the file as it is.                                    *)
(***************************************************************************)
LEMMA ChainTypeMeans ==
    ChainTypeOK <=>
      /\ IsChain(file)
      /\ cut \in BOOLEAN
      /\ cut => file # <<>>
      /\ holder \in Writers \cup {NoWriter}
      /\ stage \in [Writers -> {"idle", "waiting", "locked", "decided"}]
      /\ DOMAIN entry = Writers
      /\ \A w \in Writers : EntryTyped(stage[w], entry[w])
      /\ \A e \in acknowledged : IsEntry(e)
BY DEF ChainTypeOK, IsChain, IsChainLine, EntryTyped

LEMMA DecidedIsEntry ==
    ASSUME ChainTypeOK, DecisionsStand, NEW w \in Writers, stage[w] = "decided"
    PROVE  /\ holder = w
           /\ entry[w] = Sealing(file, entry[w].record)
           /\ entry[w].record \in Records
           /\ IsEntry(entry[w])
<1>1. IsChain(file) /\ entry[w].record \in Records
  BY ChainTypeMeans DEF EntryTyped
<1>2. /\ holder = w
      /\ file # <<>> => TailLine(file) # Damaged
      /\ entry[w] = Sealing(file, entry[w].record)
  BY DEF DecisionsStand
<1>3. IsEntry(Sealing(file, entry[w].record))
  BY <1>1, <1>2, SealingEntry
<1>4. QED
  BY <1>1, <1>2, <1>3

LEMMA IdleEntry == EntryTyped("idle", NoEntry)
BY DEF EntryTyped, NoEntry

LEMMA SealingDomain ==
    ASSUME NEW f, NEW record
    PROVE  DOMAIN Sealing(f, record) = DOMAIN NoEntry
BY DEF Sealing, NoEntry

LEMMA AppendsStand ==
    ASSUME ChainTypeOK, DecisionsStand, NEW w \in Writers, AppendSteps(w)
    PROVE  /\ EntryTyped(stage'[w], entry'[w])
           /\ EntryStands(w, stage'[w], entry'[w], file', holder')
<1>1. /\ DOMAIN stage = Writers /\ DOMAIN entry = Writers
      /\ EntryTyped(stage[w], entry[w])
      /\ IsChain(file)
  BY ChainTypeMeans
<1>2. EntryStands(w, stage[w], entry[w], file, holder)
  BY DEF DecisionsStand, EntryStands
<1>3. ASSUME EndAppend(w)
      PROVE  /\ EntryTyped(stage'[w], entry'[w])
             /\ EntryStands(w, stage'[w], entry'[w], file', holder')
  <2>1. stage'[w] = "idle" /\ entry'[w] = NoEntry
    BY <1>1, <1>3 DEF EndAppend, MoveTo
  <2>2. QED
    BY <2>1, IdleEntry DEF EntryStands
<1>4. CASE StartAppend(w)
  <2>1. PICK record \in Records : entry' = [entry EXCEPT ![w].record = record]
    BY <1>4 DEF StartAppend
  <2>2. entry'[w] = [entry[w] EXCEPT !.record = record]
    BY <1>1, <2>1
  <2>3. DOMAIN entry'[w] = DOMAIN NoEntry /\ entry'[w].record \in Records
    BY <1>1, <2>2 DEF EntryTyped, NoEntry
  <2>4. stage'[w] = "waiting"
    BY <1>1, <1>4 DEF StartAppend, MoveTo
  <2>5. QED
    BY <2>3, <2>4 DEF EntryTyped, EntryStands
<1>5. CASE LockChain(w)
  <2>1. stage[w] = "waiting" /\ stage'[w] = "locked" /\ entry'[w] = entry[w] /\ holder' = w
    BY <1>1, <1>5 DEF LockChain, MoveTo, Lock
  <2>2. QED
    BY <1>1, <2>1 DEF EntryTyped, EntryStands
<1>6. CASE DecideEntry(w)
  <2>1. /\ stage[w] = "locked" /\ stage'[w] = "decided"
        /\ entry'[w] = Sealing(file, entry[w].record)
        /\ file # <<>> => TailLine(file) # Damaged
        /\ file' = file /\ holder' = holder
    BY <1>1, <1>6 DEF DecideEntry, MoveTo, logVars
  <2>2. entry[w].record \in Records /\ holder = w
    BY <1>1, <1>2, <2>1 DEF EntryTyped, EntryStands
  <2>3. entry'[w].record = entry[w].record
    BY <1>1, <2>1, <2>2, SealingEntry
  <2>4. QED
    BY <2>1, <2>2, <2>3, SealingDomain DEF EntryTyped, EntryStands
<1>7. CASE DecideEntryRaises(w)
  BY <1>3, <1>7 DEF DecideEntryRaises
<1>8. CASE WriteEntry(w)
  BY <1>3, <1>8 DEF WriteEntry
<1>9. CASE WriteEntryFails(w)
  BY <1>3, <1>9 DEF WriteEntryFails
<1>10. CASE DieInAppend(w)
  BY <1>3, <1>10 DEF DieInAppend
<1>11. QED
  BY <1>4, <1>5, <1>6, <1>7, <1>8, <1>9, <1>10 DEF AppendSteps

(* A write lands on a log: it stays one, and when it is intact afterwards  *)
(* it was before, and ends in the entry that was decided.                  *)
LEMMA LandsInChain ==
    ASSUME ChainTypeOK, DecisionsStand, NEW w \in Writers, EntryLands(w)
    PROVE  /\ IsChain(file')
           /\ file' # <<>>
           /\ Intact(file') =>
                 /\ Intact(file)
                 /\ entry[w] # Damaged
                 /\ file' = Append(file, entry[w])
<1>1. IsEntry(entry[w])
  BY DecidedIsEntry DEF EntryLands
<1>2. PICK piece \in {entry[w], Damaged} : file' = Landed(file, cut, piece)
  BY DEF EntryLands
<1>3. IsChainLine(piece)
  BY <1>1 DEF IsChainLine
<1>4. IsChain(file) /\ cut \in BOOLEAN /\ (cut => file # <<>>)
  BY ChainTypeMeans
<1>5. QED
  BY <1>2, <1>3, <1>4, LandedChain

------------------------------------------------------------------------------
(***************************************************************************)
(* The invariant, conjunct by conjunct.                                    *)
(***************************************************************************)
LEMMA ChainStarts == ChainInit => ChainInv
<1> SUFFICES ASSUME ChainInit PROVE ChainInv
  OBVIOUS
<1>1. /\ file = <<>> /\ cut = FALSE /\ holder = NoWriter /\ acknowledged = {}
      /\ stage = [w \in Writers |-> "idle"]
      /\ entry = [w \in Writers |-> NoEntry]
  BY DEF ChainInit, LogInit
<1>2. IsChain(file)
  BY <1>1 DEF IsChain
<1>3. \A w \in Writers : EntryTyped(stage[w], entry[w])
  BY <1>1, IdleEntry
<1>4. ChainTypeOK
  BY <1>1, <1>2, <1>3, ChainTypeMeans
<1>5. DecisionsStand
  BY <1>1 DEF DecisionsStand
<1>6. ChainVerifies /\ ReturnedEntriesAreChained
  BY <1>1 DEF ChainVerifies, ReturnedEntriesAreChained
<1>7. QED
  BY <1>4, <1>5, <1>6 DEF ChainInv

LEMMA ChainTypeStep ==
    ASSUME ChainTypeOK, DecisionsStand, NEW w \in Writers, AppendSteps(w)
    PROVE  ChainTypeOK' /\ DecisionsStand'
<1>1. /\ IsChain(file') /\ cut' \in BOOLEAN /\ (cut' => file' # <<>>)
      /\ \A e \in acknowledged' : IsEntry(e)
      /\ ChainKept \/ stage[w] = "decided"
  <2>1. CASE ChainKept /\ acknowledged' = acknowledged
    BY <2>1, ChainTypeMeans DEF ChainKept
  <2>2. CASE EntryLands(w) /\ acknowledged' \in {acknowledged, acknowledged \cup {entry[w]}}
    <3>1. IsEntry(entry[w]) /\ stage[w] = "decided"
      BY <2>2, DecidedIsEntry DEF EntryLands
    <3>2. QED
      BY <2>2, <3>1, LandsInChain, ChainTypeMeans DEF EntryLands
  <2>3. QED
    BY <2>1, <2>2, AppendsFile
<1>2. /\ EntryTyped(stage'[w], entry'[w])
      /\ EntryStands(w, stage'[w], entry'[w], file', holder')
  BY AppendsStand
<1>3. /\ DOMAIN stage' = Writers /\ DOMAIN entry' = Writers
      /\ stage' = [v \in Writers |-> stage'[v]]
      /\ \A v \in Writers \ {w} : stage'[v] = stage[v] /\ entry'[v] = entry[v]
      /\ \A v \in Writers \ {w} : holder = v => holder' = v
      /\ holder' \in Writers \cup {NoWriter}
  BY WritersApart
<1>4. ASSUME NEW v \in Writers
      PROVE  /\ EntryTyped(stage'[v], entry'[v])
             /\ EntryStands(v, stage'[v], entry'[v], file', holder')
  <2>1. CASE v = w
    BY <2>1, <1>2
  <2>2. CASE v # w
    <3>1. /\ stage'[v] = stage[v] /\ entry'[v] = entry[v]
          /\ holder = v => holder' = v
          /\ EntryTyped(stage[v], entry[v])
          /\ EntryStands(v, stage[v], entry[v], file, holder)
      BY <2>2, <1>3, ChainTypeMeans DEF DecisionsStand, EntryStands
    <3>2. stage[v] \in {"locked", "decided"} => file' = file
      <4> SUFFICES ASSUME stage[v] \in {"locked", "decided"}, stage[w] = "decided"
                   PROVE  FALSE
        BY <1>1 DEF ChainKept
      <4>1. holder = v /\ holder = w
        BY <3>1, DecidedIsEntry DEF EntryStands
      <4>2. QED
        BY <4>1, <2>2
    <3>3. QED
      BY <3>1, <3>2 DEF EntryStands
  <2>3. QED
    BY <2>1, <2>2
<1>5. stage' \in [Writers -> {"idle", "waiting", "locked", "decided"}]
  BY <1>3, <1>4 DEF EntryTyped
<1>6. ChainTypeOK'
  <2>1. /\ IsChain(file') /\ cut' \in BOOLEAN /\ (cut' => file' # <<>>)
        /\ holder' \in Writers \cup {NoWriter}
        /\ DOMAIN entry' = Writers
        /\ \A v \in Writers : EntryTyped(stage'[v], entry'[v])
        /\ \A e \in acknowledged' : IsEntry(e)
    BY <1>1, <1>3, <1>4
  <2>2. QED
    BY <1>5, <2>1 DEF ChainTypeOK, IsChain, IsChainLine, EntryTyped
<1>7. DecisionsStand'
  BY <1>4 DEF DecisionsStand, EntryStands
<1>8. QED
  BY <1>6, <1>7

LEMMA ChainVerifiesStep ==
    ASSUME ChainInv, NEW w \in Writers, AppendSteps(w)
    PROVE  ChainVerifies'
<1> USE DEF ChainInv
<1>1. CASE ChainKept
  BY <1>1 DEF ChainKept, ChainVerifies
<1>2. CASE EntryLands(w)
  <2> SUFFICES ASSUME Intact(file') PROVE ChainHolds(file')
    BY DEF ChainVerifies
  <2>1. /\ Intact(file)
        /\ entry[w] # Damaged
        /\ file' = Append(file, entry[w])
    BY <1>2, LandsInChain
  <2>2. IsChain(file) /\ (file # <<>> => ChainHolds(file))
    BY <2>1, ChainTypeMeans DEF ChainVerifies
  <2>3. entry[w] = Sealing(file, entry[w].record) /\ entry[w].record \in Records
    BY <1>2, DecidedIsEntry DEF EntryLands
  <2>4. QED
    BY <2>1, <2>2, <2>3, ChainGrows
<1>3. QED
  BY <1>1, <1>2, AppendsFile

LEMMA ChainReturnedStep ==
    ASSUME ChainInv, NEW w \in Writers, AppendSteps(w)
    PROVE  ReturnedEntriesAreChained'
<1> USE DEF ChainInv
<1>1. CASE ChainKept /\ acknowledged' = acknowledged
  BY <1>1 DEF ChainKept, ReturnedEntriesAreChained
<1>2. CASE EntryLands(w) /\ acknowledged' \in {acknowledged, acknowledged \cup {entry[w]}}
  <2> SUFFICES ASSUME Intact(file'), NEW e \in acknowledged \cup {entry[w]}
               PROVE  \E i \in DOMAIN file' : file'[i] = e
    BY <1>2 DEF ReturnedEntriesAreChained
  <2>1. Intact(file) /\ file' = Append(file, entry[w])
    BY <1>2, LandsInChain
  <2>2. IsChain(file) /\ IsChainLine(entry[w])
    BY <1>2, ChainTypeMeans, DecidedIsEntry DEF EntryLands, IsChainLine
  <2>3. /\ Len(file) \in Nat /\ DOMAIN file = 1..Len(file)
        /\ DOMAIN file' = 1..(Len(file) + 1)
        /\ \A i \in DOMAIN file : file'[i] = file[i]
        /\ file'[Len(file) + 1] = entry[w]
    BY <2>1, <2>2, AppendedChain, ChainLength
  <2>4. CASE e = entry[w]
    BY <2>3, <2>4
  <2>5. CASE e \in acknowledged
    <3>1. PICK i \in DOMAIN file : file[i] = e
      BY <2>1, <2>5 DEF ReturnedEntriesAreChained
    <3>2. i \in DOMAIN file' /\ file'[i] = e
      BY <3>1, <2>3
    <3>3. QED
      BY <3>2
  <2>6. QED
    BY <2>4, <2>5
<1>3. QED
  BY <1>1, <1>2, AppendsFile

(***************************************************************************)
(* Whatever the interleaving of the appends, their failures and deaths:    *)
(* the chain of an intact file verifies and holds every entry append       *)
(* returned; between its decision and its write an append holds the lock   *)
(* and its entry is still the next one (Ledger.append, ledger.py:298).     *)
(***************************************************************************)
THEOREM ChainStands == ChainSpec => []ChainInv
<1>1. ChainInit => ChainInv
  BY ChainStarts
<1>2. ChainInv /\ [ChainNext]_chainVars => ChainInv'
  <2> SUFFICES ASSUME ChainInv, [ChainNext]_chainVars PROVE ChainInv'
    OBVIOUS
  <2>1. CASE UNCHANGED chainVars
    BY <2>1 DEF chainVars, ChainInv, ChainTypeOK, DecisionsStand, ChainVerifies,
                ReturnedEntriesAreChained
  <2>2. ASSUME NEW w \in Writers, AppendSteps(w) PROVE ChainInv'
    BY <2>2, ChainTypeStep, ChainVerifiesStep, ChainReturnedStep DEF ChainInv
  <2>3. QED
    BY <2>1, <2>2 DEF ChainNext, ChainRest
<1>3. QED
  BY <1>1, <1>2, PTL DEF ChainSpec

------------------------------------------------------------------------------
(***************************************************************************)
(* Tampering.                                                              *)
(***************************************************************************)

(* Another record in entry i is another digest: entry i + 1 seals the old. *)
LEMMA RewritingShows ==
    ASSUME NEW f, IsChain(f), Intact(f), ChainHolds(f), NEW i \in 1..(Len(f) - 1),
           NEW record \in Records \ {f[i].record}
    PROVE  ~ChainHolds(Rewritten(f, i, record))
<1> DEFINE g == Rewritten(f, i, record)
<1>1. Len(f) \in Nat /\ DOMAIN f = 1..Len(f)
  BY ChainLength
<1>2. i \in DOMAIN f /\ i + 1 \in DOMAIN f /\ i + 1 # 1 /\ i + 1 # i /\ (i + 1) - 1 = i
  BY <1>1
<1>3. /\ DOMAIN g = DOMAIN f
      /\ g[i + 1] = f[i + 1]
      /\ g[i] = [f[i] EXCEPT !.record = record]
  BY <1>2 DEF Rewritten
<1>4. IsEntry(f[i])
  BY <1>2 DEF IsChain, IsChainLine, Intact
<1>5. g[i].record = record
  BY <1>3, <1>4 DEF IsEntry
<1>6. Digest(g[i]) # Digest(f[i])
  BY <1>5 DEF Digest
<1>7. f[i + 1].prev_hash = Digest(f[i])
  BY <1>2 DEF ChainHolds, PrevHash
<1>8. PrevHash(g, i + 1) = Digest(g[i])
  BY <1>2 DEF PrevHash
<1>9. g[i + 1].prev_hash # PrevHash(g, i + 1)
  BY <1>3, <1>6, <1>7, <1>8
<1>10. QED
  BY <1>2, <1>3, <1>9 DEF ChainHolds

(* Without entry i, the entry behind it seals one that is not before it.   *)
LEMMA DroppingShows ==
    ASSUME NEW f, IsChain(f), Intact(f), ChainHolds(f), NEW i \in 1..(Len(f) - 1)
    PROVE  ~ChainHolds(Renumbered(f, i))
<1> DEFINE g == Renumbered(f, i)
<1>1. Len(f) \in Nat /\ DOMAIN f = 1..Len(f)
  BY ChainLength
<1>2. i \in DOMAIN f /\ i + 1 \in DOMAIN f /\ i + 1 # 1 /\ (i + 1) - 1 = i
  BY <1>1
<1>3. i \in DOMAIN g /\ g[i] = [f[i + 1] EXCEPT !.sequence = i - 1]
  BY <1>1 DEF Renumbered
<1>4. IsEntry(f[i + 1])
  BY <1>2 DEF IsChain, IsChainLine, Intact
<1>5. g[i].prev_hash = Digest(f[i])
  <2>1. g[i].prev_hash = f[i + 1].prev_hash
    BY <1>3, <1>4 DEF IsEntry
  <2>2. f[i + 1].prev_hash = Digest(f[i])
    BY <1>2 DEF ChainHolds, PrevHash
  <2>3. QED
    BY <2>1, <2>2
<1>6. PrevHash(g, i) # Digest(f[i])
  <2>1. CASE i = 1
    BY <2>1 DEF PrevHash, Genesis, Digest
  <2>2. CASE i # 1
    <3>1. i - 1 \in DOMAIN f /\ i - 1 \in 1..(Len(f) - 1) /\ i - 1 < i
      BY <2>2, <1>1
    <3>2. PrevHash(g, i) = Digest(f[i - 1])
      BY <2>2, <3>1 DEF PrevHash, Renumbered
    <3>3. f[i - 1].sequence = (i - 1) - 1 /\ f[i].sequence = i - 1
      BY <3>1, <1>2 DEF ChainHolds
    <3>4. f[i - 1] # f[i]
      BY <3>3
    <3>5. QED
      BY <3>2, <3>4 DEF Digest
  <2>3. QED
    BY <2>1, <2>2
<1>7. QED
  BY <1>3, <1>5, <1>6 DEF ChainHolds

(***************************************************************************)
(* What the verifier is for (ledger.py:8-10): in every ledger the writers  *)
(* can leave behind intact, rewriting the record of an entry before the    *)
(* head, or dropping it and renumbering the rest, is seen.                 *)
(***************************************************************************)
THEOREM TamperingAlwaysShows == ChainSpec => []TamperingShows
<1>1. ChainInv => TamperingShows
  <2> SUFFICES ASSUME ChainInv, Intact(file), NEW i \in 1..(Len(file) - 1)
               PROVE  /\ ~ChainHolds(Renumbered(file, i))
                      /\ \A record \in Records \ {file[i].record} :
                            ~ChainHolds(Rewritten(file, i, record))
    BY DEF TamperingShows
  <2>1. IsChain(file)
    BY ChainTypeMeans DEF ChainInv
  <2>2. file # <<>>
    BY <2>1, ChainLength
  <2>3. ChainHolds(file)
    BY <2>2 DEF ChainInv, ChainVerifies
  <2>4. QED
    BY <2>1, <2>3, RewritingShows, DroppingShows
<1>2. QED
  BY <1>1, ChainStands, PTL
===============================================================================
