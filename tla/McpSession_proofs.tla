-------------------------- MODULE McpSession_proofs --------------------------
(***************************************************************************)
(* Theorems about the session of the MCP server, for any lines a client    *)
(* may write, of any sizes and in any number, any cuts of the reads, any   *)
(* bound on a line and any tools.                                          *)
(***************************************************************************)
EXTENDS McpSession, FiniteSetTheorems, SequenceTheorems, WellFoundedInduction, TLAPS

------------------------------------------------------------------------------
(* Sequences of pieces *)

LEMMA SmallestNumber ==
    ASSUME NEW S \in SUBSET Nat, S # {}
    PROVE  \E m \in S : \A n \in S : m <= n
<1>1. PICK m \in S : \A n \in S : <<n, m>> \notin OpToRel(<, Nat)
  BY NatLessThanWellFounded, WFMin
<1>2. ASSUME NEW n \in S PROVE m <= n
  <2>1. <<n, m>> \in Nat \X Nat /\ <<n, m>>[1] = n /\ <<n, m>>[2] = m
    OBVIOUS
  <2>2. ~(n < m)
    BY <1>1, <2>1, Zenon DEF OpToRel
  <2>3. n \in Nat /\ m \in Nat
    OBVIOUS
  <2>4. QED
    BY <2>2, <2>3
<1>3. QED
  BY <1>2

(* The first newline: nothing before it is one. *)
LEMMA FirstEndIsFirst ==
    ASSUME NEW s \in Seq(Piece), Ends(s) # {}
    PROVE  /\ FirstEnd(s) \in 1..Len(s)
           /\ s[FirstEnd(s)].last
           /\ \A i \in 1..Len(s) : i < FirstEnd(s) => ~s[i].last
<1>1. Ends(s) \in SUBSET Nat /\ Ends(s) \subseteq 1..Len(s)
  BY DEF Ends
<1>2. \E i \in Ends(s) : \A j \in Ends(s) : i <= j
  BY <1>1, SmallestNumber
<1>3. FirstEnd(s) \in Ends(s) /\ \A j \in Ends(s) : FirstEnd(s) <= j
  BY <1>2 DEF FirstEnd
<1>4. \A i \in 1..Len(s) : i \in Ends(s) <=> s[i].last
  BY DEF Ends
<1>5. ASSUME NEW i \in 1..Len(s), i < FirstEnd(s) PROVE ~s[i].last
  BY <1>1, <1>3, <1>4, <1>5
<1>6. QED
  BY <1>1, <1>3, <1>4, <1>5

LEMMA AfterPieces ==
    ASSUME NEW s \in Seq(Piece), NEW n \in 0..Len(s)
    PROVE  /\ After(s, n) \in Seq(Piece)
           /\ Len(After(s, n)) = Len(s) - n
           /\ \A i \in 1..(Len(s) - n) : After(s, n)[i] = s[n + i]
<1>1. Len(s) \in Nat /\ \A i \in (n + 1)..Len(s) : s[i] \in Piece
  OBVIOUS
<1>2. n + 1 \in Int /\ Len(s) \in Int
  BY <1>1
<1>3. /\ SubSeq(s, n + 1, Len(s)) \in Seq(Piece)
      /\ Len(SubSeq(s, n + 1, Len(s)))
            = IF n + 1 <= Len(s) THEN Len(s) - (n + 1) + 1 ELSE 0
      /\ \A i \in 1..(Len(s) - (n + 1) + 1) :
            SubSeq(s, n + 1, Len(s))[i] = s[(n + 1) + i - 1]
  BY <1>1, <1>2, SubSeqProperties
<1>4. /\ (IF n + 1 <= Len(s) THEN Len(s) - (n + 1) + 1 ELSE 0) = Len(s) - n
      /\ Len(s) - (n + 1) + 1 = Len(s) - n
      /\ \A i \in 1..(Len(s) - n) : (n + 1) + i - 1 = n + i
  BY <1>1
<1>5. QED
  BY <1>3, <1>4 DEF After

LEMMA FirstPieces ==
    ASSUME NEW s \in Seq(Piece), NEW n \in 1..Len(s)
    PROVE  /\ SubSeq(s, 1, n) \in Seq(Piece)
           /\ Len(SubSeq(s, 1, n)) = n
           /\ \A i \in 1..n : SubSeq(s, 1, n)[i] = s[i]
<1>1. \A i \in 1..n : s[i] \in Piece
  OBVIOUS
<1>2. 1 \in Int /\ n \in Int /\ n - 1 + 1 = n /\ 1 <= n
  OBVIOUS
<1>3. \A i \in 1..n : 1 + i - 1 = i
  OBVIOUS
<1>4. QED
  BY <1>1, <1>2, <1>3, SubSeqProperties

(* Reading moves pieces from the wire to the carry and loses none. *)
LEMMA ReadKeepsAll ==
    ASSUME NEW c \in Seq(Piece), NEW w \in Seq(Piece), NEW n \in 1..Len(w)
    PROVE  (c \o SubSeq(w, 1, n)) \o After(w, n) = c \o w
<1> DEFINE front == SubSeq(w, 1, n)
           back  == After(w, n)
<1>1. /\ front \in Seq(Piece) /\ Len(front) = n
      /\ \A i \in 1..n : front[i] = w[i]
  BY FirstPieces
<1>2. /\ back \in Seq(Piece) /\ Len(back) = Len(w) - n
      /\ \A i \in 1..(Len(w) - n) : back[i] = w[n + i]
  BY AfterPieces
<1> HIDE DEF front, back
<1> DEFINE moved == c \o front
           left == moved \o back
           right == c \o w
<1>3. /\ moved \in Seq(Piece) /\ Len(moved) = Len(c) + n
      /\ \A i \in 1..(Len(c) + n) :
            moved[i] = IF i <= Len(c) THEN c[i] ELSE front[i - Len(c)]
  BY <1>1, ConcatProperties
<1>4. /\ right \in Seq(Piece) /\ Len(right) = Len(c) + Len(w)
      /\ \A i \in 1..(Len(c) + Len(w)) :
            right[i] = IF i <= Len(c) THEN c[i] ELSE w[i - Len(c)]
  BY ConcatProperties
<1> HIDE DEF moved, right
<1>5. /\ left \in Seq(Piece) /\ Len(left) = Len(moved) + Len(back)
      /\ \A i \in 1..(Len(moved) + Len(back)) :
            left[i] = IF i <= Len(moved) THEN moved[i] ELSE back[i - Len(moved)]
  BY <1>2, <1>3, ConcatProperties
<1> HIDE DEF left
<1>6. Len(left) = Len(right) /\ Len(c) \in Nat /\ Len(w) \in Nat
  BY <1>2, <1>3, <1>4, <1>5
<1>7. ASSUME NEW i \in 1..Len(left) PROVE left[i] = right[i]
  <2>1. CASE i <= Len(c)
    <3>1. /\ i \in 1..(Len(moved) + Len(back)) /\ i <= Len(moved)
          /\ i \in 1..(Len(c) + n)
      BY <1>2, <1>3, <1>5, <1>6, <2>1
    <3>2. left[i] = moved[i] /\ moved[i] = c[i]
      BY <1>3, <1>5, <2>1, <3>1
    <3>3. right[i] = c[i]
      BY <1>4, <1>6, <2>1
    <3>4. QED
      BY <3>2, <3>3
  <2>2. CASE ~(i <= Len(c)) /\ i <= Len(c) + n
    <3>1. i - Len(c) \in 1..n
      BY <1>6, <2>2
    <3>2. left[i] = front[i - Len(c)]
      BY <1>2, <1>3, <1>5, <1>6, <2>2
    <3>3. right[i] = w[i - Len(c)]
      BY <1>4, <1>6, <2>2
    <3>4. QED
      BY <1>1, <3>1, <3>2, <3>3
  <2>3. CASE ~(i <= Len(c) + n)
    <3>1. /\ i - Len(moved) \in 1..(Len(w) - n)
          /\ n + (i - Len(moved)) = i - Len(c)
      BY <1>3, <1>4, <1>6, <2>3
    <3>2. left[i] = back[i - Len(moved)]
      BY <1>2, <1>3, <1>5, <1>6, <2>3
    <3>3. right[i] = w[i - Len(c)]
      BY <1>4, <1>6, <2>3
    <3>4. QED
      BY <1>2, <3>1, <3>2, <3>3
  <2>4. QED
    BY <2>1, <2>2, <2>3
<1>8. QED
  BY <1>4, <1>5, <1>6, <1>7, SeqEqual DEF moved, left, right, front, back

(* What lies behind a piece of the carry is the rest of it, then the wire. *)
LEMMA TakeKeepsRest ==
    ASSUME NEW c \in Seq(Piece), NEW w \in Seq(Piece), NEW n \in 0..Len(c)
    PROVE  After(c, n) \o w = After(c \o w, n)
<1> DEFINE rest == After(c, n)
           whole == c \o w
           left == rest \o w
           right == After(whole, n)
<1>1. /\ rest \in Seq(Piece) /\ Len(rest) = Len(c) - n
      /\ \A i \in 1..(Len(c) - n) : rest[i] = c[n + i]
  BY AfterPieces
<1>2. /\ whole \in Seq(Piece) /\ Len(whole) = Len(c) + Len(w)
      /\ \A i \in 1..(Len(c) + Len(w)) :
            whole[i] = IF i <= Len(c) THEN c[i] ELSE w[i - Len(c)]
  BY ConcatProperties
<1> HIDE DEF rest, whole
<1>3. /\ right \in Seq(Piece) /\ Len(right) = Len(c) + Len(w) - n
      /\ \A i \in 1..(Len(c) + Len(w) - n) : right[i] = whole[n + i]
  <2>1. n \in 0..Len(whole)
    BY <1>2
  <2>2. /\ right \in Seq(Piece) /\ Len(right) = Len(whole) - n
        /\ \A i \in 1..(Len(whole) - n) : right[i] = whole[n + i]
    BY <1>2, <2>1, AfterPieces
  <2>3. QED
    BY <1>2, <2>2
<1>4. /\ left \in Seq(Piece) /\ Len(left) = Len(c) - n + Len(w)
      /\ \A i \in 1..(Len(c) - n + Len(w)) :
            left[i] = IF i <= Len(c) - n THEN rest[i] ELSE w[i - (Len(c) - n)]
  <2>1. /\ left \in Seq(Piece) /\ Len(left) = Len(rest) + Len(w)
        /\ \A i \in 1..(Len(rest) + Len(w)) :
              left[i] = IF i <= Len(rest) THEN rest[i] ELSE w[i - Len(rest)]
    BY <1>1, ConcatProperties
  <2>2. QED
    BY <1>1, <2>1
<1> HIDE DEF left, right
<1>5. ASSUME NEW i \in 1..Len(left) PROVE left[i] = right[i]
  <2>1. /\ Len(c) \in Nat /\ Len(w) \in Nat
        /\ i \in 1..(Len(c) + Len(w) - n)
        /\ right[i] = whole[n + i]
    BY <1>3, <1>4
  <2>2. CASE i <= Len(c) - n
    <3>1. n + i \in 1..(Len(c) + Len(w)) /\ n + i <= Len(c)
      BY <2>1, <2>2
    <3>2. right[i] = c[n + i]
      BY <1>2, <2>1, <3>1
    <3>3. i \in 1..(Len(c) - n) /\ left[i] = rest[i]
      BY <1>4, <2>1, <2>2
    <3>4. QED
      BY <1>1, <3>2, <3>3
  <2>3. CASE ~(i <= Len(c) - n)
    <3>1. /\ n + i \in 1..(Len(c) + Len(w)) /\ ~(n + i <= Len(c))
          /\ i - (Len(c) - n) = (n + i) - Len(c)
      BY <2>1, <2>3
    <3>2. QED
      BY <1>2, <1>4, <2>1, <2>3, <3>1
  <2>4. QED
    BY <2>2, <2>3
<1>6. Len(left) = Len(right)
  BY <1>3, <1>4
<1>7. QED
  BY <1>3, <1>4, <1>5, <1>6, SeqEqual DEF left, right, rest, whole

------------------------------------------------------------------------------
(* The framing of the stream *)

LEMMA LinesHaveSizes ==
    ASSUME NEW text \in Seq(Lines)
    PROVE  \A k \in 1..Len(text) : text[k] \in LineType /\ text[k].size \in Nat \ {0}
BY SessionAssumption DEF SessionAssumption, LineType

LEMMA PieceParts ==
    ASSUME NEW s \in Seq(Piece), NEW i \in 1..Len(s)
    PROVE  s[i] \in Piece /\ s[i].line \in Nat /\ s[i].part \in Nat /\ s[i].last \in BOOLEAN
<1>1. s[i] \in Piece
  OBVIOUS
<1>2. QED
  BY <1>1 DEF Piece

(* What Framed says of one piece. *)
InPlace(text, hungUp, s, taken, dropped, i) ==
    /\ s[i].line \in (taken + 1)..Len(text)
    /\ s[i].part \in 1..text[s[i].line].size
    /\ s[i].last => s[i].part = text[s[i].line].size
    /\ s[i].part = text[s[i].line].size /\ (s[i].line < Len(text) \/ ~hungUp)
         => s[i].last
    /\ i = 1 => s[i].line = taken + 1 /\ s[i].part = dropped + 1
    /\ i < Len(s) =>
         IF s[i].part < text[s[i].line].size
           THEN s[i + 1].line = s[i].line /\ s[i + 1].part = s[i].part + 1
           ELSE s[i + 1].line = s[i].line + 1 /\ s[i + 1].part = 1
    /\ i = Len(s) =>
         s[i].line = Len(text) /\ s[i].part = text[s[i].line].size

LEMMA FramedAt ==
    ASSUME NEW text \in Seq(Lines), NEW hungUp \in BOOLEAN,
           NEW s \in Seq(Piece), NEW taken \in 0..Len(text), NEW dropped \in Nat,
           Framed(text, hungUp, s, taken, dropped), NEW i \in 1..Len(s)
    PROVE  /\ InPlace(text, hungUp, s, taken, dropped, i)
           /\ s[i].line \in 1..Len(text) /\ text[s[i].line] \in Lines
           /\ text[s[i].line].size \in Nat \ {0}
<1>1. i \in DOMAIN s
  OBVIOUS
<1>2. s[i].line \in (taken + 1)..Len(text)
  BY <1>1 DEF Framed
<1>3. s[i].line \in 1..Len(text)
  BY <1>2
<1>4. text[s[i].line].size \in Nat \ {0} /\ text[s[i].line] \in Lines
  BY <1>3, LinesHaveSizes
<1>5. QED
  BY <1>1, <1>2, <1>3, <1>4 DEF Framed, InPlace

(* Up to the first newline, the pieces are those of one line. *)
LEMMA OneLine ==
    ASSUME NEW text \in Seq(Lines), NEW hungUp \in BOOLEAN,
           NEW s \in Seq(Piece), NEW taken \in 0..Len(text), NEW dropped \in Nat,
           Framed(text, hungUp, s, taken, dropped),
           NEW n \in 1..Len(s), \A i \in 1..(n - 1) : ~s[i].last
    PROVE  \A i \in 1..n : s[i].line = taken + 1 /\ s[i].part = dropped + i
<1> DEFINE Astray == {i \in 1..n : ~(s[i].line = taken + 1 /\ s[i].part = dropped + i)}
<1>1. SUFFICES ASSUME Astray # {} PROVE FALSE
  OBVIOUS
<1>2. Astray \in SUBSET Nat
  OBVIOUS
<1>3. PICK m \in Astray : \A j \in Astray : m <= j
  BY <1>1, <1>2, SmallestNumber
<1>4. m \in 1..n /\ m \in 1..Len(s) /\ Len(s) \in Nat /\ Len(text) \in Nat
  OBVIOUS
<1>5. m # 1
  <2>1. m = 1 => s[m].line = taken + 1 /\ s[m].part = dropped + 1
    BY <1>4 DEF Framed
  <2>2. QED
    BY <1>3, <2>1
<1>6. m - 1 \in 1..(n - 1) /\ m - 1 \in 1..Len(s) /\ m - 1 < Len(s) /\ m - 1 \notin Astray
  <2>1. m \in Nat /\ n \in Nat /\ n <= Len(s) /\ 1 <= m /\ m <= n
    BY <1>4
  <2>2. m - 1 \in 1..(n - 1) /\ m - 1 \in 1..Len(s) /\ m - 1 < Len(s) /\ ~(m <= m - 1)
    BY <1>4, <1>5, <2>1
  <2>3. QED
    BY <1>3, <2>2
<1>7. s[m - 1].line = taken + 1 /\ s[m - 1].part = dropped + (m - 1) /\ ~s[m - 1].last
  BY <1>6
<1>8. /\ s[m - 1].line \in (taken + 1)..Len(text)
      /\ s[m - 1].part \in 1..text[s[m - 1].line].size
      /\ (/\ s[m - 1].part = text[s[m - 1].line].size
          /\ (s[m - 1].line < Len(text) \/ ~hungUp)) => s[m - 1].last
      /\ IF s[m - 1].part < text[s[m - 1].line].size
           THEN s[m].line = s[m - 1].line /\ s[m].part = s[m - 1].part + 1
           ELSE s[m].line = s[m - 1].line + 1 /\ s[m].part = 1
  <2>1. (m - 1) + 1 = m /\ InPlace(text, hungUp, s, taken, dropped, m - 1)
    BY <1>4, <1>6, FramedAt
  <2>2. QED
    BY <1>6, <2>1 DEF InPlace
<1>9. s[m].line \in (taken + 1)..Len(text)
  BY <1>4 DEF Framed
<1>10. text[taken + 1].size \in Nat
  <2>1. taken + 1 \in 1..Len(text)
    BY <1>4, <1>7, <1>8
  <2>2. QED
    BY <2>1, LinesHaveSizes
<1>11. CASE s[m - 1].part < text[s[m - 1].line].size
  BY <1>3, <1>4, <1>7, <1>8, <1>11
<1>12. CASE ~(s[m - 1].part < text[s[m - 1].line].size)
  <2>1. s[m - 1].line = taken + 1 /\ s[m - 1].part = text[taken + 1].size
    <3>1. s[m - 1].line = taken + 1
      BY <1>7
    <3>2. s[m - 1].part \in 1..text[taken + 1].size /\ ~(s[m - 1].part < text[taken + 1].size)
      BY <1>8, <1>12, <3>1
    <3>3. QED
      BY <1>10, <3>1, <3>2
  <2>2. ~(taken + 1 < Len(text))
    BY <1>7, <1>8, <2>1
  <2>3. s[m].line = (taken + 1) + 1
    BY <1>8, <1>12, <2>1
  <2>4. (taken + 1) + 1 \in (taken + 1)..Len(text)
    BY <1>9, <2>3
  <2>5. QED
    BY <1>4, <2>2, <2>4
<1>13. QED
  BY <1>11, <1>12

(* The lines follow one another. *)
LEMMA LinesGoOn ==
    ASSUME NEW text \in Seq(Lines), NEW hungUp \in BOOLEAN,
           NEW s \in Seq(Piece), NEW taken \in 0..Len(text), NEW dropped \in Nat,
           Framed(text, hungUp, s, taken, dropped),
           NEW n \in 1..Len(s)
    PROVE  \A i \in n..Len(s) : s[n].line <= s[i].line
<1> DEFINE Back == {i \in n..Len(s) : ~(s[n].line <= s[i].line)}
<1>1. SUFFICES ASSUME Back # {} PROVE FALSE
  OBVIOUS
<1>2. Back \in SUBSET Nat
  OBVIOUS
<1>3. PICK m \in Back : \A j \in Back : m <= j
  BY <1>1, <1>2, SmallestNumber
<1>4. \A i \in 1..Len(s) : s[i].line \in Nat
  BY PieceParts
<1>5. m \in n..Len(s) /\ Len(s) \in Nat /\ n \in Nat /\ 1 <= n /\ m # n
  BY <1>3, <1>4
<1>6. m - 1 \in n..Len(s) /\ m - 1 \in 1..Len(s) /\ m - 1 < Len(s) /\ (m - 1) + 1 = m
      /\ ~(m <= m - 1) /\ m \in 1..Len(s)
  BY <1>5
<1>7. m - 1 \notin Back
  BY <1>3, <1>6
<1>8. s[n].line <= s[m - 1].line
  BY <1>6, <1>7
<1>9. s[m].line = s[m - 1].line \/ s[m].line = s[m - 1].line + 1
  <2> DEFINE k == m - 1
  <2>1. k \in 1..Len(s) /\ k < Len(s) /\ k + 1 = m
    BY <1>6
  <2> HIDE DEF k
  <2>2. s[m].line = s[k].line \/ s[m].line = s[k].line + 1
    <3>1. InPlace(text, hungUp, s, taken, dropped, k)
      BY <2>1, FramedAt
    <3>2. QED
      BY <2>1, <3>1 DEF InPlace
  <2>3. QED
    BY <2>2 DEF k
<1>10. QED
  BY <1>3, <1>4, <1>6, <1>8, <1>9

(* What is left behind the first pieces is framed, when it starts where the    *)
(* next line, or the rest of one, does.                                        *)
LEMMA FramedBehind ==
    ASSUME NEW text \in Seq(Lines), NEW hungUp \in BOOLEAN,
           NEW s \in Seq(Piece), NEW taken \in 0..Len(text), NEW dropped \in Nat,
           Framed(text, hungUp, s, taken, dropped),
           NEW n \in 1..Len(s), NEW taken2 \in 0..Len(text), NEW dropped2 \in Nat,
           n < Len(s) => s[n + 1].line = taken2 + 1 /\ s[n + 1].part = dropped2 + 1,
           n = Len(s) => \/ taken2 = Len(text) /\ dropped2 = 0
                         \/ /\ taken2 + 1 = Len(text) /\ hungUp
                            /\ dropped2 = text[taken2 + 1].size
    PROVE  Framed(text, hungUp, After(s, n), taken2, dropped2)
<1> DEFINE rest == After(s, n)
<1>1. /\ rest \in Seq(Piece) /\ Len(rest) = Len(s) - n
      /\ \A i \in 1..(Len(s) - n) : rest[i] = s[n + i]
  <2>1. n \in 0..Len(s)
    OBVIOUS
  <2>2. QED
    BY <2>1, AfterPieces
<1> HIDE DEF rest
<1>0. Len(s) \in Nat /\ n \in Nat /\ 1 <= n /\ n <= Len(s)
  OBVIOUS
<1>2. ASSUME NEW i \in DOMAIN rest
      PROVE  LET size(k) == text[k].size
                 newline(k) == k < Len(text) \/ ~hungUp
                 follows(q, p) ==
                     IF p.part < size(p.line) THEN q.line = p.line /\ q.part = p.part + 1
                     ELSE q.line = p.line + 1 /\ q.part = 1
                 p == rest[i]
             IN
             /\ p.line \in (taken2 + 1)..Len(text) /\ p.part \in 1..size(p.line)
             /\ p.last => p.part = size(p.line)
             /\ p.part = size(p.line) /\ newline(p.line) => p.last
             /\ i = 1 => p.line = taken2 + 1 /\ p.part = dropped2 + 1
             /\ i < Len(rest) => follows(rest[i + 1], p)
             /\ i = Len(rest) => p.line = Len(text) /\ p.part = size(p.line)
  <2>1. /\ i \in 1..(Len(s) - n) /\ n + i \in 1..Len(s) /\ n + 1 \in 1..Len(s) /\ n < Len(s)
        /\ n + i \in (n + 1)..Len(s)
    <3>1. i \in 1..Len(rest)
      BY <1>1
    <3>2. i \in Nat /\ 1 <= i /\ i <= Len(s) - n
      BY <1>0, <1>1, <3>1
    <3>3. QED
      BY <1>0, <3>2
  <2> DEFINE k == n + i
  <2>2. /\ k \in 1..Len(s) /\ s[k] = rest[i]
        /\ i < Len(rest) => k < Len(s) /\ rest[i + 1] = s[k + 1]
        /\ i = Len(rest) => k = Len(s)
    <3>1. k \in 1..Len(s) /\ s[k] = rest[i]
      BY <1>1, <2>1
    <3>2. Len(rest) \in Nat /\ i \in Nat /\ 1 <= i
      BY <1>0, <1>1, <2>1
    <3>3. ASSUME i < Len(rest) PROVE k < Len(s) /\ rest[i + 1] = s[k + 1]
      <4>1. i + 1 \in 1..(Len(s) - n) /\ n + (i + 1) = k + 1 /\ k < Len(s)
        <5>1. i < Len(s) - n
          BY <1>1, <3>3
        <5>2. i + 1 \in 1..(Len(s) - n)
          BY <1>0, <3>2, <5>1
        <5>3. n + (i + 1) = k + 1 /\ k < Len(s)
          BY <1>0, <3>2, <5>1
        <5>4. QED
          BY <5>2, <5>3
      <4>2. rest[i + 1] = s[n + (i + 1)]
        BY <1>1, <4>1
      <4>3. QED
        BY <4>1, <4>2
    <3>4. i = Len(rest) => k = Len(s)
      BY <1>0, <1>1, <3>2
    <3>5. QED
      BY <3>1, <3>3, <3>4
  <2>3. s[n + 1].line <= s[k].line /\ s[n + 1].line = taken2 + 1
    BY <2>1, LinesGoOn
  <2> HIDE DEF k
  <2>4. InPlace(text, hungUp, s, taken, dropped, k)
    BY <2>2, FramedAt
  <2>5. s[k].line \in (taken2 + 1)..Len(text)
    BY <2>3, <2>4 DEF InPlace
  <2>6. i = 1 => rest[i].line = taken2 + 1 /\ rest[i].part = dropped2 + 1
    BY <2>1, <2>2 DEF k
  <2>7. InPlace(text, hungUp, rest, taken2, dropped2, i)
    BY <2>2, <2>4, <2>5, <2>6 DEF InPlace
  <2>8. QED
    BY <2>7 DEF InPlace
<1>3. rest = <<>> => n = Len(s)
  BY <1>1
<1>4. Framed(text, hungUp, rest, taken2, dropped2)
  BY <1>2, <1>3 DEF Framed
<1>5. QED
  BY <1>4 DEF rest

(* Pieces without a newline among them are of one line, and the rest of that   *)
(* line follows, or its end that the client never wrote.                       *)
LEMMA PartOfALine ==
    ASSUME NEW text \in Seq(Lines), NEW hungUp \in BOOLEAN,
           NEW s \in Seq(Piece), NEW taken \in 0..Len(text), NEW dropped \in Nat,
           Framed(text, hungUp, s, taken, dropped),
           NEW n \in 1..Len(s), \A i \in 1..n : ~s[i].last,
           NEW upto \in Nat, upto = dropped + n
    PROVE  /\ taken + 1 \in 1..Len(text)
           /\ upto <= text[taken + 1].size
           /\ Framed(text, hungUp, After(s, n), taken, upto)
           /\ n = Len(s) => /\ taken + 1 = Len(text) /\ hungUp
                            /\ upto = text[taken + 1].size
<1>0. Len(s) \in Nat /\ n \in Nat /\ 1 <= n /\ n <= Len(s) /\ Len(text) \in Nat
  OBVIOUS
<1>1. s[n].line = taken + 1 /\ s[n].part = dropped + n
  <2>1. \A i \in 1..(n - 1) : ~s[i].last
    BY <1>0
  <2>2. \A i \in 1..n : s[i].line = taken + 1 /\ s[i].part = dropped + i
    BY <2>1, OneLine
  <2>3. QED
    BY <1>0, <2>2
<1>2. InPlace(text, hungUp, s, taken, dropped, n)
  BY FramedAt
<1>3. taken + 1 \in 1..Len(text) /\ text[taken + 1].size \in Nat
  BY <1>1, FramedAt
<1>4. ~s[n].last
  BY <1>0
<1>5. dropped + n <= text[taken + 1].size
  BY <1>1, <1>2, <1>3 DEF InPlace
<1>6. ASSUME n < Len(s)
      PROVE  s[n + 1].line = taken + 1 /\ s[n + 1].part = (dropped + n) + 1
  <2> DEFINE k == n + 1
  <2>1. k \in 1..Len(s)
    BY <1>0, <1>6
  <2>2. InPlace(text, hungUp, s, taken, dropped, k)
    BY <2>1, FramedAt
  <2>3. s[k].line <= Len(text)
    BY <1>0, <2>2 DEF InPlace
  <2>4. IF dropped + n < text[taken + 1].size
          THEN s[k].line = taken + 1 /\ s[k].part = (dropped + n) + 1
          ELSE s[k].line = (taken + 1) + 1 /\ s[k].part = 1
    BY <1>1, <1>2, <1>6 DEF InPlace
  <2>5. dropped + n = text[taken + 1].size => ~(taken + 1 < Len(text))
    BY <1>1, <1>2, <1>4 DEF InPlace
  <2> HIDE DEF k
  <2>6. s[k].line = taken + 1 /\ s[k].part = (dropped + n) + 1
    <3>1. CASE dropped + n < text[taken + 1].size
      BY <2>4, <3>1
    <3>2. CASE ~(dropped + n < text[taken + 1].size)
      <4>1. dropped + n = text[taken + 1].size
        <5> DEFINE size == text[taken + 1].size
        <5>1. size \in Nat /\ dropped + n <= size /\ ~(dropped + n < size)
          BY <1>3, <1>5, <3>2
        <5> HIDE DEF size
        <5>2. dropped + n = size
          BY <1>0, <5>1
        <5>3. QED
          BY <5>2 DEF size
      <4>2. ~(taken + 1 < Len(text)) /\ s[k].line = (taken + 1) + 1
        BY <2>4, <2>5, <3>2, <4>1
      <4>3. QED
        BY <1>0, <2>3, <4>2
    <3>3. QED
      BY <3>1, <3>2
  <2>7. QED
    BY <2>6 DEF k
<1>7. n = Len(s) => /\ taken + 1 = Len(text) /\ hungUp
                    /\ dropped + n = text[taken + 1].size
  BY <1>1, <1>2, <1>4 DEF InPlace
<1>8. Framed(text, hungUp, After(s, n), taken, dropped + n)
  <2>1. dropped + n \in Nat
    BY <1>0
  <2>2. QED
    BY <1>6, <1>7, <2>1, FramedBehind
<1>9. QED
  BY <1>3, <1>5, <1>7, <1>8

(* Behind the first newline starts the next line.                              *)
LEMMA NextLine ==
    ASSUME NEW text \in Seq(Lines), NEW hungUp \in BOOLEAN,
           NEW s \in Seq(Piece), NEW taken \in 0..Len(text), NEW dropped \in Nat,
           Framed(text, hungUp, s, taken, dropped),
           NEW n \in 1..Len(s), n \in Ends(s), \A i \in 1..(n - 1) : ~s[i].last
    PROVE  /\ taken + 1 \in 1..Len(text)
           /\ dropped + n = text[taken + 1].size
           /\ Framed(text, hungUp, After(s, n), taken + 1, 0)
<1>0. Len(s) \in Nat /\ n \in Nat /\ 1 <= n /\ n <= Len(s) /\ Len(text) \in Nat
  OBVIOUS
<1>1. s[n].line = taken + 1 /\ s[n].part = dropped + n
  <2>1. \A i \in 1..n : s[i].line = taken + 1 /\ s[i].part = dropped + i
    BY OneLine
  <2>2. QED
    BY <1>0, <2>1
<1>1a. s[n].last
  BY DEF Ends
<1>2. InPlace(text, hungUp, s, taken, dropped, n)
  BY FramedAt
<1>3. taken + 1 \in 1..Len(text) /\ text[taken + 1].size \in Nat
  BY <1>1, FramedAt
<1>4. dropped + n = text[taken + 1].size
  BY <1>1, <1>2, <1>1a DEF InPlace
<1>5. n < Len(s) => s[n + 1].line = (taken + 1) + 1 /\ s[n + 1].part = 0 + 1
  BY <1>1, <1>1a, <1>2, <1>3, <1>4 DEF InPlace
<1>6. n = Len(s) => taken + 1 = Len(text)
  BY <1>1, <1>2, <1>1a DEF InPlace
<1>7. taken + 1 \in 0..Len(text) /\ 0 \in Nat
  BY <1>3
<1>8. Framed(text, hungUp, After(s, n), taken + 1, 0)
  BY <1>5, <1>6, <1>7, FramedBehind
<1>9. QED
  BY <1>3, <1>4, <1>8

PiecesOf(s, k, size, ended) ==
    /\ s \in Seq(Piece) /\ Len(s) = size
    /\ \A i \in 1..size :
         /\ s[i].line = k /\ s[i].part = i
         /\ s[i].last <=> (ended /\ i = size)

LEMMA PiecesOfALine ==
    ASSUME NEW k \in Nat, NEW size \in Nat, NEW ended
    PROVE  PiecesOf(Pieces(k, size, ended), k, size, ended)
<1> DEFINE new == [i \in 1..size |-> [line |-> k, part |-> i, last |-> ended /\ i = size]]
<1>1. \A i \in 1..size : new[i] \in Piece
  BY DEF Piece
<1>2. new \in Seq(Piece) /\ Len(new) = size
  BY <1>1
<1>3. \A i \in 1..size : /\ new[i].line = k /\ new[i].part = i
                         /\ new[i].last <=> (ended /\ i = size)
  OBVIOUS
<1>4. QED
  BY <1>2, <1>3 DEF Pieces, PiecesOf

(* A line that is written is framed behind the ones before it.                 *)
LEMMA LineArrives ==
    ASSUME NEW text \in Seq(Lines), NEW s \in Seq(Piece),
           NEW taken \in 0..Len(text), NEW dropped \in Nat,
           Framed(text, FALSE, s, taken, dropped),
           NEW l \in Lines, NEW ended \in BOOLEAN, NEW hungUp \in BOOLEAN,
           ended \/ hungUp
    PROVE  Framed(Append(text, l), hungUp,
                  s \o Pieces(Len(text) + 1, l.size, ended), taken, dropped)
<1> DEFINE N == Len(text)
           new == Pieces(N + 1, l.size, ended)
           more == Append(text, l)
           all == s \o new
<1>1. N \in Nat /\ l.size \in Nat \ {0} /\ taken <= N /\ Len(s) \in Nat /\ taken \in Nat
  BY SessionAssumption DEF SessionAssumption, LineType
<1>2. /\ more \in Seq(Lines) /\ Len(more) = N + 1 /\ more[N + 1] = l
      /\ \A j \in 1..N : more[j] = text[j]
  OBVIOUS
<1>3. /\ new \in Seq(Piece) /\ Len(new) = l.size
      /\ \A i \in 1..l.size :
           /\ new[i].line = N + 1 /\ new[i].part = i
           /\ new[i].last <=> (ended /\ i = l.size)
  <2>1. N + 1 \in Nat /\ l.size \in Nat
    BY <1>1
  <2>2. PiecesOf(new, N + 1, l.size, ended)
    BY <2>1, PiecesOfALine
  <2>3. QED
    BY <2>2 DEF PiecesOf
<1> HIDE DEF new, more
<1>4. /\ all \in Seq(Piece) /\ Len(all) = Len(s) + l.size
      /\ \A i \in 1..(Len(s) + l.size) :
            all[i] = IF i <= Len(s) THEN s[i] ELSE new[i - Len(s)]
  <2>1. /\ all \in Seq(Piece) /\ Len(all) = Len(s) + Len(new)
        /\ \A i \in 1..(Len(s) + Len(new)) :
              all[i] = IF i <= Len(s) THEN s[i] ELSE new[i - Len(s)]
    <3>1. new \in Seq(Piece)
      BY <1>3
    <3>2. QED
      BY <3>1, ConcatProperties
  <2>2. QED
    BY <1>3, <2>1
<1> HIDE DEF all, N
<1>5. ASSUME NEW i \in 1..Len(all), i <= Len(s)
      PROVE  InPlace(more, hungUp, all, taken, dropped, i)
  <2>1. i \in 1..Len(s) /\ all[i] = s[i]
    BY <1>1, <1>4, <1>5
  <2>2. InPlace(text, FALSE, s, taken, dropped, i) /\ s[i].line \in 1..N
    BY <2>1, FramedAt DEF N
  <2>3. more[s[i].line] = text[s[i].line]
    BY <1>2, <2>2
  <2>4. /\ s[i].line \in (taken + 1)..(N + 1)
        /\ s[i].part \in 1..text[s[i].line].size
        /\ s[i].last => s[i].part = text[s[i].line].size
        /\ s[i].part = text[s[i].line].size => s[i].last
        /\ i = 1 => s[i].line = taken + 1 /\ s[i].part = dropped + 1
    BY <1>1, <2>2 DEF InPlace, N
  <2>5. CASE i < Len(s)
    <3>1. i + 1 \in 1..(Len(s) + l.size) /\ i + 1 <= Len(s) /\ i # Len(all)
      BY <1>1, <1>4, <2>1, <2>5
    <3>2. all[i + 1] = s[i + 1]
      BY <1>4, <3>1
    <3>3. IF s[i].part < text[s[i].line].size
            THEN s[i + 1].line = s[i].line /\ s[i + 1].part = s[i].part + 1
            ELSE s[i + 1].line = s[i].line + 1 /\ s[i + 1].part = 1
      BY <2>2, <2>5 DEF InPlace
    <3>4. QED
      BY <1>2, <2>1, <2>3, <2>4, <3>1, <3>2, <3>3 DEF InPlace
  <2>6. CASE i = Len(s)
    <3>1. i + 1 \in 1..(Len(s) + l.size) /\ ~(i + 1 <= Len(s)) /\ i # Len(all)
          /\ (i + 1) - Len(s) = 1 /\ 1 \in 1..l.size
      BY <1>1, <1>4, <2>6
    <3>2. all[i + 1].line = N + 1 /\ all[i + 1].part = 1
      BY <1>3, <1>4, <3>1
    <3>3. s[i].line = N /\ s[i].part = text[s[i].line].size
      BY <2>2, <2>6 DEF InPlace, N
    <3>4. ~(s[i].part < text[s[i].line].size)
      BY <2>4, <3>3
    <3>5. QED
      BY <1>2, <2>1, <2>3, <2>4, <3>1, <3>2, <3>3, <3>4 DEF InPlace
  <2>7. QED
    BY <1>5, <2>1, <2>5, <2>6
<1>6. ASSUME NEW i \in 1..Len(all), ~(i <= Len(s))
      PROVE  InPlace(more, hungUp, all, taken, dropped, i)
  <2> DEFINE j == i - Len(s)
  <2>1. /\ j \in 1..l.size /\ all[i] = new[j] /\ i \in Nat
        /\ i = Len(all) <=> j = l.size
        /\ i < Len(all) => j < l.size
    <3>1. i \in Nat /\ i <= Len(s) + l.size /\ i \in 1..(Len(s) + l.size)
      BY <1>1, <1>4
    <3>2. i - Len(s) \in 1..l.size
      BY <1>1, <1>6, <3>1
    <3>3. all[i] = new[i - Len(s)]
      BY <1>4, <1>6, <3>1
    <3>4. Len(all) = Len(s) + l.size
      BY <1>4
    <3>5. (i = Len(all) <=> j = l.size) /\ (i < Len(all) => j < l.size)
      BY <1>1, <3>1, <3>4
    <3>6. QED
      BY <3>1, <3>2, <3>3, <3>5
  <2>2. /\ all[i].line = N + 1 /\ all[i].part = j
        /\ all[i].last <=> (ended /\ j = l.size)
    BY <1>3, <2>1
  <2>3. ASSUME i < Len(all)
        PROVE  j < l.size /\ all[i + 1].line = N + 1 /\ all[i + 1].part = j + 1
    <3>1. j + 1 \in 1..l.size /\ i + 1 \in 1..(Len(s) + l.size)
          /\ (i + 1) - Len(s) = j + 1 /\ ~(i + 1 <= Len(s))
      <4>1. j < l.size /\ j \in Nat /\ 1 <= j /\ i \in Nat
        BY <1>1, <2>1, <2>3
      <4>2. QED
        BY <1>1, <4>1
    <3>2. all[i + 1] = new[j + 1]
      BY <1>4, <3>1
    <3>3. QED
      BY <1>3, <2>1, <2>3, <3>1, <3>2
  <2>4. ASSUME i = 1 PROVE N = taken /\ dropped = 0 /\ j = 1
    <3>1. Len(s) = 0 /\ j = 1
      BY <1>1, <1>6, <2>4
    <3>2. s = <<>>
      BY <3>1
    <3>3. QED
      BY <3>1, <3>2 DEF Framed, N
  <2>5. N + 1 \in (taken + 1)..(N + 1) /\ ~(N + 1 < N + 1)
    BY <1>1
  <2> HIDE DEF j
  <2>6. QED
    BY <1>2, <2>1, <2>2, <2>3, <2>4, <2>5 DEF InPlace
<1>7. all # <<>>
  BY <1>1, <1>4
<1>8. \A i \in DOMAIN all : InPlace(more, hungUp, all, taken, dropped, i)
  BY <1>4, <1>5, <1>6
<1>9. Framed(more, hungUp, all, taken, dropped)
  BY <1>7, <1>8 DEF Framed, InPlace
<1>10. QED
  BY <1>9 DEF all, new, more, N

LEMMA LineArrivesAt ==
    ASSUME NEW text \in Seq(Lines), NEW s \in Seq(Piece),
           NEW taken \in 0..Len(text), NEW dropped \in Nat,
           Framed(text, FALSE, s, taken, dropped),
           NEW l \in Lines, NEW ended \in BOOLEAN, NEW hungUp \in BOOLEAN,
           ended = TRUE \/ hungUp = TRUE, NEW k, k = Len(text) + 1
    PROVE  Framed(Append(text, l), hungUp, s \o Pieces(k, l.size, ended), taken, dropped)
<1>1. Framed(Append(text, l), hungUp, s \o Pieces(Len(text) + 1, l.size, ended),
             taken, dropped)
  BY LineArrives
<1>2. QED
  BY <1>1

(* A client that hangs up takes nothing back.                                  *)
LEMMA NothingTakenBack ==
    ASSUME NEW text \in Seq(Lines), NEW s \in Seq(Piece),
           NEW taken \in 0..Len(text), NEW dropped \in Nat,
           Framed(text, FALSE, s, taken, dropped)
    PROVE  Framed(text, TRUE, s, taken, dropped)
BY DEF Framed

LEMMA NoNewline ==
    ASSUME NEW s \in Seq(Piece), Ends(s) = {}
    PROVE  \A i \in 1..Len(s) : ~s[i].last
BY DEF Ends

LEMMA NothingBefore ==
    ASSUME NEW s \in Seq(Piece)
    PROVE  <<>> \o s = s /\ s \o <<>> = s
BY ConcatEmptySeq

(* What is read first is the front of what lies ahead.                         *)
LEMMA CarryIsAhead ==
    ASSUME NEW c \in Seq(Piece), NEW w \in Seq(Piece)
    PROVE  /\ c \o w \in Seq(Piece) /\ Len(c \o w) = Len(c) + Len(w)
           /\ \A i \in 1..Len(c) : i \in 1..Len(c \o w) /\ (c \o w)[i] = c[i]
<1>1. /\ c \o w \in Seq(Piece) /\ Len(c \o w) = Len(c) + Len(w)
      /\ \A i \in 1..(Len(c) + Len(w)) :
            (c \o w)[i] = IF i <= Len(c) THEN c[i] ELSE w[i - Len(c)]
  BY ConcatProperties
<1>2. Len(c) \in Nat /\ Len(w) \in Nat
  OBVIOUS
<1>3. ASSUME NEW i \in 1..Len(c) PROVE i \in 1..Len(c \o w) /\ (c \o w)[i] = c[i]
  <2>1. i \in 1..(Len(c) + Len(w)) /\ i <= Len(c)
    BY <1>2
  <2>2. QED
    BY <1>1, <2>1
<1>4. QED
  BY <1>1, <1>3

(* The newline in the carry ends the line that is due, and the carry behind it *)
(* starts the next one.                                                        *)
LEMMA CarryHoldsALine ==
    ASSUME NEW text \in Seq(Lines), NEW hungUp \in BOOLEAN,
           NEW c \in Seq(Piece), NEW w \in Seq(Piece), NEW taken \in 0..Len(text),
           Framed(text, hungUp, c \o w, taken, 0), Ends(c) # {}
    PROVE  /\ taken + 1 \in 1..Len(text)
           /\ FirstEnd(c) = text[taken + 1].size
           /\ Framed(text, hungUp, After(c, FirstEnd(c)) \o w, taken + 1, 0)
           /\ After(c, FirstEnd(c)) \in Seq(Piece)
<1> DEFINE n == FirstEnd(c)
           s == c \o w
<1>1. n \in 1..Len(c) /\ c[n].last /\ \A i \in 1..Len(c) : i < n => ~c[i].last
  BY FirstEndIsFirst
<1>2. /\ s \in Seq(Piece) /\ Len(s) = Len(c) + Len(w)
      /\ \A i \in 1..Len(c) : i \in 1..Len(s) /\ s[i] = c[i]
  BY CarryIsAhead
<1> HIDE DEF n, s
<1>3. n \in 0..Len(c) /\ n \in 1..Len(s) /\ n \in Ends(s)
  BY <1>1, <1>2 DEF Ends
<1>4. \A i \in 1..(n - 1) : i \in 1..Len(c) /\ i < n
  BY <1>1
<1>5. \A i \in 1..(n - 1) : ~s[i].last
  BY <1>1, <1>2, <1>4
<1>6. Framed(text, hungUp, s, taken, 0) /\ 0 \in Nat
  BY DEF s
<1>7. /\ taken + 1 \in 1..Len(text) /\ 0 + n = text[taken + 1].size
      /\ Framed(text, hungUp, After(s, n), taken + 1, 0)
  <2>1. s \in Seq(Piece)
    BY <1>2
  <2>2. QED
    BY <2>1, <1>3, <1>5, <1>6, NextLine
<1>8. After(s, n) = After(c, n) \o w
  BY <1>3, TakeKeepsRest DEF s
<1>9. After(c, n) \in Seq(Piece)
  BY <1>3, AfterPieces
<1>10. QED
  BY <1>1, <1>7, <1>8, <1>9 DEF n

(* A carry without a newline is the start of the line that is due: all of it   *)
(* when nothing more will come.                                                *)
LEMMA CarryHoldsPart ==
    ASSUME NEW text \in Seq(Lines), NEW hungUp \in BOOLEAN,
           NEW c \in Seq(Piece), NEW w \in Seq(Piece), NEW taken \in 0..Len(text),
           Framed(text, hungUp, c \o w, taken, 0), Ends(c) = {}, c # <<>>
    PROVE  /\ taken + 1 \in 1..Len(text)
           /\ Len(c) <= text[taken + 1].size
           /\ Framed(text, hungUp, w, taken, Len(c))
           /\ w = <<>> => /\ taken + 1 = Len(text) /\ hungUp
                          /\ Len(c) = text[taken + 1].size
<1> DEFINE n == Len(c)
           s == c \o w
<1>1. \A i \in 1..n : ~c[i].last
  BY NoNewline
<1>2. /\ s \in Seq(Piece) /\ Len(s) = Len(c) + Len(w)
      /\ \A i \in 1..Len(c) : i \in 1..Len(s) /\ s[i] = c[i]
  BY CarryIsAhead
<1>3. n \in Nat /\ n # 0 /\ Len(w) \in Nat
  BY EmptySeq
<1> HIDE DEF n, s
<1>4. n \in 0..Len(c) /\ n \in 1..Len(s) /\ n \in 1..Len(c)
  BY <1>2, <1>3 DEF n
<1>5. \A i \in 1..n : ~s[i].last
  BY <1>1, <1>2 DEF n
<1>6. Framed(text, hungUp, s, taken, 0) /\ 0 \in Nat /\ n \in Nat /\ n = 0 + n
  BY <1>3 DEF s
<1>7. /\ taken + 1 \in 1..Len(text) /\ n <= text[taken + 1].size
      /\ Framed(text, hungUp, After(s, n), taken, n)
      /\ n = Len(s) => /\ taken + 1 = Len(text) /\ hungUp
                       /\ n = text[taken + 1].size
  BY <1>2, <1>4, <1>5, <1>6, PartOfALine
<1>8. After(s, n) = w
  <2>1. After(c, n) \o w = After(s, n)
    BY <1>4, TakeKeepsRest DEF s
  <2>2. After(c, n) \in Seq(Piece) /\ Len(After(c, n)) = Len(c) - n
    BY <1>4, AfterPieces
  <2>3. Len(After(c, n)) = 0
    BY <1>3, <2>2 DEF n
  <2>4. After(c, n) = <<>>
    BY <2>2, <2>3, EmptySeq
  <2>5. QED
    BY <2>1, <2>4, NothingBefore
<1>9. w = <<>> => n = Len(s)
  BY <1>2, <1>3 DEF n
<1>10. QED
  BY <1>3, <1>7, <1>8, <1>9 DEF n

(* A chunk thrown away without a newline in it was part of the oversized line. *)
LEMMA ChunkIsPart ==
    ASSUME NEW text \in Seq(Lines), NEW hungUp \in BOOLEAN,
           NEW w \in Seq(Piece), NEW taken \in 0..Len(text), NEW dropped \in Nat,
           Framed(text, hungUp, w, taken, dropped),
           NEW n \in 1..Len(w), Ends(SubSeq(w, 1, n)) = {}
    PROVE  /\ dropped + n <= text[taken + 1].size
           /\ Framed(text, hungUp, After(w, n), taken, dropped + n)
<1>1. /\ SubSeq(w, 1, n) \in Seq(Piece) /\ Len(SubSeq(w, 1, n)) = n
      /\ \A i \in 1..n : SubSeq(w, 1, n)[i] = w[i]
  BY FirstPieces
<1>2. \A i \in 1..n : ~SubSeq(w, 1, n)[i].last
  BY <1>1, NoNewline
<1>3. \A i \in 1..n : ~w[i].last
  BY <1>1, <1>2
<1> DEFINE upto == dropped + n
<1>4. upto \in Nat /\ upto = dropped + n
  OBVIOUS
<1> HIDE DEF upto
<1>5. upto <= text[taken + 1].size /\ Framed(text, hungUp, After(w, n), taken, upto)
  BY <1>3, <1>4, PartOfALine
<1>6. QED
  BY <1>4, <1>5

(* The newline in the chunk ends the oversized line, and what is kept of the   *)
(* chunk starts the next one.                                                  *)
LEMMA ChunkHoldsTheEnd ==
    ASSUME NEW text \in Seq(Lines), NEW hungUp \in BOOLEAN,
           NEW w \in Seq(Piece), NEW taken \in 0..Len(text), NEW dropped \in Nat,
           Framed(text, hungUp, w, taken, dropped),
           NEW n \in 1..Len(w), Ends(SubSeq(w, 1, n)) # {}
    PROVE  /\ taken + 1 \in 1..Len(text)
           /\ KeptOfDiscard(SubSeq(w, 1, n)) \in Seq(Piece)
           /\ Framed(text, hungUp, KeptOfDiscard(SubSeq(w, 1, n)) \o After(w, n),
                     taken + 1, 0)
<1> DEFINE chunk == SubSeq(w, 1, n)
           behind == After(w, n)
           e == FirstEnd(chunk)
<1>1. /\ chunk \in Seq(Piece) /\ Len(chunk) = n
      /\ \A i \in 1..n : chunk[i] = w[i]
  BY FirstPieces
<1>2. e \in 1..Len(chunk) /\ chunk[e].last /\ \A i \in 1..Len(chunk) : i < e => ~chunk[i].last
  BY <1>1, FirstEndIsFirst
<1>3. n \in 0..Len(w) /\ behind \in Seq(Piece)
  <2>1. n \in 0..Len(w)
    OBVIOUS
  <2>2. QED
    BY <2>1, AfterPieces
<1>4. chunk \o behind = w
  <2>1. (<<>> \o chunk) \o behind = <<>> \o w
    BY ReadKeepsAll, EmptySeq
  <2>2. QED
    BY <1>1, <2>1, NothingBefore
<1> HIDE DEF chunk, behind, e
<1>5. e \in 1..Len(w) /\ e \in Ends(w) /\ e \in 0..Len(chunk)
  BY <1>1, <1>2 DEF Ends
<1>6. \A i \in 1..(e - 1) : ~w[i].last
  <2>1. \A i \in 1..(e - 1) : i \in 1..n /\ i \in 1..Len(chunk) /\ i < e
    BY <1>1, <1>2
  <2>2. QED
    BY <1>1, <1>2, <2>1
<1>7. taken + 1 \in 1..Len(text) /\ Framed(text, hungUp, After(w, e), taken + 1, 0)
  BY <1>5, <1>6, NextLine
<1>8. After(chunk, e) \o behind = After(w, e) /\ After(chunk, e) \in Seq(Piece)
  BY <1>1, <1>3, <1>4, <1>5, TakeKeepsRest, AfterPieces
<1>9. QED
  BY <1>7, <1>8 DEF chunk, behind, e, KeptOfDiscard

(* With nothing ahead all lines are taken, but for one that was thrown away    *)
(* to its end.                                                                 *)
LEMMA NothingAhead ==
    ASSUME NEW text \in Seq(Lines), NEW hungUp \in BOOLEAN,
           NEW taken \in 0..Len(text), NEW dropped \in Nat
    PROVE  /\ Framed(text, hungUp, <<>>, taken, dropped) =>
                \/ taken = Len(text) /\ dropped = 0
                \/ taken + 1 = Len(text) /\ dropped # 0
           /\ Framed(text, hungUp, <<>>, Len(text), 0)
<1>1. Framed(text, hungUp, <<>>, taken, dropped) =>
         \/ taken = Len(text) /\ dropped = 0
         \/ taken + 1 = Len(text) /\ dropped = text[taken + 1].size
  BY DEF Framed
<1>2. ASSUME taken + 1 = Len(text) PROVE text[taken + 1].size # 0
  <2>1. taken + 1 \in 1..Len(text)
    BY <1>2
  <2>2. QED
    BY <2>1, LinesHaveSizes
<1>3. Framed(text, hungUp, <<>>, Len(text), 0)
  BY DEF Framed
<1>4. QED
  BY <1>1, <1>2, <1>3

------------------------------------------------------------------------------
(* What the steps do                                                           *)

(* A step of the client: it may write a line, and takes nothing back.          *)
Arrives ==
    /\ script' \in Seq(Lines) /\ Len(script) <= Len(script')
    /\ \A k \in 1..Len(script) : script'[k] = script[k]
    /\ wire' \in Seq(Piece) /\ closed' \in BOOLEAN /\ gone' \in BOOLEAN
    /\ closed => closed' /\ script' = script
    /\ gone => gone'
    /\ ~discarding => Framed(script', closed', carry \o wire', reading, 0)
    /\ discarding => \E n \in (MaxLineSize + 1)..script[reading + 1].size :
                         Framed(script', closed', wire', reading, n)
    /\ UNCHANGED <<reader, pc, answer, handshake, tools, outbox, stop, ran>>

(* A step of the agent or of the operator.                                     *)
Churns ==
    /\ disk' \subseteq Tools /\ proposals' \subseteq Tools
    /\ UNCHANGED <<client, reader, pc, answer, handshake, registry, outbox, stop, ran>>

(* A step of the reader that takes the line that is due: it is refused exactly *)
(* when it is too long.                                                        *)
Takes ==
    /\ Reading /\ reading + 1 \in 1..Len(script) /\ reading' = reading + 1
    /\ carry' \in Seq(Piece) /\ wire' \in Seq(Piece) /\ discarding' = FALSE
    /\ Framed(script, closed, carry' \o wire', reading + 1, 0)
    /\ IF TooLong(script[reading + 1].size) THEN RefuseLine ELSE Deliver
    /\ UNCHANGED <<script, closed, gone, answer, handshake, tools, ran>>

(* A step of the reader that takes none.                                       *)
Reads ==
    /\ Reading
    /\ carry' \in Seq(Piece) /\ wire' \in Seq(Piece) /\ discarding' \in BOOLEAN
    /\ ~discarding' => Framed(script, closed, carry' \o wire', reading, 0)
    /\ discarding' =>
         /\ carry' = <<>> /\ reading < Len(script)
         /\ \E n \in (MaxLineSize + 1)..script[reading + 1].size :
              Framed(script, closed, wire', reading, n)
    /\ stop' = stop \/ (stop' = "eof" /\ closed /\ reading = Len(script))
    /\ UNCHANGED <<reading, script, closed, gone, pc, answer, handshake, tools,
                   outbox, ran>>

(* A pass over the proposals: a registry that changed is announced.            *)
Scans ==
    /\ pc = "tools" /\ pc' \in {"handle", "announce"}
    /\ registry' \subseteq Tools /\ disk' \subseteq Tools /\ proposals' \subseteq Tools
    /\ pc' = "handle" => registry' = registry
    /\ UNCHANGED <<client, reader, answer, handshake, outbox, stop, ran>>

(* A step that answers the line: with an error, or with what its handler made. *)
Replies(code, names) ==
    /\ Handling /\ Refusal(Line) # "silent"
    /\ answer' = <<[to |-> reading, is |-> code, names |-> names]>> /\ pc' = "send"
    /\ code \in Codes /\ names \in SUBSET Tools
    /\ code \in Policies \cup {"result", "listing", "tool_error", "internal_error", "unencodable"}
         => Refusal(Line) = "none"
    /\ code = "listing" => names = registry
    /\ handshake' = (handshake \/ (code = "result" /\ Line.method = "initialize"))
    /\ \/ ran' = ran /\ code # "unencodable"
       \/ /\ ran' = ran \cup {reading} /\ code \in {"result", "internal_error", "unencodable"}
          /\ Refusal(Line) = "none" /\ Line.method = "tools/call"
    /\ UNCHANGED <<client, reader, tools, outbox, stop>>

LEMMA LineKnown ==
    ASSUME TypeOK, reading # 0
    PROVE  /\ reading \in 1..Len(script) /\ Len(script) \in Nat
           /\ Line \in Lines /\ Line \in LineType
<1>1. reading \in 1..Len(script) /\ Len(script) \in Nat
  BY DEF TypeOK
<1>2. script[reading] \in Lines
  BY <1>1 DEF TypeOK
<1>3. QED
  BY <1>1, <1>2, SessionAssumption DEF Line, SessionAssumption

LEMMA WriteArrives ==
    ASSUME TypeOK, LinesArriveWhole, NEW l \in Lines, NEW ended \in BOOLEAN,
           closed = FALSE, closed' \in BOOLEAN, ended = TRUE \/ closed' = TRUE, gone' = gone,
           script' = Append(script, l),
           wire' = wire \o Pieces(Len(script) + 1, l.size, ended),
           UNCHANGED <<reader, pc, answer, handshake, tools, outbox, stop, ran>>
    PROVE  Arrives
<1> DEFINE place == Len(script) + 1
           new == Pieces(place, l.size, ended)
<1>1. /\ script \in Seq(Lines) /\ Len(script) \in Nat /\ closed = FALSE
      /\ wire \in Seq(Piece) /\ carry \in Seq(Piece)
      /\ reading \in 0..Len(script) /\ discarding \in BOOLEAN /\ gone \in BOOLEAN
  BY DEF TypeOK
<1>2. /\ script' \in Seq(Lines) /\ Len(script) <= Len(script')
      /\ \A k \in 1..Len(script) : script'[k] = script[k]
  BY <1>1
<1>3. new \in Seq(Piece)
  <2>1. place \in Nat /\ l.size \in Nat
    BY <1>1, SessionAssumption DEF SessionAssumption, LineType
  <2>2. \A k \in Nat, size \in Nat : Pieces(k, size, ended) \in Seq(Piece)
    BY PiecesOfALine DEF PiecesOf
  <2>3. QED
    BY <2>1, <2>2
<1>4. wire' = wire \o new /\ wire' \in Seq(Piece) /\ place = Len(script) + 1
  BY <1>1, <1>3, ConcatProperties
<1> HIDE DEF place
<1>4a. script \in Seq(Lines) /\ reading \in 0..Len(script) /\ place \in Nat
  BY <1>1 DEF place
<1>4b. place = Len(script) + 1
  BY <1>4
<1>4c. \A tail \in Seq(Piece) : (carry \o wire) \o tail = carry \o (wire \o tail)
  <2>1. carry \in Seq(Piece) /\ wire \in Seq(Piece)
    BY <1>1
  <2>2. QED
    BY <2>1, ConcatAssociative
<1>5. ASSUME ~discarding PROVE Framed(script', closed', carry \o wire', reading, 0)
  <2>1. Framed(script, FALSE, carry \o wire, reading, 0)
    BY <1>1, <1>5 DEF LinesArriveWhole, Ahead
  <2>2. carry \o wire \in Seq(Piece) /\ 0 \in Nat
    BY <1>1, ConcatProperties
  <2>3. Framed(Append(script, l), closed', (carry \o wire) \o new, reading, 0)
    BY <1>4a, <1>4b, <2>1, <2>2, LineArrivesAt
  <2>4. (carry \o wire) \o new = carry \o (wire \o new)
    BY <1>3, <1>4c
  <2>5. QED
    BY <1>4, <2>3, <2>4
<1>5a. ASSUME NEW n \in Nat, Framed(script, FALSE, wire, reading, n)
       PROVE  Framed(Append(script, l), closed', wire \o new, reading, n)
  <2>1. wire \in Seq(Piece)
    BY <1>1
  <2>2. QED
    BY <1>4a, <1>4b, <1>5a, <2>1, LineArrivesAt
<1>6. ASSUME discarding
      PROVE  \E n \in (MaxLineSize + 1)..script[reading + 1].size :
                Framed(script', closed', wire', reading, n)
  <2>1. PICK n \in (MaxLineSize + 1)..script[reading + 1].size :
                Framed(script, closed, wire, reading, n)
    BY <1>6 DEF LinesArriveWhole
  <2>2. n \in Nat
    BY SessionAssumption DEF SessionAssumption
  <2>3. Framed(script, FALSE, wire, reading, n)
    BY <1>1, <2>1
  <2>4. Framed(Append(script, l), closed', wire \o new, reading, n)
    BY <1>5a, <2>2, <2>3
  <2>5. QED
    BY <1>4, <2>4
<1>7. QED
  BY <1>1, <1>2, <1>4, <1>5, <1>6 DEF Arrives

LEMMA ClientArrives ==
    ASSUME TypeOK, LinesArriveWhole, Write \/ HangUp \/ StopReading
    PROVE  Arrives
<1>1. /\ script \in Seq(Lines) /\ Len(script) \in Nat /\ closed \in BOOLEAN
      /\ wire \in Seq(Piece) /\ carry \in Seq(Piece)
      /\ reading \in 0..Len(script) /\ discarding \in BOOLEAN /\ gone \in BOOLEAN
  BY DEF TypeOK
<1>2. CASE Write
  <2>1. PICK l \in Lines :
          /\ script' = Append(script, l)
          /\ wire' = wire \o Pieces(Len(script) + 1, l.size, TRUE)
    BY <1>2 DEF Write
  <2>2. /\ closed = FALSE /\ closed' \in BOOLEAN /\ gone' = gone
        /\ UNCHANGED <<reader, pc, answer, handshake, tools, outbox, stop, ran>>
    BY <1>1, <1>2 DEF Write
  <2>3. QED
    BY <2>1, <2>2, WriteArrives
<1>3. CASE HangUp
  <2>1. /\ closed = FALSE /\ closed' = TRUE /\ gone' = gone
        /\ UNCHANGED <<reader, pc, answer, handshake, tools, outbox, stop, ran>>
    BY <1>1, <1>3 DEF HangUp
  <2>2. CASE UNCHANGED <<script, wire>>
    <3>1. ASSUME ~discarding PROVE Framed(script', closed', carry \o wire', reading, 0)
      <4>1. Framed(script, FALSE, carry \o wire, reading, 0)
        BY <1>1, <2>1, <3>1 DEF LinesArriveWhole, Ahead
      <4>2. carry \o wire \in Seq(Piece) /\ 0 \in Nat
        BY <1>1, ConcatProperties
      <4>3. QED
        BY <1>1, <2>1, <2>2, <4>1, <4>2, NothingTakenBack
    <3>2. ASSUME discarding
          PROVE  \E n \in (MaxLineSize + 1)..script[reading + 1].size :
                    Framed(script', closed', wire', reading, n)
      <4>1. PICK n \in (MaxLineSize + 1)..script[reading + 1].size :
                    Framed(script, closed, wire, reading, n)
        BY <3>2 DEF LinesArriveWhole
      <4>2. n \in Nat
        BY SessionAssumption DEF SessionAssumption
      <4>3. Framed(script, FALSE, wire, reading, n)
        BY <1>1, <2>1, <4>1
      <4>4. Framed(script, TRUE, wire, reading, n)
        BY <1>1, <4>2, <4>3, NothingTakenBack
      <4>5. QED
        BY <2>1, <2>2, <4>4
    <3>3. /\ script' \in Seq(Lines) /\ Len(script) <= Len(script')
          /\ \A k \in 1..Len(script) : script'[k] = script[k]
          /\ wire' \in Seq(Piece) /\ closed' \in BOOLEAN /\ gone' \in BOOLEAN
          /\ closed => closed' /\ script' = script
          /\ gone => gone'
      BY <1>1, <2>1, <2>2
    <3>4. QED
      BY <2>1, <3>1, <3>2, <3>3 DEF Arrives
  <2>3. CASE \E l \in Lines :
               /\ script' = Append(script, l)
               /\ wire' = wire \o Pieces(Len(script) + 1, l.size, FALSE)
    BY <2>1, <2>3, WriteArrives
  <2>4. QED
    BY <1>3, <2>2, <2>3 DEF HangUp
<1>4. CASE StopReading
  BY <1>1, <1>4 DEF StopReading, Arrives, LinesArriveWhole, Ahead
<1>5. QED
  BY <1>2, <1>3, <1>4

LEMMA TakeLineTakes ==
    ASSUME TypeOK, LinesArriveWhole, TakeLine
    PROVE  Takes
<1>1. /\ script \in Seq(Lines) /\ closed \in BOOLEAN /\ discarding = FALSE
      /\ wire \in Seq(Piece) /\ carry \in Seq(Piece) /\ reading \in 0..Len(script)
  BY DEF TypeOK, TakeLine
<1>2. Framed(script, closed, carry \o wire, reading, 0)
  BY <1>1 DEF LinesArriveWhole, Ahead
<1>3. Ends(carry) # {} /\ Reading /\ reading' = reading + 1
      /\ carry' = After(carry, FirstEnd(carry)) /\ wire' = wire /\ discarding' = discarding
  BY DEF TakeLine, client
<1>4. /\ reading + 1 \in 1..Len(script)
      /\ FirstEnd(carry) = script[reading + 1].size
      /\ Framed(script, closed, After(carry, FirstEnd(carry)) \o wire, reading + 1, 0)
      /\ After(carry, FirstEnd(carry)) \in Seq(Piece)
  BY <1>1, <1>2, <1>3, CarryHoldsALine
<1>5. IF TooLong(script[reading + 1].size) THEN RefuseLine ELSE Deliver
  BY <1>4 DEF TakeLine, Frame
<1>6. UNCHANGED <<script, closed, gone, answer, handshake, tools, ran>>
  BY DEF TakeLine, client
<1>7. QED
  BY <1>1, <1>3, <1>4, <1>5, <1>6 DEF Takes

LEMMA StartDiscardReads ==
    ASSUME TypeOK, LinesArriveWhole, StartDiscard
    PROVE  Reads
<1>1. /\ script \in Seq(Lines) /\ closed \in BOOLEAN /\ discarding = FALSE
      /\ wire \in Seq(Piece) /\ carry \in Seq(Piece) /\ reading \in 0..Len(script)
  BY DEF TypeOK, StartDiscard
<1>2. Framed(script, closed, carry \o wire, reading, 0)
  BY <1>1 DEF LinesArriveWhole, Ahead
<1>3. Ends(carry) = {} /\ TooLong(Len(carry)) /\ Reading
  BY DEF StartDiscard
<1>4. Len(carry) \in Nat /\ Len(carry) >= MaxLineSize + 1 /\ carry # <<>>
  BY <1>1, <1>3, EmptySeq, SessionAssumption DEF TooLong, SessionAssumption
<1>5. /\ reading + 1 \in 1..Len(script) /\ Len(carry) <= script[reading + 1].size
      /\ Framed(script, closed, wire, reading, Len(carry))
  BY <1>1, <1>2, <1>3, <1>4, CarryHoldsPart
<1>6. script[reading + 1].size \in Nat
  BY <1>1, <1>5, LinesHaveSizes
<1>7. Len(carry) \in (MaxLineSize + 1)..script[reading + 1].size
  BY <1>4, <1>5, <1>6, SessionAssumption DEF SessionAssumption
<1>8. /\ carry' = <<>> /\ discarding' = TRUE /\ wire' = wire /\ stop' = stop
      /\ UNCHANGED <<reading, script, closed, gone, pc, answer, handshake, tools,
                     outbox, ran>>
  BY DEF StartDiscard, client
<1>9. reading < Len(script)
  BY <1>1, <1>5
<1>10. QED
  BY <1>1, <1>3, <1>5, <1>7, <1>8, <1>9, EmptySeq DEF Reads

LEMMA ReadChunkReads ==
    ASSUME TypeOK, LinesArriveWhole, ReadChunk
    PROVE  Reads
<1>1. /\ script \in Seq(Lines) /\ closed \in BOOLEAN /\ discarding = FALSE
      /\ wire \in Seq(Piece) /\ carry \in Seq(Piece) /\ reading \in 0..Len(script)
  BY DEF TypeOK, ReadChunk
<1>2. Framed(script, closed, carry \o wire, reading, 0)
  BY <1>1 DEF LinesArriveWhole, Ahead
<1>3. PICK n \in 1..Len(wire) :
         carry' = carry \o SubSeq(wire, 1, n) /\ wire' = After(wire, n)
  BY DEF ReadChunk
<1>4. carry' \o wire' = carry \o wire
  BY <1>1, <1>3, ReadKeepsAll
<1>5. carry' \in Seq(Piece)
  <2>1. SubSeq(wire, 1, n) \in Seq(Piece)
    BY <1>1, FirstPieces
  <2>2. QED
    BY <1>1, <1>3, <2>1, ConcatProperties
<1>6. wire' \in Seq(Piece)
  <2>1. n \in 0..Len(wire)
    BY <1>1
  <2>2. QED
    BY <1>1, <1>3, <2>1, AfterPieces
<1>7. /\ Reading /\ discarding' = FALSE /\ stop' = stop
      /\ UNCHANGED <<reading, script, closed, gone, pc, answer, handshake, tools,
                     outbox, ran>>
  BY <1>1 DEF ReadChunk
<1>8. QED
  BY <1>2, <1>4, <1>5, <1>6, <1>7 DEF Reads

LEMMA DiscardChunkReads ==
    ASSUME TypeOK, LinesArriveWhole, DiscardChunk
    PROVE  Takes \/ Reads
<1>1. /\ script \in Seq(Lines) /\ closed \in BOOLEAN /\ discarding = TRUE
      /\ wire \in Seq(Piece) /\ carry \in Seq(Piece) /\ reading \in 0..Len(script)
  BY DEF TypeOK, DiscardChunk
<1>2. PICK m \in (MaxLineSize + 1)..script[reading + 1].size :
         Framed(script, closed, wire, reading, m)
  BY <1>1 DEF LinesArriveWhole
<1>3. carry = <<>> /\ reading < Len(script) /\ Reading
  BY <1>1 DEF LinesArriveWhole, DiscardChunk
<1>4. reading + 1 \in 1..Len(script) /\ script[reading + 1].size \in Nat
  <2>1. reading + 1 \in 1..Len(script)
    BY <1>1, <1>3
  <2>2. QED
    BY <1>1, <2>1, LinesHaveSizes
<1>5. m \in Nat /\ TooLong(script[reading + 1].size)
  BY <1>4, SessionAssumption DEF SessionAssumption, TooLong
<1>6. PICK n \in 1..Len(wire) :
         /\ wire' = After(wire, n)
         /\ IF Ends(SubSeq(wire, 1, n)) = {}
              THEN UNCHANGED <<carry, discarding, reading, pc, outbox, stop>>
              ELSE /\ carry' = KeptOfDiscard(SubSeq(wire, 1, n))
                   /\ discarding' = FALSE
                   /\ reading' = reading + 1
                   /\ RefuseLine
  BY DEF DiscardChunk
<1>7. UNCHANGED <<script, closed, gone, answer, handshake, tools, ran>>
  BY DEF DiscardChunk
<1>8. wire' \in Seq(Piece)
  <2>1. n \in 0..Len(wire)
    BY <1>1
  <2>2. QED
    BY <1>1, <1>6, <2>1, AfterPieces
<1>9. CASE Ends(SubSeq(wire, 1, n)) = {}
  <2>1. /\ m + n <= script[reading + 1].size
        /\ Framed(script, closed, After(wire, n), reading, m + n)
    BY <1>1, <1>2, <1>5, <1>9, ChunkIsPart
  <2>2. m + n \in (MaxLineSize + 1)..script[reading + 1].size
    BY <1>4, <1>5, <2>1, SessionAssumption DEF SessionAssumption
  <2>3. \E d \in (MaxLineSize + 1)..script[reading + 1].size :
           Framed(script, closed, wire', reading, d)
    BY <1>6, <2>1, <2>2
  <2>4. UNCHANGED <<carry, discarding, reading, pc, outbox, stop>>
    BY <1>6, <1>9
  <2>5. Reads
    BY <1>1, <1>3, <1>7, <1>8, <2>3, <2>4, EmptySeq DEF Reads
  <2>6. QED
    BY <2>5
<1>10. CASE Ends(SubSeq(wire, 1, n)) # {}
  <2>1. /\ carry' = KeptOfDiscard(SubSeq(wire, 1, n)) /\ discarding' = FALSE
        /\ reading' = reading + 1 /\ RefuseLine
    BY <1>6, <1>10
  <2>2. /\ KeptOfDiscard(SubSeq(wire, 1, n)) \in Seq(Piece)
        /\ Framed(script, closed, KeptOfDiscard(SubSeq(wire, 1, n)) \o After(wire, n),
                  reading + 1, 0)
    BY <1>1, <1>2, <1>5, <1>10, ChunkHoldsTheEnd
  <2>3. carry' \in Seq(Piece) /\ Framed(script, closed, carry' \o wire', reading + 1, 0)
    BY <1>6, <2>1, <2>2
  <2>4. Takes
    BY <1>3, <1>4, <1>5, <1>7, <1>8, <2>1, <2>3 DEF Takes
  <2>5. QED
    BY <2>4
<1>11. QED
  BY <1>9, <1>10

LEMMA EndOfInputReads ==
    ASSUME TypeOK, LinesArriveWhole, EndOfInput
    PROVE  Takes \/ Reads
<1>1. /\ script \in Seq(Lines) /\ Len(script) \in Nat /\ closed = TRUE
      /\ discarding \in BOOLEAN /\ wire = <<>> /\ carry \in Seq(Piece)
      /\ reading \in 0..Len(script)
  BY DEF TypeOK, EndOfInput
<1>2. /\ Reading /\ wire' = wire
      /\ UNCHANGED <<script, closed, gone, answer, handshake, tools, ran>>
  BY DEF EndOfInput, client
<1>3. wire' = <<>> /\ wire' \in Seq(Piece) /\ <<>> \in Seq(Piece)
  BY <1>1, <1>2, EmptySeq
<1>4. Framed(script, closed, <<>>, Len(script), 0)
  BY <1>1, NothingAhead
<1>5. CASE /\ discarding /\ discarding' = FALSE /\ reading' = reading + 1
           /\ RefuseLine /\ UNCHANGED carry
  <2>1. /\ carry = <<>> /\ reading < Len(script)
        /\ \E m \in (MaxLineSize + 1)..script[reading + 1].size :
              Framed(script, closed, wire, reading, m)
    BY <1>5 DEF LinesArriveWhole
  <2>2. PICK m \in (MaxLineSize + 1)..script[reading + 1].size :
              Framed(script, closed, wire, reading, m)
    BY <2>1
  <2>3. reading + 1 \in 1..Len(script) /\ script[reading + 1].size \in Nat
    <3>1. reading + 1 \in 1..Len(script)
      BY <1>1, <2>1
    <3>2. QED
      BY <1>1, <3>1, LinesHaveSizes
  <2>4. m \in Nat /\ TooLong(script[reading + 1].size)
    BY <2>3, SessionAssumption DEF SessionAssumption, TooLong
  <2>5. reading + 1 = Len(script)
    <3>1. Framed(script, closed, <<>>, reading, m)
      BY <1>1, <2>2
    <3>2. \/ reading = Len(script) /\ m = 0
          \/ reading + 1 = Len(script) /\ m # 0
      BY <1>1, <2>4, <3>1, NothingAhead
    <3>3. QED
      BY <2>1, <3>2
  <2>6. carry' = <<>> /\ carry' \in Seq(Piece) /\ carry' \o wire' = <<>>
    BY <1>3, <1>5, <2>1, NothingBefore
  <2>7. Framed(script, closed, carry' \o wire', reading + 1, 0)
    BY <1>4, <2>5, <2>6
  <2>8. Takes
    BY <1>2, <1>3, <1>5, <2>3, <2>4, <2>6, <2>7 DEF Takes
  <2>9. QED
    BY <2>8
<1>6. CASE /\ ~discarding /\ Ends(carry) = {} /\ carry # <<>> /\ ~TooLong(Len(carry))
           /\ carry' = <<>> /\ reading' = reading + 1
           /\ Deliver /\ UNCHANGED discarding
  <2>1. Framed(script, closed, carry \o wire, reading, 0)
    BY <1>6 DEF LinesArriveWhole, Ahead
  <2>2. /\ reading + 1 \in 1..Len(script) /\ reading + 1 = Len(script)
        /\ Len(carry) = script[reading + 1].size
    <3>1. /\ script \in Seq(Lines) /\ closed \in BOOLEAN /\ carry \in Seq(Piece)
          /\ wire \in Seq(Piece) /\ reading \in 0..Len(script)
          /\ Ends(carry) = {} /\ carry # <<>>
      BY <1>1, <1>3, <1>6
    <3>2. /\ reading + 1 \in 1..Len(script)
          /\ wire = <<>> => /\ reading + 1 = Len(script) /\ closed
                            /\ Len(carry) = script[reading + 1].size
      BY <2>1, <3>1, CarryHoldsPart
    <3>3. QED
      BY <1>1, <3>2
  <2>3. carry' = <<>> /\ carry' \in Seq(Piece) /\ carry' \o wire' = <<>>
    BY <1>3, <1>6, NothingBefore
  <2>4. Framed(script, closed, carry' \o wire', reading + 1, 0)
    BY <1>4, <2>2, <2>3
  <2>5. IF TooLong(script[reading + 1].size) THEN RefuseLine ELSE Deliver
    BY <1>6, <2>2
  <2>6. discarding' = FALSE
    BY <1>1, <1>6
  <2>7. Takes
    BY <1>2, <1>3, <1>6, <2>2, <2>3, <2>4, <2>5, <2>6 DEF Takes
  <2>8. QED
    BY <2>7
<1>7. CASE /\ ~discarding /\ carry = <<>>
           /\ stop' = "eof" /\ UNCHANGED <<carry, discarding, reading, pc, outbox>>
  <2>1. Framed(script, closed, carry \o wire, reading, 0)
    BY <1>7 DEF LinesArriveWhole, Ahead
  <2>2. carry \o wire = <<>> /\ carry' \o wire' = carry \o wire
    BY <1>1, <1>2, <1>3, <1>7, NothingBefore
  <2>3. reading = Len(script)
    <3>1. Framed(script, closed, <<>>, reading, 0) /\ 0 \in Nat
      BY <2>1, <2>2
    <3>2. QED
      BY <1>1, <3>1, NothingAhead
  <2>4. Framed(script, closed, carry' \o wire', reading, 0)
    BY <2>1, <2>2
  <2>5. Reads
    BY <1>1, <1>2, <1>3, <1>7, <2>3, <2>4 DEF Reads
  <2>6. QED
    BY <2>5
<1>8. QED
  BY <1>5, <1>6, <1>7 DEF EndOfInput

LEMMA ReaderTakesOrReads ==
    ASSUME TypeOK, LinesArriveWhole, ReaderSteps
    PROVE  Takes \/ Reads
BY TakeLineTakes, StartDiscardReads, ReadChunkReads, DiscardChunkReads,
   EndOfInputReads DEF ReaderSteps

LEMMA InboxScans ==
    ASSUME TypeOK, PassWithoutInstall \/ Install
    PROVE  Scans
<1>1. registry \subseteq Tools /\ disk \subseteq Tools /\ proposals \subseteq Tools
  BY DEF TypeOK
<1>2. CASE PassWithoutInstall
  <2>1. PICK some \in SUBSET (proposals \ disk) :
           /\ disk' = disk \cup some
           /\ proposals' \in {proposals, proposals \ some}
    BY <1>2 DEF PassWithoutInstall
  <2>2. disk' \subseteq Tools /\ proposals' \subseteq Tools
    BY <1>1, <2>1
  <2>3. QED
    BY <1>1, <1>2, <2>2 DEF PassWithoutInstall, Scans
<1>3. CASE Install
  <2>1. PICK some \in SUBSET (proposals \ disk) \ {{}} :
           /\ disk' = disk \cup some
           /\ proposals' = proposals \ some
           /\ \/ /\ registry' = disk'
                 /\ pc' = IF registry' = registry THEN "handle" ELSE "announce"
              \/ pc' = "handle" /\ UNCHANGED registry
    BY <1>3 DEF Install
  <2>2. disk' \subseteq Tools /\ proposals' \subseteq Tools
    BY <1>1, <2>1
  <2>3. /\ pc' \in {"handle", "announce"} /\ registry' \subseteq Tools
        /\ pc' = "handle" => registry' = registry
    BY <1>1, <2>1, <2>2
  <2>4. QED
    BY <1>3, <2>2, <2>3 DEF Install, Scans
<1>4. QED
  BY <1>2, <1>3

LEMMA LineIsAnswered ==
    ASSUME TypeOK, HandlerSteps
    PROVE  IgnoreLine \/ \E code, names : Replies(code, names)
<1>1. registry \in SUBSET Tools /\ handshake \in BOOLEAN /\ {} \in SUBSET Tools
  BY DEF TypeOK
<1>2. SUFFICES ASSUME ~IgnoreLine PROVE \E code, names : Replies(code, names)
  OBVIOUS
<1>3. CASE RejectLine
  <2>1. Refusal(Line) \in {"parse_error", "invalid_request", "method_not_found",
                           "invalid_params", "unsupported_version"}
    BY <1>3 DEF RejectLine, Refusal, VersionError
  <2>2. Replies(Refusal(Line), {})
    BY <1>1, <1>3, <2>1 DEF RejectLine, Replies, Say, Codes, Policies
  <2>3. QED
    BY <2>2
<1>4. CASE Initialize
  <2>1. Replies("result", {})
    BY <1>1, <1>4 DEF Initialize, Serving, Replies, Say, Codes
  <2>2. QED
    BY <2>1
<1>5. CASE Discover
  <2>1. Replies("result", {})
    BY <1>1, <1>5 DEF Discover, Serving, Replies, Say, Codes
  <2>2. QED
    BY <2>1
<1>6. CASE ListTools
  <2>1. Replies("listing", registry)
    BY <1>1, <1>6 DEF ListTools, Serving, Replies, Say, Codes
  <2>2. QED
    BY <2>1
<1>7. CASE GetPolicy
  <2>1. PICK code \in Policies \cup {"invalid_params"} : Say(code, {})
    BY <1>7 DEF GetPolicy
  <2>2. Replies(code, {})
    BY <1>1, <1>7, <2>1 DEF GetPolicy, Serving, Replies, Say, Codes, Policies
  <2>3. QED
    BY <2>2
<1>8. CASE RejectCall
  <2>1. Replies("invalid_params", {})
    BY <1>1, <1>8 DEF RejectCall, Serving, Replies, Say, Codes
  <2>2. QED
    BY <2>1
<1>9. CASE CallRefused
  <2>1. Replies("tool_error", {})
    BY <1>1, <1>9 DEF CallRefused, Serving, Replies, Say, Codes
  <2>2. QED
    BY <2>1
<1>10. CASE CallRuns
  <2>1. PICK code \in {"result", "unencodable"} : Say(code, {})
    BY <1>10 DEF CallRuns
  <2>2. Replies(code, {})
    BY <1>1, <1>10, <2>1 DEF CallRuns, Serving, Replies, Say, Codes
  <2>3. QED
    BY <2>2
<1>11. CASE CallRaises
  <2>1. Replies("internal_error", {})
    BY <1>1, <1>11 DEF CallRaises, Serving, Replies, Say, Codes
  <2>2. QED
    BY <2>1
<1>12. QED
  BY <1>2, <1>3, <1>4, <1>5, <1>6, <1>7, <1>8, <1>9, <1>10, <1>11 DEF HandlerSteps

(* A step that sends the answer, or ends serve.                                *)
Sends ==
    /\ pc = "send" /\ stop = "none" /\ pc' = "read" /\ answer' = <<>>
    /\ \/ /\ stop' = "crash" /\ outbox' = outbox
          /\ answer[1].is = "unencodable" \/ ~Line.clean
       \/ stop' = "gone" /\ gone /\ outbox' = outbox
       \/ /\ stop' = "none" /\ outbox' = Append(outbox, answer[1])
          /\ answer[1].is # "unencodable"
    /\ UNCHANGED <<client, reader, handshake, tools, ran>>

LEMMA OneMore ==
    ASSUME NEW S, NEW s \in Seq(S), NEW t \in Seq(S), Len(t) = 1
    PROVE  s \o t = Append(s, t[1]) /\ Head(t) = t[1]
<1> DEFINE left == s \o t
           right == Append(s, t[1])
<1>1. t[1] \in S /\ Len(s) \in Nat
  <2>1. 1 \in 1..Len(t)
    OBVIOUS
  <2>2. QED
    BY <2>1, ElementOfSeq, LenProperties
<1>2. /\ left \in Seq(S) /\ Len(left) = Len(s) + Len(t)
      /\ \A i \in 1..(Len(s) + Len(t)) :
            left[i] = IF i <= Len(s) THEN s[i] ELSE t[i - Len(s)]
  BY ConcatProperties
<1>3. /\ right \in Seq(S) /\ Len(right) = Len(s) + 1
      /\ \A i \in 1..Len(s) : right[i] = s[i]
      /\ right[Len(s) + 1] = t[1]
  BY <1>1, AppendProperties
<1> HIDE DEF left, right
<1>4. ASSUME NEW i \in 1..Len(left) PROVE left[i] = right[i]
  <2>1. i \in 1..(Len(s) + 1) /\ i \in 1..(Len(s) + Len(t))
    BY <1>2
  <2>2. CASE i <= Len(s)
    BY <1>2, <1>3, <2>1, <2>2
  <2>3. CASE ~(i <= Len(s))
    <3>1. i - Len(s) = 1 /\ i = Len(s) + 1
      BY <1>1, <2>1, <2>3
    <3>2. QED
      BY <1>2, <1>3, <2>1, <2>3, <3>1
  <2>4. QED
    BY <2>2, <2>3
<1>5. Len(left) = Len(right)
  BY <1>2, <1>3
<1>6. left = right
  BY <1>2, <1>3, <1>4, <1>5, SeqEqual
<1>7. Head(t) = t[1]
  OBVIOUS
<1>8. QED
  BY <1>6, <1>7 DEF left, right

LEMMA SendSends ==
    ASSUME TypeOK, AnswerIsDue, Send
    PROVE  Sends
<1>1. /\ outbox \in Seq(Message) /\ answer \in Seq(Message) /\ Len(answer) = 1
      /\ pc = "send" /\ stop = "none"
  BY DEF TypeOK, AnswerIsDue, Send
<1>2. outbox \o answer = Append(outbox, answer[1]) /\ Head(answer) = answer[1]
  BY <1>1, OneMore
<1>3. /\ stop' = IF ~Encodable(answer[1]) THEN "crash"
                 ELSE IF gone THEN "gone" ELSE "none"
      /\ outbox' = IF stop' = "none" THEN Append(outbox, answer[1]) ELSE outbox
      /\ answer' = <<>> /\ pc' = "read"
      /\ UNCHANGED <<client, reader, handshake, tools, ran>>
  BY <1>2 DEF Send
<1>4. QED
  BY <1>1, <1>3 DEF Encodable, Sends

(* Every step is one of these.                                                 *)
LEMMA StepCases ==
    ASSUME TypeOK, LinesArriveWhole, AnswerIsDue, [Next]_vars
    PROVE  \/ Arrives \/ Churns \/ Takes \/ Reads \/ Scans \/ Announce \/ IgnoreLine
           \/ (\E code, names : Replies(code, names))
           \/ Sends \/ UNCHANGED vars
<1>1. CASE Write \/ HangUp \/ StopReading
  BY <1>1, ClientArrives
<1>2. CASE Propose
  <2>1. disk' = disk /\ proposals' \subseteq Tools /\ disk \subseteq Tools
    BY <1>2 DEF Propose, TypeOK
  <2>2. Churns
    BY <1>2, <2>1 DEF Propose, Churns
  <2>3. QED
    BY <2>2
<1>3. CASE RemoveTool
  <2>1. disk' \subseteq Tools /\ proposals' \subseteq Tools
    BY <1>3 DEF RemoveTool, TypeOK
  <2>2. Churns
    BY <1>3, <2>1 DEF RemoveTool, Churns
  <2>3. QED
    BY <2>2
<1>4. CASE ReaderSteps
  BY <1>4, ReaderTakesOrReads
<1>5. CASE InboxSteps
  BY <1>5, InboxScans DEF InboxSteps
<1>6. CASE HandlerSteps
  BY <1>6, LineIsAnswered
<1>7. CASE Send
  BY <1>7, SendSends
<1>8. CASE Ended
  BY <1>8 DEF Ended
<1>9. QED
  BY <1>1, <1>2, <1>3, <1>4, <1>5, <1>6, <1>7, <1>8 DEF Next, ServerSteps

------------------------------------------------------------------------------
(* The invariant of the session                                                *)

LEMMA InitSession == Init => SessionInv
<1> SUFFICES ASSUME Init PROVE SessionInv
  OBVIOUS
<1>1. <<>> \in Seq(Lines) /\ <<>> \in Seq(Piece) /\ <<>> \in Seq(Message) /\ Len(<<>>) = 0
  BY EmptySeq
<1>2. TypeOK
  <2>1. /\ script \in Seq(Lines) /\ wire \in Seq(Piece) /\ carry \in Seq(Piece)
        /\ answer \in Seq(Message) /\ outbox \in Seq(Message)
    BY <1>1 DEF Init
  <2>2. reading \in 0..Len(script) /\ ran \subseteq 1..reading
    BY <1>1 DEF Init
  <2>3. registry \subseteq Tools /\ disk \subseteq Tools /\ proposals \subseteq Tools
    BY SessionAssumption DEF Init, SessionAssumption
  <2>4. QED
    BY <2>1, <2>2, <2>3 DEF Init, TypeOK
<1>3. LinesArriveWhole
  <2>1. <<>> \o <<>> = <<>>
    BY <1>1, NothingBefore
  <2>2. Framed(<<>>, FALSE, <<>>, 0, 0)
    BY <1>1 DEF Framed
  <2>3. Framed(script, closed, Ahead, reading, 0)
    BY <2>1, <2>2 DEF Init, Ahead
  <2>4. DOMAIN outbox = {} /\ discarding = FALSE /\ pc = "read"
    BY <1>1 DEF Init
  <2>5. QED
    BY <2>3, <2>4 DEF LinesArriveWhole
<1>4. SentForTheTaken /\ AnswerIsDue /\ HandshakeKnown /\ StopsAreExplained
  BY <1>1 DEF Init, SentForTheTaken, AnswerIsDue, HandshakeKnown, StopsAreExplained,
              Initialized
<1>5. QED
  BY <1>2, <1>3, <1>4 DEF SessionInv

LEMMA RefusalIsAMessage ==
    ASSUME NEW k \in Nat
    PROVE  [to |-> k, is |-> "too_long", names |-> {}] \in Message
BY DEF Message

LEMMA TypeStep ==
    ASSUME TypeOK, LinesArriveWhole, AnswerIsDue, [Next]_vars
    PROVE  TypeOK'
<1>0. /\ outbox \in Seq(Message) /\ gone \in BOOLEAN /\ answer \in Seq(Message)
      /\ stop \in {"none", "eof", "gone", "crash"}
  BY DEF TypeOK
<1>1. CASE Arrives
  <2>1. reading \in 0..Len(script')
    BY <1>1 DEF Arrives, TypeOK
  <2>2. QED
    BY <1>1, <2>1 DEF Arrives, TypeOK, reader, tools
<1>2. CASE Churns
  BY <1>2 DEF Churns, TypeOK, reader, tools, client
<1>3. CASE Takes
  <2>1. /\ reading' \in 0..Len(script') /\ reading' # 0 /\ reading' \in Nat
        /\ ran' \subseteq 1..reading'
    BY <1>3 DEF Takes, TypeOK
  <2>2. CASE TooLong(script[reading + 1].size)
    <3>1. RefuseLine /\ LineRefused \in Message
      BY <1>3, <2>1, <2>2, RefusalIsAMessage DEF Takes, LineRefused
    <3>2. outbox' \in Seq(Message)
      BY <1>0, <3>1, AppendProperties DEF RefuseLine
    <3>3. stop' \in {"none", "eof", "gone", "crash"} /\ pc' = "read"
      BY <1>3, <3>1 DEF RefuseLine, Takes, Reading
    <3>4. answer' = <<>> /\ answer' \in Seq(Message)
      BY <1>3 DEF Takes, TypeOK, Reading
    <3>5. QED
      BY <1>3, <2>1, <3>2, <3>3, <3>4 DEF Takes, TypeOK, tools
  <2>3. CASE ~TooLong(script[reading + 1].size)
    BY <1>3, <2>1, <2>3 DEF Takes, TypeOK, tools, Deliver, Reading
  <2>4. QED
    BY <2>2, <2>3
<1>4. CASE Reads
  BY <1>4 DEF Reads, TypeOK, tools, Reading
<1>5. CASE Scans
  BY <1>5 DEF Scans, TypeOK, client, reader
<1>6. CASE Announce
  <2>1. Changed \in Message
    BY DEF Changed, Message
  <2>2. outbox' \in Seq(Message) /\ stop' \in {"none", "eof", "gone", "crash"}
    BY <1>0, <1>6, <2>1, AppendProperties DEF Announce
  <2>3. QED
    BY <1>6, <2>2 DEF Announce, TypeOK, client, reader, tools
<1>7. CASE IgnoreLine
  BY <1>7 DEF IgnoreLine, Handling, TypeOK, client, reader, tools
<1>8. CASE \E code, names : Replies(code, names)
  <2>1. PICK code, names : Replies(code, names)
    BY <1>8
  <2>2. /\ answer' = <<[to |-> reading, is |-> code, names |-> names]>>
        /\ code \in Codes /\ names \in SUBSET Tools /\ reading \in Nat /\ reading \in 1..reading
    BY <2>1 DEF Replies, Handling, TypeOK
  <2>3. [to |-> reading, is |-> code, names |-> names] \in Message
    BY <2>2 DEF Message
  <2>4. answer' \in Seq(Message)
    BY <2>2, <2>3
  <2>5. handshake' \in BOOLEAN /\ ran' \subseteq 1..reading
    BY <2>1, <2>2 DEF Replies, TypeOK
  <2>6. QED
    BY <2>1, <2>4, <2>5 DEF Replies, Handling, TypeOK, client, reader, tools
<1>9. CASE Sends
  <2>1. answer[1] \in Message
    <3>1. pc = "send"
      BY <1>9 DEF Sends
    <3>2. Len(answer) = 1
      BY <3>1 DEF AnswerIsDue
    <3>3. 1 \in 1..Len(answer)
      BY <3>2
    <3>4. QED
      BY <1>0, <3>3, ElementOfSeq
  <2>2. outbox' \in Seq(Message) /\ stop' \in {"none", "eof", "gone", "crash"}
    BY <1>0, <1>9, <2>1, AppendProperties DEF Sends
  <2>3. QED
    BY <1>9, <2>2, EmptySeq DEF Sends, TypeOK, client, reader, tools
<1>10. CASE UNCHANGED vars
  BY <1>10 DEF vars, client, reader, tools, TypeOK
<1>11. QED
  BY <1>1, <1>2, <1>3, <1>4, <1>5, <1>6, <1>7, <1>8, <1>9, <1>10, StepCases

LEMMA AppendedAt ==
    ASSUME NEW S, NEW s \in Seq(S), NEW e \in S
    PROVE  /\ Append(s, e) \in Seq(S)
           /\ Len(Append(s, e)) = Len(s) + 1 /\ Len(s) \in Nat
           /\ DOMAIN s = 1..Len(s) /\ DOMAIN Append(s, e) = 1..(Len(s) + 1)
           /\ DOMAIN Append(s, e) = DOMAIN s \cup {Len(s) + 1}
           /\ Len(s) + 1 \notin DOMAIN s
           /\ \A i \in DOMAIN s : Append(s, e)[i] = s[i]
           /\ Append(s, e)[Len(s) + 1] = e
<1>1. /\ Append(s, e) \in Seq(S) /\ Len(Append(s, e)) = Len(s) + 1 /\ Len(s) \in Nat
      /\ \A i \in 1..Len(s) : Append(s, e)[i] = s[i]
      /\ Append(s, e)[Len(s) + 1] = e
  BY AppendProperties, LenProperties
<1>2. DOMAIN s = 1..Len(s) /\ DOMAIN Append(s, e) = 1..(Len(s) + 1)
  BY <1>1, LenProperties
<1>3. 1..(Len(s) + 1) = 1..Len(s) \cup {Len(s) + 1} /\ Len(s) + 1 \notin 1..Len(s)
  BY <1>1
<1>4. QED
  BY <1>1, <1>2, <1>3

LEMMA MessageParts ==
    ASSUME NEW s \in Seq(Message), NEW i \in DOMAIN s
    PROVE  s[i] \in Message /\ s[i].to \in Nat
<1>1. s[i] \in Message
  OBVIOUS
<1>2. QED
  BY <1>1 DEF Message

(* What was sent stays what it was for: the client takes no line back.         *)
LEMMA TextKept ==
    ASSUME TypeOK, SentForTheTaken, Arrives
    PROVE  /\ \A k \in 1..reading : script'[k] = script[k]
           /\ reading # 0 => Line' = Line
           /\ \A i \in DOMAIN outbox :
                outbox[i].is # "list_changed" =>
                  outbox[i].to \in 1..reading /\ script'[outbox[i].to] = script[outbox[i].to]
<1>1. /\ reading \in 0..Len(script) /\ Len(script) \in Nat /\ outbox \in Seq(Message)
      /\ reading' = reading
  BY DEF TypeOK, Arrives, reader
<1>2. \A k \in 1..reading : script'[k] = script[k]
  BY <1>1 DEF Arrives
<1>3. reading # 0 => Line' = Line
  BY <1>1, <1>2 DEF Line
<1>4. ASSUME NEW i \in DOMAIN outbox, outbox[i].is # "list_changed"
      PROVE  outbox[i].to \in 1..reading
  <2>1. outbox[i].to \in Nat
    BY <1>1, MessageParts
  <2>2. outbox[i].to <= reading /\ outbox[i].to # 0
    BY <1>4 DEF SentForTheTaken
  <2>3. QED
    BY <1>1, <2>1, <2>2
<1>5. QED
  BY <1>2, <1>3, <1>4

LEMMA FramingStep ==
    ASSUME SessionInv, [Next]_vars
    PROVE  LinesArriveWhole'
<1>0. /\ TypeOK /\ LinesArriveWhole /\ SentForTheTaken /\ AnswerIsDue
      /\ outbox \in Seq(Message) /\ discarding \in BOOLEAN /\ gone \in BOOLEAN
      /\ pc # "read" => reading # 0
  BY DEF SessionInv, TypeOK
<1>1. CASE Arrives
  <2>1. /\ UNCHANGED <<carry, discarding, reading, pc, outbox>>
        /\ ~discarding => Framed(script', closed', carry \o wire', reading, 0)
        /\ discarding => \E n \in (MaxLineSize + 1)..script[reading + 1].size :
                            Framed(script', closed', wire', reading, n)
    BY <1>1 DEF Arrives, reader
  <2>2. ASSUME discarding
        PROVE  /\ carry = <<>> /\ reading < Len(script') /\ pc = "read"
               /\ script'[reading + 1].size = script[reading + 1].size
    <3>1. carry = <<>> /\ reading < Len(script) /\ pc = "read"
      BY <1>0, <2>2 DEF LinesArriveWhole
    <3>2. reading + 1 \in 1..Len(script) /\ Len(script) <= Len(script') /\ reading < Len(script')
      BY <1>0, <1>1, <3>1 DEF TypeOK, Arrives
    <3>3. QED
      BY <1>1, <3>1, <3>2 DEF Arrives
  <2>3. pc # "read" => ~TooLong(Line'.size)
    BY <1>0, <1>1, TextKept DEF LinesArriveWhole
  <2>4. ASSUME NEW i \in DOMAIN outbox, outbox[i].is = "too_long"
        PROVE  TooLong(script'[outbox[i].to].size)
    <3>1. script'[outbox[i].to] = script[outbox[i].to]
      BY <1>0, <1>1, <2>4, TextKept
    <3>2. TooLong(script[outbox[i].to].size)
      BY <1>0, <2>4 DEF LinesArriveWhole
    <3>3. QED
      BY <3>1, <3>2
  <2>5. QED
    BY <2>1, <2>2, <2>3, <2>4 DEF LinesArriveWhole, Ahead, TooLong, Line
<1>2. CASE Takes
  <2>1. /\ discarding' = FALSE /\ reading' = reading + 1 /\ script' = script /\ closed' = closed
        /\ Framed(script, closed, carry' \o wire', reading + 1, 0)
    BY <1>2 DEF Takes
  <2>2. CASE TooLong(script[reading + 1].size)
    <3>1. /\ pc' = "read"
          /\ outbox' = outbox \/ outbox' = Append(outbox, LineRefused)
      BY <1>2, <2>2 DEF Takes, RefuseLine, Reading
    <3>2. LineRefused.is = "too_long" /\ LineRefused.to = reading + 1 /\ LineRefused \in Message
      BY <1>0, <2>1 DEF LineRefused, Message, TypeOK
    <3>3. ASSUME NEW i \in DOMAIN outbox', outbox'[i].is = "too_long"
          PROVE  TooLong(script[outbox'[i].to].size)
      <4>1. CASE i \in DOMAIN outbox /\ outbox'[i] = outbox[i]
        BY <1>0, <3>3, <4>1 DEF LinesArriveWhole
      <4>2. CASE outbox'[i] = LineRefused
        BY <2>2, <3>2, <4>2
      <4>3. QED
        BY <1>0, <3>1, <3>2, <4>1, <4>2, AppendedAt
    <3>4. QED
      BY <2>1, <3>1, <3>3 DEF LinesArriveWhole, Ahead, TooLong
  <2>3. CASE ~TooLong(script[reading + 1].size)
    <3>1. outbox' = outbox
      BY <1>2, <2>3 DEF Takes, Deliver
    <3>2. QED
      BY <1>0, <2>1, <2>3, <3>1 DEF LinesArriveWhole, Ahead, TooLong, Line
  <2>4. QED
    BY <2>2, <2>3
<1>3. CASE Reads
  BY <1>0, <1>3 DEF Reads, Reading, LinesArriveWhole, Ahead, TooLong, Line
<1>4. CASE Churns
  BY <1>0, <1>4 DEF Churns, LinesArriveWhole, Ahead, TooLong, Line, client, reader
<1>5. ASSUME UNCHANGED <<client, reader>>,
             pc # "read" \/ pc' = pc, discarding' => pc' = "read",
             \A i \in DOMAIN outbox' :
                \/ i \in DOMAIN outbox /\ outbox'[i] = outbox[i]
                \/ outbox'[i].is # "too_long"
      PROVE  LinesArriveWhole'
  BY <1>0, <1>5 DEF LinesArriveWhole, Ahead, TooLong, Line, client, reader
<1>6. pc # "read" => discarding = FALSE
  BY <1>0 DEF LinesArriveWhole
<1>7. CASE Scans
  BY <1>0, <1>5, <1>6, <1>7 DEF Scans, client, reader
<1>8. CASE Announce
  <2>1. Changed \in Message /\ Changed.is # "too_long"
    BY DEF Changed, Message
  <2>2. outbox' = outbox \/ outbox' = Append(outbox, Changed)
    BY <1>8 DEF Announce
  <2>3. \A i \in DOMAIN outbox' :
                \/ i \in DOMAIN outbox /\ outbox'[i] = outbox[i]
                \/ outbox'[i].is # "too_long"
    BY <1>0, <2>1, <2>2, AppendedAt
  <2>4. UNCHANGED <<client, reader>> /\ pc = "announce" /\ discarding' = discarding
    BY <1>8 DEF Announce, reader
  <2>5. QED
    BY <1>5, <1>6, <2>3, <2>4
<1>9. CASE IgnoreLine
  BY <1>0, <1>5, <1>6, <1>9 DEF IgnoreLine, Handling, client, reader
<1>10. CASE \E code, names : Replies(code, names)
  BY <1>0, <1>5, <1>6, <1>10 DEF Replies, Handling, client, reader
<1>11. CASE Sends
  <2>1. pc = "send"
    BY <1>11 DEF Sends
  <2>2. answer[1] \in Message /\ answer[1].is # "too_long"
    <3>1. Len(answer) = 1 /\ answer[1].is \in Codes
      BY <1>0, <2>1 DEF AnswerIsDue
    <3>2. answer \in Seq(Message) /\ 1 \in 1..Len(answer)
      BY <1>0, <3>1 DEF TypeOK
    <3>3. QED
      BY <3>1, <3>2, ElementOfSeq DEF Codes, Policies
  <2>3. outbox' = outbox \/ outbox' = Append(outbox, answer[1])
    BY <1>11 DEF Sends
  <2>4. \A i \in DOMAIN outbox' :
                \/ i \in DOMAIN outbox /\ outbox'[i] = outbox[i]
                \/ outbox'[i].is # "too_long"
    BY <1>0, <2>2, <2>3, AppendedAt
  <2>5. UNCHANGED <<client, reader>> /\ discarding' = discarding
    BY <1>11 DEF Sends, reader
  <2>6. QED
    BY <1>5, <1>6, <2>1, <2>4, <2>5
<1>12. CASE UNCHANGED vars
  BY <1>0, <1>12 DEF vars, client, reader, LinesArriveWhole, Ahead, TooLong, Line
<1>13. QED
  BY <1>0, <1>1, <1>2, <1>3, <1>4, <1>7, <1>8, <1>9, <1>10, <1>11, <1>12, StepCases

(* The message in hand. *)
LEMMA AnswerInHand ==
    ASSUME TypeOK, AnswerIsDue, pc = "send"
    PROVE  /\ answer[1] \in Message /\ answer[1].to = reading /\ answer[1].is \in Codes
           /\ answer[1].is # "too_long" /\ answer[1].is # "list_changed"
           /\ reading \in 1..Len(script) /\ Len(script) \in Nat
<1>1. Len(answer) = 1 /\ answer[1].is \in Codes /\ answer[1].to = reading
  BY DEF AnswerIsDue
<1>2. answer \in Seq(Message) /\ 1 \in 1..Len(answer)
  BY <1>1 DEF TypeOK
<1>3. reading \in 1..Len(script) /\ Len(script) \in Nat
  BY DEF TypeOK
<1>4. QED
  BY <1>1, <1>2, <1>3, ElementOfSeq DEF Codes, Policies

(* The refusal of an oversized line. *)
LEMMA RefusalInHand ==
    ASSUME TypeOK, Takes
    PROVE  /\ reading' = reading + 1 /\ reading + 1 \in 1..Len(script) /\ reading \in Nat
           /\ script' = script
           /\ LineRefused \in Message /\ LineRefused.to = reading + 1
           /\ LineRefused.is = "too_long"
           /\ \/ /\ TooLong(script[reading + 1].size) /\ pc' = "read"
                 /\ \/ gone /\ stop' = "crash" /\ outbox' = outbox
                    \/ stop' = stop /\ outbox' = Append(outbox, LineRefused)
              \/ /\ ~TooLong(script[reading + 1].size) /\ pc' = "tools"
                 /\ stop' = stop /\ outbox' = outbox
<1>1. /\ reading' = reading + 1 /\ reading + 1 \in 1..Len(script) /\ reading \in Nat
      /\ script' = script
  BY DEF Takes, TypeOK
<1>2. /\ LineRefused \in Message /\ LineRefused.to = reading + 1
      /\ LineRefused.is = "too_long"
  BY <1>1 DEF LineRefused, Message
<1>3. \/ /\ TooLong(script[reading + 1].size) /\ pc' = "read"
         /\ \/ gone /\ stop' = "crash" /\ outbox' = outbox
            \/ stop' = stop /\ outbox' = Append(outbox, LineRefused)
      \/ /\ ~TooLong(script[reading + 1].size) /\ pc' = "tools"
         /\ stop' = stop /\ outbox' = outbox
  BY DEF Takes, RefuseLine, Deliver, Reading
<1>4. QED
  BY <1>1, <1>2, <1>3

LEMMA SentStep ==
    ASSUME SessionInv, [Next]_vars
    PROVE  SentForTheTaken'
<1>0. /\ TypeOK /\ LinesArriveWhole /\ SentForTheTaken /\ AnswerIsDue
      /\ outbox \in Seq(Message) /\ reading \in Nat
      /\ pc # "read" => reading # 0
      /\ ran \subseteq 1..reading
  BY DEF SessionInv, TypeOK
<1>1. CASE Arrives
  BY <1>0, <1>1 DEF Arrives, reader, SentForTheTaken, Answers
<1>2. CASE Churns
  BY <1>0, <1>2 DEF Churns, reader, SentForTheTaken, Answers
<1>3. CASE Takes
  <2>1. /\ reading' = reading + 1
        /\ LineRefused \in Message /\ LineRefused.to = reading + 1
        /\ LineRefused.is = "too_long"
        /\ \/ pc' = "read" /\ outbox' = outbox
           \/ pc' = "read" /\ outbox' = Append(outbox, LineRefused)
           \/ pc' = "tools" /\ outbox' = outbox
    BY <1>0, <1>3, RefusalInHand
  <2>2. ASSUME NEW i \in DOMAIN outbox'
        PROVE  /\ outbox'[i].to <= reading'
               /\ outbox'[i].to = 0 <=> outbox'[i].is = "list_changed"
    <3>1. CASE i \in DOMAIN outbox /\ outbox'[i] = outbox[i]
      <4>1. outbox[i].to \in Nat
        BY <1>0, <3>1, MessageParts
      <4>2. QED
        BY <1>0, <2>1, <3>1, <4>1 DEF SentForTheTaken
    <3>2. CASE outbox'[i] = LineRefused
      BY <1>0, <2>1, <3>2
    <3>3. QED
      BY <1>0, <2>1, <3>1, <3>2, AppendedAt
  <2>3. ASSUME pc' # "read"
        PROVE  {i \in DOMAIN outbox' : outbox'[i].to = reading'} = {}
    <3>1. outbox' = outbox
      BY <2>1, <2>3
    <3>2. \A i \in DOMAIN outbox : outbox[i].to \in Nat /\ outbox[i].to <= reading
      BY <1>0, MessageParts DEF SentForTheTaken
    <3>3. QED
      BY <1>0, <2>1, <3>1, <3>2
  <2>4. reading' \notin ran'
    BY <1>0, <1>3, <2>1 DEF Takes
  <2>5. QED
    BY <2>2, <2>3, <2>4 DEF SentForTheTaken, Answers
<1>4. CASE Reads
  BY <1>0, <1>4 DEF Reads, Reading, SentForTheTaken, Answers
<1>5. CASE Scans
  BY <1>0, <1>5 DEF Scans, reader, SentForTheTaken, Answers
<1>6. CASE Announce
  <2>1. Changed \in Message /\ Changed.to = 0 /\ Changed.is = "list_changed"
    BY DEF Changed, Message
  <2>2. /\ outbox' = outbox \/ outbox' = Append(outbox, Changed)
        /\ reading' = reading /\ ran' = ran /\ pc = "announce" /\ pc' = "handle"
    BY <1>6 DEF Announce, reader
  <2>3. \A i \in DOMAIN outbox' :
           (i \in DOMAIN outbox /\ outbox'[i] = outbox[i]) \/ outbox'[i] = Changed
    BY <1>0, <2>1, <2>2, AppendedAt
  <2>4. QED
    BY <1>0, <2>1, <2>2, <2>3 DEF SentForTheTaken, Answers
<1>7. CASE IgnoreLine
  BY <1>0, <1>7 DEF IgnoreLine, Handling, reader, SentForTheTaken, Answers
<1>8. CASE \E code, names : Replies(code, names)
  BY <1>0, <1>8 DEF Replies, Handling, reader, SentForTheTaken, Answers
<1>9. CASE Sends
  <2>1. /\ outbox' = outbox \/ outbox' = Append(outbox, answer[1])
        /\ reading' = reading /\ ran' = ran /\ pc = "send" /\ pc' = "read"
    BY <1>9 DEF Sends, reader
  <2>2. answer[1] \in Message /\ answer[1].to = reading /\ answer[1].is # "list_changed"
    BY <1>0, <2>1, AnswerInHand
  <2>3. \A i \in DOMAIN outbox' :
           (i \in DOMAIN outbox /\ outbox'[i] = outbox[i]) \/ outbox'[i] = answer[1]
    BY <1>0, <2>1, <2>2, AppendedAt
  <2>4. ASSUME NEW i \in DOMAIN outbox'
        PROVE  /\ outbox'[i].to <= reading'
               /\ outbox'[i].to = 0 <=> outbox'[i].is = "list_changed"
    BY <1>0, <2>1, <2>2, <2>3 DEF SentForTheTaken
  <2>5. QED
    BY <2>1, <2>4 DEF SentForTheTaken
<1>10. CASE UNCHANGED vars
  BY <1>0, <1>10 DEF vars, reader, SentForTheTaken, Answers
<1>11. QED
  BY <1>0, <1>1, <1>2, <1>3, <1>4, <1>5, <1>6, <1>7, <1>8, <1>9, <1>10, StepCases

(* Lines that arrive change nothing of what was answered.                      *)
LEMMA AnswersKept ==
    ASSUME TypeOK, SentForTheTaken, Arrives
    PROVE  Initialized' <=> Initialized
<1>1. outbox' = outbox
  BY DEF Arrives
<1>2. ASSUME NEW i \in DOMAIN outbox, outbox[i].is = "result"
      PROVE  script'[outbox[i].to] = script[outbox[i].to]
  BY <1>2, TextKept
<1>3. QED
  BY <1>1, <1>2 DEF Initialized, InitialResult

LEMMA AnswerStep ==
    ASSUME SessionInv, [Next]_vars
    PROVE  AnswerIsDue'
<1>0. /\ TypeOK /\ LinesArriveWhole /\ SentForTheTaken /\ AnswerIsDue /\ HandshakeKnown
      /\ outbox \in Seq(Message) /\ reading \in Nat
      /\ pc # "read" => reading # 0
  BY DEF SessionInv, TypeOK
<1>1. CASE Arrives
  <2>1. ASSUME pc = "send"
        PROVE  Line' = Line /\ (Initialized' <=> Initialized)
    BY <1>0, <1>1, <2>1, TextKept, AnswersKept
  <2>2. UNCHANGED <<reading, pc, answer, registry, ran>>
    BY <1>1 DEF Arrives, reader, tools
  <2>3. QED
    BY <1>0, <2>1, <2>2 DEF AnswerIsDue, Silent, TooLong, Served, MayServe, Stateless
<1>2. CASE Churns \/ UNCHANGED vars
  <2>1. UNCHANGED <<script, reading, pc, answer, registry, ran, outbox>>
    BY <1>2 DEF Churns, vars, client, reader, tools
  <2>2. Line' = Line /\ (Initialized' <=> Initialized)
    BY <2>1 DEF Line, Initialized, InitialResult
  <2>3. QED
    BY <1>0, <2>1, <2>2 DEF AnswerIsDue, Silent, TooLong, Served, MayServe, Stateless
<1>3. CASE pc' # "send"
  BY <1>3 DEF AnswerIsDue
<1>4. Takes => pc' # "send"
  BY DEF Takes, RefuseLine, Deliver, Reading
<1>5. Reads \/ Scans \/ Announce \/ IgnoreLine \/ Sends => pc' # "send"
  BY DEF Reads, Reading, Scans, Announce, IgnoreLine, Sends
<1>6. CASE \E code, names : Replies(code, names)
  <2>1. PICK code, names : Replies(code, names)
    BY <1>6
  <2>2. /\ pc = "handle" /\ stop = "none" /\ pc' = "send"
        /\ UNCHANGED <<script, reading, registry, outbox>>
        /\ answer' = <<[to |-> reading, is |-> code, names |-> names]>>
        /\ code \in Codes
    BY <2>1 DEF Replies, Handling, client, reader, tools
  <2>3. /\ Len(answer') = 1 /\ answer'[1].to = reading' /\ answer'[1].is = code
        /\ answer'[1].names = names
    BY <2>2
  <2>4. Line' = Line /\ (Initialized' <=> Initialized)
    BY <2>2 DEF Line, Initialized, InitialResult
  <2>5. handshake <=> Initialized
    BY <1>0, <2>2 DEF HandshakeKnown
  <2>6. ~Silent(Line)
    <3>1. Refusal(Line) # "silent"
      BY <2>1 DEF Replies
    <3>2. Line.kind \notin {"blank", "deep"}
      BY <3>1 DEF Refusal
    <3>3. ~(Line.kind = "message" /\ Line.note /\ Line.method # "none")
      BY <3>1 DEF Refusal
    <3>4. QED
      BY <3>2, <3>3 DEF Silent
  <2>7. ASSUME code \in Policies \cup {"result", "listing", "tool_error", "internal_error"}
        PROVE  MayServe(Line, Initialized)
    <3>1. Refusal(Line) = "none"
      BY <2>1, <2>7 DEF Replies
    <3>2. ~OwesHandshake(Line) /\ ~SecondInitialize(Line)
      BY <3>1 DEF Refusal
    <3>3. QED
      BY <2>5, <3>2 DEF OwesHandshake, SecondInitialize, MayServe
  <2>8. code = "listing" => names = registry
    BY <2>1 DEF Replies
  <2>9. reading \notin ran
    BY <1>0, <2>2 DEF SentForTheTaken
  <2>10. /\ reading \in ran' => code \in {"result", "internal_error", "unencodable"}
         /\ code = "unencodable" => reading \in ran'
    BY <2>1, <2>9 DEF Replies
  <2>11. (Silent(Line))' <=> Silent(Line)
    BY <2>4 DEF Silent, TooLong
  <2>12. MayServe(Line, Initialized)' <=> MayServe(Line, Initialized)
    BY <2>4 DEF MayServe, Stateless
  <2>13. QED
    BY <2>2, <2>3, <2>6, <2>7, <2>8, <2>10, <2>11, <2>12 DEF AnswerIsDue, Served
<1>7. QED
  BY <1>0, <1>1, <1>2, <1>3, <1>4, <1>5, <1>6, StepCases

LEMMA HandshakeStep ==
    ASSUME SessionInv, [Next]_vars
    PROVE  HandshakeKnown'
<1>0. /\ TypeOK /\ LinesArriveWhole /\ SentForTheTaken /\ AnswerIsDue /\ HandshakeKnown
      /\ outbox \in Seq(Message) /\ reading \in Nat
      /\ pc # "read" => reading # 0
  BY DEF SessionInv, TypeOK
<1>1. CASE Arrives
  <2>1. UNCHANGED <<reading, pc, answer, handshake, stop>>
    BY <1>1 DEF Arrives, reader
  <2>2. Initialized' <=> Initialized
    BY <1>0, <1>1, AnswersKept
  <2>3. ASSUME pc = "send" PROVE script'[answer[1].to] = script[answer[1].to]
    <3>1. answer[1].to \in 1..reading
      BY <1>0, <2>3, AnswerInHand
    <3>2. QED
      BY <1>0, <1>1, <3>1, TextKept
  <2>4. QED
    BY <1>0, <2>1, <2>2, <2>3 DEF HandshakeKnown, InitialResult
<1>2. CASE Churns \/ Reads \/ Scans \/ IgnoreLine \/ UNCHANGED vars
  <2>1. /\ UNCHANGED <<script, answer, handshake, outbox>>
        /\ pc' = "send" <=> pc = "send"
        /\ stop' = "none" => stop = "none"
    BY <1>2 DEF Churns, Reads, Reading, Scans, IgnoreLine, Handling, vars, client, tools
  <2>2. Initialized' <=> Initialized
    BY <2>1 DEF Initialized, InitialResult
  <2>3. QED
    BY <1>0, <2>1, <2>2 DEF HandshakeKnown, InitialResult
<1>3. ASSUME NEW m \in Message, m.is # "result",
             outbox' = outbox \/ outbox' = Append(outbox, m),
             UNCHANGED <<script, handshake>>,
             pc # "send", pc' # "send", stop' = "none" => stop = "none"
      PROVE  HandshakeKnown'
  <2>1. /\ \A i \in DOMAIN outbox : i \in DOMAIN outbox' /\ outbox'[i] = outbox[i]
        /\ \A i \in DOMAIN outbox' :
              (i \in DOMAIN outbox /\ outbox'[i] = outbox[i]) \/ outbox'[i] = m
    BY <1>0, <1>3, AppendedAt
  <2>2. Initialized' <=> Initialized
    BY <1>3, <2>1 DEF Initialized, InitialResult
  <2>3. QED
    BY <1>0, <1>3, <2>2 DEF HandshakeKnown
<1>4. CASE Takes
  <2>1. /\ LineRefused \in Message /\ LineRefused.is # "result"
        /\ outbox' = outbox \/ outbox' = Append(outbox, LineRefused)
        /\ pc' # "send" /\ script' = script
        /\ stop' = "none" => stop = "none"
    BY <1>0, <1>4, RefusalInHand
  <2>2. pc # "send" /\ handshake' = handshake
    BY <1>4 DEF Takes, Reading
  <2>3. QED
    BY <1>3, <2>1, <2>2
<1>5. CASE Announce
  <2>1. Changed \in Message /\ Changed.is # "result"
    BY DEF Changed, Message
  <2>2. /\ outbox' = outbox \/ outbox' = Append(outbox, Changed)
        /\ pc # "send" /\ pc' # "send" /\ script' = script /\ handshake' = handshake
        /\ stop' = "none" => stop = "none"
    BY <1>5 DEF Announce, client
  <2>3. QED
    BY <1>3, <2>1, <2>2
<1>6. CASE \E code, names : Replies(code, names)
  <2>1. PICK code, names : Replies(code, names)
    BY <1>6
  <2>2. /\ pc = "handle" /\ pc' = "send"
        /\ UNCHANGED <<script, reading, outbox, stop>>
        /\ answer' = <<[to |-> reading, is |-> code, names |-> names]>>
        /\ handshake' = (handshake \/ (code = "result" /\ Line.method = "initialize"))
    BY <2>1 DEF Replies, Handling, client, reader
  <2>3. answer'[1].to = reading /\ answer'[1].is = code
    BY <2>2
  <2>4. Initialized' <=> Initialized
    BY <2>2 DEF Initialized, InitialResult
  <2>5. QED
    BY <1>0, <2>2, <2>3, <2>4 DEF HandshakeKnown, InitialResult, Line
<1>7. CASE Sends
  <2>1. /\ pc = "send" /\ pc' = "read" /\ stop = "none"
        /\ \/ stop' # "none" /\ outbox' = outbox
           \/ outbox' = Append(outbox, answer[1])
        /\ UNCHANGED <<script, handshake>>
    BY <1>7 DEF Sends, client
  <2>2. answer[1] \in Message
    BY <1>0, <2>1, AnswerInHand
  <2>3. CASE stop' # "none" /\ outbox' = outbox
    <3>1. Initialized' <=> Initialized
      BY <2>1, <2>3 DEF Initialized, InitialResult
    <3>2. QED
      BY <1>0, <2>1, <2>3, <3>1 DEF HandshakeKnown
  <2>4. CASE outbox' = Append(outbox, answer[1])
    <3>1. /\ \A i \in DOMAIN outbox : i \in DOMAIN outbox' /\ outbox'[i] = outbox[i]
          /\ \A i \in DOMAIN outbox' :
                (i \in DOMAIN outbox /\ outbox'[i] = outbox[i]) \/ outbox'[i] = answer[1]
          /\ Len(outbox) + 1 \in DOMAIN outbox' /\ outbox'[Len(outbox) + 1] = answer[1]
      BY <1>0, <2>2, <2>4, AppendedAt
    <3>2. Initialized' <=> Initialized \/ InitialResult(answer[1])
      BY <2>1, <3>1 DEF Initialized, InitialResult
    <3>3. QED
      BY <1>0, <2>1, <3>2 DEF HandshakeKnown
  <2>5. QED
    BY <2>1, <2>3, <2>4
<1>8. QED
  BY <1>0, <1>1, <1>2, <1>4, <1>5, <1>6, <1>7, StepCases

LEMMA StopsStep ==
    ASSUME SessionInv, [Next]_vars
    PROVE  StopsAreExplained'
<1>0. /\ TypeOK /\ LinesArriveWhole /\ SentForTheTaken /\ AnswerIsDue /\ StopsAreExplained
      /\ outbox \in Seq(Message) /\ reading \in Nat
      /\ stop \in {"none", "eof", "gone", "crash"}
      /\ pc # "read" => reading # 0
  BY DEF SessionInv, TypeOK
<1>1. CASE Arrives
  <2>1. UNCHANGED <<reading, stop, ran>>
    BY <1>1 DEF Arrives, reader
  <2>2. (closed => closed' /\ script' = script) /\ (gone => gone')
    BY <1>1 DEF Arrives
  <2>3. reading # 0 => Line' = Line
    BY <1>0, <1>1, TextKept
  <2>4. stop = "crash" => reading # 0
    BY <1>0 DEF StopsAreExplained
  <2>5. QED
    BY <1>0, <2>1, <2>2, <2>3, <2>4 DEF StopsAreExplained, TooLong
<1>2. CASE Churns \/ UNCHANGED vars
  <2>1. UNCHANGED <<script, closed, gone, reading, stop, ran>>
    BY <1>2 DEF Churns, vars, client, reader
  <2>2. QED
    BY <1>0, <2>1 DEF StopsAreExplained, TooLong, Line
<1>3. CASE Takes
  <2>1. /\ reading' = reading + 1 /\ script' = script /\ gone' = gone /\ stop = "none"
        /\ stop' # "none" => gone /\ stop' = "crash" /\ TooLong(script[reading + 1].size)
    BY <1>0, <1>3, RefusalInHand DEF Takes, Reading
  <2>2. QED
    BY <1>0, <2>1 DEF StopsAreExplained, TooLong, Line
<1>4. CASE Reads
  <2>1. /\ UNCHANGED <<script, closed, gone, reading, ran>> /\ stop = "none"
        /\ stop' # "none" => stop' = "eof" /\ closed /\ reading = Len(script)
    BY <1>4 DEF Reads, Reading
  <2>2. QED
    BY <2>1 DEF StopsAreExplained
<1>5. CASE Scans \/ IgnoreLine
  <2>1. UNCHANGED <<script, closed, gone, reading, stop, ran>>
    BY <1>5 DEF Scans, IgnoreLine, client, reader
  <2>2. QED
    BY <1>0, <2>1 DEF StopsAreExplained, TooLong, Line
<1>6. CASE Announce
  <2>1. /\ UNCHANGED <<script, closed, gone, reading, ran>>
        /\ stop' = stop \/ (stop' = "gone" /\ gone)
    BY <1>6 DEF Announce, client, reader
  <2>2. QED
    BY <1>0, <2>1 DEF StopsAreExplained, TooLong, Line
<1>7. CASE \E code, names : Replies(code, names)
  <2>1. /\ UNCHANGED <<script, closed, gone, reading, stop>> /\ ran \subseteq ran'
    BY <1>7 DEF Replies, client, reader
  <2>2. QED
    BY <1>0, <2>1 DEF StopsAreExplained, TooLong, Line
<1>8. CASE Sends
  <2>1. /\ UNCHANGED <<script, closed, gone, reading, ran>> /\ pc = "send"
        /\ \/ stop' = "crash" /\ (answer[1].is = "unencodable" \/ ~Line.clean)
           \/ stop' = "gone" /\ gone
           \/ stop' = "none"
    BY <1>8 DEF Sends, client, reader
  <2>2. answer[1].is = "unencodable" => reading \in ran
    BY <1>0, <2>1 DEF AnswerIsDue
  <2>3. QED
    BY <1>0, <2>1, <2>2 DEF StopsAreExplained, TooLong, Line
<1>9. QED
  BY <1>0, <1>1, <1>2, <1>3, <1>4, <1>5, <1>6, <1>7, <1>8, StepCases

LEMMA SessionStep ==
    ASSUME SessionInv, [Next]_vars
    PROVE  SessionInv'
<1>1. TypeOK /\ LinesArriveWhole /\ AnswerIsDue
  BY DEF SessionInv
<1>2. TypeOK'
  BY <1>1, TypeStep
<1>3. LinesArriveWhole' /\ SentForTheTaken' /\ AnswerIsDue' /\ HandshakeKnown'
      /\ StopsAreExplained'
  BY FramingStep, SentStep, AnswerStep, HandshakeStep, StopsStep
<1>4. QED
  BY <1>2, <1>3 DEF SessionInv

(* However the reads cut the stream, the lines arrive whole and in order, a    *)
(* line is refused for its length exactly when it is over the bound, what is   *)
(* in hand is the answer to the line taken last, the handshake is known to be  *)
(* complete exactly when its answer went out, and serve ends for a reason.     *)
THEOREM LinesAndAnswersMeet == Spec => []SessionInv
<1>1. Init => SessionInv
  BY InitSession
<1>2. SessionInv /\ [Next]_vars => SessionInv'
  BY SessionStep
<1>3. QED
  BY <1>1, <1>2, PTL DEF Spec

------------------------------------------------------------------------------
(* The handshake *)

LEMMA HandshakeFirstStep ==
    ASSUME SessionInv, HandshakeFirst, [Next]_vars
    PROVE  HandshakeFirst'
<1>0. /\ TypeOK /\ LinesArriveWhole /\ SentForTheTaken /\ AnswerIsDue
      /\ outbox \in Seq(Message)
  BY DEF SessionInv, TypeOK
<1>1. CASE Arrives
  <2>1. outbox' = outbox
    BY <1>1 DEF Arrives
  <2>2. \A i \in DOMAIN outbox :
           outbox[i].is # "list_changed" => script'[outbox[i].to] = script[outbox[i].to]
    BY <1>0, <1>1, TextKept
  <2>3. ASSUME NEW j \in DOMAIN outbox, Served(outbox[j])
        PROVE  /\ script'[outbox[j].to] = script[outbox[j].to]
               /\ \A i \in 1..(j - 1) :
                    (outbox[i].is = "result" /\ script'[outbox[i].to].method = "initialize")
                       <=> InitialResult(outbox[i])
    <3>1. outbox[j].is # "list_changed"
      BY <2>3 DEF Served, Policies
    <3>2. \A i \in 1..(j - 1) : i \in DOMAIN outbox
      BY <1>0
    <3>3. QED
      BY <2>2, <3>1, <3>2 DEF InitialResult
  <2>4. ASSUME NEW j \in DOMAIN outbox, Served(outbox[j])
        PROVE  MayServe(script'[outbox[j].to],
                   \E i \in 1..(j - 1) :
                      outbox[i].is = "result" /\ script'[outbox[i].to].method = "initialize")
    BY <2>3, <2>4 DEF HandshakeFirst
  <2>5. QED
    BY <2>1, <2>4 DEF HandshakeFirst, InitialResult, Served, MayServe, Stateless
<1>2. ASSUME UNCHANGED <<script, outbox>>
      PROVE  HandshakeFirst'
  BY <1>2 DEF HandshakeFirst, InitialResult, Served, MayServe, Stateless
<1>3. CASE Churns \/ Reads \/ Scans \/ IgnoreLine \/ UNCHANGED vars
  BY <1>2, <1>3 DEF Churns, Reads, Scans, IgnoreLine, vars, client
<1>4. CASE \E code, names : Replies(code, names)
  BY <1>2, <1>4 DEF Replies, client
<1>5. ASSUME NEW m \in Message, outbox' = Append(outbox, m), script' = script,
             Served(m) => MayServe(script[m.to], Initialized)
      PROVE  HandshakeFirst'
  <2>1. /\ Len(outbox) \in Nat /\ DOMAIN outbox = 1..Len(outbox)
        /\ DOMAIN outbox' = DOMAIN outbox \cup {Len(outbox) + 1}
        /\ \A i \in DOMAIN outbox : outbox'[i] = outbox[i]
        /\ outbox'[Len(outbox) + 1] = m
    BY <1>0, <1>5, AppendedAt
  <2>2. ASSUME NEW j \in DOMAIN outbox'
        PROVE  /\ j - 1 <= Len(outbox)
               /\ \A i \in 1..(j - 1) : i \in DOMAIN outbox /\ outbox'[i] = outbox[i]
    BY <2>1
  <2>3. ASSUME NEW j \in DOMAIN outbox', Served(outbox'[j])
        PROVE  MayServe(script[outbox'[j].to], \E i \in 1..(j - 1) : InitialResult(outbox'[i]))
    <3>1. (\E i \in 1..(j - 1) : InitialResult(outbox'[i]))
             <=> (\E i \in 1..(j - 1) : InitialResult(outbox[i]))
      BY <2>2
    <3>2. CASE j \in DOMAIN outbox
      BY <2>1, <2>3, <3>1, <3>2 DEF HandshakeFirst
    <3>3. CASE j = Len(outbox) + 1
      <4>1. 1..(j - 1) = DOMAIN outbox
        BY <2>1, <3>3
      <4>2. (\E i \in 1..(j - 1) : InitialResult(outbox[i])) <=> Initialized
        BY <4>1 DEF Initialized
      <4>3. MayServe(script[m.to], Initialized)
        BY <1>5, <2>1, <2>3, <3>3
      <4>4. QED
        BY <2>1, <3>1, <3>3, <4>2, <4>3 DEF MayServe
    <3>4. QED
      BY <2>1, <3>2, <3>3
  <2>4. QED
    BY <1>5, <2>3 DEF HandshakeFirst, InitialResult, Served, MayServe, Stateless
<1>6. CASE Takes
  <2>1. /\ LineRefused \in Message /\ LineRefused.is = "too_long" /\ script' = script
        /\ outbox' = outbox \/ outbox' = Append(outbox, LineRefused)
    BY <1>0, <1>6, RefusalInHand
  <2>2. ~Served(LineRefused)
    BY <2>1 DEF Served, Policies
  <2>3. QED
    BY <1>2, <1>5, <2>1, <2>2
<1>7. CASE Announce
  <2>1. Changed \in Message /\ ~Served(Changed)
    BY DEF Changed, Message, Served, Policies
  <2>2. script' = script /\ (outbox' = outbox \/ outbox' = Append(outbox, Changed))
    BY <1>7 DEF Announce, client
  <2>3. QED
    BY <1>2, <1>5, <2>1, <2>2
<1>8. CASE Sends
  <2>1. /\ pc = "send" /\ script' = script
        /\ outbox' = outbox \/ outbox' = Append(outbox, answer[1])
    BY <1>8 DEF Sends, client
  <2>2. answer[1] \in Message /\ answer[1].to = reading
    BY <1>0, <2>1, AnswerInHand
  <2>3. Served(answer[1]) => MayServe(script[answer[1].to], Initialized)
    BY <1>0, <2>1, <2>2 DEF AnswerIsDue, Line
  <2>4. QED
    BY <1>2, <1>5, <2>1, <2>2, <2>3
<1>9. QED
  BY <1>0, <1>1, <1>3, <1>4, <1>6, <1>7, <1>8, StepCases

(* A request that names no version of the stateless era is served only behind  *)
(* an initialize that was answered, and initialize is served once.             *)
THEOREM HandshakeComesFirst == Spec => []HandshakeFirst
<1>1. Init => SessionInv /\ HandshakeFirst
  <2>1. Init => HandshakeFirst
    BY EmptySeq DEF Init, HandshakeFirst
  <2>2. QED
    BY <2>1, InitSession
<1>2. SessionInv /\ HandshakeFirst /\ [Next]_vars => (SessionInv /\ HandshakeFirst)'
  BY SessionStep, HandshakeFirstStep
<1>3. QED
  BY <1>1, <1>2, PTL DEF Spec

------------------------------------------------------------------------------
(* What runs *)

LEMMA ServedCallsStep ==
    ASSUME SessionInv, OnlyServedCallsRun, [Next]_vars
    PROVE  OnlyServedCallsRun'
<1>0. /\ TypeOK /\ LinesArriveWhole /\ SentForTheTaken /\ AnswerIsDue
      /\ outbox \in Seq(Message) /\ ran \subseteq 1..reading /\ reading \in Nat
  BY DEF SessionInv, TypeOK
<1>1. CASE Arrives
  <2>1. outbox' = outbox /\ ran' = ran
    BY <1>1 DEF Arrives
  <2>2. \A k \in ran : script'[k] = script[k]
    BY <1>0, <1>1, TextKept
  <2>3. QED
    BY <2>1, <2>2 DEF OnlyServedCallsRun, Callable, Answers
<1>2. CASE Churns \/ Reads \/ Scans \/ IgnoreLine \/ UNCHANGED vars
  <2>1. UNCHANGED <<script, outbox, ran>>
    BY <1>2 DEF Churns, Reads, Scans, IgnoreLine, vars, client
  <2>2. QED
    BY <2>1 DEF OnlyServedCallsRun, Callable, Answers
<1>3. ASSUME NEW m \in Message, outbox' = Append(outbox, m), UNCHANGED <<script, ran>>,
             m.to \in ran => m.is \in {"result", "internal_error"}
      PROVE  OnlyServedCallsRun'
  <2>1. \A i \in DOMAIN outbox' :
           (i \in DOMAIN outbox /\ outbox'[i] = outbox[i]) \/ outbox'[i] = m
    BY <1>0, <1>3, AppendedAt
  <2>2. QED
    BY <1>3, <2>1 DEF OnlyServedCallsRun, Callable, Answers
<1>4. ASSUME UNCHANGED <<script, outbox, ran>>
      PROVE  OnlyServedCallsRun'
  BY <1>4 DEF OnlyServedCallsRun, Callable, Answers
<1>5. CASE Takes
  <2>1. /\ LineRefused \in Message /\ LineRefused.to = reading + 1 /\ script' = script
        /\ outbox' = outbox \/ outbox' = Append(outbox, LineRefused)
    BY <1>0, <1>5, RefusalInHand
  <2>2. ran' = ran /\ LineRefused.to \notin ran
    BY <1>0, <1>5, <2>1 DEF Takes
  <2>3. QED
    BY <1>3, <1>4, <2>1, <2>2
<1>6. CASE Announce
  <2>1. Changed \in Message /\ Changed.to \notin ran
    BY <1>0 DEF Changed, Message
  <2>2. /\ UNCHANGED <<script, ran>>
        /\ outbox' = outbox \/ outbox' = Append(outbox, Changed)
    BY <1>6 DEF Announce, client
  <2>3. QED
    BY <1>3, <1>4, <2>1, <2>2
<1>7. CASE \E code, names : Replies(code, names)
  <2>1. PICK code, names : Replies(code, names)
    BY <1>7
  <2>2. /\ UNCHANGED <<script, outbox>> /\ pc = "handle"
        /\ \/ ran' = ran
           \/ /\ ran' = ran \cup {reading} /\ Refusal(Line) = "none"
              /\ Line.method = "tools/call"
    BY <2>1 DEF Replies, Handling, client
  <2>3. CASE ran' = ran
    BY <1>4, <2>2, <2>3
  <2>4. CASE ran' = ran \cup {reading} /\ Refusal(Line) = "none" /\ Line.method = "tools/call"
    <3>1. ~Line.note /\ VersionError(Line) = "none"
      BY <2>4 DEF Refusal
    <3>2. Callable(Line)
      BY <3>1 DEF VersionError, Callable
    <3>3. Answers(reading) = {}
      BY <1>0, <2>2 DEF SentForTheTaken
    <3>4. QED
      BY <2>2, <2>4, <3>2, <3>3 DEF OnlyServedCallsRun, Callable, Answers, Line
  <2>5. QED
    BY <2>2, <2>3, <2>4
<1>8. CASE Sends
  <2>1. /\ pc = "send" /\ UNCHANGED <<script, ran>>
        /\ \/ outbox' = outbox
           \/ outbox' = Append(outbox, answer[1]) /\ answer[1].is # "unencodable"
    BY <1>8 DEF Sends, client
  <2>2. answer[1] \in Message /\ answer[1].to = reading
    BY <1>0, <2>1, AnswerInHand
  <2>3. answer[1].to \in ran => answer[1].is \in {"result", "internal_error", "unencodable"}
    BY <1>0, <2>1, <2>2 DEF AnswerIsDue
  <2>4. QED
    BY <1>3, <1>4, <2>1, <2>2, <2>3
<1>9. QED
  BY <1>0, <1>1, <1>2, <1>5, <1>6, <1>7, <1>8, StepCases

(* A tool runs only for a request the server owes an answer, in a version it   *)
(* supports, and an answer that refuses a request means that nothing ran.      *)
THEOREM OnlyCallsRun == Spec => []OnlyServedCallsRun
<1>1. Init => SessionInv /\ OnlyServedCallsRun
  <2>1. Init => OnlyServedCallsRun
    BY DEF Init, OnlyServedCallsRun
  <2>2. QED
    BY <2>1, InitSession
<1>2. SessionInv /\ OnlyServedCallsRun /\ [Next]_vars => (SessionInv /\ OnlyServedCallsRun)'
  BY SessionStep, ServedCallsStep
<1>3. QED
  BY <1>1, <1>2, PTL DEF Spec

------------------------------------------------------------------------------
(* The list of the tools *)

LEMMA StaleListStep ==
    ASSUME SessionInv, StaleListAnnounced, [Next]_vars
    PROVE  StaleListAnnounced'
<1>0. /\ TypeOK /\ LinesArriveWhole /\ SentForTheTaken /\ AnswerIsDue
      /\ outbox \in Seq(Message)
  BY DEF SessionInv, TypeOK
<1>1. ASSUME UNCHANGED <<outbox, registry>>, stop' = "none" => stop = "none",
             pc = "announce" => pc' = "announce"
      PROVE  StaleListAnnounced'
  BY <1>1 DEF StaleListAnnounced
<1>2. CASE Arrives \/ Churns \/ Reads \/ IgnoreLine \/ UNCHANGED vars
  BY <1>1, <1>2 DEF Arrives, Churns, Reads, Reading, IgnoreLine, Handling, vars, tools
<1>3. CASE \E code, names : Replies(code, names)
  BY <1>1, <1>3 DEF Replies, Handling, tools
<1>4. CASE Scans
  <2>1. CASE pc' = "announce"
    BY <2>1 DEF StaleListAnnounced
  <2>2. CASE pc' = "handle"
    BY <1>1, <1>4, <2>2 DEF Scans
  <2>3. QED
    BY <1>4, <2>1, <2>2 DEF Scans
<1>5. ASSUME NEW m \in Message, outbox' = Append(outbox, m), registry' = registry,
             \A i \in DOMAIN outbox : outbox[i].is = "listing" =>
               \/ outbox[i].names = registry
               \/ m.is = "list_changed"
               \/ \E j \in (i + 1)..Len(outbox) : outbox[j].is = "list_changed",
             m.is = "listing" => m.names = registry
      PROVE  StaleListAnnounced'
  <2>1. /\ Len(outbox) \in Nat /\ DOMAIN outbox = 1..Len(outbox)
        /\ Len(outbox') = Len(outbox) + 1
        /\ DOMAIN outbox' = DOMAIN outbox \cup {Len(outbox) + 1}
        /\ \A i \in DOMAIN outbox : outbox'[i] = outbox[i]
        /\ outbox'[Len(outbox) + 1] = m
    BY <1>0, <1>5, AppendedAt
  <2>2. ASSUME NEW i \in DOMAIN outbox', outbox'[i].is = "listing"
        PROVE  \/ outbox'[i].names = registry
               \/ \E j \in (i + 1)..Len(outbox') : outbox'[j].is = "list_changed"
    <3>1. CASE i = Len(outbox) + 1
      BY <1>5, <2>1, <2>2, <3>1
    <3>2. CASE i \in DOMAIN outbox
      <4>1. CASE outbox[i].names = registry
        BY <2>1, <3>2, <4>1
      <4>2. CASE m.is = "list_changed"
        <5>1. Len(outbox) + 1 \in (i + 1)..Len(outbox')
          BY <2>1, <3>2
        <5>2. QED
          BY <2>1, <4>2, <5>1
      <4>3. CASE \E j \in (i + 1)..Len(outbox) : outbox[j].is = "list_changed"
        <5>1. PICK j \in (i + 1)..Len(outbox) : outbox[j].is = "list_changed"
          BY <4>3
        <5>2. j \in (i + 1)..Len(outbox') /\ j \in DOMAIN outbox
          BY <2>1, <3>2
        <5>3. QED
          BY <2>1, <5>1, <5>2
      <4>4. QED
        BY <1>5, <2>1, <2>2, <3>2, <4>1, <4>2, <4>3
    <3>3. QED
      BY <2>1, <3>1, <3>2
  <2>3. QED
    BY <1>5, <2>2 DEF StaleListAnnounced
<1>6. CASE Takes
  <2>1. /\ LineRefused \in Message /\ LineRefused.is = "too_long"
        /\ outbox' = outbox \/ outbox' = Append(outbox, LineRefused)
        /\ stop' = "none" => stop = "none"
    BY <1>0, <1>6, RefusalInHand
  <2>2. registry' = registry /\ pc = "read" /\ stop = "none"
    BY <1>6 DEF Takes, Reading, tools
  <2>3. QED
    BY <1>1, <1>5, <2>1, <2>2 DEF StaleListAnnounced
<1>7. CASE Announce
  <2>1. Changed \in Message /\ Changed.is = "list_changed"
    BY DEF Changed, Message
  <2>2. /\ registry' = registry
        /\ (outbox' = outbox /\ stop' = "gone") \/ outbox' = Append(outbox, Changed)
    BY <1>7 DEF Announce, tools
  <2>3. CASE stop' = "gone"
    BY <2>3 DEF StaleListAnnounced
  <2>4. CASE outbox' = Append(outbox, Changed)
    BY <1>5, <2>1, <2>2, <2>4
  <2>5. QED
    BY <2>2, <2>3, <2>4
<1>8. CASE Sends
  <2>1. /\ pc = "send" /\ stop = "none" /\ registry' = registry
        /\ (outbox' = outbox /\ stop' # "none") \/ outbox' = Append(outbox, answer[1])
    BY <1>8 DEF Sends, tools
  <2>2. answer[1] \in Message
    BY <1>0, <2>1, AnswerInHand
  <2>3. answer[1].is = "listing" => answer[1].names = registry
    BY <1>0, <2>1 DEF AnswerIsDue
  <2>4. CASE stop' # "none"
    BY <2>4 DEF StaleListAnnounced
  <2>5. CASE outbox' = Append(outbox, answer[1])
    BY <1>5, <2>1, <2>2, <2>3, <2>5 DEF StaleListAnnounced
  <2>6. QED
    BY <2>1, <2>4, <2>5
<1>9. QED
  BY <1>0, <1>2, <1>3, <1>4, <1>6, <1>7, <1>8, StepCases

(* The last list a client got is the registry, or list_changed came after it.  *)
THEOREM StaleListsAreAnnounced == Spec => []StaleListAnnounced
<1>1. Init => SessionInv /\ StaleListAnnounced
  <2>1. Init => StaleListAnnounced
    BY EmptySeq DEF Init, StaleListAnnounced
  <2>2. QED
    BY <2>1, InitSession
<1>2. SessionInv /\ StaleListAnnounced /\ [Next]_vars => (SessionInv /\ StaleListAnnounced)'
  BY SessionStep, StaleListStep
<1>3. QED
  BY <1>1, <1>2, PTL DEF Spec

------------------------------------------------------------------------------
(* One answer for each line *)

LEMMA OneAnswerStep ==
    ASSUME SessionInv, OneAnswerEach, [Next]_vars
    PROVE  OneAnswerEach'
<1>0. /\ TypeOK /\ LinesArriveWhole /\ SentForTheTaken /\ AnswerIsDue
      /\ outbox \in Seq(Message) /\ reading \in Nat
      /\ pc # "read" => reading # 0
      /\ stop \in {"none", "eof", "gone", "crash"}
  BY DEF SessionInv, TypeOK
<1>1. /\ \A k \in 1..reading :
           k < reading \/ (pc = "read" /\ stop \in {"none", "eof"}) =>
             Cardinality(Answers(k)) = IF Silent(script[k]) THEN 0 ELSE 1
      /\ \A i, j \in DOMAIN outbox :
           i < j /\ outbox[i].to # 0 /\ outbox[j].to # 0 => outbox[i].to < outbox[j].to
  BY DEF OneAnswerEach
<1>2. CASE Arrives
  <2>1. UNCHANGED <<reading, pc, stop, outbox>>
    BY <1>2 DEF Arrives, reader
  <2>2. \A k \in 1..reading : script'[k] = script[k]
    BY <1>0, <1>2, TextKept
  <2>3. QED
    BY <1>1, <2>1, <2>2 DEF OneAnswerEach, Answers, Silent, TooLong
<1>3. ASSUME UNCHANGED <<script, reading, outbox>>,
             pc' = "read" /\ stop' \in {"none", "eof"} =>
               pc = "read" /\ stop \in {"none", "eof"}
      PROVE  OneAnswerEach'
  BY <1>1, <1>3 DEF OneAnswerEach, Answers, Silent, TooLong
<1>4. CASE Churns \/ UNCHANGED vars
  BY <1>3, <1>4 DEF Churns, vars, client, reader
<1>5. CASE Reads
  BY <1>3, <1>5 DEF Reads, Reading
<1>6. CASE Scans
  BY <1>3, <1>6 DEF Scans, client, reader
<1>7. CASE \E code, names : Replies(code, names)
  BY <1>3, <1>7 DEF Replies, client, reader
(* An answer that is appended, to the line taken last or to none.              *)
<1>8. ASSUME NEW m \in Message, outbox' = Append(outbox, m), script' = script,
             reading' \in Nat, m.to = 0 \/ m.to = reading',
             m.to # 0 => \A i \in DOMAIN outbox : outbox[i].to < m.to
      PROVE  /\ \A k \in Nat : k # m.to =>
                  {i \in DOMAIN outbox' : outbox'[i].to = k} = Answers(k)
             /\ m.to # 0 => Cardinality({i \in DOMAIN outbox' : outbox'[i].to = m.to}) = 1
             /\ \A i, j \in DOMAIN outbox' :
                  i < j /\ outbox'[i].to # 0 /\ outbox'[j].to # 0
                    => outbox'[i].to < outbox'[j].to
  <2>1. /\ Len(outbox) \in Nat /\ DOMAIN outbox = 1..Len(outbox)
        /\ DOMAIN outbox' = DOMAIN outbox \cup {Len(outbox) + 1}
        /\ Len(outbox) + 1 \notin DOMAIN outbox
        /\ \A i \in DOMAIN outbox : outbox'[i] = outbox[i]
        /\ outbox'[Len(outbox) + 1] = m
    BY <1>0, <1>8, AppendedAt
  <2>2. \A k \in Nat : k # m.to =>
           {i \in DOMAIN outbox' : outbox'[i].to = k} = {i \in DOMAIN outbox : outbox[i].to = k}
    BY <2>1
  <2>3. ASSUME m.to # 0
        PROVE  Cardinality({i \in DOMAIN outbox' : outbox'[i].to = m.to}) = 1
    <3>1. \A i \in DOMAIN outbox : outbox[i].to # m.to
      <4>1. \A i \in DOMAIN outbox : outbox[i].to \in Nat
        BY <1>0, MessageParts
      <4>2. m.to \in Nat
        BY DEF Message
      <4>3. QED
        BY <1>8, <2>3, <4>1, <4>2
    <3>2. {i \in DOMAIN outbox' : outbox'[i].to = m.to} = {Len(outbox) + 1}
      BY <2>1, <3>1
    <3>3. QED
      BY <3>2, FS_Singleton
  <2>4. ASSUME NEW i \in DOMAIN outbox', NEW j \in DOMAIN outbox',
               i < j, outbox'[i].to # 0, outbox'[j].to # 0
        PROVE  outbox'[i].to < outbox'[j].to
    <3>1. i \in DOMAIN outbox
      BY <2>1, <2>4
    <3>2. CASE j \in DOMAIN outbox
      BY <1>1, <2>1, <2>4, <3>1, <3>2
    <3>3. CASE j = Len(outbox) + 1
      BY <1>8, <2>1, <2>4, <3>1, <3>3
    <3>4. QED
      BY <2>1, <3>2, <3>3
  <2>5. QED
    BY <2>2, <2>3, <2>4 DEF Answers
<1>9. CASE Takes
  <2>1. /\ reading' = reading + 1 /\ script' = script
        /\ LineRefused \in Message /\ LineRefused.to = reading + 1
        /\ \/ /\ TooLong(script[reading + 1].size) /\ pc' = "read"
              /\ \/ gone /\ stop' = "crash" /\ outbox' = outbox
                 \/ stop' = stop /\ outbox' = Append(outbox, LineRefused)
           \/ /\ ~TooLong(script[reading + 1].size) /\ pc' = "tools"
              /\ stop' = stop /\ outbox' = outbox
    BY <1>0, <1>9, RefusalInHand
  <2>2. pc = "read" /\ stop = "none"
    BY <1>9 DEF Takes, Reading
  <2>3. \A k \in 1..reading : Cardinality(Answers(k)) = IF Silent(script[k]) THEN 0 ELSE 1
    BY <1>1, <2>2
  <2>4. CASE /\ outbox' = outbox
             /\ ~(pc' = "read" /\ stop' \in {"none", "eof"})
    <3>1. \A k \in 1..reading' : k < reading' => k \in 1..reading
      BY <1>0, <2>1
    <3>2. QED
      BY <1>1, <2>1, <2>3, <2>4, <3>1 DEF OneAnswerEach, Answers, Silent, TooLong
  <2>5. CASE /\ TooLong(script[reading + 1].size) /\ outbox' = Append(outbox, LineRefused)
    <3>1. \A i \in DOMAIN outbox : outbox[i].to < LineRefused.to
      <4>1. \A i \in DOMAIN outbox : outbox[i].to \in Nat /\ outbox[i].to <= reading
        BY <1>0, MessageParts DEF SentForTheTaken
      <4>2. QED
        BY <1>0, <2>1, <4>1
    <3>2. reading' \in Nat /\ LineRefused.to = reading' /\ LineRefused.to # 0
      BY <1>0, <2>1
    <3>2a. /\ \A k \in Nat : k # LineRefused.to =>
                  {i \in DOMAIN outbox' : outbox'[i].to = k} = Answers(k)
           /\ Cardinality({i \in DOMAIN outbox' : outbox'[i].to = LineRefused.to}) = 1
           /\ \A i, j \in DOMAIN outbox' :
                  i < j /\ outbox'[i].to # 0 /\ outbox'[j].to # 0
                    => outbox'[i].to < outbox'[j].to
      <4>1. LineRefused \in Message /\ script' = script
        BY <2>1
      <4>2. QED
        BY <1>8, <2>5, <3>1, <3>2, <4>1
    <3>3. /\ \A k \in Nat : k # reading + 1 =>
                  {i \in DOMAIN outbox' : outbox'[i].to = k} = Answers(k)
          /\ Cardinality({i \in DOMAIN outbox' : outbox'[i].to = reading + 1}) = 1
          /\ \A i, j \in DOMAIN outbox' :
                  i < j /\ outbox'[i].to # 0 /\ outbox'[j].to # 0
                    => outbox'[i].to < outbox'[j].to
      BY <2>1, <3>2a
    <3>4. ASSUME NEW k \in 1..(reading + 1)
          PROVE  Cardinality({i \in DOMAIN outbox' : outbox'[i].to = k})
                    = IF Silent(script[k]) THEN 0 ELSE 1
      <4>1. CASE k = reading + 1
        BY <2>5, <3>3, <4>1 DEF Silent
      <4>2. CASE k # reading + 1
        <5>1. k \in 1..reading /\ k \in Nat
          BY <1>0, <4>2
        <5>2. QED
          BY <2>3, <3>3, <4>2, <5>1
      <4>3. QED
        BY <4>1, <4>2
    <3>5. QED
      BY <2>1, <3>3, <3>4 DEF OneAnswerEach, Answers, Silent, TooLong
  <2>6. QED
    BY <2>1, <2>4, <2>5
<1>10. CASE Announce
  <2>1. Changed \in Message /\ Changed.to = 0
    BY DEF Changed, Message
  <2>2. /\ UNCHANGED <<script, reading>> /\ pc = "announce" /\ pc' = "handle"
        /\ outbox' = outbox \/ outbox' = Append(outbox, Changed)
    BY <1>10 DEF Announce, client, reader
  <2>3. CASE outbox' = outbox
    BY <1>3, <2>2, <2>3
  <2>4. CASE outbox' = Append(outbox, Changed)
    <3>1. /\ \A k \in Nat : k # 0 =>
                  {i \in DOMAIN outbox' : outbox'[i].to = k} = Answers(k)
          /\ \A i, j \in DOMAIN outbox' :
                  i < j /\ outbox'[i].to # 0 /\ outbox'[j].to # 0
                    => outbox'[i].to < outbox'[j].to
      BY <1>0, <1>8, <2>1, <2>2, <2>4
    <3>2. \A k \in 1..reading : k \in Nat /\ k # 0
      BY <1>0
    <3>3. QED
      BY <1>1, <2>2, <3>1, <3>2 DEF OneAnswerEach, Answers, Silent, TooLong
  <2>5. QED
    BY <2>2, <2>3, <2>4
<1>11. CASE IgnoreLine
  <2>1. /\ UNCHANGED <<script, reading, outbox, stop>> /\ pc = "handle" /\ pc' = "read"
        /\ Refusal(Line) = "silent"
    BY <1>11 DEF IgnoreLine, Handling, client, reader
  <2>2. Cardinality(Answers(reading)) = 0
    BY <1>0, <2>1, FS_EmptySet DEF SentForTheTaken
  <2>3. Silent(script[reading])
    <3>1. Line \in LineType /\ ~TooLong(Line.size)
      BY <1>0, <2>1, LineKnown DEF LinesArriveWhole
    <3>2. Line.kind \in {"blank", "garbage", "deep", "invalid", "message"}
      BY <3>1 DEF LineType
    <3>3. Line.kind \in {"blank", "deep"} \/ (Line.kind = "message" /\ Line.note /\ Line.method # "none")
      BY <2>1, <3>2 DEF Refusal, VersionError
    <3>4. QED
      BY <3>1, <3>3 DEF Silent, Line
  <2>4. \A k \in 1..reading : k < reading \/ k = reading
    BY <1>0
  <2>5. \A k \in 1..reading :
           Cardinality(Answers(k)) = IF Silent(script[k]) THEN 0 ELSE 1
    BY <1>1, <2>2, <2>3, <2>4
  <2>6. QED
    BY <1>1, <2>1, <2>5 DEF OneAnswerEach, Answers, Silent, TooLong
<1>12. CASE Sends
  <2>1. /\ UNCHANGED <<script, reading>> /\ pc = "send" /\ pc' = "read"
        /\ \/ outbox' = outbox /\ stop' \in {"crash", "gone"}
           \/ outbox' = Append(outbox, answer[1])
    BY <1>12 DEF Sends, client, reader
  <2>2. answer[1] \in Message /\ answer[1].to = reading
    BY <1>0, <2>1, AnswerInHand
  <2>3. CASE outbox' = outbox /\ stop' \in {"crash", "gone"}
    BY <1>3, <2>1, <2>3
  <2>4. CASE outbox' = Append(outbox, answer[1])
    <3>1. \A i \in DOMAIN outbox : outbox[i].to < reading
      <4>1. \A i \in DOMAIN outbox :
               outbox[i].to \in Nat /\ outbox[i].to <= reading /\ outbox[i].to # reading
        BY <1>0, <2>1, MessageParts DEF SentForTheTaken, Answers
      <4>2. QED
        BY <1>0, <4>1
    <3>2. reading' \in Nat /\ answer[1].to = reading' /\ answer[1].to # 0
      BY <1>0, <2>1, <2>2
    <3>3. /\ \A k \in Nat : k # reading =>
                  {i \in DOMAIN outbox' : outbox'[i].to = k} = Answers(k)
          /\ Cardinality({i \in DOMAIN outbox' : outbox'[i].to = reading}) = 1
          /\ \A i, j \in DOMAIN outbox' :
                  i < j /\ outbox'[i].to # 0 /\ outbox'[j].to # 0
                    => outbox'[i].to < outbox'[j].to
      BY <1>8, <2>1, <2>2, <2>4, <3>1, <3>2
    <3>4. ~Silent(script[reading])
      BY <1>0, <2>1 DEF AnswerIsDue, Line
    <3>5. ASSUME NEW k \in 1..reading
          PROVE  Cardinality({i \in DOMAIN outbox' : outbox'[i].to = k})
                    = IF Silent(script[k]) THEN 0 ELSE 1
      <4>1. CASE k = reading
        BY <3>3, <3>4, <4>1
      <4>2. CASE k # reading
        <5>1. k \in Nat /\ k < reading
          BY <1>0, <4>2
        <5>2. Cardinality(Answers(k)) = IF Silent(script[k]) THEN 0 ELSE 1
          BY <1>1, <5>1
        <5>3. QED
          BY <3>3, <4>2, <5>1, <5>2
      <4>3. QED
        BY <4>1, <4>2
    <3>6. QED
      BY <2>1, <3>3, <3>5 DEF OneAnswerEach, Answers, Silent, TooLong
  <2>5. QED
    BY <2>1, <2>3, <2>4
<1>13. QED
  BY <1>0, <1>2, <1>4, <1>5, <1>6, <1>7, <1>9, <1>10, <1>11, <1>12, StepCases

(* Every line that is due an answer gets one, those that are not get none, and *)
(* the answers come in the order of the lines: a client may pair them by       *)
(* counting.                                                                   *)
THEOREM AnswersPairWithLines == Spec => []OneAnswerEach
<1>1. Init => SessionInv /\ OneAnswerEach
  <2>1. Init => OneAnswerEach
    BY EmptySeq DEF Init, OneAnswerEach
  <2>2. QED
    BY <2>1, InitSession
<1>2. SessionInv /\ OneAnswerEach /\ [Next]_vars => (SessionInv /\ OneAnswerEach)'
  BY SessionStep, OneAnswerStep
<1>3. QED
  BY <1>1, <1>2, PTL DEF Spec
===============================================================================
