-------------------------- MODULE UrcReaderProofs ---------------------------
(***************************************************************************)
(* The line reader, for any number of reports, questions and other words   *)
(* and any size of the buffer: how the bytes are cut into chunks makes no  *)
(* difference, a report is stored once and in order unless bytes of its    *)
(* own were thrown away, and nothing else is stored without such a loss.   *)
(*                                                                         *)
(* The folds of UrcReader are over sequences, so this needs induction.     *)
(* The library's theorem on well-founded relations gives it as the least   *)
(* number without a property (Least).                                      *)
(***************************************************************************)
EXTENDS UrcReader, Integers, SequenceTheorems, FiniteSetTheorems, WellFoundedInduction, TLAPS

(***************************************************************************)
(* Induction                                                               *)
(***************************************************************************)

\* The library's induction asks for a well-founded relation: this one on numbers.
Below == {p \in Nat \X Nat : p[1] < p[2]}

\* A set of numbers has a least one.
LEMMA Least ==
    ASSUME NEW T \in SUBSET Nat, T # {}
    PROVE  \E n \in T : \A m \in T : n <= m
<1>1. IsWellFoundedOn(Below, Nat)
  BY NatLessThanWellFounded DEF OpToRel, Below
<1>2. PICK n \in T : \A m \in T : ~(<<m, n>> \in Below)
  BY <1>1, WFMin
<1>3. \A m \in T : ~(m < n)
  <2> SUFFICES ASSUME NEW m \in T, m < n PROVE FALSE
    OBVIOUS
  <2>1. <<m, n>> \in Nat \X Nat /\ <<m, n>>[1] = m /\ <<m, n>>[2] = n
    OBVIOUS
  <2>2. <<m, n>> \in Below
    BY <2>1 DEF Below
  <2> QED
    BY <1>2, <2>2
<1> QED
  BY <1>3

\* What holds of 0 and goes from each number to the next holds up to n.
LEMMA Induction ==
    ASSUME NEW n \in Nat, NEW good, 0 \in good, \A i \in 1..n : i - 1 \in good => i \in good
    PROVE  \A i \in 0..n : i \in good
<1> DEFINE bad == {i \in 0..n : i \notin good}
<1> SUFFICES ASSUME bad # {} PROVE FALSE
  OBVIOUS
<1>1. bad \in SUBSET Nat
  OBVIOUS
<1>2. PICK i \in bad : \A j \in bad : i <= j
  BY <1>1, Least
<1>3. i \in 1..n /\ i - 1 \in 0..n
  OBVIOUS
<1>4. i - 1 \notin bad
  BY <1>2, <1>3
<1> QED
  BY <1>3, <1>4

\* The provers find an instance of a fact by the names in it.
Steps(step, n, S) == step \in [1..n -> [S -> S]]
Elements(q, n, E) == \A i \in 1..n : q[i] \in E

\* There is a function that starts with x and goes on with step.
LEMMA FoldExists ==
    ASSUME NEW S, NEW x \in S, NEW n \in Nat, NEW step, Steps(step, n, S)
    PROVE  \E f \in [0..n -> S] : f[0] = x /\ \A i \in 1..n : f[i] = step[i][f[i - 1]]
<1> DEFINE Folds(f, m) == f[0] = x /\ \A i \in 1..m : f[i] = step[i][f[i - 1]]
           good == {m \in 0..n : \E f \in [0..m -> S] : Folds(f, m)}
<1> USE DEF Steps
<1>1. 0 \in good
  <2> DEFINE f == [i \in 0..0 |-> x]
  <2>1. f \in [0..0 -> S] /\ f[0] = x
    OBVIOUS
  <2> HIDE DEF f
  <2>2. Folds(f, 0)
    BY <2>1
  <2> QED
    BY <2>1, <2>2
<1>2. ASSUME NEW m \in 1..n, m - 1 \in good PROVE m \in good
  <2>1. PICK f \in [0..(m - 1) -> S] : Folds(f, m - 1)
    BY <1>2
  <2> DEFINE g == [i \in 0..m |-> IF i = m THEN step[m][f[m - 1]] ELSE f[i]]
  <2>2. step[m] \in [S -> S] /\ f[m - 1] \in S
    OBVIOUS
  <2>3. g \in [0..m -> S]
    <3>1. step[m][f[m - 1]] \in S
      BY <2>2
    <3>2. \A i \in 0..m : i # m => f[i] \in S
      OBVIOUS
    <3> QED
      BY <3>1, <3>2
  <2>4. Folds(g, m)
    <3>1. g[0] = x
      BY <2>1
    <3>2. ASSUME NEW i \in 1..m PROVE g[i] = step[i][g[i - 1]]
      <4>1. g[i - 1] = f[i - 1]
        OBVIOUS
      <4>2. CASE i = m
        BY <4>1, <4>2
      <4>3. CASE i # m
        <5>1. i \in 1..(m - 1)
          BY <4>3
        <5>2. f[i] = step[i][f[i - 1]]
          BY <2>1, <5>1
        <5>3. g[i] = f[i]
          BY <4>3
        <5> HIDE DEF g
        <5> QED
          BY <4>1, <5>2, <5>3
      <4> QED
        BY <4>2, <4>3
    <3> QED
      BY <3>1, <3>2
  <2> HIDE DEF g, Folds
  <2>5. \E h \in [0..m -> S] : Folds(h, m)
    BY <2>3, <2>4
  <2> QED
    BY <2>5
<1>3. \A m \in 0..n : m \in good
  <2> HIDE DEF good
  <2> QED
    BY <1>1, <1>2, Induction
<1>4. n \in good
  BY <1>3
<1> QED
  BY <1>4

(***************************************************************************)
(* The readers as folds                                                    *)
(***************************************************************************)

\* A token, the state of the parser without its line, and with it.
Token == [text : Pieces, of : Nat]
KeptType == [live : BOOLEAN, stored : Seq(Seq(Token))]
ReaderType == [live : BOOLEAN, stored : Seq(Seq(Token)), line : Seq(Token)]

\* The token ends the line that was read so far.
Closes(line, t) == t.text = "LF" /\ line # <<>> /\ Last(line).text = "CR"

\* What a line does: nothing, or it announces a PDU, or it is taken for one.
LEMMA LineTaken ==
    ASSUME NEW st \in KeptType, NEW s \in Seq(Token)
    PROVE  /\ TakeLine(st, s) \in KeptType
           /\ \/ TakeLine(st, s) = st
              \/ /\ HasCmt(s) /\ ~Has(s, "+CIEV:")
                 /\ TakeLine(st, s) = [live |-> TRUE, stored |-> st.stored]
              \/ /\ st.live /\ IsLong(s) /\ ~HasCmt(s)
                 /\ TakeLine(st, s) = [live |-> FALSE, stored |-> Append(st.stored, s)]
           /\ HasCmt(s) /\ ~Has(s, "+CIEV:")
                => TakeLine(st, s) = [live |-> TRUE, stored |-> st.stored]
           /\ st.live /\ IsLong(s) /\ ~Has(s, "OK") /\ ~HasCmt(s) /\ ~Has(s, "+CIEV:")
                => TakeLine(st, s) = [live |-> FALSE, stored |-> Append(st.stored, s)]
<1>1. st.live \in BOOLEAN /\ st.stored \in Seq(Seq(Token))
  BY DEF KeptType
<1>2. Append(st.stored, s) \in Seq(Seq(Token))
  BY <1>1, AppendProperties
<1> DEFINE a == Has(s, "+CIEV:")
           b == HasCmt(s)
           c == st.live /\ IsLong(s) /\ ~Has(s, "OK") /\ ~HasCmt(s) /\ ~Has(s, "+CIEV:")
<1>3. CASE a
  <2>1. TakeLine(st, s) = st
    BY <1>3 DEF TakeLine
  <2> QED
    BY <1>3, <2>1
<1>4. CASE ~a /\ b
  <2>1. TakeLine(st, s) = [live |-> TRUE, stored |-> st.stored]
    BY <1>4 DEF TakeLine
  <2>2. [live |-> TRUE, stored |-> st.stored] \in KeptType
    BY <1>1 DEF KeptType
  <2> QED
    BY <1>4, <2>1, <2>2
<1>5. CASE ~a /\ ~b /\ c
  <2>1. TakeLine(st, s) = [live |-> FALSE, stored |-> Append(st.stored, s)]
    BY <1>5 DEF TakeLine
  <2>2. [live |-> FALSE, stored |-> Append(st.stored, s)] \in KeptType
    BY <1>2 DEF KeptType
  <2> QED
    BY <1>5, <2>1, <2>2
<1>6. CASE ~a /\ ~b /\ ~c
  <2>1. TakeLine(st, s) = st
    BY <1>6 DEF TakeLine
  <2> QED
    BY <1>6, <2>1
<1> QED
  BY <1>3, <1>4, <1>5, <1>6

\* The reader of tokens: a token is put to the line, or ends it.
LEMMA TokenTaken ==
    ASSUME NEW r \in ReaderType, NEW t \in Token
    PROVE  /\ TakeToken(r, t) \in ReaderType
           /\ ~Closes(r.line, t) =>
                TakeToken(r, t) = [live |-> r.live, stored |-> r.stored, line |-> Append(r.line, t)]
           /\ Closes(r.line, t) =>
                /\ [live |-> r.live, stored |-> r.stored] \in KeptType
                /\ Front(r.line) \in Seq(Token)
                /\ LET after == TakeLine([live |-> r.live, stored |-> r.stored], Front(r.line))
                   IN TakeToken(r, t) = [live |-> after.live, stored |-> after.stored, line |-> <<>>]
<1> DEFINE st == [live |-> r.live, stored |-> r.stored]
           after == TakeLine(st, Front(r.line))
<1>1. r.live \in BOOLEAN /\ r.stored \in Seq(Seq(Token)) /\ r.line \in Seq(Token)
  BY DEF ReaderType
<1>2. st \in KeptType
  BY <1>1 DEF KeptType
<1>3. CASE ~Closes(r.line, t)
  <2>1. TakeToken(r, t) = [r EXCEPT !.line = Append(r.line, t)]
    BY <1>3 DEF TakeToken, Closes
  <2>2. TakeToken(r, t) = [live |-> r.live, stored |-> r.stored, line |-> Append(r.line, t)]
    BY <2>1 DEF ReaderType
  <2>3. Append(r.line, t) \in Seq(Token)
    BY <1>1, AppendProperties
  <2>4. TakeToken(r, t) \in ReaderType
    BY <1>1, <2>2, <2>3 DEF ReaderType
  <2> QED
    BY <1>3, <2>2, <2>4
<1>4. CASE Closes(r.line, t)
  <2>1. TakeToken(r, t) = [live |-> after.live, stored |-> after.stored, line |-> <<>>]
    BY <1>4 DEF TakeToken, Closes
  <2>2. Len(r.line) \in Nat
    BY <1>1, LenProperties
  <2>3. \A i \in 1..(Len(r.line) - 1) : r.line[i] \in Token
    BY <1>1, <2>2, ElementOfSeq
  <2>4. Front(r.line) \in Seq(Token)
    BY <2>2, <2>3, SubSeqProperties DEF Front
  <2>5. after \in KeptType
    BY <1>2, <2>4, LineTaken
  <2>6. <<>> \in Seq(Token)
    OBVIOUS
  <2> HIDE DEF after
  <2>7. TakeToken(r, t) \in ReaderType
    BY <2>1, <2>5, <2>6 DEF ReaderType, KeptType
  <2> QED
    BY <1>2, <1>4, <2>1, <2>4, <2>7 DEF after
<1> QED
  BY <1>3, <1>4

\* The states of the reader of tokens, one after the other.
TokensFrom(r, q, n) ==
    CHOOSE f : f = [i \in 0..n |-> IF i = 0 THEN r ELSE TakeToken(f[i - 1], q[i])]

\* TakeTokens is what it says, one token after the other.
LEMMA TokensFoldIs ==
    ASSUME NEW r \in ReaderType, NEW n \in Nat, NEW q, Elements(q, n, Token)
    PROVE  \E f \in [0..n -> ReaderType] :
             /\ f[0] = r
             /\ \A i \in 1..n : f[i] = TakeToken(f[i - 1], q[i])
             /\ TokensFrom(r, q, n)[n] = f[n]
<1> DEFINE step == [i \in 1..n |-> [y \in ReaderType |-> TakeToken(y, q[i])]]
<1>1. Steps(step, n, ReaderType)
  BY TokenTaken DEF Steps, Elements
<1> HIDE DEF step
<1>2. PICK f \in [0..n -> ReaderType] : f[0] = r /\ \A i \in 1..n : f[i] = step[i][f[i - 1]]
  BY <1>1, FoldExists
<1> DEFINE F == TokensFrom(r, q, n)
<1> HIDE DEF F
<1>3. \A i \in 1..n : f[i] = TakeToken(f[i - 1], q[i])
  <2> USE DEF step
  <2> SUFFICES ASSUME NEW i \in 1..n PROVE f[i] = TakeToken(f[i - 1], q[i])
    OBVIOUS
  <2>1. f[i - 1] \in ReaderType
    OBVIOUS
  <2> QED
    BY <1>2, <2>1
<1>4. f = [i \in 0..n |-> IF i = 0 THEN r ELSE TakeToken(f[i - 1], q[i])]
  <2>1. \A i \in 0..n : f[i] = IF i = 0 THEN r ELSE TakeToken(f[i - 1], q[i])
    <3> SUFFICES ASSUME NEW i \in 0..n PROVE f[i] = IF i = 0 THEN r ELSE TakeToken(f[i - 1], q[i])
      OBVIOUS
    <3>1. CASE i = 0
      BY <1>2, <3>1
    <3>2. CASE i # 0
      <4>1. i \in 1..n
        BY <3>2
      <4> QED
        BY <1>3, <3>2, <4>1
    <3> QED
      BY <3>1, <3>2
  <2> QED
    BY <2>1
<1>5. F = [i \in 0..n |-> IF i = 0 THEN r ELSE TakeToken(F[i - 1], q[i])]
  BY <1>4 DEF F, TokensFrom
<1>6. F[0] = r
  BY <1>5
<1>7. \A i \in 1..n : F[i] = TakeToken(F[i - 1], q[i])
  <2> SUFFICES ASSUME NEW i \in 1..n PROVE F[i] = TakeToken(F[i - 1], q[i])
    OBVIOUS
  <2>1. i \in 0..n /\ i # 0
    OBVIOUS
  <2> QED
    BY <1>5, <2>1
<1>8. \A i \in 0..n : f[i] = F[i]
  <2>1. \A i \in 1..n : f[i - 1] = F[i - 1] => f[i] = F[i]
    BY <1>3, <1>7
  <2>2. f[0] = F[0]
    BY <1>2, <1>6
  <2> DEFINE good == {i \in 0..n : f[i] = F[i]}
  <2>3. 0 \in good
    BY <2>2
  <2>4. \A i \in 1..n : i - 1 \in good => i \in good
    BY <2>1
  <2> HIDE DEF good
  <2>5. \A i \in 0..n : i \in good
    BY <2>3, <2>4, Induction
  <2> QED
    BY <2>5 DEF good
<1> QED
  BY <1>2, <1>3, <1>8 DEF F

\* The same in one fact.
LEMMA TokensFold ==
    ASSUME NEW r \in ReaderType, NEW q \in Seq(Token)
    PROVE  \E f \in [0..Len(q) -> ReaderType] :
             /\ f[0] = r
             /\ \A i \in 1..Len(q) : f[i] = TakeToken(f[i - 1], q[i])
             /\ TakeTokens(r, q) = f[Len(q)]
<1>1. Len(q) \in Nat /\ Elements(q, Len(q), Token)
  BY LenProperties, ElementOfSeq DEF Elements
<1>2. PICK f \in [0..Len(q) -> ReaderType] :
        /\ f[0] = r
        /\ \A i \in 1..Len(q) : f[i] = TakeToken(f[i - 1], q[i])
        /\ TokensFrom(r, q, Len(q))[Len(q)] = f[Len(q)]
  BY <1>1, TokensFoldIs
<1>3. TakeTokens(r, q) = f[Len(q)]
  BY <1>2 DEF TakeTokens, TokensFrom
<1> QED
  BY <1>2, <1>3

\* One token more.
LEMMA TokensTaken ==
    ASSUME NEW r \in ReaderType, NEW q \in Seq(Token)
    PROVE  /\ TakeTokens(r, q) \in ReaderType
           /\ Len(q) = 0 => TakeTokens(r, q) = r
           /\ \A e \in Token : TakeTokens(r, Append(q, e)) = TakeToken(TakeTokens(r, q), e)
<1>1. PICK f \in [0..Len(q) -> ReaderType] :
        /\ f[0] = r
        /\ \A i \in 1..Len(q) : f[i] = TakeToken(f[i - 1], q[i])
        /\ TakeTokens(r, q) = f[Len(q)]
  BY TokensFold
<1>2. Len(q) \in Nat
  BY LenProperties
<1>3. TakeTokens(r, q) \in ReaderType
  BY <1>1, <1>2
<1>4. Len(q) = 0 => TakeTokens(r, q) = r
  BY <1>1
<1>5. ASSUME NEW e \in Token
      PROVE  TakeTokens(r, Append(q, e)) = TakeToken(TakeTokens(r, q), e)
  <2> DEFINE p == Append(q, e)
  <2>1. /\ p \in Seq(Token) /\ Len(p) = Len(q) + 1
        /\ \A i \in 1..Len(q) : p[i] = q[i]
        /\ p[Len(q) + 1] = e
    BY AppendProperties
  <2> HIDE DEF p
  <2>2. PICK g \in [0..Len(p) -> ReaderType] :
          /\ g[0] = r
          /\ \A i \in 1..Len(p) : g[i] = TakeToken(g[i - 1], p[i])
          /\ TakeTokens(r, p) = g[Len(p)]
    BY <2>1, TokensFold
  <2>3. \A i \in 0..Len(q) : f[i] = g[i]
    <3> DEFINE good == {i \in 0..Len(q) : f[i] = g[i]}
    <3>1. ASSUME NEW i \in 1..Len(q), i - 1 \in good PROVE i \in good
      <4>1. i \in 1..Len(p) /\ p[i] = q[i]
        BY <1>2, <2>1
      <4> QED
        BY <1>1, <1>2, <2>2, <3>1, <4>1
    <3>2. 0 \in good
      BY <1>1, <1>2, <2>2
    <3> HIDE DEF good
    <3>3. \A i \in 0..Len(q) : i \in good
      BY <1>2, <3>1, <3>2, Induction
    <3> QED
      BY <3>3 DEF good
  <2>4. f[Len(q)] = g[Len(q)]
    BY <1>2, <2>3
  <2>5. g[Len(p)] = TakeToken(g[Len(q)], e)
    <3>1. Len(p) \in 1..Len(p) /\ Len(p) - 1 = Len(q) /\ p[Len(p)] = e
      BY <1>2, <2>1
    <3> QED
      BY <2>2, <3>1
  <2> QED
    BY <1>1, <2>2, <2>4, <2>5 DEF p
<1> QED
  BY <1>3, <1>4, <1>5

\* A line is a sequence of tokens; the states of the parser, line after line.
Line == Seq(Token)

LinesFrom(r, q, n) ==
    CHOOSE f : f = [i \in 0..n |-> IF i = 0 THEN r ELSE TakeLine(f[i - 1], q[i])]

\* The same of TakeLines.
LEMMA LinesFoldIs ==
    ASSUME NEW r \in KeptType, NEW n \in Nat, NEW q, Elements(q, n, Line)
    PROVE  \E f \in [0..n -> KeptType] :
             /\ f[0] = r
             /\ \A i \in 1..n : f[i] = TakeLine(f[i - 1], q[i])
             /\ LinesFrom(r, q, n)[n] = f[n]
<1> DEFINE step == [i \in 1..n |-> [y \in KeptType |-> TakeLine(y, q[i])]]
<1>1. Steps(step, n, KeptType)
  BY LineTaken DEF Line, Steps, Elements
<1> HIDE DEF step
<1>2. PICK f \in [0..n -> KeptType] : f[0] = r /\ \A i \in 1..n : f[i] = step[i][f[i - 1]]
  BY <1>1, FoldExists
<1> DEFINE F == LinesFrom(r, q, n)
<1> HIDE DEF F
<1>3. \A i \in 1..n : f[i] = TakeLine(f[i - 1], q[i])
  <2> USE DEF step
  <2> SUFFICES ASSUME NEW i \in 1..n PROVE f[i] = TakeLine(f[i - 1], q[i])
    OBVIOUS
  <2>1. f[i - 1] \in KeptType
    OBVIOUS
  <2> QED
    BY <1>2, <2>1
<1>4. f = [i \in 0..n |-> IF i = 0 THEN r ELSE TakeLine(f[i - 1], q[i])]
  <2>1. \A i \in 0..n : f[i] = IF i = 0 THEN r ELSE TakeLine(f[i - 1], q[i])
    <3> SUFFICES ASSUME NEW i \in 0..n PROVE f[i] = IF i = 0 THEN r ELSE TakeLine(f[i - 1], q[i])
      OBVIOUS
    <3>1. CASE i = 0
      BY <1>2, <3>1
    <3>2. CASE i # 0
      <4>1. i \in 1..n
        BY <3>2
      <4> QED
        BY <1>3, <3>2, <4>1
    <3> QED
      BY <3>1, <3>2
  <2> QED
    BY <2>1
<1>5. F = [i \in 0..n |-> IF i = 0 THEN r ELSE TakeLine(F[i - 1], q[i])]
  BY <1>4 DEF F, LinesFrom
<1>6. F[0] = r
  BY <1>5
<1>7. \A i \in 1..n : F[i] = TakeLine(F[i - 1], q[i])
  <2> SUFFICES ASSUME NEW i \in 1..n PROVE F[i] = TakeLine(F[i - 1], q[i])
    OBVIOUS
  <2>1. i \in 0..n /\ i # 0
    OBVIOUS
  <2> QED
    BY <1>5, <2>1
<1>8. \A i \in 0..n : f[i] = F[i]
  <2>1. \A i \in 1..n : f[i - 1] = F[i - 1] => f[i] = F[i]
    BY <1>3, <1>7
  <2>2. f[0] = F[0]
    BY <1>2, <1>6
  <2> DEFINE good == {i \in 0..n : f[i] = F[i]}
  <2>3. 0 \in good
    BY <2>2
  <2>4. \A i \in 1..n : i - 1 \in good => i \in good
    BY <2>1
  <2> HIDE DEF good
  <2>5. \A i \in 0..n : i \in good
    BY <2>3, <2>4, Induction
  <2> QED
    BY <2>5 DEF good
<1> QED
  BY <1>2, <1>3, <1>8 DEF F

\* The same in one fact.
LEMMA LinesFold ==
    ASSUME NEW r \in KeptType, NEW q \in Seq(Line)
    PROVE  \E f \in [0..Len(q) -> KeptType] :
             /\ f[0] = r
             /\ \A i \in 1..Len(q) : f[i] = TakeLine(f[i - 1], q[i])
             /\ TakeLines(r, q) = f[Len(q)]
<1>1. Len(q) \in Nat /\ Elements(q, Len(q), Line)
  BY LenProperties, ElementOfSeq DEF Elements
<1>2. PICK f \in [0..Len(q) -> KeptType] :
        /\ f[0] = r
        /\ \A i \in 1..Len(q) : f[i] = TakeLine(f[i - 1], q[i])
        /\ LinesFrom(r, q, Len(q))[Len(q)] = f[Len(q)]
  BY <1>1, LinesFoldIs
<1>3. TakeLines(r, q) = f[Len(q)]
  BY <1>2 DEF TakeLines, LinesFrom
<1> QED
  BY <1>2, <1>3

\* One line more.
LEMMA LinesTaken ==
    ASSUME NEW r \in KeptType, NEW q \in Seq(Line)
    PROVE  /\ TakeLines(r, q) \in KeptType
           /\ Len(q) = 0 => TakeLines(r, q) = r
           /\ \A e \in Line : TakeLines(r, Append(q, e)) = TakeLine(TakeLines(r, q), e)
<1>1. PICK f \in [0..Len(q) -> KeptType] :
        /\ f[0] = r
        /\ \A i \in 1..Len(q) : f[i] = TakeLine(f[i - 1], q[i])
        /\ TakeLines(r, q) = f[Len(q)]
  BY LinesFold
<1>2. Len(q) \in Nat
  BY LenProperties
<1>3. TakeLines(r, q) \in KeptType
  BY <1>1, <1>2
<1>4. Len(q) = 0 => TakeLines(r, q) = r
  BY <1>1
<1>5. ASSUME NEW e \in Line
      PROVE  TakeLines(r, Append(q, e)) = TakeLine(TakeLines(r, q), e)
  <2> DEFINE p == Append(q, e)
  <2>1. /\ p \in Seq(Line) /\ Len(p) = Len(q) + 1
        /\ \A i \in 1..Len(q) : p[i] = q[i]
        /\ p[Len(q) + 1] = e
    BY AppendProperties
  <2> HIDE DEF p
  <2>2. PICK g \in [0..Len(p) -> KeptType] :
          /\ g[0] = r
          /\ \A i \in 1..Len(p) : g[i] = TakeLine(g[i - 1], p[i])
          /\ TakeLines(r, p) = g[Len(p)]
    BY <2>1, LinesFold
  <2>3. \A i \in 0..Len(q) : f[i] = g[i]
    <3> DEFINE good == {i \in 0..Len(q) : f[i] = g[i]}
    <3>1. ASSUME NEW i \in 1..Len(q), i - 1 \in good PROVE i \in good
      <4>1. i \in 1..Len(p) /\ p[i] = q[i]
        BY <1>2, <2>1
      <4> QED
        BY <1>1, <1>2, <2>2, <3>1, <4>1
    <3>2. 0 \in good
      BY <1>1, <1>2, <2>2
    <3> HIDE DEF good
    <3>3. \A i \in 0..Len(q) : i \in good
      BY <1>2, <3>1, <3>2, Induction
    <3> QED
      BY <3>3 DEF good
  <2>4. f[Len(q)] = g[Len(q)]
    BY <1>2, <2>3
  <2>5. g[Len(p)] = TakeLine(g[Len(q)], e)
    <3>1. Len(p) \in 1..Len(p) /\ Len(p) - 1 = Len(q) /\ p[Len(p)] = e
      BY <1>2, <2>1
    <3> QED
      BY <2>2, <3>1
  <2> QED
    BY <1>1, <2>2, <2>4, <2>5 DEF p
<1> QED
  BY <1>3, <1>4, <1>5

(***************************************************************************)
(* Sequences                                                               *)
(***************************************************************************)

\* The first m elements, and one more.
LEMMA PrefixStep ==
    ASSUME NEW S, NEW s \in Seq(S), NEW m \in 1..Len(s)
    PROVE  /\ SubSeq(s, 1, m - 1) \in Seq(S)
           /\ s[m] \in S
           /\ SubSeq(s, 1, m) = Append(SubSeq(s, 1, m - 1), s[m])
<1>1. Len(s) \in Nat /\ \A i \in 1..Len(s) : s[i] \in S
  BY LenProperties, ElementOfSeq
<1> DEFINE p == SubSeq(s, 1, m - 1)
           q == SubSeq(s, 1, m)
<1>2. p \in Seq(S) /\ Len(p) = m - 1 /\ \A i \in 1..(m - 1) : p[i] = s[i]
  <2>1. \A i \in 1..(m - 1) : s[i] \in S
    BY <1>1
  <2>2. 1 \in Int /\ m - 1 \in Int
    BY <1>1
  <2> QED
    BY <1>1, <2>1, <2>2, SubSeqProperties
<1>3. q \in Seq(S) /\ Len(q) = m /\ \A i \in 1..m : q[i] = s[i]
  <2>1. \A i \in 1..m : s[i] \in S
    BY <1>1
  <2>2. 1 \in Int /\ m \in Int
    BY <1>1
  <2> QED
    BY <1>1, <2>1, <2>2, SubSeqProperties
<1>4. s[m] \in S
  BY <1>1
<1> HIDE DEF p, q
<1> DEFINE a == Append(p, s[m])
<1>5. a \in Seq(S) /\ Len(a) = m /\ (\A i \in 1..(m - 1) : a[i] = p[i]) /\ a[m] = s[m]
  BY <1>1, <1>2, <1>4, AppendProperties
<1> HIDE DEF a
<1>6. \A i \in 1..Len(q) : q[i] = a[i]
  BY <1>1, <1>2, <1>3, <1>5
<1>7. q = a
  BY <1>3, <1>5, <1>6, SeqEqual
<1> QED
  BY <1>2, <1>4, <1>7 DEF p, q, a

\* What holds of the empty sequence and goes from each sequence to the next
\* holds of all.
LEMMA SeqInduction ==
    ASSUME NEW S, NEW good, <<>> \in good,
           \A p \in Seq(S), e \in S : p \in good => Append(p, e) \in good
    PROVE  \A s \in Seq(S) : s \in good
<1> SUFFICES ASSUME NEW s \in Seq(S) PROVE s \in good
  OBVIOUS
<1>1. Len(s) \in Nat
  BY LenProperties
<1> DEFINE reached == {m \in 0..Len(s) : SubSeq(s, 1, m) \in good}
<1>2. 0 \in reached
  <2>1. SubSeq(s, 1, 0) = <<>>
    BY SubSeqEmpty
  <2>2. 0 \in 0..Len(s)
    BY <1>1
  <2> QED
    BY <2>1, <2>2
<1>3. ASSUME NEW m \in 1..Len(s), m - 1 \in reached PROVE m \in reached
  <2>1. SubSeq(s, 1, m - 1) \in good
    BY <1>3
  <2>2. Append(SubSeq(s, 1, m - 1), s[m]) \in good
    BY <2>1, PrefixStep
  <2>3. SubSeq(s, 1, m) \in good
    BY <2>2, PrefixStep
  <2> QED
    BY <1>1, <2>3
<1> HIDE DEF reached
<1>4. \A m \in 0..Len(s) : m \in reached
  BY <1>1, <1>2, <1>3, Induction
<1>5. SubSeq(s, 1, Len(s)) \in good
  BY <1>1, <1>4 DEF reached
<1> QED
  BY <1>5, SubSeqFull

\* Two chunks one after the other are read like one.
LEMMA TokensJoined ==
    ASSUME NEW r \in ReaderType, NEW p \in Seq(Token)
    PROVE  \A q \in Seq(Token) : TakeTokens(r, p \o q) = TakeTokens(TakeTokens(r, p), q)
<1> DEFINE good == {q \in Seq(Token) : TakeTokens(r, p \o q) = TakeTokens(TakeTokens(r, p), q)}
<1>1. TakeTokens(r, p) \in ReaderType
  BY TokensTaken
<1>2. <<>> \in good
  <2>1. <<>> \in Seq(Token) /\ Len(<<>>) = 0
    OBVIOUS
  <2>2. p \o <<>> = p
    BY ConcatEmptySeq
  <2> QED
    BY <1>1, <2>1, <2>2, TokensTaken
<1>3. ASSUME NEW q \in Seq(Token), NEW e \in Token, q \in good PROVE Append(q, e) \in good
  <2>1. p \o Append(q, e) = Append(p \o q, e)
    <3>1. <<e>> \in Seq(Token)
      OBVIOUS
    <3>2. p \o q \in Seq(Token)
      BY ConcatProperties
    <3> QED
      BY <3>1, <3>2, ConcatAssociative, AppendIsConcat
  <2>2. p \o q \in Seq(Token)
    BY ConcatProperties
  <2>3. TakeTokens(r, Append(p \o q, e)) = TakeToken(TakeTokens(r, p \o q), e)
    BY <2>2, TokensTaken
  <2>4. TakeTokens(TakeTokens(r, p), Append(q, e)) = TakeToken(TakeTokens(TakeTokens(r, p), q), e)
    BY <1>1, TokensTaken
  <2>5. Append(q, e) \in Seq(Token)
    BY AppendProperties
  <2> QED
    BY <1>3, <2>1, <2>3, <2>4, <2>5
<1> HIDE DEF good
<1>4. \A q \in Seq(Token) : q \in good
  BY <1>2, <1>3, SeqInduction
<1> QED
  BY <1>4 DEF good

(***************************************************************************)
(* The line ends of a text                                                 *)
(***************************************************************************)

\* The places themselves, those up to one of them, and that they can be counted.
EndPlaces(s) == {i \in 1..(Len(s) - 1) : s[i].text = "CR" /\ s[i + 1].text = "LF"}
UpTo(ends, i) == {j \in ends : j <= i}
Ranked(ends) == \A n \in 1..Cardinality(ends) : \E i \in ends : Cardinality(UpTo(ends, i)) = n

\* No two elements have the same rank, and none is above the size of the set.
LEMMA RanksDiffer ==
    ASSUME NEW ends \in SUBSET Nat, IsFiniteSet(ends)
    PROVE  /\ Cardinality(ends) \in Nat
           /\ \A i \in ends : Cardinality(UpTo(ends, i)) \in 1..Cardinality(ends)
           /\ \A i, k \in ends : Cardinality(UpTo(ends, i)) = Cardinality(UpTo(ends, k)) => i = k
<1>1. \A i \in ends : UpTo(ends, i) \in SUBSET ends
  BY DEF UpTo
<1>2. \A i \in ends : /\ IsFiniteSet(UpTo(ends, i))
                      /\ Cardinality(UpTo(ends, i)) <= Cardinality(ends)
                      /\ Cardinality(UpTo(ends, i)) \in Nat
  BY <1>1, FS_Subset, FS_CardinalityType
<1>3. Cardinality(ends) \in Nat
  BY FS_CardinalityType
<1>4. \A i \in ends : Cardinality(UpTo(ends, i)) # 0
  <2> SUFFICES ASSUME NEW i \in ends PROVE Cardinality(UpTo(ends, i)) # 0
    OBVIOUS
  <2>1. i \in UpTo(ends, i)
    BY DEF UpTo
  <2> QED
    BY <1>2, <2>1, FS_EmptySet
<1>5. ASSUME NEW i \in ends, NEW k \in ends, i < k
      PROVE  Cardinality(UpTo(ends, i)) # Cardinality(UpTo(ends, k))
  <2>1. UpTo(ends, i) \in SUBSET UpTo(ends, k)
    <3>1. \A j \in ends : j <= i => j <= k
      BY <1>5
    <3> QED
      BY <3>1 DEF UpTo
  <2>2. k \in UpTo(ends, k) /\ k \notin UpTo(ends, i)
    BY <1>5 DEF UpTo
  <2>3. UpTo(ends, i) # UpTo(ends, k)
    BY <2>2
  <2> QED
    BY <1>2, <2>1, <2>3, FS_Subset
<1>6. \A i, k \in ends : i = k \/ i < k \/ k < i
  OBVIOUS
<1>7. \A i \in ends : Cardinality(UpTo(ends, i)) \in 1..Cardinality(ends)
  BY <1>2, <1>3, <1>4
<1> QED
  BY <1>3, <1>5, <1>6, <1>7

\* A text gets a line end at its end, or none.
LEMMA PlacesAfter ==
    ASSUME NEW s \in Seq(Token), NEW t \in Token
    PROVE  /\ EndPlaces(s) \in SUBSET Nat
           /\ \A i \in EndPlaces(s) : i \in 1..(Len(s) - 1)
           /\ ~Closes(s, t) => EndPlaces(Append(s, t)) = EndPlaces(s)
           /\ Closes(s, t) => /\ EndPlaces(Append(s, t)) = EndPlaces(s) \cup {Len(s)}
                              /\ Len(s) \in Nat \ {0}
<1>1. Len(s) \in Nat
  BY LenProperties
<1> DEFINE a == Append(s, t)
<1>2. Len(a) = Len(s) + 1 /\ (\A i \in 1..Len(s) : a[i] = s[i]) /\ a[Len(s) + 1] = t
  BY AppendProperties
<1> HIDE DEF a
<1>3. EndPlaces(s) \in SUBSET Nat /\ \A i \in EndPlaces(s) : i \in 1..(Len(s) - 1)
  BY <1>1 DEF EndPlaces
<1>4. \A i \in 1..(Len(s) - 1) : i \in EndPlaces(a) <=> i \in EndPlaces(s)
  <2> SUFFICES ASSUME NEW i \in 1..(Len(s) - 1) PROVE i \in EndPlaces(a) <=> i \in EndPlaces(s)
    OBVIOUS
  <2>1. a[i] = s[i] /\ a[i + 1] = s[i + 1] /\ i \in 1..(Len(a) - 1)
    BY <1>1, <1>2
  <2> QED
    BY <2>1 DEF EndPlaces
<1>5. \A i \in EndPlaces(a) : i \in 1..(Len(s) - 1) \/ i = Len(s)
  BY <1>1, <1>2 DEF EndPlaces
<1>6. Len(s) \in EndPlaces(a) <=> Closes(s, t)
  <2>1. CASE Len(s) = 0
    <3>1. s = <<>>
      BY <2>1, EmptySeq
    <3>2. 0 \notin EndPlaces(a)
      BY <1>1, <1>2 DEF EndPlaces
    <3> QED
      BY <2>1, <3>1, <3>2 DEF Closes
  <2>2. CASE Len(s) # 0
    <3>1. s # <<>>
      BY <2>2
    <3>2. Len(s) \in 1..Len(s) /\ Len(s) \in 1..(Len(a) - 1)
      BY <1>1, <1>2, <2>2
    <3>3. a[Len(s)] = Last(s) /\ a[Len(s) + 1] = t
      BY <1>2, <3>2 DEF Last
    <3> QED
      BY <3>1, <3>2, <3>3 DEF Closes, EndPlaces
  <2> QED
    BY <2>1, <2>2
<1>7. Len(s) \notin EndPlaces(s)
  BY <1>1 DEF EndPlaces
<1>8. CASE ~Closes(s, t)
  BY <1>3, <1>4, <1>5, <1>6, <1>8 DEF a
<1>9. CASE Closes(s, t)
  <2>1. Len(s) # 0
    BY <1>9, EmptySeq DEF Closes
  <2> QED
    BY <1>1, <1>3, <1>4, <1>5, <1>6, <1>9, <2>1 DEF a
<1> QED
  BY <1>8, <1>9

\* What a new largest element does to the ranks.
LEMMA RanksAfter ==
    ASSUME NEW ends \in SUBSET Nat, IsFiniteSet(ends), NEW l \in Nat, \A i \in ends : i < l
    PROVE  /\ IsFiniteSet(ends \cup {l})
           /\ Cardinality(ends \cup {l}) = Cardinality(ends) + 1
           /\ Cardinality(UpTo(ends \cup {l}, l)) = Cardinality(ends) + 1
           /\ \A i \in ends : UpTo(ends \cup {l}, i) = UpTo(ends, i)
<1>1. l \notin ends
  OBVIOUS
<1>2. IsFiniteSet(ends \cup {l}) /\ Cardinality(ends \cup {l}) = Cardinality(ends) + 1
  BY <1>1, FS_AddElement
<1>3. UpTo(ends \cup {l}, l) = ends \cup {l}
  <2>1. \A j \in ends \cup {l} : j <= l
    OBVIOUS
  <2> QED
    BY <2>1 DEF UpTo
<1>4. \A i \in ends : UpTo(ends \cup {l}, i) = UpTo(ends, i)
  <2> SUFFICES ASSUME NEW i \in ends PROVE UpTo(ends \cup {l}, i) = UpTo(ends, i)
    OBVIOUS
  <2>1. \A j : j \in UpTo(ends \cup {l}, i) <=> j \in UpTo(ends, i)
    <3>1. ~(l <= i)
      OBVIOUS
    <3> QED
      BY <3>1 DEF UpTo
  <2> QED
    BY <2>1 DEF UpTo
<1> QED
  BY <1>2, <1>3, <1>4

\* Every text has finitely many line ends, and one of each rank.
LEMMA EndsRanked ==
    \A s \in Seq(Token) : IsFiniteSet(EndPlaces(s)) /\ Ranked(EndPlaces(s))
<1> DEFINE good == {s \in Seq(Token) : IsFiniteSet(EndPlaces(s)) /\ Ranked(EndPlaces(s))}
<1>1. <<>> \in good
  <2>1. EndPlaces(<<>>) = {}
    BY DEF EndPlaces
  <2>2. <<>> \in Seq(Token)
    OBVIOUS
  <2> QED
    BY <2>1, <2>2, FS_EmptySet DEF Ranked
<1>2. ASSUME NEW s \in Seq(Token), NEW t \in Token, s \in good PROVE Append(s, t) \in good
  <2>1. Append(s, t) \in Seq(Token)
    BY AppendProperties
  <2> DEFINE ends == EndPlaces(s)
  <2>2. IsFiniteSet(ends) /\ Ranked(ends)
    BY <1>2
  <2>3. CASE ~Closes(s, t)
    <3>1. EndPlaces(Append(s, t)) = EndPlaces(s)
      BY <2>3, PlacesAfter
    <3> QED
      BY <2>1, <2>2, <3>1
  <2>4. CASE Closes(s, t)
    <3>1. EndPlaces(Append(s, t)) = ends \cup {Len(s)} /\ Len(s) \in Nat /\ ends \in SUBSET Nat
      BY <2>4, PlacesAfter
    <3>2. \A i \in ends : i < Len(s)
      BY <3>1, PlacesAfter
    <3> HIDE DEF ends
    <3>3. /\ IsFiniteSet(ends \cup {Len(s)})
          /\ Cardinality(ends \cup {Len(s)}) = Cardinality(ends) + 1
          /\ Cardinality(UpTo(ends \cup {Len(s)}, Len(s))) = Cardinality(ends) + 1
          /\ \A i \in ends : UpTo(ends \cup {Len(s)}, i) = UpTo(ends, i)
      BY <2>2, <3>1, <3>2, RanksAfter
    <3>4. Cardinality(ends) \in Nat
      BY <2>2, FS_CardinalityType
    <3>5. Ranked(ends \cup {Len(s)})
      <4> SUFFICES ASSUME NEW n \in 1..(Cardinality(ends) + 1)
                   PROVE  \E i \in ends \cup {Len(s)} : Cardinality(UpTo(ends \cup {Len(s)}, i)) = n
        BY <3>3 DEF Ranked
      <4>1. CASE n = Cardinality(ends) + 1
        BY <3>3, <4>1
      <4>2. CASE n # Cardinality(ends) + 1
        <5>1. n \in 1..Cardinality(ends)
          BY <3>4, <4>2
        <5>2. PICK i \in ends : Cardinality(UpTo(ends, i)) = n
          BY <2>2, <5>1 DEF Ranked
        <5> QED
          BY <3>3, <5>2
      <4> QED
        BY <4>1, <4>2
    <3> QED
      BY <2>1, <3>1, <3>3, <3>5
  <2> QED
    BY <2>3, <2>4
<1> HIDE DEF good
<1>3. \A s \in Seq(Token) : s \in good
  BY <1>1, <1>2, SeqInduction
<1> QED
  BY <1>3 DEF good

\* Ends lists the line ends from left to right.
LEMMA EndsAre ==
    ASSUME NEW s \in Seq(Token)
    PROVE  /\ Ends(s) \in Seq(EndPlaces(s))
           /\ Len(Ends(s)) = Cardinality(EndPlaces(s))
           /\ Cardinality(EndPlaces(s)) \in Nat
           /\ \A n \in 1..Len(Ends(s)) :
                Ends(s)[n] \in EndPlaces(s) /\ Cardinality(UpTo(EndPlaces(s), Ends(s)[n])) = n
<1> DEFINE E == EndPlaces(s)
           e == [n \in 1..Cardinality(E) |-> CHOOSE i \in E : Cardinality(UpTo(E, i)) = n]
<1>1. Ends(s) = e
  BY DEF Ends, EndPlaces, UpTo
<1>2. IsFiniteSet(E) /\ Ranked(E)
  BY EndsRanked
<1>3. Cardinality(E) \in Nat
  BY <1>2, FS_CardinalityType
<1> HIDE DEF E
<1>4. ASSUME NEW n \in 1..Cardinality(E) PROVE e[n] \in E /\ Cardinality(UpTo(E, e[n])) = n
  <2>1. \E i \in E : Cardinality(UpTo(E, i)) = n
    BY <1>2 DEF Ranked
  <2>2. e[n] = CHOOSE i \in E : Cardinality(UpTo(E, i)) = n
    OBVIOUS
  <2> QED
    BY <2>1, <2>2
<1>5. e \in [1..Cardinality(E) -> E]
  BY <1>4
<1> HIDE DEF e
<1>6. e \in Seq(E) /\ Len(e) = Cardinality(E)
  BY <1>3, <1>5
<1> QED
  BY <1>1, <1>3, <1>4, <1>6 DEF E

\* What a token does to them.
LEMMA EndsAfter ==
    ASSUME NEW s \in Seq(Token), NEW t \in Token
    PROVE  /\ ~Closes(s, t) => Ends(Append(s, t)) = Ends(s)
           /\ Closes(s, t) => Ends(Append(s, t)) = Append(Ends(s), Len(s))
<1> DEFINE a == Append(s, t)
           E == EndPlaces(s)
<1>1. a \in Seq(Token) /\ Len(s) \in Nat
  BY AppendProperties, LenProperties
<1>2. E \in SUBSET Nat /\ IsFiniteSet(E)
  BY PlacesAfter, EndsRanked
<1> DEFINE ends == Ends(s)
           more == Ends(a)
<1>3. /\ ends \in Seq(Nat) /\ Len(ends) = Cardinality(E) /\ Cardinality(E) \in Nat
      /\ \A n \in 1..Len(ends) : ends[n] \in E /\ Cardinality(UpTo(E, ends[n])) = n
  BY <1>2, EndsAre, SeqMonotonic
<1>4. /\ EndPlaces(a) \in SUBSET Nat /\ IsFiniteSet(EndPlaces(a))
      /\ more \in Seq(Nat) /\ Len(more) = Cardinality(EndPlaces(a)) /\ Cardinality(EndPlaces(a)) \in Nat
      /\ \A n \in 1..Len(more) : more[n] \in EndPlaces(a) /\ Cardinality(UpTo(EndPlaces(a), more[n])) = n
  <2>1. EndPlaces(a) \in SUBSET Nat
    BY <1>1 DEF EndPlaces
  <2> QED
    BY <1>1, <2>1, EndsAre, EndsRanked, SeqMonotonic
<1>5. \A i, k \in EndPlaces(a) : Cardinality(UpTo(EndPlaces(a), i)) = Cardinality(UpTo(EndPlaces(a), k)) => i = k
  BY <1>4, RanksDiffer
<1>6. ASSUME ~Closes(s, t) PROVE more = ends
  <2>1. EndPlaces(a) = E
    BY <1>6, PlacesAfter
  <2> HIDE DEF a, E, ends, more
  <2>2. Len(more) = Len(ends)
    BY <1>3, <1>4, <2>1
  <2>3. \A n \in 1..Len(more) : more[n] = ends[n]
    BY <1>3, <1>4, <1>5, <2>1, <2>2
  <2> QED
    BY <1>3, <1>4, <2>2, <2>3, SeqEqual
<1>7. ASSUME Closes(s, t) PROVE more = Append(ends, Len(s))
  <2>1. EndPlaces(a) = E \cup {Len(s)} /\ \A i \in E : i < Len(s)
    BY <1>1, <1>7, PlacesAfter
  <2>2. /\ Cardinality(EndPlaces(a)) = Cardinality(E) + 1
        /\ Cardinality(UpTo(EndPlaces(a), Len(s))) = Cardinality(E) + 1
        /\ \A i \in E : UpTo(EndPlaces(a), i) = UpTo(E, i)
    <3> HIDE DEF a, E
    <3> QED
      BY <1>1, <1>2, <2>1, RanksAfter
  <2> DEFINE b == Append(ends, Len(s))
  <2>3. /\ b \in Seq(Nat) /\ Len(b) = Len(ends) + 1 /\ b[Len(ends) + 1] = Len(s)
        /\ \A n \in 1..Len(ends) : b[n] = ends[n]
    BY <1>1, <1>3, AppendProperties
  <2> HIDE DEF a, E, ends, more, b
  <2>4. Len(more) = Len(b)
    BY <1>3, <1>4, <2>2, <2>3
  <2>5. ASSUME NEW n \in 1..Len(more) PROVE more[n] = b[n]
    <3>1. CASE n = Len(ends) + 1
      <4>1. Cardinality(UpTo(EndPlaces(a), more[n])) = Cardinality(UpTo(EndPlaces(a), Len(s)))
        BY <1>3, <1>4, <2>2, <3>1
      <4>2. more[n] \in EndPlaces(a) /\ Len(s) \in EndPlaces(a)
        BY <1>4, <2>1
      <4> QED
        BY <1>5, <2>3, <3>1, <4>1, <4>2
    <3>2. CASE n # Len(ends) + 1
      <4>1. n \in 1..Len(ends)
        BY <1>3, <2>3, <2>4, <3>2
      <4>2. Cardinality(UpTo(EndPlaces(a), more[n])) = Cardinality(UpTo(EndPlaces(a), ends[n]))
        BY <1>3, <1>4, <2>2, <4>1
      <4>3. more[n] \in EndPlaces(a) /\ ends[n] \in EndPlaces(a)
        BY <1>3, <1>4, <2>1, <4>1
      <4> QED
        BY <1>5, <2>3, <4>1, <4>2, <4>3
    <3> QED
      BY <3>1, <3>2
  <2>6. more = b
    BY <1>4, <2>3, <2>4, <2>5, SeqEqual
  <2> QED
    BY <2>6 DEF b
<1> QED
  BY <1>6, <1>7

\* Where the text after the last line end begins.
From(s) == IF Ends(s) = <<>> THEN 1 ELSE Last(Ends(s)) + 2

\* The remainder is the text from there on.
LEMMA RemainderIs ==
    ASSUME NEW s \in Seq(Token)
    PROVE  /\ Len(s) \in Nat
           /\ From(s) \in 1..(Len(s) + 1)
           /\ From(s) = Len(s) + 1 /\ s # <<>> => s[Len(s)].text = "LF"
           /\ Remainder(s) = SubSeq(s, From(s), Len(s))
           /\ Remainder(s) \in Seq(Token)
           /\ Len(Remainder(s)) = Len(s) + 1 - From(s)
           /\ \A i \in 1..Len(Remainder(s)) : Remainder(s)[i] = s[From(s) + i - 1]
<1>1. Len(s) \in Nat /\ \A i \in 1..Len(s) : s[i] \in Token
  BY LenProperties, ElementOfSeq
<1>2. CASE Ends(s) = <<>>
  <2>1. From(s) = 1
    BY <1>2 DEF From
  <2>2. Remainder(s) = s
    BY <1>2 DEF Remainder
  <2>3. SubSeq(s, 1, Len(s)) = s
    BY SubSeqFull
  <2>4. From(s) = Len(s) + 1 /\ s # <<>> => FALSE
    BY <1>1, <2>1, EmptySeq
  <2> QED
    BY <1>1, <2>1, <2>2, <2>3, <2>4
<1>3. CASE Ends(s) # <<>>
  <2>1. Ends(s) \in Seq(EndPlaces(s)) /\ Len(Ends(s)) \in Nat \ {0}
    BY <1>3, EndsAre, EmptySeq
  <2>2. Last(Ends(s)) \in EndPlaces(s)
    BY <2>1, EndsAre DEF Last
  <2>3. Last(Ends(s)) \in 1..(Len(s) - 1) /\ s[Last(Ends(s)) + 1].text = "LF"
    BY <2>2 DEF EndPlaces
  <2>4. From(s) = Last(Ends(s)) + 2
    BY <1>3 DEF From
  <2>5. From(s) \in 1..(Len(s) + 1) /\ (From(s) = Len(s) + 1 => s[Len(s)].text = "LF")
    <3> HIDE DEF EndPlaces
    <3>1. From(s) = Len(s) + 1 => Last(Ends(s)) + 1 = Len(s)
      BY <1>1, <2>3, <2>4
    <3> QED
      BY <1>1, <2>3, <2>4, <3>1
  <2>6. Remainder(s) = SubSeq(s, From(s), Len(s))
    BY <1>3, <2>4 DEF Remainder
  <2>7. \A i \in From(s)..Len(s) : s[i] \in Token
    BY <1>1, <2>5
  <2>8. From(s) \in Int /\ Len(s) \in Int
    BY <1>1, <2>5
  <2>9. /\ Remainder(s) \in Seq(Token)
        /\ Len(Remainder(s)) = Len(s) + 1 - From(s)
        /\ \A i \in 1..Len(Remainder(s)) : Remainder(s)[i] = s[From(s) + i - 1]
    BY <1>1, <2>5, <2>6, <2>7, <2>8, SubSeqProperties
  <2> QED
    BY <1>1, <2>5, <2>6, <2>9
<1> QED
  BY <1>2, <1>3

\* A token ends the line in the remainder if it ends the text's last line.
LEMMA RemainderCloses ==
    ASSUME NEW s \in Seq(Token), NEW t \in Token
    PROVE  Closes(Remainder(s), t) <=> Closes(s, t)
<1> DEFINE r == Remainder(s)
<1>1. /\ Len(s) \in Nat /\ From(s) \in 1..(Len(s) + 1) /\ r \in Seq(Token)
      /\ From(s) = Len(s) + 1 /\ s # <<>> => s[Len(s)].text = "LF"
      /\ Len(r) = Len(s) + 1 - From(s)
      /\ \A i \in 1..Len(r) : r[i] = s[From(s) + i - 1]
  BY RemainderIs
<1> HIDE DEF r
<1>2. CASE Len(r) = 0
  <2>1. r = <<>>
    BY <1>1, <1>2, EmptySeq
  <2>2. From(s) = Len(s) + 1
    BY <1>1, <1>2
  <2>3. ~Closes(s, t)
    BY <1>1, <2>2 DEF Closes, Last
  <2> QED
    BY <2>1, <2>3 DEF Closes, r
<1>3. CASE Len(r) # 0
  <2>1. r # <<>> /\ s # <<>>
    BY <1>1, <1>3
  <2>2. Len(r) \in 1..Len(r) /\ From(s) + Len(r) - 1 = Len(s)
    BY <1>1, <1>3
  <2>3. r[Len(r)] = s[Len(s)]
    BY <1>1, <2>2
  <2> QED
    BY <2>1, <2>3 DEF Closes, Last, r
<1> QED
  BY <1>2, <1>3

\* A part of a sequence, and all but its last element.
LEMMA PartIs ==
    ASSUME NEW S, NEW s \in Seq(S), NEW lo \in Nat \ {0}, NEW hi \in Int, hi <= Len(s), lo <= hi + 1
    PROVE  /\ SubSeq(s, lo, hi) \in Seq(S)
           /\ Len(SubSeq(s, lo, hi)) = hi + 1 - lo
           /\ \A i \in 1..(hi + 1 - lo) : SubSeq(s, lo, hi)[i] = s[lo + i - 1]
<1>1. Len(s) \in Nat /\ \A i \in 1..Len(s) : s[i] \in S
  BY LenProperties, ElementOfSeq
<1>2. lo \in Int /\ \A i \in lo..hi : s[i] \in S
  BY <1>1
<1> DEFINE p == SubSeq(s, lo, hi)
<1>3. /\ p \in Seq(S) /\ Len(p) = (IF lo <= hi THEN hi - lo + 1 ELSE 0)
      /\ \A i \in 1..(hi - lo + 1) : p[i] = s[lo + i - 1]
  BY <1>2, SubSeqProperties
<1> HIDE DEF p
<1>4. Len(p) = hi + 1 - lo
  BY <1>3
<1>5. \A i \in 1..(hi + 1 - lo) : p[i] = s[lo + i - 1]
  <2>1. hi + 1 - lo = hi - lo + 1
    OBVIOUS
  <2> QED
    BY <1>3, <2>1
<1> QED
  BY <1>3, <1>4, <1>5 DEF p

\* All but the last element.
LEMMA FrontIs ==
    ASSUME NEW S, NEW s \in Seq(S), s # <<>>
    PROVE  /\ Front(s) \in Seq(S)
           /\ Len(Front(s)) = Len(s) - 1
           /\ Len(s) \in Nat \ {0}
           /\ \A i \in 1..(Len(s) - 1) : Front(s)[i] = s[i]
<1>1. Len(s) \in Nat \ {0}
  BY EmptySeq
<1> DEFINE p == SubSeq(s, 1, Len(s) - 1)
<1>2. /\ p \in Seq(S) /\ Len(p) = Len(s) - 1 + 1 - 1
      /\ \A i \in 1..(Len(s) - 1 + 1 - 1) : p[i] = s[1 + i - 1]
  <2>1. PICK hi \in Int : hi = Len(s) - 1
    BY <1>1
  <2>2. 1 \in Nat \ {0} /\ hi <= Len(s) /\ 1 <= hi + 1
    BY <1>1, <2>1
  <2>3. /\ SubSeq(s, 1, hi) \in Seq(S) /\ Len(SubSeq(s, 1, hi)) = hi + 1 - 1
        /\ \A i \in 1..(hi + 1 - 1) : SubSeq(s, 1, hi)[i] = s[1 + i - 1]
    BY <2>2, PartIs
  <2> QED
    BY <2>1, <2>3
<1>3. Front(s) = p
  BY DEF Front
<1> HIDE DEF p
<1>4. Len(p) = Len(s) - 1
  BY <1>1, <1>2
<1>5. \A i \in 1..(Len(s) - 1) : p[i] = s[i]
  <2>1. Len(s) - 1 + 1 - 1 = Len(s) - 1
    BY <1>1
  <2>2. \A i \in 1..(Len(s) - 1) : 1 + i - 1 = i
    BY <1>1
  <2> QED
    BY <1>2, <2>1, <2>2
<1> QED
  BY <1>1, <1>2, <1>3, <1>4, <1>5

\* Texts that begin alike have the same parts there.
LEMMA SamePart ==
    ASSUME NEW s \in Seq(Token), NEW a \in Seq(Token), \A i \in 1..Len(s) : a[i] = s[i],
           NEW lo \in Nat \ {0}, NEW hi \in Int, hi <= Len(s)
    PROVE  SubSeq(a, lo, hi) = SubSeq(s, lo, hi) /\ SubSeq(s, lo, hi) \in Seq(Token)
<1>1. Len(s) \in Nat /\ \A i \in 1..Len(s) : s[i] \in Token
  BY LenProperties, ElementOfSeq
<1>2. \A i \in lo..hi : s[i] \in Token /\ a[i] = s[i]
  BY <1>1
<1>3. \A i \in lo..hi : a[i] \in Token
  BY <1>2
<1>4. lo \in Int
  OBVIOUS
<1> DEFINE p == SubSeq(s, lo, hi)
           q == SubSeq(a, lo, hi)
<1>5. /\ p \in Seq(Token) /\ Len(p) = (IF lo <= hi THEN hi - lo + 1 ELSE 0)
      /\ \A i \in 1..(hi - lo + 1) : p[i] = s[lo + i - 1]
  BY <1>2, <1>4, SubSeqProperties
<1>6. /\ q \in Seq(Token) /\ Len(q) = (IF lo <= hi THEN hi - lo + 1 ELSE 0)
      /\ \A i \in 1..(hi - lo + 1) : q[i] = a[lo + i - 1]
  BY <1>3, <1>4, SubSeqProperties
<1> HIDE DEF p, q
<1>7. \A i \in 1..Len(q) : q[i] = p[i]
  <2> SUFFICES ASSUME NEW i \in 1..Len(q) PROVE q[i] = p[i]
    OBVIOUS
  <2>1. i \in 1..(hi - lo + 1) /\ lo + i - 1 \in lo..hi
    BY <1>6
  <2> QED
    BY <1>2, <1>5, <1>6, <2>1
<1>8. q = p
  BY <1>5, <1>6, <1>7, SeqEqual
<1> QED
  BY <1>5, <1>8 DEF p, q

\* Where the line before the i-th end begins.
LineStart(ends, i) == IF i = 1 THEN 1 ELSE ends[i - 1] + 2

\* The lines of a text are the parts between its ends.
LEMMA LinesAre ==
    ASSUME NEW s \in Seq(Token)
    PROVE  /\ Ends(s) \in Seq(Nat)
           /\ Len(Ends(s)) \in Nat
           /\ \A i \in 1..Len(Ends(s)) : LineStart(Ends(s), i) \in Nat \ {0} /\ Ends(s)[i] - 1 <= Len(s)
           /\ LinesOf(s) = [i \in 1..Len(Ends(s)) |-> SubSeq(s, LineStart(Ends(s), i), Ends(s)[i] - 1)]
           /\ LinesOf(s) \in Seq(Line) /\ Len(LinesOf(s)) = Len(Ends(s))
<1> DEFINE ends == Ends(s)
<1>1. Len(s) \in Nat
  BY LenProperties
<1>2. /\ ends \in Seq(Nat) /\ Len(ends) \in Nat
      /\ \A i \in 1..Len(ends) : ends[i] \in 1..(Len(s) - 1)
  <2>1. EndPlaces(s) \in SUBSET Nat /\ \A i \in EndPlaces(s) : i \in 1..(Len(s) - 1)
    BY <1>1 DEF EndPlaces
  <2> QED
    BY <2>1, EndsAre, SeqMonotonic
<1>3. LinesOf(s) = [i \in 1..Len(ends) |-> SubSeq(s, LineStart(ends, i), ends[i] - 1)]
  BY DEF LinesOf, LineStart
<1> HIDE DEF ends
<1>4. ASSUME NEW i \in 1..Len(ends)
      PROVE  /\ LineStart(ends, i) \in Nat \ {0} /\ ends[i] - 1 <= Len(s)
             /\ SubSeq(s, LineStart(ends, i), ends[i] - 1) \in Seq(Token)
  <2>1. LineStart(ends, i) \in Nat \ {0}
    <3>1. CASE i = 1
      BY <3>1 DEF LineStart
    <3>2. CASE i # 1
      <4>1. i - 1 \in 1..Len(ends)
        BY <1>2, <3>2
      <4>2. ends[i - 1] \in 1..(Len(s) - 1)
        BY <1>2, <4>1
      <4> QED
        BY <3>2, <4>2 DEF LineStart
    <3> QED
      BY <3>1, <3>2
  <2>2. ends[i] - 1 \in Int /\ ends[i] - 1 <= Len(s)
    BY <1>1, <1>2
  <2>3. SubSeq(s, LineStart(ends, i), ends[i] - 1) \in Seq(Token)
    BY <2>1, <2>2, SamePart
  <2> QED
    BY <2>1, <2>2, <2>3
<1>5. LinesOf(s) \in [1..Len(ends) -> Line]
  BY <1>3, <1>4 DEF Line
<1>6. LinesOf(s) \in Seq(Line) /\ Len(LinesOf(s)) = Len(ends)
  <2> DEFINE l == LinesOf(s)
  <2> HIDE DEF l
  <2>1. l \in [1..Len(ends) -> Line]
    BY <1>5 DEF l
  <2>2. l \in Seq(Line) /\ Len(l) = Len(ends)
    BY <1>2, <2>1
  <2> QED
    BY <2>2 DEF l
<1> QED
  BY <1>2, <1>3, <1>4, <1>6 DEF ends

\* A token is put to the remainder, or makes a line of it.
LEMMA LinesAfter ==
    ASSUME NEW s \in Seq(Token), NEW t \in Token
    PROVE  /\ ~Closes(s, t) => /\ LinesOf(Append(s, t)) = LinesOf(s)
                               /\ Remainder(Append(s, t)) = Append(Remainder(s), t)
           /\ Closes(s, t) => /\ LinesOf(Append(s, t)) = Append(LinesOf(s), Front(Remainder(s)))
                              /\ Front(Remainder(s)) \in Line
                              /\ Remainder(Append(s, t)) = <<>>
<1> DEFINE a == Append(s, t)
           ends == Ends(s)
           r == Remainder(s)
<1>1. /\ a \in Seq(Token) /\ Len(s) \in Nat /\ Len(a) = Len(s) + 1
      /\ (\A i \in 1..Len(s) : a[i] = s[i]) /\ a[Len(s) + 1] = t
  BY AppendProperties, LenProperties
<1>2. /\ From(s) \in 1..(Len(s) + 1) /\ r \in Seq(Token)
      /\ Len(r) = Len(s) + 1 - From(s)
      /\ \A i \in 1..Len(r) : r[i] = s[From(s) + i - 1]
  BY RemainderIs
<1>3. /\ From(a) \in 1..(Len(a) + 1) /\ Remainder(a) \in Seq(Token)
      /\ Len(Remainder(a)) = Len(a) + 1 - From(a)
      /\ \A i \in 1..Len(Remainder(a)) : Remainder(a)[i] = a[From(a) + i - 1]
  BY <1>1, RemainderIs
<1>4. /\ ends \in Seq(Nat) /\ Len(ends) \in Nat
      /\ \A i \in 1..Len(ends) : LineStart(ends, i) \in Nat \ {0} /\ ends[i] \in Nat /\ ends[i] - 1 <= Len(s)
      /\ LinesOf(s) = [i \in 1..Len(ends) |-> SubSeq(s, LineStart(ends, i), ends[i] - 1)]
      /\ LinesOf(s) \in Seq(Line) /\ Len(LinesOf(s)) = Len(ends)
  BY LinesAre, ElementOfSeq
<1>5. LinesOf(a) = [i \in 1..Len(Ends(a)) |-> SubSeq(a, LineStart(Ends(a), i), Ends(a)[i] - 1)]
  BY <1>1, LinesAre
<1>6. \A i \in 1..Len(ends) : SubSeq(a, LineStart(ends, i), ends[i] - 1) = SubSeq(s, LineStart(ends, i), ends[i] - 1)
  <2> SUFFICES ASSUME NEW i \in 1..Len(ends)
               PROVE  SubSeq(a, LineStart(ends, i), ends[i] - 1) = SubSeq(s, LineStart(ends, i), ends[i] - 1)
    OBVIOUS
  <2> HIDE DEF a, ends
  <2>1. LineStart(ends, i) \in Nat \ {0} /\ ends[i] - 1 \in Int /\ ends[i] - 1 <= Len(s)
    BY <1>4
  <2> QED
    BY <1>1, <2>1, SamePart
<1>7. ASSUME ~Closes(s, t) PROVE LinesOf(a) = LinesOf(s) /\ Remainder(a) = Append(r, t)
  <2>1. Ends(a) = ends
    BY <1>7, EndsAfter
  <2>2. LinesOf(a) = LinesOf(s)
    BY <1>4, <1>5, <1>6, <2>1
  <2>3. From(a) = From(s)
    BY <2>1 DEF From
  <2> DEFINE b == Append(r, t)
  <2>4. b \in Seq(Token) /\ Len(b) = Len(r) + 1 /\ b[Len(r) + 1] = t /\ \A i \in 1..Len(r) : b[i] = r[i]
    BY <1>2, AppendProperties
  <2> HIDE DEF a, r, b
  <2>5. Len(Remainder(a)) = Len(b)
    BY <1>1, <1>2, <1>3, <2>3, <2>4
  <2>6. ASSUME NEW i \in 1..Len(Remainder(a)) PROVE Remainder(a)[i] = b[i]
    <3>1. Remainder(a)[i] = a[From(s) + i - 1]
      BY <1>3, <2>3
    <3>2. CASE i = Len(r) + 1
      <4>1. From(s) + i - 1 = Len(s) + 1
        BY <1>1, <1>2, <3>2
      <4> QED
        BY <1>1, <2>4, <3>1, <3>2, <4>1
    <3>3. CASE i # Len(r) + 1
      <4>1. i \in 1..Len(r) /\ From(s) + i - 1 \in 1..Len(s)
        BY <1>1, <1>2, <2>4, <2>5, <3>3
      <4> QED
        BY <1>1, <1>2, <2>4, <3>1, <4>1
    <3> QED
      BY <3>2, <3>3
  <2>7. Remainder(a) = b
    BY <1>3, <2>4, <2>5, <2>6, SeqEqual
  <2> QED
    BY <2>2, <2>7 DEF b
<1>8. ASSUME Closes(s, t)
      PROVE  LinesOf(a) = Append(LinesOf(s), Front(r)) /\ Front(r) \in Line /\ Remainder(a) = <<>>
  <2>1. Ends(a) = Append(ends, Len(s))
    BY <1>8, EndsAfter
  <2>2. /\ Ends(a) \in Seq(Nat) /\ Len(Ends(a)) = Len(ends) + 1 /\ Ends(a)[Len(ends) + 1] = Len(s)
        /\ Ends(a) # <<>> /\ \A i \in 1..Len(ends) : Ends(a)[i] = ends[i]
    BY <1>1, <1>4, <2>1, AppendProperties
  <2>3. From(a) = Len(s) + 2
    BY <1>4, <2>2 DEF From, Last
  <2>4. Remainder(a) = <<>>
    BY <1>1, <1>3, <2>3, EmptySeq
  <2>5. LineStart(Ends(a), Len(ends) + 1) = From(s)
    <3>1. CASE Len(ends) = 0
      BY <1>4, <3>1, EmptySeq DEF LineStart, From
    <3>2. CASE Len(ends) # 0
      <4>1. ends # <<>> /\ Len(ends) \in 1..Len(ends) /\ Len(ends) + 1 # 1 /\ Len(ends) + 1 - 1 = Len(ends)
        BY <1>4, <3>2
      <4> HIDE DEF ends, a
      <4>2. LineStart(Ends(a), Len(ends) + 1) = ends[Len(ends)] + 2
        BY <2>2, <4>1 DEF LineStart
      <4> QED
        BY <4>1, <4>2 DEF From, Last, ends
    <3> QED
      BY <3>1, <3>2
  <2>6. Front(r) = SubSeq(s, From(s), Len(s) - 1) /\ Front(r) \in Line
    <3> DEFINE p == SubSeq(s, From(s), Len(s) - 1)
               f == Front(r)
    <3>1. r # <<>> /\ Len(r) \in Nat \ {0}
      <4>1. r # <<>>
        BY <1>8, RemainderCloses DEF Closes
      <4> QED
        BY <1>2, <4>1, EmptySeq
    <3>2. f \in Seq(Token) /\ Len(f) = Len(r) - 1 /\ \A i \in 1..(Len(r) - 1) : f[i] = r[i]
      BY <1>2, <3>1, FrontIs
    <3>3. /\ p \in Seq(Token) /\ Len(p) = Len(s) - 1 + 1 - From(s)
          /\ \A i \in 1..(Len(s) - 1 + 1 - From(s)) : p[i] = s[From(s) + i - 1]
      <4> HIDE DEF r
      <4>1. /\ From(s) \in Nat \ {0} /\ Len(s) - 1 \in Int /\ Len(s) - 1 <= Len(s)
            /\ From(s) <= Len(s) - 1 + 1
        BY <1>1, <1>2, <3>1
      <4> QED
        BY <4>1, PartIs
    <3> HIDE DEF p, f, r
    <3>4. Len(s) - 1 + 1 - From(s) = Len(r) - 1
      BY <1>1, <1>2
    <3>5. \A i \in 1..Len(f) : f[i] = p[i]
      <4> SUFFICES ASSUME NEW i \in 1..Len(f) PROVE f[i] = p[i]
        OBVIOUS
      <4>1. i \in 1..(Len(r) - 1) /\ i \in 1..Len(r)
        BY <3>1, <3>2
      <4>2. f[i] = r[i] /\ r[i] = s[From(s) + i - 1]
        BY <1>2, <3>2, <4>1
      <4>3. p[i] = s[From(s) + i - 1]
        BY <3>3, <3>4, <4>1
      <4> QED
        BY <4>2, <4>3
    <3>6. f = p
      BY <3>2, <3>3, <3>4, <3>5, SeqEqual
    <3> QED
      BY <3>2, <3>6 DEF f, p, Line
  <2>7. SubSeq(a, From(s), Len(s) - 1) = Front(r)
    <3>1. From(s) \in Nat \ {0} /\ Len(s) - 1 \in Int /\ Len(s) - 1 <= Len(s)
      BY <1>1, <1>2
    <3> HIDE DEF a, r
    <3>2. SubSeq(a, From(s), Len(s) - 1) = SubSeq(s, From(s), Len(s) - 1)
      BY <1>1, <3>1, SamePart
    <3> QED
      BY <2>6, <3>2
  <2> DEFINE b == Append(LinesOf(s), Front(r))
             c == LinesOf(a)
  <2>8. /\ b \in Seq(Line) /\ Len(b) = Len(ends) + 1 /\ b[Len(ends) + 1] = Front(r)
        /\ \A i \in 1..Len(ends) : b[i] = LinesOf(s)[i]
    <3> DEFINE l == LinesOf(s)
               f == Front(r)
    <3> HIDE DEF l, f, ends
    <3>1. l \in Seq(Line) /\ Len(l) = Len(ends) /\ f \in Line
      BY <1>4, <2>6 DEF l, f
    <3>2. /\ Append(l, f) \in Seq(Line) /\ Len(Append(l, f)) = Len(l) + 1 /\ Append(l, f)[Len(l) + 1] = f
          /\ \A i \in 1..Len(l) : Append(l, f)[i] = l[i]
      BY <3>1, AppendProperties
    <3> QED
      BY <3>1, <3>2 DEF l, f
  <2>9. c \in Seq(Line) /\ Len(c) = Len(ends) + 1
    BY <1>1, <2>2, LinesAre
  <2>10. \A i \in 1..(Len(ends) + 1) : c[i] = SubSeq(a, LineStart(Ends(a), i), Ends(a)[i] - 1)
    BY <1>5, <2>2
  <2> HIDE DEF a, ends, r, b, c
  <2>11. ASSUME NEW i \in 1..Len(c) PROVE c[i] = b[i]
    <3>1. CASE i = Len(ends) + 1
      BY <2>2, <2>5, <2>7, <2>8, <2>9, <2>10, <3>1
    <3>2. CASE i # Len(ends) + 1
      <4>1. i \in 1..Len(ends)
        BY <1>4, <2>9, <3>2
      <4>2. LineStart(Ends(a), i) = LineStart(ends, i)
        <5>1. i # 1 => i - 1 \in 1..Len(ends)
          BY <1>4, <4>1
        <5> QED
          BY <2>2, <5>1 DEF LineStart
      <4>3. LinesOf(s)[i] = SubSeq(s, LineStart(ends, i), ends[i] - 1)
        BY <1>4, <4>1
      <4> QED
        BY <1>6, <2>2, <2>8, <2>9, <2>10, <4>1, <4>2, <4>3
    <3> QED
      BY <3>1, <3>2
  <2>12. c = b
    BY <2>8, <2>9, <2>11, SeqEqual
  <2> QED
    BY <2>4, <2>6, <2>12 DEF b, c
<1> QED
  BY <1>7, <1>8

(***************************************************************************)
(* The parser, which cuts a text into lines, and the reader of tokens      *)
(***************************************************************************)

\* A reader's state without and with the line.
Kept(r) == [live |-> r.live, stored |-> r.stored]
Reader(st, line) == [live |-> st.live, stored |-> st.stored, line |-> line]

\* The two go together: with the line and then without it.
LEMMA KeptReader ==
    ASSUME NEW st \in KeptType, NEW line \in Seq(Token)
    PROVE  /\ Reader(st, line) \in ReaderType
           /\ Reader(st, line).line = line
           /\ Reader(st, line).live = st.live
           /\ Reader(st, line).stored = st.stored
           /\ Kept(Reader(st, line)) = st
<1>1. st = [live |-> st.live, stored |-> st.stored] /\ st.live \in BOOLEAN /\ st.stored \in Seq(Seq(Token))
  BY DEF KeptType
<1> QED
  BY <1>1 DEF Kept, Reader, ReaderType

\* And the other way round.
LEMMA ReaderKept ==
    ASSUME NEW r \in ReaderType
    PROVE  /\ Kept(r) \in KeptType
           /\ Reader(Kept(r), r.line) = r
           /\ r.line \in Seq(Token)
           /\ Kept(r).live = r.live
           /\ Kept(r).stored = r.stored
<1>1. r = [live |-> r.live, stored |-> r.stored, line |-> r.line] /\ r.line \in Seq(Token)
  BY DEF ReaderType
<1>2. Kept(r) \in KeptType
  BY DEF Kept, KeptType, ReaderType
<1> QED
  BY <1>1, <1>2 DEF Kept, Reader

\* One token, in these words.
LEMMA TokenRead ==
    ASSUME NEW st \in KeptType, NEW line \in Seq(Token), NEW t \in Token
    PROVE  /\ ~Closes(line, t) => TakeToken(Reader(st, line), t) = Reader(st, Append(line, t))
           /\ Closes(line, t) => /\ TakeToken(Reader(st, line), t) = Reader(TakeLine(st, Front(line)), <<>>)
                                 /\ Front(line) \in Seq(Token)
                                 /\ TakeLine(st, Front(line)) \in KeptType
<1>1. /\ Reader(st, line) \in ReaderType /\ Reader(st, line).line = line
      /\ Reader(st, line).live = st.live /\ Reader(st, line).stored = st.stored
      /\ Kept(Reader(st, line)) = st
  BY KeptReader
<1> DEFINE r == Reader(st, line)
<1>2. r \in ReaderType /\ r.line = line /\ r.live = st.live /\ r.stored = st.stored
      /\ [live |-> r.live, stored |-> r.stored] = st
  BY <1>1 DEF Kept
<1> HIDE DEF r
<1>3. CASE ~Closes(line, t)
  <2>1. TakeToken(r, t) = [live |-> r.live, stored |-> r.stored, line |-> Append(r.line, t)]
    BY <1>2, <1>3, TokenTaken
  <2>2. TakeToken(r, t) = Reader(st, Append(line, t))
    BY <1>2, <2>1 DEF Reader
  <2> QED
    BY <1>3, <2>2 DEF r
<1>4. CASE Closes(line, t)
  <2> DEFINE after == TakeLine([live |-> r.live, stored |-> r.stored], Front(r.line))
  <2>1. /\ TakeToken(r, t) = [live |-> after.live, stored |-> after.stored, line |-> <<>>]
        /\ Front(r.line) \in Seq(Token)
    BY <1>2, <1>4, TokenTaken
  <2>2. after = TakeLine(st, Front(line)) /\ Front(line) \in Seq(Token)
    BY <1>2, <2>1
  <2>3. TakeLine(st, Front(line)) \in KeptType
    BY <2>2, LineTaken
  <2> HIDE DEF after
  <2>4. TakeToken(r, t) = Reader(TakeLine(st, Front(line)), <<>>)
    BY <2>1, <2>2 DEF Reader
  <2> QED
    BY <1>4, <2>2, <2>3, <2>4 DEF r
<1> QED
  BY <1>3, <1>4

\* An empty text has no line.
LEMMA NoEnds == /\ Ends(<<>>) = <<>>
                /\ Remainder(<<>>) = <<>>
                /\ Len(LinesOf(<<>>)) = 0
<1>1. <<>> \in Seq(Token)
  OBVIOUS
<1>2. EndPlaces(<<>>) = {}
  BY DEF EndPlaces
<1>3. Ends(<<>>) \in Seq(Nat) /\ Len(Ends(<<>>)) = 0
  BY <1>1, <1>2, EndsAre, LinesAre, FS_EmptySet
<1>4. Ends(<<>>) = <<>>
  BY <1>3, EmptySeq
<1>5. Len(LinesOf(<<>>)) = 0
  BY <1>1, <1>3, LinesAre
<1> QED
  BY <1>4, <1>5 DEF Remainder

\* Cutting a text into lines, and reading it token by token, come to the same;
\* no complete line is left over.
LEMMA ReadersAgree ==
    ASSUME NEW st \in KeptType
    PROVE  \A s \in Seq(Token) :
             /\ TakeTokens(Reader(st, <<>>), s) = Reader(TakeLines(st, LinesOf(s)), Remainder(s))
             /\ Ends(Remainder(s)) = <<>>
<1> DEFINE good == {s \in Seq(Token) :
             /\ TakeTokens(Reader(st, <<>>), s) = Reader(TakeLines(st, LinesOf(s)), Remainder(s))
             /\ Ends(Remainder(s)) = <<>>}
<1>0. <<>> \in Seq(Token) /\ Reader(st, <<>>) \in ReaderType
  BY KeptReader, EmptySeq
<1>1. <<>> \in good
  <2>1. TakeTokens(Reader(st, <<>>), <<>>) = Reader(st, <<>>)
    BY <1>0, EmptySeq, TokensTaken
  <2>2. LinesOf(<<>>) \in Seq(Line)
    BY <1>0, LinesAre
  <2>3. TakeLines(st, LinesOf(<<>>)) = st
    BY <2>2, NoEnds, LinesTaken
  <2>4. Remainder(<<>>) = <<>> /\ Ends(<<>>) = <<>>
    BY NoEnds
  <2> QED
    BY <1>0, <2>1, <2>3, <2>4
<1>2. ASSUME NEW s \in Seq(Token), NEW t \in Token, s \in good PROVE Append(s, t) \in good
  <2> DEFINE a == Append(s, t)
             now == TakeLines(st, LinesOf(s))
             r == Remainder(s)
  <2>1. a \in Seq(Token)
    BY AppendProperties
  <2>2. r \in Seq(Token) /\ LinesOf(s) \in Seq(Line)
    BY RemainderIs, LinesAre
  <2>3. now \in KeptType
    BY <2>2, LinesTaken
  <2>4. TakeTokens(Reader(st, <<>>), a) = TakeToken(Reader(now, r), t)
    BY <1>0, <1>2, TokensTaken
  <2>5. Closes(r, t) <=> Closes(s, t)
    BY RemainderCloses
  <2>6. CASE ~Closes(s, t)
    <3>1. LinesOf(a) = LinesOf(s) /\ Remainder(a) = Append(r, t)
      BY <2>6, LinesAfter
    <3>2. Ends(Append(r, t)) = Ends(r)
      BY <2>2, <2>5, <2>6, EndsAfter
    <3>3. TakeToken(Reader(now, r), t) = Reader(now, Append(r, t))
      BY <2>2, <2>3, <2>5, <2>6, TokenRead
    <3> QED
      BY <1>2, <2>1, <2>4, <3>1, <3>2, <3>3
  <2>7. CASE Closes(s, t)
    <3>1. LinesOf(a) = Append(LinesOf(s), Front(r)) /\ Front(r) \in Line /\ Remainder(a) = <<>>
      BY <2>7, LinesAfter
    <3>2. TakeLines(st, LinesOf(a)) = TakeLine(now, Front(r))
      BY <2>2, <3>1, LinesTaken
    <3>3. TakeToken(Reader(now, r), t) = Reader(TakeLine(now, Front(r)), <<>>)
      BY <2>2, <2>3, <2>5, <2>7, TokenRead
    <3>4. Ends(Remainder(a)) = <<>>
      BY <3>1, NoEnds
    <3> QED
      BY <2>1, <2>4, <3>1, <3>2, <3>3, <3>4
  <2> QED
    BY <2>6, <2>7
<1> HIDE DEF good
<1>3. \A s \in Seq(Token) : s \in good
  BY <1>1, <1>2, SeqInduction
<1> QED
  BY <1>3 DEF good

\* A call of the parser: what it makes of the line it kept and a chunk is what
\* the reader of tokens makes of the chunk.
LEMMA ChunkRead ==
    ASSUME NEW st \in KeptType, NEW line \in Seq(Token), Ends(line) = <<>>, NEW chunk \in Seq(Token)
    PROVE  /\ TakeTokens(Reader(st, line), chunk) =
                Reader(TakeLines(st, LinesOf(line \o chunk)), Remainder(line \o chunk))
           /\ TakeLines(st, LinesOf(line \o chunk)) \in KeptType
           /\ Remainder(line \o chunk) \in Seq(Token)
           /\ Ends(Remainder(line \o chunk)) = <<>>
<1>0. Reader(st, <<>>) \in ReaderType /\ line \o chunk \in Seq(Token)
  BY KeptReader, EmptySeq, ConcatProperties
<1>1. TakeTokens(Reader(st, <<>>), line) = Reader(TakeLines(st, LinesOf(line)), Remainder(line))
  BY ReadersAgree
<1>2. Remainder(line) = line
  BY DEF Remainder
<1>3. LinesOf(line) \in Seq(Line) /\ Len(LinesOf(line)) = 0
  BY LinesAre, EmptySeq
<1>4. TakeLines(st, LinesOf(line)) = st
  BY <1>3, LinesTaken
<1>5. TakeTokens(Reader(st, <<>>), line \o chunk) = TakeTokens(Reader(st, line), chunk)
  BY <1>0, <1>1, <1>2, <1>4, TokensJoined
<1>6. LinesOf(line \o chunk) \in Seq(Line) /\ Remainder(line \o chunk) \in Seq(Token)
  BY <1>0, LinesAre, RemainderIs
<1>7. TakeLines(st, LinesOf(line \o chunk)) \in KeptType
  BY <1>6, LinesTaken
<1> QED
  BY <1>0, <1>5, <1>6, <1>7, ReadersAgree

(***************************************************************************)
(* A report on its way                                                     *)
(***************************************************************************)

Word(text, n) == [text |-> text, of |-> n]

\* The ten tokens of a report, and its PDU.
LEMMA ReportIs ==
    ASSUME NEW n \in Nat
    PROVE  /\ Report(n) \in Seq(Token) /\ Len(Report(n)) = 10
           /\ Report(n)[1] = Word("CR", n) /\ Report(n)[2] = Word("LF", n)
           /\ Report(n)[3] = Word("+C", n) /\ Report(n)[4] = Word("MT:", n)
           /\ Report(n)[5] = Word("CR", n) /\ Report(n)[6] = Word("LF", n)
           /\ Report(n)[7] = Word("pdu1", n) /\ Report(n)[8] = Word("pdu2", n)
           /\ Report(n)[9] = Word("CR", n) /\ Report(n)[10] = Word("LF", n)
           /\ Pdu(n) \in Seq(Token) /\ Len(Pdu(n)) = 2
           /\ Pdu(n)[1] = Word("pdu1", n) /\ Pdu(n)[2] = Word("pdu2", n)
<1> DEFINE a == Text(<<"CR", "LF", "+C", "MT:", "CR", "LF">>, n)
           b == Text(<<"pdu1", "pdu2">>, n)
           c == Text(<<"CR", "LF">>, n)
<1>1. /\ a \in Seq(Token) /\ Len(a) = 6
      /\ a[1] = Word("CR", n) /\ a[2] = Word("LF", n) /\ a[3] = Word("+C", n)
      /\ a[4] = Word("MT:", n) /\ a[5] = Word("CR", n) /\ a[6] = Word("LF", n)
  BY DEF Text, Word, Token, Pieces
<1>2. b \in Seq(Token) /\ Len(b) = 2 /\ b[1] = Word("pdu1", n) /\ b[2] = Word("pdu2", n)
  BY DEF Text, Word, Token, Pieces
<1>3. c \in Seq(Token) /\ Len(c) = 2 /\ c[1] = Word("CR", n) /\ c[2] = Word("LF", n)
  BY DEF Text, Word, Token, Pieces
<1>4. Report(n) = (a \o b) \o c /\ Pdu(n) = b
  BY DEF Report, Pdu
<1> HIDE DEF a, b, c
<1>5. /\ a \o b \in Seq(Token) /\ Len(a \o b) = Len(a) + Len(b)
      /\ \A i \in 1..(Len(a) + Len(b)) : (a \o b)[i] = IF i <= Len(a) THEN a[i] ELSE b[i - Len(a)]
  BY <1>1, <1>2, ConcatProperties
<1> DEFINE ab == a \o b
<1> HIDE DEF ab
<1>6. ab \in Seq(Token) /\ Len(ab) = 8 /\ \A i \in 1..8 : ab[i] = IF i <= 6 THEN a[i] ELSE b[i - 6]
  BY <1>1, <1>2, <1>5 DEF ab
<1>7. ab[1] = a[1] /\ ab[2] = a[2] /\ ab[3] = a[3] /\ ab[4] = a[4] /\ ab[5] = a[5] /\ ab[6] = a[6]
      /\ ab[7] = b[1] /\ ab[8] = b[2]
  <2>1. \A i \in 1..6 : ab[i] = a[i]
    BY <1>6
  <2>2. ab[7] = b[7 - 6] /\ ab[8] = b[8 - 6]
    BY <1>6
  <2> QED
    BY <2>1, <2>2
<1> DEFINE r == ab \o c
<1>8. /\ r \in Seq(Token) /\ Len(r) = Len(ab) + Len(c)
      /\ \A i \in 1..(Len(ab) + Len(c)) : r[i] = IF i <= Len(ab) THEN ab[i] ELSE c[i - Len(ab)]
  BY <1>3, <1>6, ConcatProperties
<1> HIDE DEF r
<1>82. Len(r) = 10 /\ \A i \in 1..10 : r[i] = IF i <= 8 THEN ab[i] ELSE c[i - 8]
  BY <1>3, <1>6, <1>8
<1>9. /\ r[1] = ab[1] /\ r[2] = ab[2] /\ r[3] = ab[3] /\ r[4] = ab[4] /\ r[5] = ab[5] /\ r[6] = ab[6]
      /\ r[7] = ab[7] /\ r[8] = ab[8] /\ r[9] = c[1] /\ r[10] = c[2]
  <2>1. \A i \in 1..8 : r[i] = ab[i]
    BY <1>82
  <2>2. r[9] = c[9 - 8] /\ r[10] = c[10 - 8]
    BY <1>82
  <2> QED
    BY <2>1, <2>2
<1>10. Report(n) = r /\ r \in Seq(Token) /\ Len(r) = 10
  BY <1>4, <1>8, <1>82 DEF ab, r
<1> QED
  BY <1>1, <1>2, <1>3, <1>4, <1>7, <1>9, <1>10

\* Every token of it is its own; only the second, sixth and tenth are line feeds.
LEMMA ReportParts ==
    ASSUME NEW n \in Nat, NEW j \in 1..10
    PROVE  /\ Report(n)[j] \in Token
           /\ Report(n)[j].of = n
           /\ Report(n)[j].text = "LF" <=> j \in {2, 6, 10}
           /\ Report(n)[j].text = "+C" <=> j = 3
<1>1. j \in {1, 2, 3, 4, 5, 6, 7, 8, 9, 10}
  OBVIOUS
<1>2. Report(n)[j] \in Token
  BY ReportIs, ElementOfSeq
<1> DEFINE r == Report(n)
<1>3. /\ r[1] = Word("CR", n) /\ r[2] = Word("LF", n) /\ r[3] = Word("+C", n) /\ r[4] = Word("MT:", n)
      /\ r[5] = Word("CR", n) /\ r[6] = Word("LF", n) /\ r[7] = Word("pdu1", n) /\ r[8] = Word("pdu2", n)
      /\ r[9] = Word("CR", n) /\ r[10] = Word("LF", n)
  BY ReportIs
<1> HIDE DEF r
<1>4. r[j].of = n /\ (r[j].text = "LF" <=> j \in {2, 6, 10}) /\ (r[j].text = "+C" <=> j = 3)
  BY <1>1, <1>3 DEF Word
<1> QED
  BY <1>2, <1>4 DEF r

\* What a token makes of the line and of the rest.
NextLine(line, t) == IF Closes(line, t) THEN <<>> ELSE Append(line, t)
NextKept(st, line, t) == IF Closes(line, t) THEN TakeLine(st, Front(line)) ELSE st

Without(s, n) == \A i \in 1..Len(s) : s[i].of # n
Places(st, n) == {i \in 1..Len(st.stored) : st.stored[i] = Pdu(n)}

\* The four stages of a report of which no token is lost: nothing of it was
\* read; its first token was; its announcement or its PDU is being read; it is
\* stored.
Unread(st, line, n) == Without(line, n) /\ Places(st, n) = {}
JustBegun(st, line, n) ==
    /\ line # <<>> /\ Last(line) = Report(n)[1] /\ Without(Front(line), n)
    /\ Places(st, n) = {}
HalfRead(st, line, n, p) ==
    /\ line = SubSeq(Report(n), IF p < 6 THEN 3 ELSE 7, p)
    /\ p >= 6 => st.live
    /\ Places(st, n) = {}
StoredOnce(st, line, n) ==
    /\ Cardinality(Places(st, n)) = 1
    /\ \A m \in 1..n : Without(line, m)
    /\ \A m \in 1..(n - 1) : \A i \in Places(st, m) : \A j \in Places(st, n) : i < j

\* Of report n, p tokens were read; a number below zero says how many others
\* are before it.
ReadSoFar(st, line, n, p) ==
    /\ p <= 0 => Unread(st, line, n)
    /\ p = 1 => JustBegun(st, line, n)
    /\ p \in 2..9 => HalfRead(st, line, n, p)
    /\ p >= 10 => StoredOnce(st, line, n)

\* They are what TakeToken makes.
LEMMA NextIs ==
    ASSUME NEW st \in KeptType, NEW line \in Seq(Token), NEW t \in Token
    PROVE  /\ TakeToken(Reader(st, line), t) = Reader(NextKept(st, line, t), NextLine(line, t))
           /\ NextKept(st, line, t) \in KeptType
           /\ NextLine(line, t) \in Seq(Token)
           /\ ~Closes(line, t) => NextKept(st, line, t) = st /\ NextLine(line, t) = Append(line, t)
           /\ Closes(line, t) => NextKept(st, line, t) = TakeLine(st, Front(line)) /\ NextLine(line, t) = <<>>
<1>1. CASE Closes(line, t)
  <2>1. NextKept(st, line, t) = TakeLine(st, Front(line)) /\ NextLine(line, t) = <<>>
    BY <1>1 DEF NextKept, NextLine
  <2> QED
    BY <1>1, <2>1, TokenRead, EmptySeq
<1>2. CASE ~Closes(line, t)
  <2>1. NextKept(st, line, t) = st /\ NextLine(line, t) = Append(line, t)
    BY <1>2 DEF NextKept, NextLine
  <2>2. Append(line, t) \in Seq(Token)
    BY AppendProperties
  <2> QED
    BY <1>2, <2>1, <2>2, TokenRead
<1> QED
  BY <1>1, <1>2

\* No token of n comes into the line but with t.
LEMMA StaysWithout ==
    ASSUME NEW line \in Seq(Token), NEW t \in Token, NEW n, Without(line, n), t.of # n
    PROVE  Without(NextLine(line, t), n)
<1>1. CASE Closes(line, t)
  <2>1. NextLine(line, t) = <<>> /\ Len(<<>>) = 0
    BY <1>1 DEF NextLine
  <2> QED
    BY <2>1 DEF Without
<1>2. CASE ~Closes(line, t)
  <2> DEFINE a == Append(line, t)
  <2>1. Len(line) \in Nat /\ Len(a) = Len(line) + 1 /\ a[Len(line) + 1] = t /\ \A i \in 1..Len(line) : a[i] = line[i]
    BY LenProperties, AppendProperties
  <2> HIDE DEF a
  <2>2. \A i \in 1..Len(a) : a[i].of # n
    <3> SUFFICES ASSUME NEW i \in 1..Len(a) PROVE a[i].of # n
      OBVIOUS
    <3>1. i = Len(line) + 1 \/ i \in 1..Len(line)
      BY <2>1
    <3> QED
      BY <2>1, <3>1 DEF Without
  <2>3. NextLine(line, t) = a
    BY <1>2 DEF NextLine, a
  <2> QED
    BY <2>2, <2>3 DEF Without
<1> QED
  BY <1>1, <1>2

\* What storing a line does to the places of a PDU.
LEMMA PlacesAppended ==
    ASSUME NEW st \in KeptType, NEW s \in Seq(Token), NEW b, NEW n
    PROVE  LET after == [live |-> b, stored |-> Append(st.stored, s)] IN
           /\ Len(st.stored) \in Nat
           /\ s # Pdu(n) => Places(after, n) = Places(st, n)
           /\ s = Pdu(n) => Places(after, n) = Places(st, n) \cup {Len(st.stored) + 1}
<1> DEFINE q == st.stored
           a == Append(q, s)
           after == [live |-> b, stored |-> a]
<1>1. q \in Seq(Seq(Token))
  BY DEF KeptType
<1>2. Len(q) \in Nat /\ Len(a) = Len(q) + 1 /\ a[Len(q) + 1] = s /\ \A i \in 1..Len(q) : a[i] = q[i]
  BY <1>1, LenProperties, AppendProperties
<1>3. after.stored = a
  OBVIOUS
<1> HIDE DEF a, q
<1>4. Places(after, n) = {i \in 1..(Len(q) + 1) : a[i] = Pdu(n)}
  BY <1>2, <1>3 DEF Places
<1>5. Places(st, n) = {i \in 1..Len(q) : q[i] = Pdu(n)}
  BY DEF Places, q
<1>6. \A i : i \in 1..(Len(q) + 1) <=> i \in 1..Len(q) \/ i = Len(q) + 1
  BY <1>2
<1>7. ASSUME s # Pdu(n) PROVE Places(after, n) = Places(st, n)
  BY <1>2, <1>4, <1>5, <1>6, <1>7
<1>8. ASSUME s = Pdu(n) PROVE Places(after, n) = Places(st, n) \cup {Len(q) + 1}
  BY <1>2, <1>4, <1>5, <1>6, <1>8
<1> QED
  BY <1>2, <1>7, <1>8 DEF after, a, q

\* A line that is not the PDU of n leaves its places alone.
LEMMA PlacesStay ==
    ASSUME NEW st \in KeptType, NEW line \in Seq(Token), NEW t \in Token, NEW n,
           Closes(line, t) => Front(line) # Pdu(n)
    PROVE  Places(NextKept(st, line, t), n) = Places(st, n)
<1>1. CASE ~Closes(line, t)
  BY <1>1 DEF NextKept
<1>2. CASE Closes(line, t)
  <2>1. NextKept(st, line, t) = TakeLine(st, Front(line)) /\ Front(line) \in Seq(Token)
    BY <1>2, NextIs, TokenRead
  <2> DEFINE f == Front(line)
  <2>2. \/ TakeLine(st, f) = st
        \/ TakeLine(st, f) = [live |-> TRUE, stored |-> st.stored]
        \/ TakeLine(st, f) = [live |-> FALSE, stored |-> Append(st.stored, f)]
    BY <2>1, LineTaken
  <2>3. f \in Seq(Token) /\ f # Pdu(n)
    BY <1>2, <2>1
  <2> HIDE DEF f
  <2>4. CASE TakeLine(st, f) = st
    BY <2>1, <2>4 DEF f
  <2>5. CASE TakeLine(st, f) = [live |-> TRUE, stored |-> st.stored]
    <3>1. Places([live |-> TRUE, stored |-> st.stored], n) = Places(st, n)
      BY DEF Places
    <3> QED
      BY <2>1, <2>5, <3>1 DEF f
  <2>6. CASE TakeLine(st, f) = [live |-> FALSE, stored |-> Append(st.stored, f)]
    <3>1. Places([live |-> FALSE, stored |-> Append(st.stored, f)], n) = Places(st, n)
      BY <2>3, PlacesAppended
    <3> QED
      BY <2>1, <2>6, <3>1 DEF f
  <2> QED
    BY <2>2, <2>4, <2>5, <2>6
<1> QED
  BY <1>1, <1>2

\* A line without tokens of n is not its PDU.
LEMMA WithoutIsNoPdu ==
    ASSUME NEW n \in Nat, NEW line \in Seq(Token), NEW t \in Token, Closes(line, t),
           Without(line, n) \/ Without(Front(line), n)
    PROVE  Front(line) # Pdu(n)
<1>1. line # <<>>
  BY DEF Closes
<1>2. Len(line) \in Nat \ {0} /\ Len(Front(line)) = Len(line) - 1 /\ \A i \in 1..(Len(line) - 1) : Front(line)[i] = line[i]
  BY <1>1, FrontIs
<1>3. Len(Pdu(n)) = 2 /\ Pdu(n)[1].of = n
  <2>1. Len(Pdu(n)) = 2 /\ Pdu(n)[1] = Word("pdu1", n)
    BY ReportIs
  <2>2. Word("pdu1", n).of = n
    BY DEF Word
  <2> QED
    BY <2>1, <2>2
<1>4. Without(Front(line), n)
  BY <1>2 DEF Without
<1>5. ASSUME Front(line) = Pdu(n) PROVE FALSE
  <2>1. 1 \in 1..Len(Front(line)) /\ Front(line)[1].of = n
    BY <1>3, <1>5
  <2> QED
    BY <1>4, <2>1 DEF Without
<1> QED
  BY <1>5

\* A part that grows by the next element.
LEMMA PartGrows ==
    ASSUME NEW S, NEW s \in Seq(S), NEW lo \in Nat \ {0}, NEW p \in Nat, lo <= p + 1, p + 1 <= Len(s)
    PROVE  SubSeq(s, lo, p + 1) = Append(SubSeq(s, lo, p), s[p + 1])
<1>1. Len(s) \in Nat /\ \A i \in 1..Len(s) : s[i] \in S
  BY LenProperties, ElementOfSeq
<1> DEFINE a == SubSeq(s, lo, p)
           b == SubSeq(s, lo, p + 1)
<1>2. a \in Seq(S) /\ Len(a) = p + 1 - lo /\ \A i \in 1..(p + 1 - lo) : a[i] = s[lo + i - 1]
  BY <1>1, PartIs
<1>3. b \in Seq(S) /\ Len(b) = p + 1 + 1 - lo /\ \A i \in 1..(p + 1 + 1 - lo) : b[i] = s[lo + i - 1]
  BY <1>1, PartIs
<1> HIDE DEF a, b
<1> DEFINE c == Append(a, s[p + 1])
<1>4. s[p + 1] \in S
  BY <1>1
<1>5. c \in Seq(S) /\ Len(c) = Len(a) + 1 /\ c[Len(a) + 1] = s[p + 1] /\ \A i \in 1..Len(a) : c[i] = a[i]
  <2> DEFINE e == s[p + 1]
  <2>1. e \in S
    BY <1>4
  <2> HIDE DEF e
  <2>2. /\ Append(a, e) \in Seq(S) /\ Len(Append(a, e)) = Len(a) + 1 /\ Append(a, e)[Len(a) + 1] = e
        /\ \A i \in 1..Len(a) : Append(a, e)[i] = a[i]
    <3>1. a \in Seq(S)
      BY <1>2
    <3> QED
      BY <2>1, <3>1, AppendProperties
  <2> QED
    BY <2>2 DEF e
<1> HIDE DEF c
<1>6. ASSUME NEW i \in 1..Len(b) PROVE b[i] = c[i]
  <2>1. CASE i = Len(a) + 1
    <3>1. lo + i - 1 = p + 1
      BY <1>2, <2>1
    <3> QED
      BY <1>3, <1>5, <2>1, <3>1
  <2>2. CASE i # Len(a) + 1
    <3>1. i \in 1..Len(a)
      BY <1>2, <1>3, <2>2
    <3> QED
      BY <1>2, <1>3, <1>5, <3>1
  <2> QED
    BY <2>1, <2>2
<1>7. Len(b) = Len(c)
  BY <1>2, <1>3, <1>5
<1>8. b = c
  BY <1>3, <1>5, <1>6, <1>7, SeqEqual
<1> QED
  BY <1>8 DEF a, b, c

\* A token that is not the report's leaves it in its stage.
LEMMA StepOther ==
    ASSUME NEW st \in KeptType, NEW line \in Seq(Token), NEW t \in Token,
           NEW n \in Nat \ {0}, NEW p \in Int, ReadSoFar(st, line, n, p),
           \/ p <= -1 /\ t.of # n
           \/ p >= 10 /\ t.of \notin 1..n
    PROVE  ReadSoFar(NextKept(st, line, t), NextLine(line, t), n, p + 1)
<1>1. CASE p <= -1
  <2>1. Unread(st, line, n) /\ t.of # n
    BY <1>1 DEF ReadSoFar
  <2>2. Without(NextLine(line, t), n)
    BY <2>1, StaysWithout DEF Unread
  <2>3. Closes(line, t) => Front(line) # Pdu(n)
    BY <2>1, WithoutIsNoPdu DEF Unread
  <2>4. Places(NextKept(st, line, t), n) = {}
    BY <2>1, <2>3, PlacesStay DEF Unread
  <2>5. Unread(NextKept(st, line, t), NextLine(line, t), n)
    BY <2>2, <2>4 DEF Unread
  <2>6. p + 1 <= 0
    BY <1>1
  <2> QED
    BY <2>5, <2>6 DEF ReadSoFar
<1>2. CASE p >= 10
  <2>1. StoredOnce(st, line, n) /\ t.of \notin 1..n
    BY <1>2 DEF ReadSoFar
  <2>2. ASSUME NEW m \in 1..n
        PROVE  Without(NextLine(line, t), m) /\ Places(NextKept(st, line, t), m) = Places(st, m)
    <3>1. Without(line, m) /\ t.of # m
      BY <2>1 DEF StoredOnce
    <3>2. Closes(line, t) => Front(line) # Pdu(m)
      BY <3>1, WithoutIsNoPdu
    <3> QED
      BY <3>1, <3>2, StaysWithout, PlacesStay
  <2>3. n \in 1..n /\ \A m \in 1..(n - 1) : m \in 1..n
    OBVIOUS
  <2>4. StoredOnce(NextKept(st, line, t), NextLine(line, t), n)
    BY <2>1, <2>2, <2>3 DEF StoredOnce
  <2>5. p + 1 >= 10
    BY <1>2
  <2> QED
    BY <2>4, <2>5 DEF ReadSoFar
<1> QED
  BY <1>1, <1>2

\* What the report's own tokens do to the line.
LEMMA HalfReadGrows ==
    ASSUME NEW st \in KeptType, NEW line \in Seq(Token), NEW n \in Nat \ {0},
           NEW p \in {2, 3, 4, 6, 7, 8}, HalfRead(st, line, n, p)
    PROVE  /\ ~Closes(line, Report(n)[p + 1])
           /\ HalfRead(NextKept(st, line, Report(n)[p + 1]), NextLine(line, Report(n)[p + 1]), n, p + 1)
<1> DEFINE lo == IF p < 6 THEN 3 ELSE 7
           t == Report(n)[p + 1]
<1>1. p + 1 \in 1..10 /\ p + 1 \notin {2, 6, 10}
  OBVIOUS
<1>2. t \in Token /\ t.text # "LF"
  BY <1>1, ReportParts
<1>3. ~Closes(line, t)
  BY <1>2 DEF Closes
<1>4. NextKept(st, line, t) = st /\ NextLine(line, t) = Append(line, t)
  BY <1>3 DEF NextKept, NextLine
<1>5. SubSeq(Report(n), lo, p + 1) = Append(SubSeq(Report(n), lo, p), Report(n)[p + 1])
  <2>1. lo \in Nat \ {0} /\ p \in Nat /\ lo <= p + 1 /\ p + 1 <= 10
    OBVIOUS
  <2> HIDE DEF lo
  <2> QED
    BY <2>1, ReportIs, PartGrows
<1>6. lo = IF p + 1 < 6 THEN 3 ELSE 7
  OBVIOUS
<1>7. p + 1 >= 6 => p >= 6
  OBVIOUS
<1> HIDE DEF lo
<1>8. line = SubSeq(Report(n), lo, p) /\ (p >= 6 => st.live) /\ Places(st, n) = {}
  BY DEF HalfRead, lo
<1>9. HalfRead(st, Append(line, t), n, p + 1)
  BY <1>5, <1>6, <1>7, <1>8 DEF HalfRead
<1> QED
  BY <1>3, <1>4, <1>9

\* Its first token is put to whatever is there, its second ends that line.
LEMMA StepBegin ==
    ASSUME NEW st \in KeptType, NEW line \in Seq(Token), NEW n \in Nat \ {0}
    PROVE  /\ Unread(st, line, n) =>
                /\ ~Closes(line, Report(n)[1])
                /\ JustBegun(NextKept(st, line, Report(n)[1]), NextLine(line, Report(n)[1]), n)
           /\ JustBegun(st, line, n) =>
                /\ Closes(line, Report(n)[2])
                /\ HalfRead(NextKept(st, line, Report(n)[2]), NextLine(line, Report(n)[2]), n, 2)
<1>1. /\ Report(n)[1] = Word("CR", n) /\ Report(n)[2] = Word("LF", n)
      /\ Report(n)[1] \in Token /\ Report(n)[2] \in Token
  <2>1. 1 \in 1..10 /\ 2 \in 1..10 /\ n \in Nat
    OBVIOUS
  <2>2. Report(n)[1] \in Token /\ Report(n)[2] \in Token
    BY <2>1, ReportParts
  <2> QED
    BY <2>1, <2>2, ReportIs
<1>2. ASSUME Unread(st, line, n)
      PROVE  /\ ~Closes(line, Report(n)[1])
             /\ JustBegun(NextKept(st, line, Report(n)[1]), NextLine(line, Report(n)[1]), n)
  <2> DEFINE t == Report(n)[1]
             a == Append(line, t)
  <2>1. ~Closes(line, t)
    BY <1>1 DEF Closes, Word
  <2>2. NextKept(st, line, t) = st /\ NextLine(line, t) = a
    BY <2>1 DEF NextKept, NextLine
  <2>3. a \in Seq(Token) /\ a # <<>> /\ Len(a) = Len(line) + 1 /\ a[Len(line) + 1] = t /\ \A i \in 1..Len(line) : a[i] = line[i]
    BY <1>1, AppendProperties
  <2> HIDE DEF a, t
  <2>4. Last(a) = t
    BY <2>3 DEF Last
  <2>5. Len(line) \in Nat /\ Len(Front(a)) = Len(a) - 1 /\ \A i \in 1..(Len(a) - 1) : Front(a)[i] = a[i]
    BY <2>3, LenProperties, FrontIs
  <2>6. Without(Front(a), n)
    <3> SUFFICES ASSUME NEW i \in 1..Len(Front(a)) PROVE Front(a)[i].of # n
      BY DEF Without
    <3>1. i \in 1..Len(line) /\ i \in 1..(Len(a) - 1)
      BY <2>3, <2>5
    <3> QED
      BY <1>2, <2>3, <2>5, <3>1 DEF Unread, Without
  <2> QED
    BY <1>2, <2>1, <2>2, <2>3, <2>4, <2>6 DEF JustBegun, Unread, t
<1>3. ASSUME JustBegun(st, line, n)
      PROVE  /\ Closes(line, Report(n)[2])
             /\ HalfRead(NextKept(st, line, Report(n)[2]), NextLine(line, Report(n)[2]), n, 2)
  <2> DEFINE t == Report(n)[2]
  <2>1. Closes(line, t)
    BY <1>1, <1>3 DEF Closes, JustBegun, Word
  <2>2. NextLine(line, t) = <<>>
    BY <2>1 DEF NextLine
  <2>3. Front(line) # Pdu(n)
    BY <1>1, <1>3, <2>1, WithoutIsNoPdu DEF JustBegun
  <2>4. Places(NextKept(st, line, t), n) = {}
    BY <1>1, <1>3, <2>3, PlacesStay DEF JustBegun
  <2>5. SubSeq(Report(n), 3, 2) = <<>>
    BY SubSeqEmpty
  <2> HIDE DEF t
  <2>6. HalfRead(NextKept(st, line, t), NextLine(line, t), n, 2)
    BY <2>2, <2>4, <2>5 DEF HalfRead
  <2> QED
    BY <2>1, <2>6 DEF t
<1> QED
  BY <1>2, <1>3

\* The line that is being read, and all but its last token.
LEMMA HalfReadIs ==
    ASSUME NEW n \in Nat, NEW lo \in {3, 7}
    PROVE  LET line == SubSeq(Report(n), lo, lo + 2) IN
           /\ line \in Seq(Token) /\ line # <<>>
           /\ Last(line) = Word("CR", n)
           /\ Front(line) \in Seq(Token) /\ Len(Front(line)) = 2
           /\ Front(line)[1] = Report(n)[lo] /\ Front(line)[2] = Report(n)[lo + 1]
<1> DEFINE r == Report(n)
           line == SubSeq(r, lo, lo + 2)
<1>1. r \in Seq(Token) /\ Len(r) = 10 /\ r[5] = Word("CR", n) /\ r[9] = Word("CR", n)
  BY ReportIs
<1> HIDE DEF r
<1>2. lo \in Nat \ {0} /\ lo + 2 \in Int /\ lo + 2 <= Len(r) /\ lo <= lo + 2 + 1 /\ lo + 2 + 1 - lo = 3
  BY <1>1
<1>3. line \in Seq(Token) /\ Len(line) = 3 /\ \A i \in 1..3 : line[i] = r[lo + i - 1]
  <2>1. /\ SubSeq(r, lo, lo + 2) \in Seq(Token)
        /\ Len(SubSeq(r, lo, lo + 2)) = lo + 2 + 1 - lo
        /\ \A i \in 1..(lo + 2 + 1 - lo) : SubSeq(r, lo, lo + 2)[i] = r[lo + i - 1]
    <3>1. PICK hi \in Int : hi = lo + 2
      BY <1>2
    <3>2. lo \in Nat \ {0} /\ hi <= Len(r) /\ lo <= hi + 1
      BY <1>2, <3>1
    <3>3. /\ SubSeq(r, lo, hi) \in Seq(Token) /\ Len(SubSeq(r, lo, hi)) = hi + 1 - lo
          /\ \A i \in 1..(hi + 1 - lo) : SubSeq(r, lo, hi)[i] = r[lo + i - 1]
      <4>1. r \in Seq(Token)
        BY <1>1
      <4> QED
        BY <3>2, <4>1, PartIs
    <3> QED
      BY <3>1, <3>3
  <2> QED
    BY <1>2, <2>1
<1> HIDE DEF line
<1>4. line[1] = r[lo] /\ line[2] = r[lo + 1] /\ line[3] = r[lo + 2]
  <2>1. line[1] = r[lo + 1 - 1] /\ line[2] = r[lo + 2 - 1] /\ line[3] = r[lo + 3 - 1]
    BY <1>3
  <2>2. lo + 1 - 1 = lo /\ lo + 2 - 1 = lo + 1 /\ lo + 3 - 1 = lo + 2
    OBVIOUS
  <2> QED
    BY <2>1, <2>2
<1>5. line # <<>>
  <2>1. Len(<<>>) = 0
    OBVIOUS
  <2>2. Len(line) = 3
    BY <1>3
  <2>3. 3 # 0
    OBVIOUS
  <2> QED
    BY <2>1, <2>2, <2>3, Zenon
<1>6. /\ Front(line) \in Seq(Token) /\ Len(Front(line)) = Len(line) - 1
      /\ \A i \in 1..(Len(line) - 1) : Front(line)[i] = line[i]
  BY <1>3, <1>5, FrontIs
<1>7. Len(Front(line)) = 2 /\ Front(line)[1] = line[1] /\ Front(line)[2] = line[2]
  BY <1>3, <1>6
<1>8. Last(line) = r[lo + 2] /\ r[lo + 2] = Word("CR", n)
  BY <1>1, <1>3, <1>4 DEF Last
<1> QED
  BY <1>3, <1>4, <1>5, <1>6, <1>7, <1>8 DEF r, line

\* The end of the announcement turns the flag on.
LEMMA StepAnnounce ==
    ASSUME NEW st \in KeptType, NEW line \in Seq(Token), NEW n \in Nat \ {0}, HalfRead(st, line, n, 5)
    PROVE  HalfRead(NextKept(st, line, Report(n)[6]), NextLine(line, Report(n)[6]), n, 6)
<1> DEFINE t == Report(n)[6]
           f == Front(line)
<1>1. t = Word("LF", n) /\ Report(n)[3] = Word("+C", n) /\ Report(n)[4] = Word("MT:", n)
  BY ReportIs
<1>2. line = SubSeq(Report(n), 3, 3 + 2)
  BY DEF HalfRead
<1>3. /\ line # <<>> /\ Last(line) = Word("CR", n) /\ f \in Seq(Token) /\ Len(f) = 2
      /\ f[1] = Report(n)[3] /\ f[2] = Report(n)[3 + 1]
  <2>1. n \in Nat /\ 3 \in {3, 7}
    OBVIOUS
  <2> QED
    BY <1>2, <2>1, HalfReadIs
<1>4. Closes(line, t)
  BY <1>1, <1>3 DEF Closes, Word
<1>5. f[1] = Word("+C", n) /\ f[2] = Word("MT:", n)
  BY <1>1, <1>3
<1> HIDE DEF f
<1>6. HasCmt(f)
  <2>1. 1 \in 1..(Len(f) - 1) /\ f[1].text = "+C" /\ f[1 + 1].text = "MT:"
    BY <1>3, <1>5 DEF Word
  <2> QED
    BY <2>1 DEF HasCmt
<1>7. ~Has(f, "+CIEV:")
  <2>1. \A i \in 1..2 : i = 1 \/ i = 2
    OBVIOUS
  <2>2. f[1].text # "+CIEV:" /\ f[2].text # "+CIEV:"
    BY <1>5 DEF Word
  <2> QED
    BY <1>3, <2>1, <2>2 DEF Has
<1>8. TakeLine(st, f) = [live |-> TRUE, stored |-> st.stored]
  BY <1>3, <1>6, <1>7, LineTaken
<1>9. NextKept(st, line, t) = [live |-> TRUE, stored |-> st.stored] /\ NextLine(line, t) = <<>>
  BY <1>4, <1>8 DEF NextKept, NextLine, f
<1>10. Places([live |-> TRUE, stored |-> st.stored], n) = {}
  BY DEF Places, HalfRead
<1>11. SubSeq(Report(n), 7, 6) = <<>>
  BY SubSeqEmpty
<1>12. HalfRead([live |-> TRUE, stored |-> st.stored], <<>>, n, 6)
  <2> DEFINE after == [live |-> TRUE, stored |-> st.stored]
  <2>1. after.live
    OBVIOUS
  <2> HIDE DEF after
  <2>2. 7 = IF 6 < 6 THEN 3 ELSE 7
    OBVIOUS
  <2>3. <<>> = SubSeq(Report(n), IF 6 < 6 THEN 3 ELSE 7, 6)
    BY <1>11, <2>2
  <2>4. Places(after, n) = {}
    BY <1>10 DEF after
  <2>5. HalfRead(after, <<>>, n, 6)
    BY <2>1, <2>3, <2>4 DEF HalfRead
  <2> QED
    BY <2>5 DEF after
<1> HIDE DEF t
<1> QED
  BY <1>9, <1>12 DEF t

\* The end of the PDU stores it, and turns the flag off.
LEMMA StepStore ==
    ASSUME NEW st \in KeptType, NEW line \in Seq(Token), NEW n \in Nat \ {0}, HalfRead(st, line, n, 9)
    PROVE  /\ NextKept(st, line, Report(n)[10]) = [live |-> FALSE, stored |-> Append(st.stored, Pdu(n))]
           /\ NextLine(line, Report(n)[10]) = <<>>
           /\ StoredOnce(NextKept(st, line, Report(n)[10]), NextLine(line, Report(n)[10]), n)
<1> DEFINE t == Report(n)[10]
           f == Front(line)
<1>1. /\ t = Word("LF", n) /\ Report(n)[7] = Word("pdu1", n) /\ Report(n)[8] = Word("pdu2", n)
      /\ Pdu(n) \in Seq(Token) /\ Len(Pdu(n)) = 2 /\ Pdu(n)[1] = Word("pdu1", n) /\ Pdu(n)[2] = Word("pdu2", n)
  BY ReportIs
<1>2. line = SubSeq(Report(n), 7, 7 + 2) /\ st.live /\ Places(st, n) = {}
  BY DEF HalfRead
<1>3. /\ line # <<>> /\ Last(line) = Word("CR", n) /\ f \in Seq(Token) /\ Len(f) = 2
      /\ f[1] = Report(n)[7] /\ f[2] = Report(n)[7 + 1]
  <2>1. n \in Nat /\ 7 \in {3, 7}
    OBVIOUS
  <2> QED
    BY <1>2, <2>1, HalfReadIs
<1>4. Closes(line, t)
  BY <1>1, <1>3 DEF Closes, Word
<1>5. f[1] = Word("pdu1", n) /\ f[2] = Word("pdu2", n)
  BY <1>1, <1>3
<1>6. \A i \in 1..2 : i = 1 \/ i = 2
  OBVIOUS
<1> HIDE DEF f
<1>7. f = Pdu(n)
  <2>1. \A i \in 1..Len(f) : f[i] = Pdu(n)[i]
    BY <1>1, <1>3, <1>5, <1>6
  <2> QED
    BY <1>1, <1>3, <2>1, SeqEqual
<1>8. IsLong(f) /\ ~Has(f, "OK") /\ ~HasCmt(f) /\ ~Has(f, "+CIEV:")
  <2>1. f[1].text = "pdu1" /\ f[2].text = "pdu2"
    BY <1>5 DEF Word
  <2>2. IsLong(f)
    <3>1. 1 \in 1..Len(f) /\ f[1].text \in {"pdu1", "pdu2", "long"}
      BY <1>3, <2>1
    <3> QED
      BY <3>1 DEF IsLong
  <2>3. ~Has(f, "OK") /\ ~Has(f, "+CIEV:")
    BY <1>3, <1>6, <2>1 DEF Has
  <2>4. ~HasCmt(f)
    <3>1. \A i \in 1..(Len(f) - 1) : i = 1
      BY <1>3
    <3> QED
      BY <2>1, <3>1 DEF HasCmt
  <2> QED
    BY <2>2, <2>3, <2>4
<1> DEFINE after == [live |-> FALSE, stored |-> Append(st.stored, Pdu(n))]
<1>9. TakeLine(st, f) = after
  BY <1>2, <1>3, <1>7, <1>8, LineTaken
<1>10. NextKept(st, line, t) = after /\ NextLine(line, t) = <<>>
  BY <1>4, <1>9 DEF NextKept, NextLine, f
<1>11. Len(st.stored) \in Nat /\ Places(after, n) = {Len(st.stored) + 1}
  BY <1>1, <1>2, PlacesAppended
<1>12. Cardinality(Places(after, n)) = 1
  BY <1>11, FS_Singleton
<1>13. \A m \in 1..n : Without(<<>>, m)
  BY DEF Without
<1>14. ASSUME NEW m \in 1..(n - 1), NEW i \in Places(after, m), NEW j \in Places(after, n) PROVE i < j
  <2>1. Pdu(n) # Pdu(m)
    <3>1. m \in Nat /\ m # n
      OBVIOUS
    <3>2. Pdu(m)[1] = Word("pdu1", m)
      BY <3>1, ReportIs
    <3>3. Word("pdu1", m) # Word("pdu1", n)
      <4>1. Word("pdu1", m).of = m /\ Word("pdu1", n).of = n
        BY DEF Word
      <4> QED
        BY <3>1, <4>1
    <3> QED
      BY <1>1, <3>2, <3>3
  <2>2. Places(after, m) = Places(st, m)
    BY <1>1, <2>1, PlacesAppended
  <2>3. i \in 1..Len(st.stored)
    BY <1>14, <2>2 DEF Places
  <2>4. j = Len(st.stored) + 1
    BY <1>11
  <2> QED
    BY <1>11, <2>3, <2>4
<1> HIDE DEF after, t
<1>15. StoredOnce(after, <<>>, n)
  BY <1>12, <1>13, <1>14 DEF StoredOnce
<1> QED
  BY <1>10, <1>15 DEF after, t

\* A token that is the report's takes it to its next stage.
LEMMA StepOwn ==
    ASSUME NEW st \in KeptType, NEW line \in Seq(Token), NEW n \in Nat \ {0},
           NEW p \in 0..9, ReadSoFar(st, line, n, p)
    PROVE  ReadSoFar(NextKept(st, line, Report(n)[p + 1]), NextLine(line, Report(n)[p + 1]), n, p + 1)
<1>1. CASE p = 0
  BY <1>1, StepBegin DEF ReadSoFar
<1>2. CASE p = 1
  BY <1>2, StepBegin DEF ReadSoFar
<1>3. CASE p \in {2, 3, 4, 6, 7, 8}
  <2>1. HalfRead(st, line, n, p) /\ p + 1 \in 2..9
    BY <1>3 DEF ReadSoFar
  <2>2. HalfRead(NextKept(st, line, Report(n)[p + 1]), NextLine(line, Report(n)[p + 1]), n, p + 1)
    BY <1>3, <2>1, HalfReadGrows
  <2> QED
    BY <2>1, <2>2 DEF ReadSoFar
<1>4. CASE p = 5
  BY <1>4, StepAnnounce DEF ReadSoFar
<1>5. CASE p = 9
  <2>1. HalfRead(st, line, n, 9)
    BY <1>5 DEF ReadSoFar
  <2>2. StoredOnce(NextKept(st, line, Report(n)[10]), NextLine(line, Report(n)[10]), n)
    BY <2>1, StepStore
  <2>3. p + 1 = 10
    BY <1>5
  <2> QED
    BY <2>2, <2>3 DEF ReadSoFar
<1>6. p \in {0, 1, 2, 3, 4, 5, 6, 7, 8, 9}
  OBVIOUS
<1> QED
  BY <1>1, <1>2, <1>3, <1>4, <1>5, <1>6

(***************************************************************************)
(* The reports on the wire                                                 *)
(***************************************************************************)

\* What the modem says besides reports.
Words == {"CR", "LF", "long", "OK", "+CIEV:"}
Known(s, N) == \A i \in 1..Len(s) : s[i].of <= N /\ (s[i].of = 0 => s[i].text \in Words)

\* N reports were sent, one after the other and each in one piece; of report n,
\* read[n] tokens are gone.
OnWire(w, N, read) ==
    /\ \A n \in 1..N : 10 - read[n] <= Len(w)
    /\ \A n \in 1..N : \A j \in 1..10 : j > read[n] => w[j - read[n]] = Report(n)[j]
    /\ \A n \in 1..N : \A i \in 1..Len(w) : w[i].of = n => i + read[n] \in 1..10
    /\ \A n \in 1..N : \A m \in 1..(n - 1) : read[n] + 10 <= read[m]

\* What is left of the wire without its first k tokens.
Rest(w, k) == SubSeq(w, k + 1, Len(w))
Advance(read, N, k) == [n \in 1..N |-> read[n] + k]

\* Token by token.
LEMMA RestIs ==
    ASSUME NEW w \in Seq(Token), NEW k \in 0..Len(w)
    PROVE  /\ Len(w) \in Nat
           /\ Rest(w, k) \in Seq(Token) /\ Len(Rest(w, k)) = Len(w) - k
           /\ \A i \in 1..(Len(w) - k) : Rest(w, k)[i] = w[i + k]
<1>1. Len(w) \in Nat
  BY LenProperties
<1>2. k + 1 \in Nat \ {0} /\ Len(w) \in Int /\ Len(w) <= Len(w) /\ k + 1 <= Len(w) + 1
  BY <1>1
<1> DEFINE r == SubSeq(w, k + 1, Len(w))
<1>3. r \in Seq(Token) /\ Len(r) = Len(w) + 1 - (k + 1) /\ \A i \in 1..(Len(w) + 1 - (k + 1)) : r[i] = w[k + 1 + i - 1]
  BY <1>2, PartIs
<1> HIDE DEF r
<1>4. Len(r) = Len(w) - k
  BY <1>1, <1>3
<1>5. \A i \in 1..(Len(w) - k) : r[i] = w[i + k]
  <2> SUFFICES ASSUME NEW i \in 1..(Len(w) - k) PROVE r[i] = w[i + k]
    OBVIOUS
  <2>1. i \in 1..(Len(w) + 1 - (k + 1)) /\ k + 1 + i - 1 = i + k
    BY <1>1
  <2> QED
    BY <1>3, <2>1
<1> QED
  BY <1>1, <1>3, <1>4, <1>5 DEF r, Rest

\* The rest of the rest.
LEMMA RestStep ==
    ASSUME NEW w \in Seq(Token), NEW k \in 0..Len(w), k < Len(w)
    PROVE  Rest(w, k)[1] = w[k + 1] /\ Rest(Rest(w, k), 1) = Rest(w, k + 1)
<1> DEFINE r == Rest(w, k)
           a == Rest(r, 1)
           b == Rest(w, k + 1)
<1>1. /\ Len(w) \in Nat /\ r \in Seq(Token) /\ Len(r) = Len(w) - k
      /\ \A i \in 1..(Len(w) - k) : r[i] = w[i + k]
  BY RestIs
<1>2. k + 1 \in 0..Len(w)
  BY <1>1
<1>3. b \in Seq(Token) /\ Len(b) = Len(w) - (k + 1) /\ \A i \in 1..(Len(w) - (k + 1)) : b[i] = w[i + (k + 1)]
  BY <1>2, RestIs
<1> HIDE DEF r, b
<1>4. 1 \in 0..Len(r)
  BY <1>1
<1>5. a \in Seq(Token) /\ Len(a) = Len(r) - 1 /\ \A i \in 1..(Len(r) - 1) : a[i] = r[i + 1]
  BY <1>1, <1>4, RestIs
<1> HIDE DEF a
<1>6. ASSUME NEW i \in 1..Len(a) PROVE a[i] = b[i]
  <2>1. i \in 1..(Len(r) - 1) /\ i + 1 \in 1..(Len(w) - k) /\ i \in 1..(Len(w) - (k + 1)) /\ i + 1 + k = i + (k + 1)
    BY <1>1, <1>5
  <2> QED
    BY <1>1, <1>3, <1>5, <2>1
<1>7. Len(a) = Len(b)
  BY <1>1, <1>3, <1>5
<1>8. a = b
  BY <1>3, <1>5, <1>6, <1>7, SeqEqual
<1>9. r[1] = w[k + 1]
  <2>1. 1 \in 1..(Len(w) - k) /\ 1 + k = k + 1
    BY <1>1
  <2> QED
    BY <1>1, <2>1
<1> QED
  BY <1>8, <1>9 DEF a, b, r

\* Throwing tokens away, or reading them, moves every report on.
LEMMA OnWireRest ==
    ASSUME NEW N \in Nat, NEW w \in Seq(Token), NEW read \in [1..N -> Int], OnWire(w, N, read), NEW k \in 0..Len(w)
    PROVE  /\ Advance(read, N, k) \in [1..N -> Int]
           /\ OnWire(Rest(w, k), N, Advance(read, N, k))
<1> DEFINE r == Rest(w, k)
           adv == Advance(read, N, k)
<1>1. /\ Len(w) \in Nat /\ r \in Seq(Token) /\ Len(r) = Len(w) - k
      /\ \A i \in 1..(Len(w) - k) : r[i] = w[i + k]
  BY RestIs
<1>2. adv \in [1..N -> Int] /\ \A n \in 1..N : adv[n] = read[n] + k /\ read[n] \in Int
  BY <1>1 DEF Advance
<1> HIDE DEF r, adv
<1>3. ASSUME NEW n \in 1..N PROVE 10 - adv[n] <= Len(r)
  <2>1. 10 - read[n] <= Len(w)
    BY DEF OnWire
  <2> QED
    BY <1>1, <1>2, <2>1
<1>4. ASSUME NEW n \in 1..N, NEW j \in 1..10, j > adv[n] PROVE r[j - adv[n]] = Report(n)[j]
  <2>1. 10 - read[n] <= Len(w) /\ (j > read[n] => w[j - read[n]] = Report(n)[j])
    BY DEF OnWire
  <2> DEFINE x == read[n]
             y == adv[n]
  <2>2. x \in Int /\ y = x + k /\ k \in Nat /\ k <= Len(w) /\ j > y /\ 10 - x <= Len(w)
    BY <1>1, <1>2, <1>4, <2>1
  <2> HIDE DEF x, y
  <2>3. j > x /\ j - y \in 1..(Len(w) - k) /\ j - y + k = j - x
    BY <1>1, <2>2
  <2>4. r[j - y] = w[j - y + k] /\ w[j - x] = Report(n)[j]
    BY <1>1, <2>1, <2>3 DEF x
  <2> QED
    BY <2>3, <2>4 DEF y
<1>5. ASSUME NEW n \in 1..N, NEW i \in 1..Len(r), r[i].of = n PROVE i + adv[n] \in 1..10
  <2>1. i + k \in 1..Len(w) /\ w[i + k].of = n
    BY <1>1, <1>5
  <2>2. i + k + read[n] \in 1..10
    BY <2>1 DEF OnWire
  <2>3. i + adv[n] = i + k + read[n]
    BY <1>1, <1>2
  <2> QED
    BY <2>2, <2>3
<1>6. ASSUME NEW n \in 1..N, NEW m \in 1..(n - 1) PROVE adv[n] + 10 <= adv[m]
  <2>1. m \in 1..N /\ read[n] + 10 <= read[m]
    BY DEF OnWire
  <2>2. PICK x \in Int : x = read[n]
    BY <1>2
  <2>3. PICK y \in Int : y = read[m]
    BY <1>2, <2>1
  <2>4. adv[n] = x + k /\ adv[m] = y + k /\ x + 10 <= y
    BY <1>2, <2>1, <2>2, <2>3
  <2>5. x + k + 10 <= y + k
    BY <2>4
  <2> QED
    BY <2>4, <2>5
<1> QED
  BY <1>2, <1>3, <1>4, <1>5, <1>6 DEF OnWire, r, adv

\* Which report the first token belongs to.
LEMMA HeadIs ==
    ASSUME NEW N \in Nat, NEW w \in Seq(Token), NEW read \in [1..N -> Int], OnWire(w, N, read),
           Len(w) > 0, NEW n \in 1..N
    PROVE  /\ read[n] \in Int
           /\ read[n] \in 0..9 => w[1] = Report(n)[read[n] + 1]
           /\ read[n] \notin 0..9 => w[1].of # n
           /\ read[n] >= 10 => w[1].of \notin 1..n
<1>1. Len(w) \in Nat /\ 1 \in 1..Len(w)
  BY LenProperties
<1>2. read[n] \in Int
  OBVIOUS
<1>3. ASSUME read[n] \in 0..9 PROVE w[1] = Report(n)[read[n] + 1]
  <2>1. \A j \in 1..10 : j > read[n] => w[j - read[n]] = Report(n)[j]
    BY DEF OnWire
  <2> DEFINE x == read[n]
             j == read[n] + 1
  <2>2. j \in 1..10 /\ j > read[n] /\ j - read[n] = 1
    <3>1. x \in 0..9
      BY <1>3
    <3> HIDE DEF x
    <3>2. x + 1 \in 1..10 /\ x + 1 > x /\ x + 1 - x = 1
      BY <3>1
    <3> QED
      BY <3>2 DEF x
  <2> HIDE DEF j
  <2>3. w[1] = Report(n)[j]
    BY <2>1, <2>2
  <2> QED
    BY <2>3 DEF j
<1>4. ASSUME NEW m \in 1..N, w[1].of = m PROVE read[m] \in 0..9
  <2> DEFINE x == read[m]
  <2>1. 1 + x \in 1..10 /\ x \in Int
    BY <1>1, <1>4 DEF OnWire
  <2> HIDE DEF x
  <2>2. x \in 0..9
    BY <2>1
  <2> QED
    BY <2>2 DEF x
<1>5. ASSUME read[n] >= 10, NEW m \in 1..n PROVE w[1].of # m
  <2>1. m = n \/ read[n] + 10 <= read[m]
    BY DEF OnWire
  <2>2. m \in 1..N /\ read[m] \in Int
    OBVIOUS
  <2>3. read[m] \notin 0..9
    <3>1. PICK x \in Int : x = read[n]
      BY <1>2
    <3>2. PICK y \in Int : y = read[m]
      BY <2>2
    <3>3. x >= 10 /\ (y = x \/ x + 10 <= y)
      BY <1>5, <2>1, <3>1, <3>2
    <3>4. y \notin 0..9
      BY <3>3
    <3> QED
      BY <3>2, <3>4
  <2> QED
    BY <1>4, <2>2, <2>3
<1> QED
  BY <1>2, <1>3, <1>4, <1>5

KnownLines(st, N) == \A i \in 1..Len(st.stored) : Known(st.stored[i], N)

\* Nothing but PDUs is stored, and the flag is on for one that is being read.
Whole(st, N, read) ==
    /\ \A i \in 1..Len(st.stored) : \E n \in 1..N : st.stored[i] = Pdu(n)
    /\ st.live => \E n \in 1..N : read[n] \in 6..9

\* The whole of it: the reports that lost nothing are in their stages, and if
\* none lost anything there is nothing else.
Stages(st, line, w, N, lost, read) ==
    /\ OnWire(w, N, read)
    /\ \A n \in 1..N : n \notin lost => ReadSoFar(st, line, n, read[n])
    /\ lost = {} => Whole(st, N, read)
OnItsWay(st, line, w, N, lost) ==
    /\ Known(line, N) /\ Known(w, N) /\ KnownLines(st, N)
    /\ \E read \in [1..N -> Int] : Stages(st, line, w, N, lost, read)

\* The tokens of a line, and one more.
LEMMA KnownAppended ==
    ASSUME NEW N \in Nat, NEW line \in Seq(Token), NEW t \in Token, Known(line, N),
           t.of <= N, t.of = 0 => t.text \in Words
    PROVE  Known(Append(line, t), N)
<1> DEFINE a == Append(line, t)
<1>1. Len(line) \in Nat /\ Len(a) = Len(line) + 1 /\ a[Len(line) + 1] = t /\ \A i \in 1..Len(line) : a[i] = line[i]
  BY LenProperties, AppendProperties
<1> HIDE DEF a
<1>2. ASSUME NEW i \in 1..Len(a) PROVE a[i].of <= N /\ (a[i].of = 0 => a[i].text \in Words)
  <2>1. i = Len(line) + 1 \/ i \in 1..Len(line)
    BY <1>1
  <2> QED
    BY <1>1, <2>1 DEF Known
<1> QED
  BY <1>2 DEF Known, a

\* Reading a token of the wire brings nothing unknown into line or lines.
LEMMA KnownStep ==
    ASSUME NEW N \in Nat, NEW st \in KeptType, NEW line \in Seq(Token), NEW t \in Token,
           Known(line, N), KnownLines(st, N), t.of <= N, t.of = 0 => t.text \in Words
    PROVE  Known(NextLine(line, t), N) /\ KnownLines(NextKept(st, line, t), N)
<1>1. CASE ~Closes(line, t)
  <2>1. NextKept(st, line, t) = st /\ NextLine(line, t) = Append(line, t)
    BY <1>1, NextIs
  <2> QED
    BY <2>1, KnownAppended
<1>2. CASE Closes(line, t)
  <2> DEFINE f == Front(line)
  <2>1. NextKept(st, line, t) = TakeLine(st, f) /\ NextLine(line, t) = <<>> /\ f \in Seq(Token)
    BY <1>2, NextIs, TokenRead
  <2>2. line # <<>>
    BY <1>2 DEF Closes
  <2>3. Known(f, N)
    <3>1. Len(line) \in Nat /\ Len(f) = Len(line) - 1 /\ \A i \in 1..(Len(line) - 1) : f[i] = line[i]
      BY <2>2, FrontIs
    <3> HIDE DEF f
    <3>2. ASSUME NEW i \in 1..Len(f) PROVE f[i].of <= N /\ (f[i].of = 0 => f[i].text \in Words)
      <4>1. i \in 1..(Len(line) - 1) /\ i \in 1..Len(line)
        BY <3>1
      <4> QED
        BY <3>1, <4>1 DEF Known
    <3> QED
      BY <3>2 DEF Known
  <2>4. Known(<<>>, N)
    <3>1. Len(<<>>) = 0
      OBVIOUS
    <3> QED
      BY <3>1 DEF Known
  <2>5. \/ TakeLine(st, f) = st
        \/ TakeLine(st, f) = [live |-> TRUE, stored |-> st.stored]
        \/ TakeLine(st, f) = [live |-> FALSE, stored |-> Append(st.stored, f)]
    BY <2>1, LineTaken
  <2>6. KnownLines([live |-> TRUE, stored |-> st.stored], N)
    BY DEF KnownLines
  <2>7. KnownLines([live |-> FALSE, stored |-> Append(st.stored, f)], N)
    <3> DEFINE q == st.stored
               a == Append(q, f)
    <3>1. q \in Seq(Seq(Token)) /\ f \in Seq(Token)
      BY <2>1 DEF KeptType
    <3> HIDE DEF f
    <3>2. Len(q) \in Nat /\ Len(a) = Len(q) + 1 /\ a[Len(q) + 1] = f /\ \A i \in 1..Len(q) : a[i] = q[i]
      BY <3>1, LenProperties, AppendProperties
    <3> HIDE DEF a
    <3>3. ASSUME NEW i \in 1..Len(a) PROVE Known(a[i], N)
      <4>1. i = Len(q) + 1 \/ i \in 1..Len(q)
        BY <3>2
      <4> QED
        BY <2>3, <3>2, <4>1 DEF KnownLines
    <3>4. [live |-> FALSE, stored |-> a].stored = a
      OBVIOUS
    <3> QED
      BY <3>3, <3>4 DEF KnownLines, a
  <2> HIDE DEF f
  <2> QED
    BY <2>1, <2>4, <2>5, <2>6, <2>7
<1> QED
  BY <1>1, <1>2

\* An announcement in a line is that of a report, and its end comes next.
LEMMA CmtIsOfAReport ==
    ASSUME NEW N \in Nat, NEW st \in KeptType, NEW line \in Seq(Token), NEW w \in Seq(Token), Len(w) > 0,
           NEW read \in [1..N -> Int], Known(line, N), Stages(st, line, w, N, {}, read),
           Closes(line, w[1]), HasCmt(Front(line))
    PROVE  \E n \in 1..N : read[n] = 5
<1>1. line # <<>> /\ w[1].text = "LF"
  BY DEF Closes
<1> DEFINE f == Front(line)
<1>2. Len(line) \in Nat /\ Len(f) = Len(line) - 1 /\ \A i \in 1..(Len(line) - 1) : f[i] = line[i]
  BY <1>1, FrontIs
<1>3. PICK i \in 1..(Len(f) - 1) : f[i].text = "+C"
  BY DEF HasCmt
<1> HIDE DEF f
<1>4. i \in 1..Len(f) /\ i \in 1..Len(line) /\ i \in 1..(Len(line) - 1)
  <2>1. i \in Int /\ 1 <= i /\ i <= Len(line) - 1 - 1
    BY <1>2
  <2> QED
    BY <1>2, <2>1
<1>5. f[i] = line[i] /\ line[i].text = "+C"
  BY <1>2, <1>3, <1>4
<1>6. PICK n \in 1..N : n = line[i].of
  <2>1. line[i] \in Token
    BY <1>4, ElementOfSeq
  <2>2. line[i].of \in Nat
    BY <2>1 DEF Token
  <2>3. line[i].of <= N /\ line[i].of # 0
    BY <1>4, <1>5 DEF Known, Words
  <2>4. line[i].of \in 1..N
    BY <2>2, <2>3
  <2> QED
    BY <2>4
<1>7. PICK p \in Int : p = read[n]
  OBVIOUS
<1>8. ReadSoFar(st, line, n, p) /\ OnWire(w, N, read)
  BY <1>7 DEF Stages
<1>9. ~Without(line, n) /\ ~Without(f, n)
  BY <1>4, <1>5, <1>6 DEF Without
<1>10. ~(p <= 0) /\ p # 1 /\ ~(p >= 10)
  <2>1. p <= 0 => Without(line, n)
    BY <1>8 DEF ReadSoFar, Unread
  <2>2. p = 1 => Without(f, n)
    BY <1>8 DEF ReadSoFar, JustBegun, f
  <2>3. p >= 10 => Without(line, n)
    <3>1. n \in 1..n
      OBVIOUS
    <3> QED
      BY <1>8, <3>1 DEF ReadSoFar, StoredOnce
  <2> QED
    BY <1>9, <2>1, <2>2, <2>3
<1>11. p \in 2..9 /\ p \in 0..9 /\ p + 1 \in 1..10 /\ n \in Nat
  BY <1>10
<1>12. line = SubSeq(Report(n), IF p < 6 THEN 3 ELSE 7, p)
  BY <1>8, <1>11 DEF ReadSoFar, HalfRead
<1>13. w[1] = Report(n)[p + 1]
  <2>1. /\ read[n] \in Int
        /\ read[n] \in 0..9 => w[1] = Report(n)[read[n] + 1]
        /\ read[n] \notin 0..9 => w[1].of # n
        /\ read[n] >= 10 => w[1].of \notin 1..n
    BY <1>8, HeadIs
  <2> QED
    BY <1>7, <1>11, <2>1
<1>14. p + 1 \in {2, 6, 10}
  <2> DEFINE j == p + 1
  <2>1. j \in 1..10 /\ n \in Nat /\ Report(n)[j].text = "LF"
    BY <1>1, <1>11, <1>13
  <2> HIDE DEF j
  <2>2. j \in {2, 6, 10}
    BY <2>1, ReportParts
  <2> QED
    BY <2>2 DEF j
<1>15. p # 9
  <2> SUFFICES ASSUME p = 9 PROVE FALSE
    OBVIOUS
  <2>1. line = SubSeq(Report(n), 7, 9)
    BY <1>12
  <2>2. Report(n) \in Seq(Token) /\ Len(Report(n)) = 10
    BY <1>11, ReportIs
  <2>3. /\ Len(SubSeq(Report(n), 7, 9)) = 9 + 1 - 7
        /\ \A k \in 1..(9 + 1 - 7) : SubSeq(Report(n), 7, 9)[k] = Report(n)[7 + k - 1]
    <3>1. 7 \in Nat \ {0} /\ 9 \in Int /\ 9 <= 10 /\ 7 <= 9 + 1
      OBVIOUS
    <3> QED
      BY <2>2, <3>1, PartIs
  <2>4. i \in 1..3 /\ line[i] = Report(n)[7 + i - 1]
    BY <1>4, <2>1, <2>3
  <2>5. PICK j \in 1..10 : j = 7 + i - 1 /\ j # 3
    <3>1. i \in 1..3
      BY <2>4
    <3>2. 7 + i - 1 \in 1..10 /\ 7 + i - 1 # 3
      BY <3>1
    <3> QED
      BY <3>2
  <2>6. Report(n)[j].text # "+C"
    BY <1>11, <2>5, ReportParts
  <2>7. line[i] = Report(n)[j]
    BY <2>4, <2>5
  <2> QED
    BY <1>5, <2>6, <2>7
<1>16. p = 5
  BY <1>11, <1>14, <1>15
<1> QED
  BY <1>7, <1>16

\* A token of a whole report, or of none, stores nothing but PDUs.
LEMMA WholeStep ==
    ASSUME NEW N \in Nat, NEW st \in KeptType, NEW line \in Seq(Token), NEW w \in Seq(Token), Len(w) > 0,
           NEW read \in [1..N -> Int], Known(line, N), Stages(st, line, w, N, {}, read)
    PROVE  Whole(NextKept(st, line, w[1]), N, Advance(read, N, 1))
<1> DEFINE t == w[1]
<1>1. Len(w) \in Nat /\ t \in Token
  <2>1. Len(w) \in Nat
    BY LenProperties
  <2>2. 1 \in 1..Len(w)
    BY <2>1
  <2> QED
    BY <2>1, <2>2, ElementOfSeq
<1>2. /\ OnWire(w, N, read) /\ Whole(st, N, read)
      /\ \A n \in 1..N : ReadSoFar(st, line, n, read[n])
  BY DEF Stages
<1>3. \A n \in 1..N : Advance(read, N, 1)[n] = read[n] + 1
  BY DEF Advance
<1>4. ASSUME NEW n \in 1..N, read[n] = 9 PROVE Whole(NextKept(st, line, t), N, Advance(read, N, 1))
  <2>1. HalfRead(st, line, n, 9)
    BY <1>2, <1>4 DEF ReadSoFar
  <2>2. t = Report(n)[10]
    <3>1. /\ read[n] \in Int
          /\ read[n] \in 0..9 => w[1] = Report(n)[read[n] + 1]
          /\ read[n] \notin 0..9 => w[1].of # n
          /\ read[n] >= 10 => w[1].of \notin 1..n
      BY <1>2, HeadIs
    <3>2. read[n] + 1 = 10
      BY <1>4
    <3> QED
      BY <1>4, <3>1, <3>2
  <2> DEFINE a == Append(st.stored, Pdu(n))
             after == [live |-> FALSE, stored |-> a]
  <2>3. NextKept(st, line, t) = after
    BY <2>1, <2>2, StepStore
  <2>4. after.stored = a /\ after.live = FALSE
    OBVIOUS
  <2> HIDE DEF t
  <2>5. st.stored \in Seq(Seq(Token)) /\ Pdu(n) \in Seq(Token)
    BY ReportIs DEF KeptType
  <2>6. /\ Len(st.stored) \in Nat /\ Len(a) = Len(st.stored) + 1 /\ a[Len(st.stored) + 1] = Pdu(n)
        /\ \A i \in 1..Len(st.stored) : a[i] = st.stored[i]
    BY <2>5, LenProperties, AppendProperties
  <2> HIDE DEF a, after
  <2>7. ASSUME NEW i \in 1..Len(a) PROVE \E m \in 1..N : a[i] = Pdu(m)
    <3>1. i = Len(st.stored) + 1 \/ i \in 1..Len(st.stored)
      BY <2>6
    <3> QED
      BY <1>2, <2>6, <3>1 DEF Whole
  <2> QED
    BY <2>3, <2>4, <2>7 DEF Whole
<1>5. ASSUME NEW n \in 1..N, read[n] \in {6, 7, 8} PROVE Whole(NextKept(st, line, t), N, Advance(read, N, 1))
  <2>1. PICK p \in {6, 7, 8} : p = read[n]
    BY <1>5
  <2>2. HalfRead(st, line, n, p)
    BY <1>2, <2>1 DEF ReadSoFar
  <2>3. t = Report(n)[p + 1]
    <3>1. /\ read[n] \in Int
          /\ read[n] \in 0..9 => w[1] = Report(n)[read[n] + 1]
          /\ read[n] \notin 0..9 => w[1].of # n
          /\ read[n] >= 10 => w[1].of \notin 1..n
      BY <1>2, HeadIs
    <3> QED
      BY <2>1, <3>1
  <2>4. ~Closes(line, t)
    <3>1. p \in {2, 3, 4, 6, 7, 8}
      OBVIOUS
    <3>2. ~Closes(line, Report(n)[p + 1])
      BY <2>2, <3>1, HalfReadGrows
    <3> QED
      BY <2>3, <3>2
  <2>5. NextKept(st, line, t) = st
    BY <2>4 DEF NextKept
  <2>6. Advance(read, N, 1)[n] \in 6..9
    BY <1>3, <2>1
  <2> QED
    BY <1>2, <2>5, <2>6 DEF Whole
<1>6. ASSUME \A n \in 1..N : read[n] \notin 6..9 PROVE Whole(NextKept(st, line, t), N, Advance(read, N, 1))
  <2>1. ~st.live
    BY <1>2, <1>6 DEF Whole
  <2>2. CASE ~Closes(line, t)
    <3>1. NextKept(st, line, t) = st
      BY <2>2 DEF NextKept
    <3> QED
      BY <1>2, <2>1, <3>1 DEF Whole
  <2>3. CASE Closes(line, t)
    <3> DEFINE f == Front(line)
    <3>1. NextKept(st, line, t) = TakeLine(st, f) /\ f \in Seq(Token)
      BY <1>1, <2>3, NextIs, TokenRead
    <3>2. \/ TakeLine(st, f) = st
          \/ HasCmt(f) /\ TakeLine(st, f) = [live |-> TRUE, stored |-> st.stored]
      BY <2>1, <3>1, LineTaken
    <3>3. CASE TakeLine(st, f) = st
      BY <1>2, <2>1, <3>1, <3>3 DEF Whole
    <3>4. CASE HasCmt(f) /\ TakeLine(st, f) = [live |-> TRUE, stored |-> st.stored]
      <4>1. PICK n \in 1..N : read[n] = 5
        BY <2>3, <3>4, CmtIsOfAReport
      <4>2. Advance(read, N, 1)[n] \in 6..9
        BY <1>3, <4>1
      <4>3. NextKept(st, line, t).stored = st.stored
        BY <3>1, <3>4
      <4> HIDE DEF t, f
      <4> QED
        BY <1>2, <4>2, <4>3 DEF Whole
    <3> QED
      BY <3>2, <3>3, <3>4
  <2> QED
    BY <2>2, <2>3
<1>7. \A n \in 1..N : read[n] \in 6..9 => read[n] = 9 \/ read[n] \in {6, 7, 8}
  OBVIOUS
<1> QED
  BY <1>4, <1>5, <1>6, <1>7

\* A token that is read.
LEMMA TokenStep ==
    ASSUME NEW N \in Nat, NEW st \in KeptType, NEW line \in Seq(Token), NEW w \in Seq(Token), Len(w) > 0,
           NEW lost, OnItsWay(st, line, w, N, lost)
    PROVE  OnItsWay(NextKept(st, line, w[1]), NextLine(line, w[1]), Rest(w, 1), N, lost)
<1> DEFINE t == w[1]
<1>1. Len(w) \in Nat /\ 1 \in 0..Len(w) /\ 1 \in 1..Len(w) /\ t \in Token
  <2>1. Len(w) \in Nat
    BY LenProperties
  <2>2. 1 \in 1..Len(w)
    BY <2>1
  <2> QED
    BY <2>1, <2>2, ElementOfSeq
<1>2. /\ Known(line, N) /\ Known(w, N) /\ KnownLines(st, N)
      /\ t.of <= N /\ (t.of = 0 => t.text \in Words)
  BY <1>1 DEF OnItsWay, Known
<1>3. PICK read \in [1..N -> Int] : Stages(st, line, w, N, lost, read)
  BY DEF OnItsWay
<1> DEFINE adv == Advance(read, N, 1)
<1>4. adv \in [1..N -> Int] /\ OnWire(Rest(w, 1), N, adv)
  BY <1>1, <1>3, OnWireRest DEF Stages
<1>5. Known(NextLine(line, t), N) /\ KnownLines(NextKept(st, line, t), N)
  BY <1>1, <1>2, KnownStep
<1>6. Known(Rest(w, 1), N)
  <2> DEFINE r == Rest(w, 1)
  <2>1. Len(r) = Len(w) - 1 /\ \A i \in 1..(Len(w) - 1) : r[i] = w[i + 1]
    BY <1>1, RestIs
  <2> HIDE DEF r
  <2>2. ASSUME NEW i \in 1..Len(r) PROVE r[i].of <= N /\ (r[i].of = 0 => r[i].text \in Words)
    <3>1. i \in 1..(Len(w) - 1) /\ i + 1 \in 1..Len(w)
      BY <1>1, <2>1
    <3> QED
      BY <1>2, <2>1, <3>1 DEF Known
  <2> QED
    BY <2>2 DEF Known, r
<1>7. ASSUME NEW n \in 1..N, n \notin lost
      PROVE  ReadSoFar(NextKept(st, line, t), NextLine(line, t), n, adv[n])
  <2>1. ReadSoFar(st, line, n, read[n])
    BY <1>3, <1>7 DEF Stages
  <2>2. /\ read[n] \in Int
        /\ read[n] \in 0..9 => w[1] = Report(n)[read[n] + 1]
        /\ read[n] \notin 0..9 => w[1].of # n
        /\ read[n] >= 10 => w[1].of \notin 1..n
    BY <1>3, HeadIs DEF Stages
  <2>3. PICK p \in Int : p = read[n] /\ adv[n] = p + 1
    BY <2>2 DEF Advance
  <2> HIDE DEF adv
  <2>4. CASE p \in 0..9
    <3>1. t = Report(n)[p + 1]
      BY <2>2, <2>3, <2>4
    <3>2. ReadSoFar(NextKept(st, line, Report(n)[p + 1]), NextLine(line, Report(n)[p + 1]), n, p + 1)
      <4>1. ReadSoFar(st, line, n, p)
        BY <2>1, <2>3
      <4>2. n \in Nat \ {0}
        OBVIOUS
      <4> QED
        BY <2>4, <4>1, <4>2, StepOwn
    <3> QED
      BY <2>3, <3>1, <3>2
  <2>5. CASE p \notin 0..9
    <3>1. \/ p <= -1 /\ t.of # n
          \/ p >= 10 /\ t.of \notin 1..n
      <4>1. p <= -1 \/ p >= 10
        BY <2>5
      <4>2. (p \notin 0..9 => t.of # n) /\ (p >= 10 => t.of \notin 1..n)
        BY <2>2, <2>3
      <4> HIDE DEF t
      <4> QED
        BY <2>5, <4>1, <4>2
    <3>2. ReadSoFar(NextKept(st, line, t), NextLine(line, t), n, p + 1)
      <4> HIDE DEF t
      <4> QED
        BY <1>1, <2>1, <2>3, <3>1, StepOther
    <3> QED
      BY <2>3, <3>2
  <2> QED
    BY <2>4, <2>5
<1>8. lost = {} => Whole(NextKept(st, line, t), N, adv)
  BY <1>2, <1>3, WholeStep
<1> HIDE DEF adv, t
<1>9. Stages(NextKept(st, line, t), NextLine(line, t), Rest(w, 1), N, lost, adv)
  BY <1>4, <1>7, <1>8 DEF Stages
<1> QED
  BY <1>4, <1>5, <1>6, <1>9 DEF OnItsWay, t

\* A chunk that is read.
LEMMA ChunkStep ==
    ASSUME NEW N \in Nat, NEW st \in KeptType, NEW line \in Seq(Token), NEW w \in Seq(Token),
           NEW lost, OnItsWay(st, line, w, N, lost), NEW k \in 0..Len(w)
    PROVE  LET r == TakeTokens(Reader(st, line), SubSeq(w, 1, k)) IN
           OnItsWay(Kept(r), r.line, Rest(w, k), N, lost)
<1> DEFINE r(i) == TakeTokens(Reader(st, line), SubSeq(w, 1, i))
           good == {i \in 0..k : OnItsWay(Kept(r(i)), r(i).line, Rest(w, i), N, lost)}
<1>1. Len(w) \in Nat /\ k \in Nat /\ Reader(st, line) \in ReaderType
  BY LenProperties, KeptReader
<1>2. 0 \in good
  <2>1. SubSeq(w, 1, 0) = <<>> /\ <<>> \in Seq(Token) /\ Len(<<>>) = 0
    BY SubSeqEmpty
  <2>2. r(0) = Reader(st, line)
    BY <1>1, <2>1, TokensTaken
  <2>3. Kept(r(0)) = st /\ r(0).line = line
    BY <2>2, KeptReader
  <2>4. Rest(w, 0) = w
    <3>1. 0 + 1 = 1
      OBVIOUS
    <3> QED
      BY <3>1, SubSeqFull DEF Rest
  <2>5. 0 \in 0..k
    BY <1>1
  <2> QED
    BY <2>3, <2>4, <2>5
<1>3. ASSUME NEW i \in 1..k, i - 1 \in good PROVE i \in good
  <2>1. i \in 1..Len(w) /\ i - 1 \in 0..Len(w) /\ i - 1 < Len(w) /\ i - 1 + 1 = i
    BY <1>1
  <2>2. SubSeq(w, 1, i - 1) \in Seq(Token) /\ w[i] \in Token /\ SubSeq(w, 1, i) = Append(SubSeq(w, 1, i - 1), w[i])
    BY <2>1, PrefixStep
  <2> DEFINE q == r(i - 1)
             st1 == Kept(q)
             line1 == q.line
  <2>3. q \in ReaderType /\ r(i) = TakeToken(q, w[i])
    <3> DEFINE p == SubSeq(w, 1, i - 1)
               e == w[i]
    <3>1. p \in Seq(Token) /\ e \in Token /\ SubSeq(w, 1, i) = Append(p, e)
      BY <2>2
    <3> HIDE DEF p, e
    <3>2. /\ TakeTokens(Reader(st, line), p) \in ReaderType
          /\ TakeTokens(Reader(st, line), Append(p, e)) = TakeToken(TakeTokens(Reader(st, line), p), e)
      BY <1>1, <3>1, TokensTaken
    <3> QED
      BY <3>1, <3>2 DEF p, e
  <2>4. st1 \in KeptType /\ line1 \in Seq(Token) /\ q = Reader(st1, line1)
    <3> HIDE DEF q
    <3> QED
      BY <2>3, ReaderKept
  <2>5. OnItsWay(st1, line1, Rest(w, i - 1), N, lost)
    BY <1>3
  <2> HIDE DEF q, st1, line1
  <2>6. r(i) = Reader(NextKept(st1, line1, w[i]), NextLine(line1, w[i]))
    BY <2>2, <2>3, <2>4, NextIs
  <2>7. NextKept(st1, line1, w[i]) \in KeptType /\ NextLine(line1, w[i]) \in Seq(Token)
    BY <2>2, <2>4, NextIs
  <2>8. Kept(r(i)) = NextKept(st1, line1, w[i]) /\ r(i).line = NextLine(line1, w[i])
    BY <2>6, <2>7, KeptReader
  <2>9. /\ Rest(w, i - 1) \in Seq(Token) /\ Len(Rest(w, i - 1)) > 0
        /\ Rest(w, i - 1)[1] = w[i] /\ Rest(Rest(w, i - 1), 1) = Rest(w, i)
    <3>1. Rest(w, i - 1) \in Seq(Token) /\ Len(Rest(w, i - 1)) = Len(w) - (i - 1)
      BY <2>1, RestIs
    <3>2. Rest(w, i - 1)[1] = w[i - 1 + 1] /\ Rest(Rest(w, i - 1), 1) = Rest(w, i - 1 + 1)
      BY <2>1, RestStep
    <3> QED
      BY <1>1, <2>1, <3>1, <3>2
  <2>10. OnItsWay(NextKept(st1, line1, w[i]), NextLine(line1, w[i]), Rest(w, i), N, lost)
    BY <2>4, <2>5, <2>9, TokenStep
  <2>11. i \in 0..k
    BY <1>1
  <2> HIDE DEF r
  <2> QED
    BY <2>8, <2>10, <2>11
<1> HIDE DEF good
<1>4. \A i \in 0..k : i \in good
  BY <1>1, <1>2, <1>3, Induction
<1>5. k \in good
  BY <1>1, <1>4
<1> QED
  BY <1>5 DEF good

\* Whose tokens the first ones are.
LEMMA GoneAre ==
    ASSUME NEW s \in Seq(Token), NEW c \in 0..Len(s)
    PROVE  \A i \in 1..c : s[i].of = 0 \/ s[i].of \in OfReports(SubSeq(s, 1, c))
<1> DEFINE p == SubSeq(s, 1, c)
<1>1. Len(s) \in Nat
  BY LenProperties
<1>2. /\ SubSeq(s, 1, c) \in Seq(Token) /\ Len(SubSeq(s, 1, c)) = c + 1 - 1
      /\ \A i \in 1..(c + 1 - 1) : SubSeq(s, 1, c)[i] = s[1 + i - 1]
  <2>1. 1 \in Nat \ {0} /\ c \in Int /\ c <= Len(s) /\ 1 <= c + 1
    BY <1>1
  <2> QED
    BY <2>1, PartIs
<1> HIDE DEF p
<1> SUFFICES ASSUME NEW i \in 1..c, s[i].of # 0 PROVE s[i].of \in OfReports(p)
  BY DEF p
<1>3. i \in 1..(c + 1 - 1) /\ 1 + i - 1 = i
  BY <1>1
<1>4. i \in 1..Len(p) /\ p[i] = s[i]
  BY <1>2, <1>3 DEF p
<1>5. p[i].of \in OfReports(p)
  BY <1>4 DEF OfReports
<1> QED
  BY <1>4, <1>5

\* Bytes that are pushed out of the buffer.
LEMMA PushStep ==
    ASSUME NEW N \in Nat, NEW st \in KeptType, NEW line \in Seq(Token), NEW w \in Seq(Token),
           NEW lost, OnItsWay(st, line, w, N, lost), NEW c \in 0..Len(line)
    PROVE  OnItsWay(st, Rest(line, c), w, N, lost \cup OfReports(SubSeq(line, 1, c)))
<1> DEFINE r == Rest(line, c)
           gone == OfReports(SubSeq(line, 1, c))
<1>1. /\ Len(line) \in Nat /\ r \in Seq(Token) /\ Len(r) = Len(line) - c
      /\ \A i \in 1..(Len(line) - c) : r[i] = line[i + c]
  BY RestIs
<1>2. \A i \in 1..c : line[i].of = 0 \/ line[i].of \in gone
  BY GoneAre
<1>3. Known(line, N) /\ Known(w, N) /\ KnownLines(st, N)
  BY DEF OnItsWay
<1>4. PICK read \in [1..N -> Int] : Stages(st, line, w, N, lost, read)
  BY DEF OnItsWay
<1> HIDE DEF r, gone
<1>5. \A m : Without(line, m) => Without(r, m)
  <2> SUFFICES ASSUME NEW m, Without(line, m), NEW i \in 1..Len(r) PROVE r[i].of # m
    BY DEF Without
  <2>1. i \in 1..(Len(line) - c) /\ i + c \in 1..Len(line)
    BY <1>1
  <2> QED
    BY <1>1, <2>1 DEF Without
<1>6. Known(r, N)
  <2> SUFFICES ASSUME NEW i \in 1..Len(r) PROVE r[i].of <= N /\ (r[i].of = 0 => r[i].text \in Words)
    BY DEF Known
  <2>1. i \in 1..(Len(line) - c) /\ i + c \in 1..Len(line)
    BY <1>1
  <2> QED
    BY <1>1, <1>3, <2>1 DEF Known
<1>7. ASSUME NEW n \in 1..N, n \notin lost \cup gone PROVE ReadSoFar(st, r, n, read[n])
  <2>1. PICK p \in Int : p = read[n]
    OBVIOUS
  <2>2. ReadSoFar(st, line, n, p) /\ n \in Nat /\ n # 0
    BY <1>4, <1>7, <2>1 DEF Stages
  <2>3. \A i \in 1..c : line[i].of # n
    BY <1>2, <1>7, <2>2
  <2>4. p <= 0 => Unread(st, r, n)
    BY <1>5, <2>2 DEF ReadSoFar, Unread
  <2>5. ASSUME p = 1 PROVE JustBegun(st, r, n)
    <3>1. JustBegun(st, line, n)
      BY <2>2, <2>5 DEF ReadSoFar
    <3>2. line # <<>> /\ line[Len(line)] = Report(n)[1] /\ Len(line) \in Nat \ {0}
      BY <3>1, EmptySeq DEF JustBegun, Last
    <3>3. Report(n)[1].of = n
      <4>1. 1 \in 1..10
        OBVIOUS
      <4> QED
        BY <2>2, <4>1, ReportParts
    <3>4. c # Len(line)
      BY <2>3, <3>2, <3>3
    <3>5. Len(r) \in Nat \ {0} /\ Len(r) \in 1..(Len(line) - c) /\ Len(r) + c = Len(line)
      BY <1>1, <3>4
    <3>6. r # <<>>
      <4>1. Len(<<>>) = 0
        OBVIOUS
      <4> QED
        BY <3>5, <4>1
    <3>7. Last(r) = Report(n)[1]
      BY <1>1, <3>2, <3>5 DEF Last
    <3>8. Without(Front(r), n)
      <4>1. Len(Front(r)) = Len(r) - 1 /\ \A i \in 1..(Len(r) - 1) : Front(r)[i] = r[i]
        BY <1>1, <3>6, FrontIs
      <4>2. Len(Front(line)) = Len(line) - 1 /\ \A i \in 1..(Len(line) - 1) : Front(line)[i] = line[i]
        BY <3>2, FrontIs
      <4> SUFFICES ASSUME NEW i \in 1..Len(Front(r)) PROVE Front(r)[i].of # n
        BY DEF Without
      <4>3. i \in 1..(Len(r) - 1) /\ i \in 1..(Len(line) - c) /\ i + c \in 1..(Len(line) - 1)
        BY <1>1, <4>1
      <4>4. Front(r)[i] = Front(line)[i + c]
        BY <1>1, <4>1, <4>2, <4>3
      <4> QED
        BY <3>1, <4>2, <4>3, <4>4 DEF JustBegun, Without
    <3> QED
      BY <3>1, <3>6, <3>7, <3>8 DEF JustBegun
  <2>6. ASSUME p \in 2..9 PROVE HalfRead(st, r, n, p)
    <3>1. HalfRead(st, line, n, p)
      BY <2>2, <2>6 DEF ReadSoFar
    <3> DEFINE lo == IF p < 6 THEN 3 ELSE 7
    <3>2. line = SubSeq(Report(n), lo, p) /\ lo \in Nat \ {0} /\ lo \in 1..10 /\ lo <= p + 1 /\ p <= 10
      BY <2>6, <3>1 DEF HalfRead
    <3> HIDE DEF lo
    <3>3. c = 0
      <4> SUFFICES ASSUME c # 0 PROVE FALSE
        OBVIOUS
      <4>1. Report(n) \in Seq(Token) /\ Len(Report(n)) = 10
        BY <2>2, ReportIs
      <4>2. /\ Len(SubSeq(Report(n), lo, p)) = p + 1 - lo
            /\ \A i \in 1..(p + 1 - lo) : SubSeq(Report(n), lo, p)[i] = Report(n)[lo + i - 1]
        BY <3>2, <4>1, PartIs
      <4>3. 1 \in 1..c /\ 1 \in 1..(p + 1 - lo) /\ lo + 1 - 1 = lo
        BY <1>1, <3>2, <4>2
      <4>4. line[1] = Report(n)[lo]
        BY <3>2, <4>2, <4>3
      <4>5. Report(n)[lo].of = n
        BY <2>2, <3>2, ReportParts
      <4> QED
        BY <2>3, <4>3, <4>4, <4>5
    <3>4. r = line
      <4>1. c + 1 = 1
        BY <3>3
      <4> QED
        BY <4>1, SubSeqFull DEF r, Rest
    <3> QED
      BY <3>1, <3>4
  <2>7. p >= 10 => StoredOnce(st, r, n)
    BY <1>5, <2>2 DEF ReadSoFar, StoredOnce
  <2>8. ReadSoFar(st, r, n, p)
    BY <2>4, <2>5, <2>6, <2>7 DEF ReadSoFar
  <2> QED
    BY <2>1, <2>8
<1>8. Stages(st, r, w, N, lost \cup gone, read)
  BY <1>4, <1>7 DEF Stages
<1> QED
  BY <1>3, <1>6, <1>8 DEF OnItsWay, r, gone

\* Bytes that are thrown away before they are read.
LEMMA SkipStep ==
    ASSUME NEW N \in Nat, NEW st \in KeptType, NEW line \in Seq(Token), NEW w \in Seq(Token),
           NEW lost, OnItsWay(st, line, w, N, lost), NEW k \in 0..Len(w)
    PROVE  OnItsWay(st, line, Rest(w, k), N, lost \cup OfReports(SubSeq(w, 1, k)))
<1> DEFINE r == Rest(w, k)
           gone == OfReports(SubSeq(w, 1, k))
<1>1. /\ Len(w) \in Nat /\ r \in Seq(Token) /\ Len(r) = Len(w) - k
      /\ \A i \in 1..(Len(w) - k) : r[i] = w[i + k]
  BY RestIs
<1>2. \A i \in 1..k : w[i].of = 0 \/ w[i].of \in gone
  BY GoneAre
<1>3. Known(line, N) /\ Known(w, N) /\ KnownLines(st, N)
  BY DEF OnItsWay
<1>4. PICK read \in [1..N -> Int] : Stages(st, line, w, N, lost, read)
  BY DEF OnItsWay
<1> DEFINE adv == Advance(read, N, k)
<1>5. adv \in [1..N -> Int] /\ OnWire(r, N, adv)
  BY <1>4, OnWireRest DEF Stages
<1> HIDE DEF r, gone
<1>6. Known(r, N)
  <2> SUFFICES ASSUME NEW i \in 1..Len(r) PROVE r[i].of <= N /\ (r[i].of = 0 => r[i].text \in Words)
    BY DEF Known
  <2>1. i \in 1..(Len(w) - k) /\ i + k \in 1..Len(w)
    BY <1>1
  <2> QED
    BY <1>1, <1>3, <2>1 DEF Known
<1>7. ASSUME k # 0, NEW n \in 1..N, read[n] \in 0..9 PROVE n \in gone
  <2>1. Len(w) > 0 /\ 1 \in 1..k
    BY <1>1, <1>7
  <2>2. /\ read[n] \in Int
        /\ read[n] \in 0..9 => w[1] = Report(n)[read[n] + 1]
        /\ read[n] \notin 0..9 => w[1].of # n
        /\ read[n] >= 10 => w[1].of \notin 1..n
    BY <1>4, <2>1, HeadIs DEF Stages
  <2>3. PICK p \in 0..9 : p = read[n]
    BY <1>7
  <2>31. w[1] = Report(n)[p + 1]
    BY <2>2, <2>3
  <2>32. PICK j \in 1..10 : j = p + 1
    <3>1. p + 1 \in 1..10
      OBVIOUS
    <3> QED
      BY <3>1
  <2>33. n \in Nat /\ Report(n)[j].of = n
    <3>1. n \in Nat
      OBVIOUS
    <3> QED
      BY <3>1, ReportParts
  <2>4. w[1].of = n
    BY <2>31, <2>32, <2>33
  <2> QED
    BY <1>2, <2>1, <2>4
<1>8. ASSUME NEW n \in 1..N, n \notin lost \cup gone PROVE ReadSoFar(st, line, n, adv[n])
  <2>1. PICK p \in Int : p = read[n]
    OBVIOUS
  <2>2. ReadSoFar(st, line, n, p) /\ adv[n] = p + k
    BY <1>4, <1>8, <2>1 DEF Stages, Advance
  <2>3. CASE k = 0
    <3>1. p + k = p
      BY <2>3
    <3> QED
      BY <2>2, <3>1
  <2>4. CASE k # 0 /\ p >= 10
    <3>1. p + k >= 10
      BY <1>1, <2>4
    <3>2. StoredOnce(st, line, n)
      BY <2>2, <2>4 DEF ReadSoFar
    <3>3. ReadSoFar(st, line, n, p + k)
      BY <3>1, <3>2 DEF ReadSoFar
    <3> QED
      BY <2>2, <3>3
  <2>5. CASE k # 0 /\ p <= -1
    <3>1. p + k <= 0
      <4> SUFFICES ASSUME p + k > 0 PROVE FALSE
        BY <1>1
      <4>1. \A j \in 1..10 : j > read[n] => w[j - read[n]] = Report(n)[j]
        BY <1>4 DEF Stages, OnWire
      <4>2. 1 \in 1..10 /\ 1 > p /\ 1 - p \in 1..k
        BY <1>1, <2>5
      <4>3. w[1 - p] = Report(n)[1]
        BY <2>1, <4>1, <4>2
      <4>4. w[1 - p].of = n
        BY <4>2, <4>3, ReportParts
      <4> QED
        BY <1>2, <1>8, <4>2, <4>4
    <3>2. Unread(st, line, n)
      BY <2>2, <2>5 DEF ReadSoFar
    <3>3. ReadSoFar(st, line, n, p + k)
      BY <3>1, <3>2 DEF ReadSoFar
    <3> QED
      BY <2>2, <3>3
  <2>6. k # 0 => p \notin 0..9
    BY <1>7, <1>8, <2>1
  <2>7. p \in 0..9 \/ p <= -1 \/ p >= 10
    OBVIOUS
  <2> QED
    BY <2>3, <2>4, <2>5, <2>6, <2>7
<1>9. ASSUME lost \cup gone = {} PROVE Whole(st, N, adv)
  <2>1. lost = {} /\ Whole(st, N, read)
    BY <1>4, <1>9 DEF Stages
  <2>2. CASE k = 0
    <3>1. \A n \in 1..N : adv[n] = read[n]
      BY <2>2 DEF Advance
    <3> HIDE DEF adv
    <3> QED
      BY <2>1, <3>1 DEF Whole
  <2>3. CASE k # 0
    <3>1. \A n \in 1..N : read[n] \notin 6..9
      BY <1>7, <1>9, <2>3
    <3> QED
      BY <2>1, <3>1 DEF Whole
  <2> QED
    BY <2>2, <2>3
<1> HIDE DEF adv
<1>10. Stages(st, line, r, N, lost \cup gone, adv)
  BY <1>5, <1>8, <1>9 DEF Stages
<1> QED
  BY <1>3, <1>5, <1>6, <1>10 DEF OnItsWay, r, gone

\* Two texts one after the other.
LEMMA KnownJoined ==
    ASSUME NEW N \in Nat, NEW w \in Seq(Token), NEW q \in Seq(Token), Known(w, N), Known(q, N)
    PROVE  Known(w \o q, N)
<1>1. /\ Len(w) \in Nat /\ Len(q) \in Nat /\ w \o q \in Seq(Token) /\ Len(w \o q) = Len(w) + Len(q)
      /\ \A i \in 1..(Len(w) + Len(q)) : (w \o q)[i] = IF i <= Len(w) THEN w[i] ELSE q[i - Len(w)]
  BY LenProperties, ConcatProperties
<1> DEFINE a == w \o q
<1> HIDE DEF a
<1> SUFFICES ASSUME NEW i \in 1..Len(a) PROVE a[i].of <= N /\ (a[i].of = 0 => a[i].text \in Words)
  BY DEF Known, a
<1>2. CASE i <= Len(w)
  <2>1. i \in 1..Len(w) /\ a[i] = w[i]
    BY <1>1, <1>2 DEF a
  <2> QED
    BY <2>1 DEF Known
<1>3. CASE ~(i <= Len(w))
  <2>1. i - Len(w) \in 1..Len(q) /\ a[i] = q[i - Len(w)]
    BY <1>1, <1>3 DEF a
  <2> QED
    BY <2>1 DEF Known
<1> QED
  BY <1>2, <1>3

\* The modem says something else.
LEMMA SaidStep ==
    ASSUME NEW N \in Nat, NEW st \in KeptType, NEW line \in Seq(Token), NEW w \in Seq(Token),
           NEW lost, OnItsWay(st, line, w, N, lost),
           NEW q \in Seq(Token), \A i \in 1..Len(q) : q[i].of = 0 /\ q[i].text \in Words
    PROVE  OnItsWay(st, line, w \o q, N, lost)
<1> DEFINE a == w \o q
<1>1. /\ Len(w) \in Nat /\ Len(q) \in Nat /\ a \in Seq(Token) /\ Len(a) = Len(w) + Len(q)
      /\ \A i \in 1..(Len(w) + Len(q)) : a[i] = IF i <= Len(w) THEN w[i] ELSE q[i - Len(w)]
  BY LenProperties, ConcatProperties
<1>2. Known(line, N) /\ Known(w, N) /\ KnownLines(st, N)
  BY DEF OnItsWay
<1>3. Known(q, N)
  BY DEF Known
<1>4. Known(a, N)
  BY <1>2, <1>3, KnownJoined
<1>5. PICK read \in [1..N -> Int] : Stages(st, line, w, N, lost, read)
  BY DEF OnItsWay
<1> HIDE DEF a
<1>6. OnWire(w, N, read)
  BY <1>5 DEF Stages
<1>7. ASSUME NEW n \in 1..N PROVE 10 - read[n] <= Len(w) /\ 10 - read[n] <= Len(a)
  <2>1. 10 - read[n] <= Len(w) /\ read[n] \in Int
    BY <1>6 DEF OnWire
  <2> QED
    BY <1>1, <2>1
<1>8. ASSUME NEW n \in 1..N, NEW j \in 1..10, j > read[n] PROVE a[j - read[n]] = Report(n)[j]
  <2>1. PICK p \in Int : p = read[n]
    OBVIOUS
  <2>2. w[j - p] = Report(n)[j] /\ j > p
    BY <1>6, <1>8, <2>1 DEF OnWire
  <2>3. 10 - p <= Len(w)
    BY <1>7, <2>1
  <2> DEFINE x == Len(w)
             y == Len(q)
  <2>4. x \in Nat /\ y \in Nat /\ j \in Int /\ j <= 10 /\ j > p /\ 10 - p <= x
    BY <1>1, <2>2, <2>3
  <2>5. \A i \in 1..(x + y) : a[i] = IF i <= x THEN w[i] ELSE q[i - x]
    BY <1>1
  <2> HIDE DEF x, y
  <2>6. j - p \in 1..(x + y) /\ j - p <= x
    BY <2>4
  <2>7. a[j - p] = w[j - p]
    BY <2>5, <2>6
  <2> QED
    BY <2>1, <2>2, <2>7
<1>9. ASSUME NEW n \in 1..N, NEW i \in 1..Len(a), a[i].of = n PROVE i + read[n] \in 1..10
  <2>1. CASE i <= Len(w)
    <3>1. i \in 1..Len(w) /\ w[i].of = n
      BY <1>1, <1>9, <2>1
    <3> QED
      BY <1>6, <3>1 DEF OnWire
  <2>2. CASE ~(i <= Len(w))
    <3>1. i - Len(w) \in 1..Len(q) /\ a[i] = q[i - Len(w)]
      BY <1>1, <2>2
    <3>2. q[i - Len(w)].of = 0
      BY <3>1
    <3>3. a[i].of = 0
      BY <3>1, <3>2
    <3>4. n # 0
      OBVIOUS
    <3> QED
      BY <1>9, <3>3, <3>4
  <2> QED
    BY <2>1, <2>2
<1>10. OnWire(a, N, read)
  BY <1>6, <1>7, <1>8, <1>9 DEF OnWire
<1>11. Stages(st, line, a, N, lost, read)
  BY <1>5, <1>10 DEF Stages
<1> QED
  BY <1>2, <1>4, <1>11 DEF OnItsWay, a

\* Nothing of a report is anywhere before it is sent.
LEMMA NotYetSent ==
    ASSUME NEW N \in Nat, NEW st \in KeptType, NEW line \in Seq(Token), Known(line, N), KnownLines(st, N)
    PROVE  Unread(st, line, N + 1)
<1>1. Without(line, N + 1)
  <2> SUFFICES ASSUME NEW i \in 1..Len(line) PROVE line[i].of # N + 1
    BY DEF Without
  <2>1. line[i].of <= N
    BY DEF Known
  <2> QED
    BY <2>1
<1>2. Places(st, N + 1) = {}
  <2> SUFFICES ASSUME NEW i \in 1..Len(st.stored), st.stored[i] = Pdu(N + 1) PROVE FALSE
    BY DEF Places
  <2>1. Known(Pdu(N + 1), N)
    BY DEF KnownLines
  <2>2. N + 1 \in Nat
    OBVIOUS
  <2>3. Len(Pdu(N + 1)) = 2 /\ Pdu(N + 1)[1] = Word("pdu1", N + 1)
    BY <2>2, ReportIs
  <2>4. 1 \in 1..2
    OBVIOUS
  <2>5. Pdu(N + 1)[1].of <= N
    BY <2>1, <2>3, <2>4 DEF Known
  <2>6. N + 1 <= N
    BY <2>3, <2>5 DEF Word
  <2> QED
    BY <2>6
<1> QED
  BY <1>1, <1>2 DEF Unread

\* What was known before a report is sent is known after it.
LEMMA KnownMore ==
    ASSUME NEW N \in Nat, NEW s \in Seq(Token), Known(s, N)
    PROVE  Known(s, N + 1)
<1> SUFFICES ASSUME NEW i \in 1..Len(s) PROVE s[i].of <= N + 1 /\ (s[i].of = 0 => s[i].text \in Words)
  BY DEF Known
<1>1. s[i] \in Token
  BY ElementOfSeq
<1>2. s[i].of \in Nat
  BY <1>1 DEF Token
<1>3. s[i].of <= N /\ (s[i].of = 0 => s[i].text \in Words)
  BY DEF Known
<1> QED
  BY <1>2, <1>3

\* The modem sends a report.
LEMMA SentStep ==
    ASSUME NEW N \in Nat, NEW st \in KeptType, NEW line \in Seq(Token), NEW w \in Seq(Token),
           NEW lost, OnItsWay(st, line, w, N, lost)
    PROVE  OnItsWay(st, line, w \o Report(N + 1), N + 1, lost)
<1> DEFINE q == Report(N + 1)
           a == w \o q
<1>0. N + 1 \in Nat
  OBVIOUS
<1>1. q \in Seq(Token) /\ Len(q) = 10
  BY <1>0, ReportIs
<1>2. \A j \in 1..10 : q[j].of = N + 1
  BY <1>0, ReportParts
<1> HIDE DEF q
<1>3. /\ Len(w) \in Nat /\ a \in Seq(Token) /\ Len(a) = Len(w) + 10
      /\ \A i \in 1..(Len(w) + 10) : a[i] = IF i <= Len(w) THEN w[i] ELSE q[i - Len(w)]
  <2>1. /\ a \in Seq(Token) /\ Len(a) = Len(w) + Len(q)
        /\ \A i \in 1..(Len(w) + Len(q)) : a[i] = IF i <= Len(w) THEN w[i] ELSE q[i - Len(w)]
    BY <1>1, ConcatProperties
  <2> QED
    BY <1>1, <2>1, LenProperties
<1>4. Known(line, N) /\ Known(w, N) /\ KnownLines(st, N)
  BY DEF OnItsWay
<1>5. Known(q, N + 1)
  <2> SUFFICES ASSUME NEW i \in 1..10 PROVE q[i].of <= N + 1 /\ q[i].of # 0
    BY <1>1 DEF Known
  <2>1. q[i].of = N + 1
    BY <1>2
  <2> QED
    BY <2>1
<1>6. Known(line, N + 1) /\ Known(w, N + 1)
  BY <1>4, KnownMore
<1>7. Known(a, N + 1)
  BY <1>0, <1>1, <1>5, <1>6, KnownJoined
<1>8. KnownLines(st, N + 1)
  <2> SUFFICES ASSUME NEW i \in 1..Len(st.stored) PROVE Known(st.stored[i], N + 1)
    BY DEF KnownLines
  <2>1. st.stored \in Seq(Seq(Token))
    BY DEF KeptType
  <2>2. st.stored[i] \in Seq(Token)
    BY <2>1, ElementOfSeq
  <2>3. Known(st.stored[i], N)
    BY <1>4 DEF KnownLines
  <2> QED
    BY <2>2, <2>3, KnownMore
<1>9. PICK read \in [1..N -> Int] : Stages(st, line, w, N, lost, read)
  BY DEF OnItsWay
<1>10. OnWire(w, N, read)
  BY <1>9 DEF Stages
<1> DEFINE new == [n \in 1..(N + 1) |-> IF n <= N THEN read[n] ELSE 0 - Len(w)]
<1>11. new \in [1..(N + 1) -> Int] /\ new[N + 1] = 0 - Len(w) /\ \A n \in 1..N : new[n] = read[n]
  <2>1. \A n \in 1..(N + 1) : n <= N => n \in 1..N
    OBVIOUS
  <2>2. \A n \in 1..N : n \in 1..(N + 1) /\ n <= N
    OBVIOUS
  <2>3. N + 1 \in 1..(N + 1) /\ ~(N + 1 <= N)
    OBVIOUS
  <2>4. 0 - Len(w) \in Int
    BY <1>3
  <2> QED
    BY <2>1, <2>2, <2>3, <2>4
<1> HIDE DEF a, new
<1>12. \A n \in 1..(N + 1) : n = N + 1 \/ n \in 1..N
  OBVIOUS
<1>13. ASSUME NEW n \in 1..N PROVE 10 - read[n] <= Len(w) /\ read[n] \in Int
  BY <1>10 DEF OnWire
<1>14. ASSUME NEW n \in 1..(N + 1) PROVE 10 - new[n] <= Len(a)
  <2>1. CASE n = N + 1
    BY <1>3, <1>11, <2>1
  <2>2. CASE n \in 1..N
    <3>1. 10 - read[n] <= Len(w) /\ new[n] = read[n] /\ read[n] \in Int
      BY <1>11, <1>13, <2>2
    <3> QED
      BY <1>3, <3>1
  <2> QED
    BY <1>12, <2>1, <2>2
<1>15. ASSUME NEW n \in 1..(N + 1), NEW j \in 1..10, j > new[n] PROVE a[j - new[n]] = Report(n)[j]
  <2> DEFINE x == Len(w)
  <2>1. x \in Nat /\ \A i \in 1..(x + 10) : a[i] = IF i <= x THEN w[i] ELSE q[i - x]
    BY <1>3
  <2>2. CASE n = N + 1
    <3>1. new[n] = 0 - x
      BY <1>11, <2>2
    <3> HIDE DEF x
    <3>2. j - (0 - x) = j + x /\ j + x \in 1..(x + 10) /\ ~(j + x <= x) /\ j + x - x = j
      BY <2>1
    <3>3. a[j + x] = q[j]
      BY <2>1, <3>2
    <3>4. a[j - new[n]] = q[j]
      BY <3>1, <3>2, <3>3
    <3> QED
      BY <2>2, <3>4 DEF q
  <2>3. CASE n \in 1..N
    <3>1. PICK p \in Int : p = read[n]
      BY <2>3
    <3>2. new[n] = p /\ j > p /\ 10 - p <= x
      BY <1>11, <1>13, <1>15, <2>3, <3>1
    <3>3. w[j - p] = Report(n)[j]
      BY <1>10, <2>3, <3>1, <3>2 DEF OnWire
    <3> HIDE DEF x
    <3>4. j - p \in 1..(x + 10) /\ j - p <= x
      BY <2>1, <3>2
    <3>5. a[j - p] = w[j - p]
      BY <2>1, <3>4
    <3> QED
      BY <3>2, <3>3, <3>5
  <2> QED
    BY <1>12, <2>2, <2>3
<1>16. ASSUME NEW n \in 1..(N + 1), NEW i \in 1..Len(a), a[i].of = n PROVE i + new[n] \in 1..10
  <2>1. CASE i <= Len(w)
    <3>1. i \in 1..Len(w) /\ w[i].of = n
      BY <1>3, <1>16, <2>1
    <3>2. w[i].of <= N
      BY <1>4, <3>1 DEF Known
    <3>3. n \in 1..N
      BY <3>1, <3>2
    <3>4. i + read[n] \in 1..10
      BY <1>10, <3>1, <3>3 DEF OnWire
    <3> QED
      BY <1>11, <3>3, <3>4
  <2>2. CASE ~(i <= Len(w))
    <3> DEFINE x == Len(w)
    <3>0. x \in Nat /\ i \in 1..(x + 10) /\ ~(i <= x)
      BY <1>3, <2>2
    <3>01. a[i] = q[i - x]
      BY <1>3, <3>0
    <3> HIDE DEF x
    <3>02. i - x \in 1..10 /\ i \in Int
      BY <3>0
    <3>1. i - Len(w) \in 1..10 /\ a[i] = q[i - Len(w)] /\ i \in Int
      BY <3>01, <3>02 DEF x
    <3>2. q[i - Len(w)].of = N + 1
      BY <1>2, <3>1
    <3>3. n = N + 1
      BY <1>16, <3>1, <3>2
    <3>4. new[n] = 0 - Len(w)
      BY <1>11, <3>3
    <3>5. i + (0 - Len(w)) = i - Len(w)
      BY <1>3, <3>1
    <3> QED
      BY <3>1, <3>4, <3>5
  <2> QED
    BY <2>1, <2>2
<1>17. ASSUME NEW n \in 1..(N + 1), NEW m \in 1..(n - 1) PROVE new[n] + 10 <= new[m]
  <2>1. m \in 1..N
    OBVIOUS
  <2>2. new[m] = read[m] /\ read[m] \in Int /\ 10 - read[m] <= Len(w)
    BY <1>11, <1>13, <2>1
  <2>3. CASE n = N + 1
    <3>1. new[n] = 0 - Len(w)
      BY <1>11, <2>3
    <3> QED
      BY <1>3, <2>2, <3>1
  <2>4. CASE n \in 1..N
    <3>1. new[n] = read[n]
      BY <1>11, <2>4
    <3>2. read[n] + 10 <= read[m]
      BY <1>10, <2>4 DEF OnWire
    <3> QED
      BY <2>2, <3>1, <3>2
  <2> QED
    BY <1>12, <2>3, <2>4
<1>18. OnWire(a, N + 1, new)
  BY <1>14, <1>15, <1>16, <1>17 DEF OnWire
<1>19. ASSUME NEW n \in 1..(N + 1), n \notin lost PROVE ReadSoFar(st, line, n, new[n])
  <2>1. CASE n = N + 1
    <3>1. Unread(st, line, n)
      BY <1>4, <2>1, NotYetSent
    <3>2. PICK p \in Int : p = new[n]
      BY <1>11
    <3>3. p <= 0
      BY <1>3, <1>11, <2>1, <3>2
    <3>4. ReadSoFar(st, line, n, p)
      BY <3>1, <3>3 DEF ReadSoFar
    <3> QED
      BY <3>2, <3>4
  <2>2. CASE n \in 1..N
    <3>1. ReadSoFar(st, line, n, read[n])
      BY <1>9, <1>19, <2>2 DEF Stages
    <3> QED
      BY <1>11, <2>2, <3>1
  <2> QED
    BY <1>12, <2>1, <2>2
<1>20. ASSUME lost = {} PROVE Whole(st, N + 1, new)
  <2>1. Whole(st, N, read)
    BY <1>9, <1>20 DEF Stages
  <2>2. \A n \in 1..N : n \in 1..(N + 1)
    OBVIOUS
  <2>3. \A i \in 1..Len(st.stored) : \E n \in 1..(N + 1) : st.stored[i] = Pdu(n)
    BY <2>1, <2>2 DEF Whole
  <2>4. st.live => \E n \in 1..(N + 1) : new[n] \in 6..9
    <3> SUFFICES ASSUME st.live PROVE \E n \in 1..(N + 1) : new[n] \in 6..9
      OBVIOUS
    <3>1. PICK n \in 1..N : read[n] \in 6..9
      BY <2>1 DEF Whole
    <3> QED
      BY <1>11, <2>2, <3>1
  <2> QED
    BY <2>3, <2>4 DEF Whole
<1>21. Stages(st, line, a, N + 1, lost, new)
  BY <1>18, <1>19, <1>20 DEF Stages
<1> QED
  BY <1>6, <1>7, <1>8, <1>11, <1>21 DEF OnItsWay, a, q

(***************************************************************************)
(* The main loop                                                           *)
(***************************************************************************)

\* Without its first c tokens, two texts one after the other.
LEMMA CutJoined ==
    ASSUME NEW s \in Seq(Token), NEW q \in Seq(Token), NEW c \in 0..Len(s)
    PROVE  /\ Rest(s, c) \o q = SubSeq(s \o q, c + 1, Len(s \o q))
           /\ SubSeq(s \o q, 1, c) = SubSeq(s, 1, c)
<1> DEFINE a == s \o q
           r == Rest(s, c)
           b == r \o q
           p == SubSeq(a, c + 1, Len(a))
<1>1. /\ Len(s) \in Nat /\ Len(q) \in Nat /\ a \in Seq(Token) /\ Len(a) = Len(s) + Len(q)
      /\ \A i \in 1..(Len(s) + Len(q)) : a[i] = IF i <= Len(s) THEN s[i] ELSE q[i - Len(s)]
  BY LenProperties, ConcatProperties
<1>2. r \in Seq(Token) /\ Len(r) = Len(s) - c /\ \A i \in 1..(Len(s) - c) : r[i] = s[i + c]
  BY RestIs
<1> HIDE DEF a, r
<1>21. r \in Seq(Token) /\ q \in Seq(Token)
  BY <1>2
<1>3. /\ b \in Seq(Token) /\ Len(b) = Len(r) + Len(q)
      /\ \A i \in 1..(Len(r) + Len(q)) : b[i] = IF i <= Len(r) THEN r[i] ELSE q[i - Len(r)]
  BY <1>21, ConcatProperties
<1>4. /\ p \in Seq(Token) /\ Len(p) = Len(a) + 1 - (c + 1)
      /\ \A i \in 1..(Len(a) + 1 - (c + 1)) : p[i] = a[c + 1 + i - 1]
  <2>1. PICK lo \in Nat \ {0} : lo = c + 1
    BY <1>1
  <2>2. PICK hi \in Int : hi = Len(a)
    BY <1>1
  <2>3. hi <= Len(a) /\ lo <= hi + 1
    BY <1>1, <2>1, <2>2
  <2>4. /\ SubSeq(a, lo, hi) \in Seq(Token) /\ Len(SubSeq(a, lo, hi)) = hi + 1 - lo
        /\ \A i \in 1..(hi + 1 - lo) : SubSeq(a, lo, hi)[i] = a[lo + i - 1]
    BY <1>1, <2>3, PartIs
  <2> QED
    BY <2>1, <2>2, <2>4
<1> HIDE DEF b, p
<1> DEFINE x == Len(s)
           y == Len(q)
<1>5. /\ x \in Nat /\ y \in Nat /\ c \in 0..x /\ Len(a) = x + y /\ Len(r) = x - c
  BY <1>1, <1>2
<1>6. /\ \A i \in 1..(x + y) : a[i] = IF i <= x THEN s[i] ELSE q[i - x]
      /\ \A i \in 1..(x - c) : r[i] = s[i + c]
  BY <1>1, <1>2
<1> HIDE DEF x, y
<1>7. Len(b) = x - c + y /\ \A i \in 1..(x - c + y) : b[i] = IF i <= x - c THEN r[i] ELSE q[i - (x - c)]
  BY <1>3, <1>5 DEF y
<1>8. Len(p) = x - c + y
  BY <1>4, <1>5
<1>9. \A i \in 1..(x - c + y) : p[i] = a[c + i]
  <2> SUFFICES ASSUME NEW i \in 1..(x - c + y) PROVE p[i] = a[c + i]
    OBVIOUS
  <2>1. i \in 1..(Len(a) + 1 - (c + 1)) /\ c + 1 + i - 1 = c + i
    BY <1>5
  <2>2. p[i] = a[c + 1 + i - 1]
    BY <1>4, <2>1
  <2> QED
    BY <2>1, <2>2
<1>10. ASSUME NEW i \in 1..(x - c + y) PROVE b[i] = p[i]
  <2>1. c + i \in 1..(x + y) /\ p[i] = a[c + i]
    BY <1>5, <1>9
  <2>2. CASE i <= x - c
    <3>1. i \in 1..(x - c) /\ c + i <= x /\ i + c = c + i
      BY <1>5, <2>2
    <3>2. r[i] = s[c + i]
      BY <1>6, <3>1
    <3>3. a[c + i] = s[c + i]
      BY <1>6, <2>1, <3>1
    <3>4. b[i] = r[i]
      BY <1>7, <2>2
    <3> QED
      BY <2>1, <3>2, <3>3, <3>4
  <2>3. CASE ~(i <= x - c)
    <3>1. PICK j \in 1..(x + y) : j = c + i
      BY <2>1
    <3>2. ~(j <= x) /\ j - x = i - (x - c)
      BY <1>5, <2>3, <3>1
    <3>3. a[j] = q[j - x]
      BY <1>6, <3>2
    <3>4. p[i] = a[j]
      BY <2>1, <3>1
    <3>5. b[i] = q[i - (x - c)]
      BY <1>7, <2>3
    <3>6. b[i] = q[j - x]
      BY <3>2, <3>5
    <3> QED
      BY <3>3, <3>4, <3>6
  <2> QED
    BY <2>2, <2>3
<1>11. b = p
  <2>1. Len(b) = Len(p) /\ \A i \in 1..Len(b) : b[i] = p[i]
    BY <1>7, <1>8, <1>10
  <2> QED
    BY <1>3, <1>4, <2>1, SeqEqual
<1>12. SubSeq(a, 1, c) = SubSeq(s, 1, c)
  <2>1. \A i \in 1..Len(s) : a[i] = s[i]
    <3> SUFFICES ASSUME NEW i \in 1..x PROVE a[i] = s[i]
      BY DEF x
    <3>1. i \in 1..(x + y) /\ i <= x
      BY <1>5
    <3> QED
      BY <1>6, <3>1
  <2>2. 1 \in Nat \ {0} /\ c \in Int /\ c <= Len(s)
    BY <1>1
  <2> QED
    BY <1>1, <2>1, <2>2, SamePart
<1> QED
  BY <1>11, <1>12 DEF a, r, b, p

\* What of the buffer is left when a chunk comes.
LEMMA JoinedIs ==
    ASSUME buf \in Seq(Token), Len(buf) < Cap, NEW chunk \in Seq(Token), Len(chunk) < Cap
    PROVE  \E c \in 0..Len(buf) :
              /\ Joined(chunk) = Rest(buf, c) \o chunk
              /\ Pushed(chunk) = SubSeq(buf, 1, c)
              /\ Len(Joined(chunk)) < Cap
              /\ Joined(chunk) = buf \o chunk => c = 0
<1> DEFINE a == buf \o chunk
           d == IF Len(a) < Cap THEN 0 ELSE Len(a) - Cap + 1
<1>1. /\ Len(buf) \in Nat /\ Len(chunk) \in Nat /\ Cap \in Nat
      /\ a \in Seq(Token) /\ Len(a) = Len(buf) + Len(chunk)
  BY LenProperties, ConcatProperties, CapAssumption
<1>2. d \in 0..Len(buf)
  BY <1>1
<1>3. PICK c \in 0..Len(buf) : c = d
  BY <1>2
<1>4. Rest(buf, c) \o chunk = SubSeq(a, c + 1, Len(a)) /\ SubSeq(a, 1, c) = SubSeq(buf, 1, c)
  BY <1>3, CutJoined
<1> HIDE DEF d
<1>5. Joined(chunk) = SubSeq(a, c + 1, Len(a))
  <2>1. CASE Len(a) < Cap
    <3>1. c = 0 /\ c + 1 = 1
      BY <1>3, <2>1 DEF d
    <3>2. Joined(chunk) = a
      BY <2>1 DEF Joined
    <3> QED
      BY <1>1, <3>1, <3>2, SubSeqFull
  <2>2. CASE ~(Len(a) < Cap)
    <3>1. c + 1 = Len(a) - Cap + 2
      BY <1>1, <1>3, <2>2 DEF d
    <3> QED
      BY <2>2, <3>1 DEF Joined
  <2> QED
    BY <2>1, <2>2
<1> HIDE DEF a
<1>6. Len(Joined(chunk)) = Len(a) - c
  <2>1. c + 1 \in Nat \ {0} /\ Len(a) \in Int /\ Len(a) <= Len(a) /\ c + 1 <= Len(a) + 1
    BY <1>1
  <2>2. Len(SubSeq(a, c + 1, Len(a))) = Len(a) + 1 - (c + 1)
    BY <1>1, <2>1, PartIs
  <2> QED
    BY <1>1, <1>5, <2>2
<1>7. Len(a) - (Len(a) - c) = c
  BY <1>1
<1>8. Pushed(chunk) = SubSeq(buf, 1, c)
  <2>1. Pushed(chunk) = SubSeq(a, 1, Len(a) - Len(Joined(chunk)))
    BY DEF Pushed, a
  <2> QED
    BY <1>4, <1>6, <1>7, <2>1
<1>9. Len(a) - c < Cap
  <2> DEFINE x == Len(a)
             y == Cap
  <2>1. x \in Nat /\ y \in Nat /\ c = (IF x < y THEN 0 ELSE x - y + 1)
    BY <1>1, <1>3 DEF d
  <2> HIDE DEF x, y
  <2>2. x - c < y
    BY <2>1
  <2> QED
    BY <2>2 DEF x, y
<1>10. ASSUME Joined(chunk) = a PROVE c = 0
  <2>1. Len(a) = Len(a) - c
    BY <1>6, <1>10
  <2> QED
    BY <1>1, <2>1
<1> QED
  BY <1>4, <1>5, <1>6, <1>8, <1>9, <1>10 DEF a

\* A part of an unfinished line has no end either.
LEMMA RestHasNoEnds ==
    ASSUME NEW s \in Seq(Token), Ends(s) = <<>>, NEW c \in 0..Len(s)
    PROVE  Ends(Rest(s, c)) = <<>>
<1> DEFINE r == Rest(s, c)
<1>1. /\ Len(s) \in Nat /\ r \in Seq(Token) /\ Len(r) = Len(s) - c
      /\ \A i \in 1..(Len(s) - c) : r[i] = s[i + c]
  BY RestIs
<1> HIDE DEF r
<1>2. EndPlaces(s) = {}
  <2>1. Len(<<>>) = 0
    OBVIOUS
  <2>2. Cardinality(EndPlaces(s)) = 0
    BY <2>1, EndsAre
  <2> QED
    BY <2>2, EndsRanked, FS_EmptySet
<1>3. EndPlaces(r) = {}
  <2> SUFFICES ASSUME NEW i \in 1..(Len(r) - 1), r[i].text = "CR", r[i + 1].text = "LF" PROVE FALSE
    BY DEF EndPlaces
  <2>1. /\ i \in 1..(Len(s) - c) /\ i + 1 \in 1..(Len(s) - c) /\ i + 1 + c = i + c + 1
        /\ i + c \in 1..(Len(s) - 1)
    BY <1>1
  <2>2. s[i + c].text = "CR" /\ s[i + c + 1].text = "LF"
    BY <1>1, <2>1
  <2>3. i + c \in EndPlaces(s)
    BY <2>1, <2>2 DEF EndPlaces
  <2> QED
    BY <1>2, <2>3
<1>4. Ends(r) \in Seq(EndPlaces(r)) /\ Len(Ends(r)) = 0
  BY <1>1, <1>3, EndsAre, FS_EmptySet
<1> QED
  BY <1>4, EmptySeq DEF r

\* Where one can take tokens away, they are tokens of reports that were sent.
LEMMA GoneWereSent ==
    ASSUME NEW N \in Nat, NEW s \in Seq(Token), Known(s, N), NEW c \in 0..Len(s)
    PROVE  /\ SubSeq(s, 1, c) \in Seq(Token) /\ Len(SubSeq(s, 1, c)) = c
           /\ OfReports(SubSeq(s, 1, c)) \subseteq 1..N
<1> DEFINE p == SubSeq(s, 1, c)
<1>1. Len(s) \in Nat /\ \A i \in 1..Len(s) : s[i] \in Token
  BY LenProperties, ElementOfSeq
<1>2. p \in Seq(Token) /\ Len(p) = c + 1 - 1 /\ \A i \in 1..(c + 1 - 1) : p[i] = s[1 + i - 1]
  <2>1. 1 \in Nat \ {0} /\ c \in Int /\ c <= Len(s) /\ 1 <= c + 1
    BY <1>1
  <2> QED
    BY <2>1, PartIs
<1> HIDE DEF p
<1>3. Len(p) = c
  BY <1>1, <1>2
<1>4. ASSUME NEW i \in 1..Len(p), p[i].of # 0 PROVE p[i].of \in 1..N
  <2>1. i \in 1..(c + 1 - 1) /\ 1 + i - 1 = i /\ i \in 1..Len(s)
    BY <1>1, <1>3
  <2>2. p[i] = s[i] /\ s[i] \in Token
    BY <1>1, <1>2, <2>1
  <2>3. s[i].of \in Nat /\ s[i].of <= N
    BY <2>1, <2>2 DEF Known, Token
  <2> QED
    BY <1>4, <2>2, <2>3
<1> QED
  BY <1>2, <1>3, <1>4 DEF p, OfReports

\* What the modem says besides reports are tokens of no report.
LEMMA OtherWords ==
    /\ Answer \in Seq(Token) /\ \A i \in 1..Len(Answer) : Answer[i].of = 0 /\ Answer[i].text \in Words
    /\ \A q \in Noises : q \in Seq(Token) /\ \A i \in 1..Len(q) : q[i].of = 0 /\ q[i].text \in Words
<1>1. ASSUME NEW q, q \in {Text(<<"long", "CR", "LF">>, 0), Text(<<"+CIEV:", "CR", "LF">>, 0),
                           Text(<<"OK", "CR", "LF">>, 0), Text(<<"long">>, 0)}
      PROVE  q \in Seq(Token) /\ \A i \in 1..Len(q) : q[i].of = 0 /\ q[i].text \in Words
  <2>1. CASE q = Text(<<"long", "CR", "LF">>, 0)
    BY <2>1 DEF Text, Token, Pieces, Words
  <2>2. CASE q = Text(<<"+CIEV:", "CR", "LF">>, 0)
    BY <2>2 DEF Text, Token, Pieces, Words
  <2>3. CASE q = Text(<<"OK", "CR", "LF">>, 0)
    BY <2>3 DEF Text, Token, Pieces, Words
  <2>4. CASE q = Text(<<"long">>, 0)
    BY <2>4 DEF Text, Token, Pieces, Words
  <2> QED
    BY <1>1, <2>1, <2>2, <2>3, <2>4
<1> QED
  BY <1>1 DEF Answer, Noises

\* The flag and the lines stored, as one.
KeptNow == [live |-> live, stored |-> stored]

\* The inductive invariant: the types, the agreement with the reader of tokens,
\* and every report that lost nothing in one of its stages.
ReaderIInv ==
    /\ wire \in Seq(Token) /\ buf \in Seq(Token) /\ Len(buf) < Cap /\ Ends(buf) = <<>>
    /\ KeptNow \in KeptType /\ plain \in ReaderType
    /\ reports \in Nat /\ dropped \subseteq 1..reports
    /\ due \in BOOLEAN /\ pc \in {"loop", "cpms", "cnmi", "set"}
    /\ ChunksDoNotMatter
    /\ OnItsWay(KeptNow, buf, wire, reports, dropped)

\* It holds at first,
LEMMA ReaderInit == Init => ReaderIInv
<1> SUFFICES ASSUME Init PROVE ReaderIInv
  OBVIOUS
<1>1. wire = <<>> /\ buf = <<>> /\ live = FALSE /\ stored = <<>> /\ reports = 0 /\ dropped = {}
      /\ plain = NothingRead /\ due = FALSE /\ pc = "loop"
  BY DEF Init
<1>2. Len(<<>>) = 0 /\ <<>> \in Seq(Token) /\ <<>> \in Seq(Seq(Token))
  OBVIOUS
<1>3. Cap \in Nat /\ 0 < Cap
  BY CapAssumption
<1>4. Ends(<<>>) = <<>>
  BY NoEnds
<1>5. KeptNow \in KeptType /\ plain \in ReaderType
  BY <1>1, <1>2 DEF KeptNow, KeptType, ReaderType, NothingRead
<1>6. ChunksDoNotMatter
  BY <1>1 DEF ChunksDoNotMatter, NothingRead
<1>7. Known(<<>>, 0) /\ KnownLines(KeptNow, 0)
  BY <1>1, <1>2 DEF Known, KnownLines, KeptNow
<1>8. 1..0 = {}
  OBVIOUS
<1> DEFINE none == [n \in 1..0 |-> 0]
<1>9. none \in [1..0 -> Int]
  OBVIOUS
<1>10. Stages(KeptNow, <<>>, <<>>, 0, {}, none)
  <2>1. OnWire(<<>>, 0, none)
    BY <1>8 DEF OnWire
  <2>2. Whole(KeptNow, 0, none)
    BY <1>1, <1>2 DEF Whole, KeptNow
  <2> QED
    BY <1>8, <2>1, <2>2 DEF Stages
<1>11. OnItsWay(KeptNow, <<>>, <<>>, 0, {})
  BY <1>7, <1>9, <1>10 DEF OnItsWay
<1> QED
  BY <1>1, <1>2, <1>3, <1>4, <1>5, <1>6, <1>11 DEF ReaderIInv

\* The modem speaks, or asks for an answer: words go behind what is on the wire.
LEMMA WordsOnTheWire ==
    ASSUME ReaderIInv, NEW q \in Seq(Token), \A i \in 1..Len(q) : q[i].of = 0 /\ q[i].text \in Words
    PROVE  wire \o q \in Seq(Token) /\ OnItsWay(KeptNow, buf, wire \o q, reports, dropped)
<1>1. wire \in Seq(Token) /\ buf \in Seq(Token) /\ KeptNow \in KeptType /\ reports \in Nat
      /\ OnItsWay(KeptNow, buf, wire, reports, dropped)
  BY DEF ReaderIInv
<1>2. wire \o q \in Seq(Token)
  BY <1>1, ConcatProperties
<1> HIDE DEF KeptNow
<1> QED
  BY <1>1, <1>2, SaidStep

\* A report goes behind what is on the wire.
LEMMA SendReportKeeps == ReaderIInv /\ SendReport => ReaderIInv'
<1> SUFFICES ASSUME ReaderIInv, SendReport PROVE ReaderIInv'
  OBVIOUS
<1>1. /\ reports' = reports + 1 /\ wire' = wire \o Report(reports + 1)
      /\ UNCHANGED <<buf, live, stored, due, pc, plain, full, dropped>>
  BY DEF SendReport
<1>2. /\ wire \in Seq(Token) /\ buf \in Seq(Token) /\ KeptNow \in KeptType /\ reports \in Nat
      /\ dropped \subseteq 1..reports /\ OnItsWay(KeptNow, buf, wire, reports, dropped)
  BY DEF ReaderIInv
<1>3. KeptNow' = KeptNow
  BY <1>1 DEF KeptNow
<1>4. OnItsWay(KeptNow, buf, wire \o Report(reports + 1), reports + 1, dropped)
  <2> HIDE DEF KeptNow
  <2> QED
    BY <1>2, SentStep
<1>5. wire' \in Seq(Token)
  <2>1. reports + 1 \in Nat
    BY <1>2
  <2>2. Report(reports + 1) \in Seq(Token)
    BY <2>1, ReportIs
  <2> QED
    BY <1>1, <1>2, <2>2, ConcatProperties
<1>6. reports' \in Nat /\ dropped' \subseteq 1..reports'
  BY <1>1, <1>2
<1>7. ChunksDoNotMatter'
  BY <1>1 DEF ReaderIInv, ChunksDoNotMatter
<1> QED
  BY <1>1, <1>3, <1>4, <1>5, <1>6, <1>7 DEF ReaderIInv

\* Other words go there, too.
LEMMA SendNoiseKeeps == ReaderIInv /\ SendNoise => ReaderIInv'
<1> SUFFICES ASSUME ReaderIInv, SendNoise PROVE ReaderIInv'
  OBVIOUS
<1>1. PICK q \in Noises : wire' = wire \o q
  BY DEF SendNoise
<1>2. UNCHANGED <<reports, buf, live, stored, due, pc, plain, full, dropped>>
  BY DEF SendNoise
<1>3. wire' \in Seq(Token) /\ OnItsWay(KeptNow, buf, wire', reports, dropped)
  BY <1>1, OtherWords, WordsOnTheWire
<1>4. KeptNow' = KeptNow
  BY <1>2 DEF KeptNow
<1>5. ChunksDoNotMatter'
  BY <1>2 DEF ReaderIInv, ChunksDoNotMatter
<1> QED
  BY <1>2, <1>3, <1>4, <1>5 DEF ReaderIInv

\* And the answer to the first question of a self-check.
LEMMA StartCheckKeeps == ReaderIInv /\ StartCheck => ReaderIInv'
<1> SUFFICES ASSUME ReaderIInv, StartCheck PROVE ReaderIInv'
  OBVIOUS
<1>1. /\ wire' = wire \o Answer /\ pc' = "cpms"
      /\ UNCHANGED <<reports, buf, live, stored, due, plain, full, dropped>>
  BY DEF StartCheck
<1>2. wire' \in Seq(Token) /\ OnItsWay(KeptNow, buf, wire', reports, dropped)
  BY <1>1, OtherWords, WordsOnTheWire
<1>3. KeptNow' = KeptNow
  BY <1>1 DEF KeptNow
<1>4. ChunksDoNotMatter'
  BY <1>1 DEF ReaderIInv, ChunksDoNotMatter
<1> QED
  BY <1>1, <1>2, <1>3, <1>4 DEF ReaderIInv

\* What a self-check throws away is the beginning of the wire.
LEMMA SkipKeeps ==
    ASSUME ReaderIInv, NEW k \in 0..Len(wire), Skip(k)
    PROVE  ReaderIInv'
<1> DEFINE rest == Rest(wire, k)
           gone == OfReports(SubSeq(wire, 1, k))
<1>1. /\ wire \in Seq(Token) /\ buf \in Seq(Token) /\ KeptNow \in KeptType /\ reports \in Nat
      /\ dropped \subseteq 1..reports /\ OnItsWay(KeptNow, buf, wire, reports, dropped)
      /\ Known(wire, reports)
  BY DEF ReaderIInv, OnItsWay
<1>2. /\ dropped' = dropped \cup gone
      /\ \/ wire' = rest
         \/ wire' = rest \o Answer
      /\ pc' \in {"loop", "cpms", "cnmi", "set"}
      /\ due' \in BOOLEAN
      /\ UNCHANGED <<reports, buf, live, stored, plain, full>>
  BY DEF Skip, Rest, ReaderIInv
<1>3. gone \subseteq 1..reports
  BY <1>1, GoneWereSent
<1>4. rest \in Seq(Token)
  BY <1>1, RestIs
<1>5. OnItsWay(KeptNow, buf, rest, reports, dropped \cup gone)
  <2> HIDE DEF KeptNow
  <2> QED
    BY <1>1, SkipStep
<1>6. Answer \in Seq(Token) /\ \A i \in 1..Len(Answer) : Answer[i].of = 0 /\ Answer[i].text \in Words
  BY OtherWords
<1> HIDE DEF rest, gone
<1>7. rest \o Answer \in Seq(Token)
  BY <1>4, <1>6, ConcatProperties
<1>8. OnItsWay(KeptNow, buf, rest \o Answer, reports, dropped \cup gone)
  <2> DEFINE lost == dropped \cup gone
  <2>1. OnItsWay(KeptNow, buf, rest, reports, lost)
    BY <1>5
  <2> HIDE DEF KeptNow, lost
  <2>2. OnItsWay(KeptNow, buf, rest \o Answer, reports, lost)
    BY <1>1, <1>4, <1>6, <2>1, SaidStep
  <2> QED
    BY <2>2 DEF lost
<1>9. wire' \in Seq(Token) /\ OnItsWay(KeptNow, buf, wire', reports, dropped')
  BY <1>2, <1>4, <1>5, <1>7, <1>8
<1>10. KeptNow' = KeptNow
  BY <1>2 DEF KeptNow
<1>11. ChunksDoNotMatter'
  BY <1>2 DEF ReaderIInv, ChunksDoNotMatter
<1>12. dropped' \subseteq 1..reports
  BY <1>1, <1>2, <1>3
<1> QED
  BY <1>2, <1>9, <1>10, <1>11, <1>12 DEF ReaderIInv

\* A call of the parser.
LEMMA CollectKeeps ==
    ASSUME ReaderIInv, NEW k \in 1..Len(wire), Collect(k)
    PROVE  ReaderIInv'
<1> DEFINE chunk == SubSeq(wire, 1, k)
           text == Joined(chunk)
           after == TakeLines(KeptNow, LinesOf(text))
<1>1. /\ wire \in Seq(Token) /\ buf \in Seq(Token) /\ KeptNow \in KeptType /\ reports \in Nat
      /\ plain \in ReaderType /\ Len(buf) < Cap /\ Ends(buf) = <<>>
      /\ due \in BOOLEAN /\ pc \in {"loop", "cpms", "cnmi", "set"} /\ ChunksDoNotMatter
      /\ dropped \subseteq 1..reports /\ OnItsWay(KeptNow, buf, wire, reports, dropped)
      /\ Known(wire, reports) /\ Known(buf, reports)
  BY DEF ReaderIInv, OnItsWay
<1>2. Len(wire) \in Nat /\ k \in 0..Len(wire) /\ k \in Nat
  BY <1>1, LenProperties
<1>3. k < Cap
  BY DEF Collect
<1>4. /\ live' = after.live /\ stored' = after.stored
      /\ buf' = Remainder(text)
      /\ plain' = TakeTokens(plain, chunk)
      /\ full' = (full \/ text # buf \o chunk)
      /\ dropped' = dropped \cup OfReports(Pushed(chunk))
      /\ due' = (due /\ ~HasCmt(chunk))
      /\ wire' = Rest(wire, k)
      /\ UNCHANGED <<reports, pc>>
  BY DEF Collect, Rest, KeptNow
<1>5. chunk \in Seq(Token) /\ Len(chunk) = k
  BY <1>1, <1>2, GoneWereSent
<1>6. PICK c \in 0..Len(buf) :
          /\ text = Rest(buf, c) \o chunk
          /\ Pushed(chunk) = SubSeq(buf, 1, c)
          /\ Len(text) < Cap
          /\ text = buf \o chunk => c = 0
  <2> HIDE DEF chunk
  <2> QED
    BY <1>1, <1>3, <1>5, JoinedIs
<1> DEFINE line == Rest(buf, c)
           lost == dropped \cup OfReports(SubSeq(buf, 1, c))
<1>7. line \in Seq(Token) /\ Ends(line) = <<>>
  BY <1>1, RestIs, RestHasNoEnds
<1>8. OnItsWay(KeptNow, line, wire, reports, lost)
  <2> HIDE DEF KeptNow
  <2> QED
    BY <1>1, PushStep
<1>9. lost \subseteq 1..reports /\ dropped' = lost
  BY <1>1, <1>4, <1>6, GoneWereSent
<1> HIDE DEF lost
<1>10. text = line \o chunk
  BY <1>6
<1>11. c = 0 => line = buf
  <2> SUFFICES ASSUME c = 0 PROVE line = buf
    OBVIOUS
  <2>1. c + 1 = 1
    OBVIOUS
  <2> QED
    BY <1>1, <2>1, SubSeqFull DEF Rest
<1> HIDE DEF line, text
<1>12. OnItsWay(Kept(TakeTokens(Reader(KeptNow, line), chunk)), TakeTokens(Reader(KeptNow, line), chunk).line,
                Rest(wire, k), reports, lost)
  <2> HIDE DEF KeptNow
  <2> QED
    BY <1>1, <1>2, <1>7, <1>8, ChunkStep
<1> HIDE DEF chunk
<1>13. /\ TakeTokens(Reader(KeptNow, line), chunk) = Reader(after, Remainder(text))
       /\ after \in KeptType /\ Remainder(text) \in Seq(Token) /\ Ends(Remainder(text)) = <<>>
  <2> HIDE DEF KeptNow
  <2> QED
    BY <1>1, <1>5, <1>7, <1>10, ChunkRead
<1> HIDE DEF after
<1>14. KeptNow' = after
  BY <1>4, <1>13 DEF KeptNow, KeptType
<1>15. OnItsWay(KeptNow', buf', wire', reports', dropped')
  <2>1. /\ Kept(Reader(after, Remainder(text))) = after
        /\ Reader(after, Remainder(text)).line = Remainder(text)
    BY <1>13, KeptReader
  <2>2. OnItsWay(after, Remainder(text), Rest(wire, k), reports, lost)
    BY <1>12, <1>13, <2>1
  <2> QED
    BY <1>4, <1>9, <1>14, <2>2
<1>16. wire' \in Seq(Token)
  BY <1>1, <1>2, <1>4, RestIs
<1>17. Len(buf') < Cap
  <2>1. text \in Seq(Token)
    BY <1>5, <1>7, <1>10, ConcatProperties
  <2>2. Len(text) \in Nat /\ From(text) \in 1..(Len(text) + 1) /\ Len(Remainder(text)) = Len(text) + 1 - From(text)
    BY <2>1, RemainderIs
  <2>3. Cap \in Nat
    BY CapAssumption
  <2> QED
    BY <1>4, <1>6, <2>2, <2>3
<1>18. plain' \in ReaderType
  BY <1>1, <1>4, <1>5, TokensTaken
<1>19. ChunksDoNotMatter'
  <2> SUFFICES ASSUME ~full' PROVE plain' = [live |-> live', stored |-> stored', line |-> buf']
    BY DEF ChunksDoNotMatter
  <2>1. ~full /\ c = 0
    BY <1>4, <1>6
  <2>2. plain = Reader(KeptNow, line)
    BY <1>1, <1>11, <2>1 DEF ChunksDoNotMatter, Reader, KeptNow
  <2>3. plain' = Reader(after, Remainder(text))
    BY <1>4, <1>13, <2>2
  <2> QED
    BY <1>4, <2>3 DEF Reader
<1> QED
  BY <1>1, <1>4, <1>9, <1>13, <1>14, <1>15, <1>16, <1>17, <1>18, <1>19 DEF ReaderIInv

\* and every step keeps it.
LEMMA ReaderKeeps == ReaderIInv /\ [Next]_vars => ReaderIInv'
<1>1. ASSUME ReaderIInv, Tick PROVE ReaderIInv'
  <2>1. due' = TRUE /\ UNCHANGED <<wire, reports, buf, live, stored, pc, plain, full, dropped>>
    BY <1>1 DEF Tick
  <2>2. KeptNow' = KeptNow
    BY <2>1 DEF KeptNow
  <2>3. ChunksDoNotMatter'
    BY <1>1, <2>1 DEF ReaderIInv, ChunksDoNotMatter
  <2> QED
    BY <1>1, <2>1, <2>2, <2>3 DEF ReaderIInv
<1>2. ASSUME ReaderIInv, UNCHANGED vars PROVE ReaderIInv'
  <2>1. UNCHANGED <<wire, reports, buf, live, stored, due, pc, plain, full, dropped>>
    BY <1>2 DEF vars
  <2>2. KeptNow' = KeptNow
    BY <2>1 DEF KeptNow
  <2>3. ChunksDoNotMatter'
    BY <1>2, <2>1 DEF ReaderIInv, ChunksDoNotMatter
  <2> QED
    BY <1>2, <2>1, <2>2, <2>3 DEF ReaderIInv
<1>3. ASSUME ReaderIInv, NEW k \in 1..Len(wire), Collect(k) PROVE ReaderIInv'
  BY <1>3, CollectKeeps
<1>4. ASSUME ReaderIInv, NEW k \in 0..Len(wire), Skip(k) PROVE ReaderIInv'
  BY <1>4, SkipKeeps
<1> QED
  BY <1>1, <1>2, <1>3, <1>4, SendReportKeeps, SendNoiseKeeps, StartCheckKeeps DEF Next, Modem, Read, Check

\* So it holds in every state that can be reached.
LEMMA ReaderInvariant == Spec => []ReaderIInv
BY ReaderInit, ReaderKeeps, PTL DEF Spec

\* Tokens of reports that were sent.
LEMMA SentTokens ==
    ASSUME NEW N \in Nat, NEW s \in Seq(Token), Known(s, N)
    PROVE  s \in Seq([text : Pieces, of : {0} \cup (1..N)])
<1> DEFINE T == [text : Pieces, of : {0} \cup (1..N)]
<1>1. Len(s) \in Nat /\ s \in [1..Len(s) -> Token]
  BY LenProperties
<1>2. ASSUME NEW i \in 1..Len(s) PROVE s[i] \in T
  <2>1. s[i] \in Token /\ s[i].of <= N
    BY <1>1 DEF Known
  <2> QED
    BY <2>1 DEF Token
<1> HIDE DEF T
<1>3. s \in [1..Len(s) -> T]
  BY <1>1, <1>2
<1>4. s \in Seq(T)
  BY <1>1, <1>3, SeqDef
<1> QED
  BY <1>4 DEF T

\* Every variable has its type, and no complete line stays in streamBuf.
THEOREM ReaderTypes == Spec => []TypeOK
<1>1. ReaderIInv => TypeOK
  <2> SUFFICES ASSUME ReaderIInv PROVE TypeOK
    OBVIOUS
  <2>1. Known(wire, reports) /\ Known(buf, reports)
    BY DEF ReaderIInv, OnItsWay
  <2>2. wire \in Seq([text : Pieces, of : {0} \cup Sent]) /\ buf \in Seq([text : Pieces, of : {0} \cup Sent])
    BY <2>1, SentTokens DEF ReaderIInv, Sent
  <2>3. live \in BOOLEAN
    BY DEF ReaderIInv, KeptNow, KeptType
  <2> QED
    BY <2>2, <2>3 DEF ReaderIInv, TypeOK, Sent
<1> QED
  BY <1>1, ReaderInvariant, PTL

\* ParsePduSmsResponse comes to the same however the bytes were cut into chunks
\* (lines 1392-1486), as long as streamBuf did not overflow.
THEOREM ChunksMakeNoDifference == Spec => []ChunksDoNotMatter
<1>1. ReaderIInv => ChunksDoNotMatter
  BY DEF ReaderIInv
<1> QED
  BY <1>1, ReaderInvariant, PTL

\* A report of which no byte was thrown away by a self-check or pushed out of
\* streamBuf is stored once and after the earlier ones (lines 1413-1466,
\* 1626-1655), whatever became of the others.
THEOREM OnlyTouchedReportsAreLost == Spec => []OnlyTouchedAreLost
<1>1. ReaderIInv => OnlyTouchedAreLost
  <2> SUFFICES ASSUME ReaderIInv, NEW n \in Sent, n \notin OfReports(wire) \cup OfReports(buf) \cup dropped
               PROVE  /\ Cardinality(PlacesOf(n)) = 1
                      /\ \A m \in 1..(n - 1) : \A i \in PlacesOf(m) : \A j \in PlacesOf(n) : i < j
    BY DEF OnlyTouchedAreLost
  <2>1. reports \in Nat /\ n \in 1..reports /\ n \in Nat /\ n # 0 /\ wire \in Seq(Token)
    BY DEF ReaderIInv, Sent
  <2>2. PICK read \in [1..reports -> Int] : Stages(KeptNow, buf, wire, reports, dropped, read)
    BY DEF ReaderIInv, OnItsWay
  <2>3. PICK p \in Int : p = read[n]
    BY <2>1
  <2>4. OnWire(wire, reports, read) /\ ReadSoFar(KeptNow, buf, n, p)
    BY <2>1, <2>2, <2>3 DEF Stages
  <2>5. p >= 10
    <3> SUFFICES ASSUME ~(p >= 10) PROVE FALSE
      OBVIOUS
    <3>1. 10 \in 1..10 /\ 10 > p /\ 10 - p \in Nat \ {0}
      OBVIOUS
    <3>2. wire[10 - p] = Report(n)[10] /\ 10 - p <= Len(wire)
      BY <2>1, <2>3, <2>4, <3>1 DEF OnWire
    <3>3. Report(n)[10].of = n
      BY <2>1, <3>1, ReportParts
    <3>4. 10 - p \in 1..Len(wire)
      BY <2>1, <3>1, <3>2, LenProperties
    <3>5. n \in OfReports(wire)
      BY <2>1, <3>2, <3>3, <3>4 DEF OfReports
    <3> QED
      BY <3>5
  <2>6. StoredOnce(KeptNow, buf, n)
    BY <2>4, <2>5 DEF ReadSoFar
  <2>7. \A m : PlacesOf(m) = Places(KeptNow, m)
    BY DEF PlacesOf, Places, KeptNow
  <2> QED
    BY <2>6, <2>7 DEF StoredOnce
<1> QED
  BY <1>1, ReaderInvariant, PTL

\* A line in raw_sms that is no whole PDU is the trace of a report that was cut
\* by a self-check or an overflow (lines 1448-1470): while nothing is thrown
\* away, nothing but PDUs is stored.
THEOREM GhostsHaveACause == Spec => []GhostsAreTraces
<1>1. ReaderIInv => GhostsAreTraces
  <2> SUFFICES ASSUME ReaderIInv, NEW i \in 1..Len(stored), \A n \in Sent : stored[i] # Pdu(n), dropped = {}
               PROVE  FALSE
    BY DEF GhostsAreTraces
  <2>1. PICK read \in [1..reports -> Int] : Stages(KeptNow, buf, wire, reports, dropped, read)
    BY DEF ReaderIInv, OnItsWay
  <2>2. Whole(KeptNow, reports, read)
    BY <2>1 DEF Stages
  <2>3. \E n \in 1..reports : stored[i] = Pdu(n)
    BY <2>2 DEF Whole, KeptNow
  <2> QED
    BY <2>3 DEF Sent
<1> QED
  BY <1>1, ReaderInvariant, PTL
=============================================================================
