------------------------- MODULE ModemSessionProofs -------------------------
(***************************************************************************)
(* Sessions with the modem, for every number of sessions and every length  *)
(* of the service loop: with an orderly modem texts go to their numbers,   *)
(* and no answer is more than one call late.                               *)
(*                                                                         *)
(* None of it is inductive.  SessionIInv says where a session and the      *)
(* modem may stand towards each other: at most one thing of the call       *)
(* before is pending when a session acts, whatever the earlier sessions    *)
(* left behind, and three answers are more than it takes to get past it.   *)
(***************************************************************************)
EXTENDS ModemSession, SequenceTheorems, TLAPS

Words == {"OK", "ERROR", ">", "+CMGS"}
Command(ids) == [what : Steps, of : ids]
Word(ids) == [what : Words, of : ids]
HostType(ids) == [pc : {"closed", "ready", "wait"}, command : Commands \cup {""},
                  steps : Seq(Steps), call : {0} \cup ids]
DoneType(ids) == [step : Steps \cup {""}, call : {0} \cup ids, answer : {0} \cup ids]

(***************************************************************************)
(* Programs                                                                *)
(***************************************************************************)

\* The rest of a program has the shape of one.
LEMMA ShapeOfTail ==
    ASSUME NEW s \in Seq(Steps), s # <<>>, ProgramShape(s)
    PROVE  /\ Tail(s) \in Seq(Steps) /\ ProgramShape(Tail(s))
           /\ Head(s) \in Steps /\ Head(s) = s[1] /\ Len(s) \in Nat \ {0}
           /\ ~(Len(Tail(s)) >= 3 /\ Tail(s)[3] = "at")
           /\ Tail(s) # <<>> => Head(Tail(s)) = s[2] /\ Len(s) >= 2
           /\ Head(s) = "send" <=> Tail(s) # <<>> /\ Head(Tail(s)) = "text"
<1> DEFINE t == Tail(s)
<1>1. /\ t \in Seq(Steps) /\ Len(s) \in Nat \ {0} /\ Len(t) = Len(s) - 1
      /\ \A i \in 1..Len(t) : t[i] = s[i + 1]
      /\ Head(s) \in Steps /\ Head(s) = s[1]
  BY HeadTailProperties, EmptySeq
<1>2. Tail(s) # <<>> => Head(t) = t[1] /\ Len(t) \in Nat \ {0}
  BY <1>1, EmptySeq
<1> HIDE DEF t
<1>3. \A i \in 1..Len(s) :
        /\ s[i] = "at" => i <= 3 /\ (i > 1 => s[i - 1] = "at")
        /\ s[i] = "text" /\ i > 1 => s[i - 1] = "send"
        /\ s[i] = "send" => i < Len(s) /\ s[i + 1] = "text"
  BY DEF ProgramShape
<1>4. ASSUME NEW i \in 1..Len(t)
      PROVE  /\ t[i] = "at" => i <= 3 /\ (i > 1 => t[i - 1] = "at")
             /\ t[i] = "text" /\ i > 1 => t[i - 1] = "send"
             /\ t[i] = "send" => i < Len(t) /\ t[i + 1] = "text"
  <2>1. i + 1 \in 1..Len(s) /\ t[i] = s[i + 1]
    BY <1>1
  <2>2. i > 1 => t[i - 1] = s[i]
    BY <1>1
  <2>3. i < Len(t) => t[i + 1] = s[i + 2]
    BY <1>1
  <2> QED
    BY <1>1, <1>3, <2>1, <2>2, <2>3
<1>5. ProgramShape(t)
  BY <1>4 DEF ProgramShape
<1>6. ~(Len(t) >= 3 /\ t[3] = "at")
  <2> SUFFICES ASSUME Len(t) >= 3, t[3] = "at" PROVE FALSE
    OBVIOUS
  <2>1. 4 \in 1..Len(s) /\ s[4] = "at"
    BY <1>1
  <2> QED
    BY <1>3, <2>1
<1>7. Tail(s) # <<>> => Head(t) = s[2] /\ 2 \in 1..Len(s)
  BY <1>1, <1>2 DEF t
<1>8. Head(s) = "send" => Tail(s) # <<>> /\ Head(t) = "text"
  <2> SUFFICES ASSUME s[1] = "send" PROVE t # <<>> /\ Head(t) = "text"
    BY <1>1 DEF t
  <2>1. 1 < Len(s) /\ s[2] = "text"
    BY <1>1, <1>3
  <2>2. t # <<>>
    BY <1>1, <2>1, EmptySeq
  <2> QED
    BY <1>7, <2>1, <2>2 DEF t
<1>9. t # <<>> /\ Head(t) = "text" => Head(s) = "send"
  BY <1>1, <1>3, <1>7 DEF t
<1> QED
  BY <1>1, <1>5, <1>6, <1>7, <1>8, <1>9 DEF t

\* sms_modem_init is what every program begins with.
LEMMA ShapeOfProgram ==
    ASSUME NEW c \in Commands
    PROVE  /\ Programs[c] \in Seq(Steps) /\ ProgramShape(Programs[c])
           /\ Len(Programs[c]) >= 3 /\ Programs[c][3] = "at" /\ Head(Programs[c]) = "at"
<1> DEFINE Goal(s) == /\ s \in Seq(Steps) /\ ProgramShape(s)
                      /\ Len(s) >= 3 /\ s[3] = "at" /\ Head(s) = "at"
<1>0. Initialise \in Seq(Steps) /\ Len(Initialise) = 3
      /\ Initialise[1] = "at" /\ Initialise[2] = "at" /\ Initialise[3] = "at"
  BY DEF Initialise, Steps
<1>1. ASSUME NEW t \in Seq(Steps),
             \A i \in 1..Len(t) :
               /\ t[i] # "at"
               /\ t[i] = "text" => i > 1 /\ t[i - 1] = "send"
               /\ t[i] = "send" => i < Len(t) /\ t[i + 1] = "text"
      PROVE  Goal(Initialise \o t)
  <2> DEFINE s == Initialise \o t
  <2>1. /\ s \in Seq(Steps) /\ Len(s) = 3 + Len(t) /\ Len(t) \in Nat
        /\ \A i \in 1..(3 + Len(t)) : s[i] = IF i <= 3 THEN Initialise[i] ELSE t[i - 3]
    <3>1. /\ s \in Seq(Steps) /\ Len(s) = Len(Initialise) + Len(t)
          /\ \A i \in 1..(Len(Initialise) + Len(t)) : s[i] =
                IF i <= Len(Initialise) THEN Initialise[i] ELSE t[i - Len(Initialise)]
      BY <1>0, ConcatProperties
    <3>2. Len(t) \in Nat
      BY LenProperties
    <3> QED
      BY <1>0, <3>1, <3>2
  <2> HIDE DEF s
  <2>2. s[1] = "at" /\ s[2] = "at" /\ s[3] = "at"
    BY <1>0, <2>1
  <2>3. Head(s) = s[1]
    BY <2>1
  <2>4. ASSUME NEW i \in 1..Len(s)
        PROVE  /\ s[i] = "at" => i <= 3 /\ (i > 1 => s[i - 1] = "at")
               /\ s[i] = "text" /\ i > 1 => s[i - 1] = "send"
               /\ s[i] = "send" => i < Len(s) /\ s[i + 1] = "text"
    <3>1. CASE i <= 3
      <4>1. i = 1 \/ i = 2 \/ i = 3
        BY <3>1
      <4> QED
        BY <2>2, <3>1, <4>1
    <3>2. CASE i > 3
      <4>1. i - 3 \in 1..Len(t) /\ s[i] = t[i - 3]
        BY <2>1, <3>2
      <4>2. i > 4 => s[i - 1] = t[(i - 3) - 1]
        BY <2>1, <3>2
      <4>3. i < Len(s) => s[i + 1] = t[(i - 3) + 1]
        BY <2>1, <3>2
      <4> QED
        BY <1>1, <2>1, <3>2, <4>1, <4>2, <4>3
    <3> QED
      BY <2>1, <3>1, <3>2
  <2> QED
    BY <2>1, <2>2, <2>3, <2>4 DEF ProgramShape, s
<1>2. Goal(SendOnce)
  <2> DEFINE t == <<"send", "text">>
  <2>1. t \in Seq(Steps) /\ Len(t) = 2 /\ t[1] = "send" /\ t[2] = "text"
    BY DEF Steps
  <2> HIDE DEF t
  <2>2. \A i \in 1..Len(t) :
               /\ t[i] # "at"
               /\ t[i] = "text" => i > 1 /\ t[i - 1] = "send"
               /\ t[i] = "send" => i < Len(t) /\ t[i + 1] = "text"
    <3> SUFFICES ASSUME NEW i \in 1..Len(t)
                 PROVE  /\ t[i] # "at"
                        /\ t[i] = "text" => i > 1 /\ t[i - 1] = "send"
                        /\ t[i] = "send" => i < Len(t) /\ t[i + 1] = "text"
      OBVIOUS
    <3>1. i = 1 \/ i = 2
      BY <2>1
    <3> QED
      BY <2>1, <3>1
  <2> QED
    BY <1>1, <2>1, <2>2 DEF SendOnce, t
<1>3. Goal(SelfTest)
  <2> DEFINE t == <<"send", "text", "list">>
  <2>1. t \in Seq(Steps) /\ Len(t) = 3 /\ t[1] = "send" /\ t[2] = "text" /\ t[3] = "list"
    BY DEF Steps
  <2> HIDE DEF t
  <2>2. \A i \in 1..Len(t) :
               /\ t[i] # "at"
               /\ t[i] = "text" => i > 1 /\ t[i - 1] = "send"
               /\ t[i] = "send" => i < Len(t) /\ t[i + 1] = "text"
    <3> SUFFICES ASSUME NEW i \in 1..Len(t)
                 PROVE  /\ t[i] # "at"
                        /\ t[i] = "text" => i > 1 /\ t[i - 1] = "send"
                        /\ t[i] = "send" => i < Len(t) /\ t[i + 1] = "text"
      OBVIOUS
    <3>1. i = 1 \/ i = 2 \/ i = 3
      BY <2>1
    <3> QED
      BY <2>1, <3>1
  <2> QED
    BY <1>1, <2>1, <2>2 DEF SelfTest, t
<1>4. Goal(Receive)
  <2> DEFINE t == <<"list">>
  <2>1. t \in Seq(Steps) /\ Len(t) = 1 /\ t[1] = "list"
    BY DEF Steps
  <2> HIDE DEF t
  <2>2. \A i \in 1..Len(t) : t[i] = "list"
    BY <2>1
  <2> QED
    BY <1>1, <2>1, <2>2 DEF Receive, t
<1>5. Goal(Service)
  <2> DEFINE t == [i \in 1..Loops |-> "list"]
  <2>1. t \in Seq(Steps)
    BY LoopsAssumption, IsASeq DEF Steps
  <2>2. Len(t) = Loops /\ \A i \in 1..Len(t) : t[i] = "list"
    BY LoopsAssumption
  <2> HIDE DEF t
  <2> QED
    BY <1>1, <2>1, <2>2 DEF Service, t
<1> HIDE DEF Goal
<1>6. Goal(Programs[c])
  BY <1>2, <1>3, <1>4, <1>5, CommandsAssumption DEF Programs
<1> QED
  BY <1>6 DEF Goal

(***************************************************************************)
(* What is said and written                                                *)
(***************************************************************************)

LEMMA SeqWidens ==
    ASSUME NEW S, NEW T, S \subseteq T, NEW s \in Seq(S)
    PROVE  s \in Seq(T)
  OBVIOUS

\* One word goes behind what is on the line.
LEMMA SayOne ==
    ASSUME NEW ids, line \in Seq(Word(ids)), NEW w \in Words, NEW c \in ids, Say(<<w>>, c)
    PROVE  line' = Append(line, [what |-> w, of |-> c]) /\ [what |-> w, of |-> c] \in Word(ids)
<1> DEFINE e == [what |-> w, of |-> c]
           f == [i \in 1..Len(<<w>>) |-> [what |-> <<w>>[i], of |-> c]]
<1>1. e \in Word(ids)
  BY DEF Word
<1>2. f = <<e>>
  <2>1. Len(<<w>>) = 1 /\ <<w>>[1] = w
    OBVIOUS
  <2>2. f = [i \in 1..1 |-> e]
    BY <2>1
  <2> HIDE DEF e, f
  <2>3. <<e>> = [i \in 1..1 |-> e]
    OBVIOUS
  <2> QED
    BY <2>2, <2>3
<1>3. line' = line \o f
  BY DEF Say
<1> HIDE DEF e, f
<1>4. line' = Append(line, e)
  BY <1>1, <1>2, <1>3, AppendIsConcat
<1> QED
  BY <1>1, <1>4 DEF e

\* So do two words.
LEMMA SayTwo ==
    ASSUME NEW ids, line \in Seq(Word(ids)), NEW w \in Words, NEW v \in Words, NEW c \in ids,
           Say(<<w, v>>, c)
    PROVE  /\ line' \in Seq(Word(ids))
           /\ line = <<>> => line' = <<[what |-> w, of |-> c], [what |-> v, of |-> c]>>
<1> DEFINE d == [what |-> w, of |-> c]
           e == [what |-> v, of |-> c]
           f == [i \in 1..Len(<<w, v>>) |-> [what |-> <<w, v>>[i], of |-> c]]
<1>1. d \in Word(ids) /\ e \in Word(ids)
  BY DEF Word
<1>2. f = <<d, e>>
  <2>1. Len(<<w, v>>) = 2 /\ <<w, v>>[1] = w /\ <<w, v>>[2] = v
    OBVIOUS
  <2>2. f \in Seq(Word(ids))
    <3>1. \A i \in 1..2 : [what |-> <<w, v>>[i], of |-> c] \in Word(ids)
      BY <2>1 DEF Word
    <3> QED
      BY <2>1, <3>1, IsASeq
  <2>3. Len(f) = 2 /\ f[1] = d /\ f[2] = e
    BY <2>1
  <2> HIDE DEF d, e, f
  <2>4. <<d, e>> \in Seq(Word(ids)) /\ Len(<<d, e>>) = 2 /\ <<d, e>>[1] = d /\ <<d, e>>[2] = e
    BY <1>1
  <2>5. \A i \in 1..Len(f) : f[i] = <<d, e>>[i]
    <3> SUFFICES ASSUME NEW i \in 1..Len(f) PROVE f[i] = <<d, e>>[i]
      OBVIOUS
    <3>1. i = 1 \/ i = 2
      BY <2>3
    <3> QED
      BY <2>3, <2>4, <3>1
  <2> QED
    BY <2>2, <2>3, <2>4, <2>5, SeqEqual
<1>3. line' = line \o f
  BY DEF Say
<1> HIDE DEF d, e, f
<1>4. line' \in Seq(Word(ids))
  BY <1>1, <1>2, <1>3, ConcatProperties
<1>5. <<d, e>> \in Seq(Word(ids))
  BY <1>1
<1>6. line = <<>> => line' = <<d, e>>
  BY <1>2, <1>3, <1>5, ConcatEmptySeq
<1> QED
  BY <1>4, <1>6 DEF d, e

\* And nothing leaves it as it is.
LEMMA SayNothing ==
    ASSUME NEW ids, line \in Seq(Word(ids)), NEW c, Say(<<>>, c)
    PROVE  line' = line
<1>1. [i \in 1..Len(<<>>) |-> [what |-> <<>>[i], of |-> c]] = <<>>
  OBVIOUS
<1> QED
  BY <1>1, ConcatEmptySeq DEF Say

\* What the modem may say to a command.
LEMMA ObeySays ==
    ASSUME NEW ids, line \in Seq(Word(ids)), inbox \in Seq(Command(ids)), Obey
    PROVE  /\ inbox # <<>> /\ prompt = 0 /\ Head(inbox) \in Command(ids)
           /\ inbox' = Tail(inbox)
           /\ UNCHANGED <<host, calls, sessions, sent, done>>
           /\ \/ /\ Head(inbox).what = "text" /\ line' = line
                 /\ prompt' = 0 /\ troubles' = troubles
              \/ /\ \E w \in {"OK", "ERROR"} :
                       line' = Append(line, [what |-> w, of |-> Head(inbox).of])
                 /\ prompt' = 0 /\ troubles' = troubles
              \/ /\ Head(inbox).what = "send"
                 /\ line' = Append(line, [what |-> ">", of |-> Head(inbox).of])
                 /\ prompt' = Head(inbox).of /\ troubles' = troubles
              \/ /\ Head(inbox).what = "list" /\ "word" \in Faults
                 /\ line' \in Seq(Word(ids)) /\ prompt' = 0
                 /\ troubles' = troubles \cup {"word"}
<1> DEFINE c == Head(inbox)
<1>1. inbox # <<>> /\ prompt = 0 /\ inbox' = Tail(inbox)
      /\ UNCHANGED <<host, calls, sessions, sent, done>>
  BY DEF Obey
<1>2. c \in Command(ids)
  BY <1>1, HeadTailProperties
<1>3. PICK answer \in Answers(c.what) :
        /\ Say(answer, c.of)
        /\ prompt' = IF answer = <<">">> THEN c.of ELSE 0
        /\ troubles' = troubles \cup TroubleOf(answer)
  BY DEF Obey
<1>4. c.what \in Steps /\ c.of \in ids
  BY <1>2 DEF Command
<1> HIDE DEF c
<1>5. /\ <<"OK">> # <<">">> /\ <<"ERROR">> # <<">">> /\ <<>> # <<">">>
      /\ Len(<<"OK">>) # 2 /\ Len(<<"ERROR">>) # 2 /\ Len(<<">">>) # 2 /\ Len(<<>>) # 2
  <2>1. /\ Len(<<"OK">>) = 1 /\ Len(<<">">>) = 1 /\ Len(<<"ERROR">>) = 1 /\ Len(<<>>) = 0
    OBVIOUS
  <2>2. <<"OK">>[1] = "OK" /\ <<">">>[1] = ">" /\ <<"ERROR">>[1] = "ERROR"
    OBVIOUS
  <2> QED
    BY <2>1, <2>2
<1>6. ASSUME NEW w \in {"OK", "ERROR"}
      PROVE  Len(<<w, "OK">>) = 2 /\ <<w, "OK">> # <<">">>
  <2>1. Len(<<w, "OK">>) = 2 /\ Len(<<">">>) = 1
    OBVIOUS
  <2> QED
    BY <2>1
<1>7. CASE answer = <<>> /\ c.what = "text"
  BY <1>1, <1>2, <1>3, <1>5, <1>7, SayNothing DEF TroubleOf, c
<1>8. ASSUME NEW w \in {"OK", "ERROR"}, answer = <<w>>
      PROVE  /\ line' = Append(line, [what |-> w, of |-> c.of])
             /\ prompt' = 0 /\ troubles' = troubles
  <2>1. line' = Append(line, [what |-> w, of |-> c.of])
    BY <1>3, <1>4, <1>8, SayOne DEF Words
  <2> QED
    BY <1>3, <1>5, <1>8, <2>1 DEF TroubleOf
<1>9. CASE answer = <<">">> /\ c.what = "send"
  <2>1. line' = Append(line, [what |-> ">", of |-> c.of])
    BY <1>3, <1>4, <1>9, SayOne DEF Words
  <2> QED
    BY <1>1, <1>2, <1>3, <1>5, <1>9, <2>1 DEF TroubleOf, c
<1>10. ASSUME NEW w \in {"OK", "ERROR"}, answer = <<w, "OK">>
       PROVE  /\ line' \in Seq(Word(ids)) /\ prompt' = 0
              /\ troubles' = troubles \cup {"word"}
  <2>1. line' \in Seq(Word(ids))
    BY <1>3, <1>4, <1>10, SayTwo DEF Words
  <2> QED
    BY <1>3, <1>6, <1>10, <2>1 DEF TroubleOf
<1>11. \/ answer = <<>> /\ c.what = "text"
       \/ answer = <<"OK">>
       \/ answer = <<"ERROR">>
       \/ answer = <<">">> /\ c.what = "send"
       \/ answer \in {<<"OK", "OK">>, <<"ERROR", "OK">>} /\ c.what = "list" /\ "word" \in Faults
  BY <1>3, <1>4 DEF Answers, Steps
<1>12. \/ answer = <<>> /\ c.what = "text"
       \/ \E w \in {"OK", "ERROR"} : answer = <<w>>
       \/ answer = <<">">> /\ c.what = "send"
       \/ c.what = "list" /\ "word" \in Faults /\ \E w \in {"OK", "ERROR"} : answer = <<w, "OK">>
  BY <1>11
<1>13. CASE \E w \in {"OK", "ERROR"} : answer = <<w>>
  BY <1>1, <1>2, <1>8, <1>13 DEF c
<1>14. CASE c.what = "list" /\ "word" \in Faults /\ \E w \in {"OK", "ERROR"} : answer = <<w, "OK">>
  BY <1>1, <1>2, <1>10, <1>14 DEF c
<1> QED
  BY <1>7, <1>9, <1>12, <1>13, <1>14

(***************************************************************************)
(* Types                                                                   *)
(***************************************************************************)

Typed == TypeOK /\ ProgramShape(host.steps)

\* TypeOK in the names of this module.
LEMMA Types ==
    ASSUME TypeOK
    PROVE  /\ host \in HostType(Calls) /\ calls \in Nat /\ sessions \in Nat
           /\ inbox \in Seq(Command(Calls)) /\ line \in Seq(Word(Calls))
           /\ done \in DoneType(Calls)
           /\ host.steps \in Seq(Steps) /\ Len(host.steps) \in Nat
           /\ Len(inbox) \in Nat /\ Len(line) \in Nat
           /\ \A i \in 1..Len(inbox) : inbox[i] \in Command(Calls)
           /\ \A i \in 1..Len(line) : line[i] \in Word(Calls)
<1>1. /\ host \in HostType(Calls) /\ calls \in Nat /\ sessions \in Nat
      /\ inbox \in Seq(Command(Calls)) /\ line \in Seq(Word(Calls))
      /\ done \in DoneType(Calls)
  BY DEF TypeOK, HostType, Command, Word, Words, DoneType
<1>2. host.steps \in Seq(Steps)
  BY <1>1 DEF HostType
<1> QED
  BY <1>1, <1>2, LenProperties, ElementOfSeq

\* The host with no session.
LEMMA ClosedType ==
    ASSUME NEW ids
    PROVE  Closed \in HostType(ids) /\ ProgramShape(Closed.steps)
<1>1. <<>> \in Seq(Steps) /\ Len(<<>>) = 0
  OBVIOUS
<1>2. Closed = [pc |-> "closed", command |-> "", steps |-> <<>>, call |-> 0]
  BY DEF Closed
<1>3. Closed \in HostType(ids)
  BY <1>1, <1>2 DEF HostType
<1>4. Closed.steps = <<>>
  BY <1>2
<1> QED
  BY <1>1, <1>3, <1>4 DEF ProgramShape

LEMMA TypedInit == Init => Typed
<1> SUFFICES ASSUME Init PROVE Typed
  OBVIOUS
<1>1. <<>> \in Seq(Steps) /\ Len(<<>>) = 0
  OBVIOUS
<1>2. host = Closed /\ Closed \in HostType(Calls) /\ ProgramShape(Closed.steps) /\ Closed.pc = "closed"
  BY ClosedType DEF Init, Closed
<1>3. done \in DoneType(Calls)
  BY DEF Init, Nothing, DoneType
<1>4. inbox = <<>> /\ line = <<>> /\ calls = 0 /\ sessions = 0 /\ prompt = 0 /\ sent = {} /\ troubles = {}
  BY DEF Init
<1>5. inbox \in Seq(Command(Calls)) /\ line \in Seq(Word(Calls))
  BY <1>4
<1>6. host.pc # "wait" /\ host.pc # "ready"
  BY <1>2
<1> HIDE DEF Init
<1>7. TypeOK
  BY <1>2, <1>3, <1>4, <1>5, <1>6 DEF TypeOK, HostType, DoneType, Command, Word, Words
<1> QED
  BY <1>2, <1>7 DEF Typed

\* Before the first answer that counts the session initialises the modem.
LEMMA StartAsks ==
    ASSUME Typed, AtStart
    PROVE  Asks("at") /\ host.steps # <<>> /\ Head(host.steps) = "at"
<1>1. host.steps \in Seq(Steps) /\ Len(host.steps) \in Nat /\ ProgramShape(host.steps)
  BY Types DEF Typed
<1>2. 3 \in 1..Len(host.steps) /\ 2 \in 1..Len(host.steps) /\ 3 - 1 = 2 /\ 2 - 1 = 1
  BY <1>1 DEF AtStart
<1>3. host.steps[2] = "at"
  BY <1>1, <1>2 DEF ProgramShape, AtStart
<1>4. host.steps[1] = "at"
  BY <1>1, <1>2, <1>3 DEF ProgramShape
<1>5. host.steps # <<>>
  BY <1>2, EmptySeq
<1> QED
  BY <1>1, <1>4, <1>5 DEF Asks

\* What a failed step leaves: no session, or the service at its next listing.
LEMMA AfterFailureType ==
    ASSUME Typed, host.pc \in {"ready", "wait"}, host.steps # <<>>, host' = AfterFailure
    PROVE  /\ host' \in HostType(Calls) /\ ProgramShape(host'.steps)
           /\ \/ host'.pc = "closed"
              \/ /\ host'.pc = "ready" /\ Asks("list") /\ host'.steps = Tail(host.steps)
                 /\ ~Asks("text")'
                 /\ ~AtStart' /\ calls > 0
<1>1. host \in HostType(Calls) /\ host.steps \in Seq(Steps) /\ calls \in Nat
      /\ ProgramShape(host.steps)
  BY Types DEF Typed
<1>2. CASE host' = Closed
  <2>1. Closed.pc = "closed"
    BY DEF Closed
  <2> QED
    BY <1>2, <2>1, ClosedType
<1>3. CASE host' # Closed
  <2>1. Asks("list") /\ host' = [host EXCEPT !.pc = "ready", !.steps = Tail(host.steps)]
    BY <1>1, <1>3 DEF AfterFailure, Asks
  <2>2. host'.pc = "ready" /\ host'.steps = Tail(host.steps) /\ host'.call = host.call
        /\ host'.command = host.command
    BY <1>1, <2>1 DEF HostType
  <2>3. Tail(host.steps) \in Seq(Steps) /\ ProgramShape(Tail(host.steps)) /\ ~AtStart'
    BY <1>1, <2>2, ShapeOfTail DEF AtStart
  <2>4. ~Asks("text")'
    BY <1>1, <2>1, <2>2, ShapeOfTail DEF Asks
  <2>5. host' \in HostType(Calls)
    BY <1>1, <2>1, <2>3 DEF HostType
  <2>6. calls > 0
    BY <2>1, StartAsks DEF Typed, TypeOK, Asks
  <2> QED
    BY <2>1, <2>2, <2>3, <2>4, <2>5, <2>6
<1> QED
  BY <1>2, <1>3

Known(faults) == faults \subseteq Faults \cap {"late", "full", "word"}

LEMMA TypedStep == Typed /\ [Next]_vars => Typed'
<1> SUFFICES ASSUME Typed, [Next]_vars PROVE Typed'
  OBVIOUS
<1>a. /\ host \in HostType(Calls) /\ calls \in Nat /\ sessions \in Nat
      /\ inbox \in Seq(Command(Calls)) /\ line \in Seq(Word(Calls))
      /\ done \in DoneType(Calls) /\ host.steps \in Seq(Steps)
      /\ ProgramShape(host.steps)
      /\ prompt \in {0} \cup Calls /\ sent \subseteq [text : Calls, number : Calls]
      /\ Known(troubles)
  BY Types DEF Typed, TypeOK, Known
<1>b. ASSUME /\ host' \in HostType(Calls') /\ calls' \in Nat /\ sessions' \in Nat
             /\ inbox' \in Seq(Command(Calls')) /\ line' \in Seq(Word(Calls'))
             /\ done' \in DoneType(Calls')
             /\ ProgramShape(host'.steps)
             /\ host'.pc = "wait" => host'.steps # <<>> /\ host'.call = calls'
             /\ host'.pc = "wait" \/ (host'.pc = "ready" /\ ~AtStart') => calls' > 0
             /\ prompt' \in {0} \cup Calls' /\ sent' \subseteq [text : Calls', number : Calls']
             /\ Known(troubles')
      PROVE  Typed'
  BY <1>b DEF Typed, TypeOK, HostType, Command, Word, Words, DoneType, ProgramShape, Known
<1>1. ASSUME NEW c \in Commands, Open(c) PROVE Typed'
  <2>1. /\ host' = [Closed EXCEPT !.pc = "ready", !.command = c, !.steps = Programs[c]]
        /\ sessions' = sessions + 1 /\ line' \in {<<>>, line}
        /\ UNCHANGED <<calls, inbox, prompt, sent, done, troubles>>
    BY <1>1 DEF Open
  <2>2. Programs[c] \in Seq(Steps) /\ ProgramShape(Programs[c])
        /\ Len(Programs[c]) >= 3 /\ Programs[c][3] = "at"
    BY ShapeOfProgram
  <2>4. host' = [pc |-> "ready", command |-> c, steps |-> Programs[c], call |-> 0]
    BY <2>1 DEF Closed
  <2>5. host' \in HostType(Calls) /\ AtStart' /\ host'.pc = "ready" /\ host'.steps = Programs[c]
    BY <2>2, <2>4 DEF HostType, AtStart
  <2>6. line' \in Seq(Word(Calls)) /\ Calls' = Calls
    <3>1. <<>> \in Seq(Word(Calls))
      OBVIOUS
    <3> QED
      BY <1>a, <2>1, <3>1 DEF Calls
  <2> QED
    BY <1>a, <1>b, <2>1, <2>2, <2>5, <2>6
<1>2. CASE Write
  <2> DEFINE step == Head(host.steps)
             call == IF step = "text" THEN calls ELSE calls + 1
  <2>1. /\ host.pc = "ready" /\ host.steps # <<>>
        /\ calls' = call
        /\ host' = [host EXCEPT !.pc = "wait", !.call = call]
        /\ inbox' = Append(inbox, [what |-> step, of |-> call])
        /\ UNCHANGED <<sessions, line, prompt, sent, done, troubles>>
    BY <1>2 DEF Write
  <2>2. step \in Steps
    BY <1>a, <2>1, HeadTailProperties
  <2>3. step = "text" => calls > 0
    <3>1. AtStart => step = "at"
      <4> SUFFICES ASSUME Len(host.steps) >= 3, host.steps[3] = "at" PROVE step = "at"
        BY DEF AtStart
      <4>1. Len(host.steps) \in Nat
        BY <1>a, LenProperties
      <4>2. 3 \in 1..Len(host.steps) /\ 2 \in 1..Len(host.steps) /\ 3 - 1 = 2 /\ 2 - 1 = 1
        BY <4>1
      <4>3. host.steps[2] = "at"
        BY <1>a, <4>2 DEF ProgramShape
      <4>4. host.steps[1] = "at"
        BY <1>a, <4>2, <4>3 DEF ProgramShape
      <4> QED
        BY <1>a, <2>1, <4>4
    <3> QED
      BY <2>1, <3>1 DEF Typed, TypeOK
  <2> HIDE DEF step
  <2>4. call \in Nat /\ call \in Calls' /\ Calls \subseteq Calls'
    BY <1>a, <2>1, <2>3 DEF Calls
  <2>5. host' \in HostType(Calls') /\ host'.pc = "wait" /\ host'.steps = host.steps /\ host'.call = calls'
    BY <1>a, <2>1, <2>4 DEF HostType
  <2>6. inbox' \in Seq(Command(Calls')) /\ line' \in Seq(Word(Calls'))
    <3>1. [what |-> step, of |-> call] \in Command(Calls')
      BY <2>2, <2>4 DEF Command
    <3>2. Command(Calls) \subseteq Command(Calls') /\ Word(Calls) \subseteq Word(Calls')
      BY <2>4 DEF Command, Word
    <3>3. inbox \in Seq(Command(Calls')) /\ line \in Seq(Word(Calls'))
      BY <1>a, <3>2, SeqWidens
    <3> QED
      BY <2>1, <3>1, <3>3, AppendProperties
  <2>7. done' \in DoneType(Calls') /\ sent' \subseteq [text : Calls', number : Calls']
        /\ prompt' \in {0} \cup Calls'
    BY <1>a, <2>1, <2>4 DEF DoneType
  <2> QED
    <3>1. calls' > 0 /\ calls' \in Nat /\ sessions' \in Nat /\ Known(troubles')
      BY <1>a, <2>1, <2>3, <2>4
    <3>2. host'.steps # <<>> /\ ProgramShape(host'.steps)
      BY <1>a, <2>1, <2>5
    <3> QED
      BY <1>b, <2>5, <2>6, <2>7, <3>1, <3>2
<1>c. ASSUME host.pc \in {"ready", "wait"}, host.steps # <<>>, host' = AfterFailure, UNCHANGED <<calls, sessions, inbox, prompt, sent, done>>,
             line' \in Seq(Word(Calls)), Known(troubles')
      PROVE  Typed'
  <2>1. Calls' = Calls
    BY <1>c DEF Calls
  <2> QED
    BY <1>a, <1>b, <1>c, <2>1, AfterFailureType
<1>3. CASE Read
  <2> DEFINE word == Head(line)
             step == Head(host.steps)
  <2>1. /\ host.pc = "wait" /\ line # <<>> /\ line' = Tail(line)
        /\ UNCHANGED <<calls, sessions, inbox, prompt, sent, troubles>>
    BY <1>3 DEF Read, Unread
  <2>2. line' \in Seq(Word(Calls)) /\ word \in Word(Calls) /\ Calls' = Calls
    BY <1>a, <2>1, HeadTailProperties DEF Calls
  <2>3. CASE host' = AfterFailure /\ UNCHANGED done
    BY <1>a, <1>c, <2>1, <2>2, <2>3 DEF Typed, TypeOK
  <2>4. CASE UNCHANGED <<host, done>>
    BY <1>a, <1>b, <2>1, <2>2, <2>4 DEF Typed, TypeOK, AtStart
  <2>5. CASE /\ done' = [step |-> step, call |-> host.call, answer |-> word.of]
             /\ host' = [host EXCEPT !.pc = "ready", !.steps = Tail(host.steps)]
    <3>1. host.steps # <<>> /\ host.call = calls
      BY <2>1 DEF Typed, TypeOK
    <3>2. /\ Tail(host.steps) \in Seq(Steps) /\ ProgramShape(Tail(host.steps)) /\ step \in Steps
      BY <1>a, <3>1, ShapeOfTail
    <3> HIDE DEF word, step
    <3>3. done' \in DoneType(Calls)
      BY <1>a, <2>2, <2>5, <3>2 DEF DoneType, HostType, Word
    <3>4. host' \in HostType(Calls) /\ host'.pc = "ready" /\ host'.steps = Tail(host.steps)
      BY <1>a, <2>5, <3>2 DEF HostType
    <3>5. calls > 0
      <4>1. word.of \in Calls
        BY <2>2 DEF Word
      <4> QED
        BY <1>a, <4>1 DEF Calls
    <3> QED
      BY <1>a, <1>b, <2>1, <2>2, <3>2, <3>3, <3>4, <3>5
  <2> QED
    BY <1>3, <2>3, <2>4, <2>5 DEF Read
<1>4. CASE Timeout
  <2>1. Known(troubles')
    BY <1>a, <1>4 DEF Timeout, Known
  <2> QED
    BY <1>a, <1>c, <1>4, <2>1 DEF Timeout, Typed, TypeOK
<1>5. CASE BufferFull
  <2>1. Known(troubles')
    BY <1>a, <1>5 DEF BufferFull, Known
  <2> QED
    BY <1>a, <1>c, <1>5, <2>1 DEF BufferFull, Typed, TypeOK
<1>10. CASE WriteFails
  BY <1>a, <1>c, <1>10 DEF WriteFails
<1>6. CASE Close
  <2>1. host' = Closed /\ UNCHANGED <<calls, sessions, inbox, line, prompt, sent, done, troubles>>
    BY <1>6 DEF Close
  <2>2. Calls' = Calls /\ Closed.pc = "closed"
    BY <2>1 DEF Calls, Closed
  <2> QED
    BY <1>a, <1>b, <2>1, <2>2, ClosedType
<1>7. CASE Obey
  <2>1. /\ Head(inbox) \in Command(Calls) /\ inbox # <<>> /\ inbox' = Tail(inbox)
        /\ UNCHANGED <<host, calls, sessions, sent, done>>
        /\ \/ line' = line
           \/ \E w \in Words : line' = Append(line, [what |-> w, of |-> Head(inbox).of])
           \/ line' \in Seq(Word(Calls))
        /\ prompt' \in {0, Head(inbox).of}
        /\ Known(troubles')
    BY <1>a, <1>7, ObeySays DEF Words, Known
  <2>2. inbox' \in Seq(Command(Calls)) /\ Head(inbox).of \in Calls /\ Calls' = Calls
    BY <1>a, <2>1, HeadTailProperties DEF Command, Calls
  <2>3. line' \in Seq(Word(Calls))
    <3>1. ASSUME NEW w \in Words, line' = Append(line, [what |-> w, of |-> Head(inbox).of])
          PROVE  line' \in Seq(Word(Calls))
      <4>1. [what |-> w, of |-> Head(inbox).of] \in Word(Calls)
        BY <2>2 DEF Word
      <4> QED
        BY <1>a, <3>1, <4>1, AppendProperties
    <3> QED
      BY <1>a, <2>1, <3>1
  <2> QED
    BY <1>a, <1>b, <2>1, <2>2, <2>3 DEF Typed, TypeOK, AtStart
<1>8. CASE TakeText
  <2> DEFINE text == Head(inbox)
  <2>1. inbox # <<>> /\ prompt # 0 /\ inbox' = Tail(inbox)
        /\ UNCHANGED <<host, calls, sessions, done, troubles>>
    BY <1>8 DEF TakeText
  <2>2. inbox' \in Seq(Command(Calls)) /\ text \in Command(Calls) /\ Calls' = Calls
    BY <1>a, <2>1, HeadTailProperties DEF Calls
  <2>3. text.of \in Calls
    BY <2>2 DEF Command
  <2> HIDE DEF text
  <2>4. /\ line' \in Seq(Word(Calls)) /\ prompt' \in {0} \cup Calls
        /\ sent' \subseteq [text : Calls, number : Calls] /\ Known(troubles')
    <3>1. CASE UNCHANGED <<line, prompt, sent>>
      BY <1>a, <2>1, <3>1
    <3>2. CASE /\ prompt' = 0 /\ Say(<<"+CMGS", "OK">>, text.of)
               /\ sent' = sent \cup {[text |-> text.of, number |-> prompt]}
      <4>1. line' \in Seq(Word(Calls))
        BY <1>a, <2>3, <3>2, SayTwo DEF Words
      <4> QED
        BY <1>a, <2>1, <2>3, <3>2, <4>1
    <3>3. CASE /\ prompt' = 0 /\ "error" \in Faults /\ Say(<<"ERROR">>, text.of)
               /\ UNCHANGED sent
      <4>1. line' \in Seq(Word(Calls))
        <5>1. line' = Append(line, [what |-> "ERROR", of |-> text.of])
              /\ [what |-> "ERROR", of |-> text.of] \in Word(Calls)
          BY <1>a, <2>3, <3>3, SayOne DEF Words
        <5> QED
          BY <1>a, <5>1, AppendProperties
      <4> QED
        BY <1>a, <2>1, <3>3, <4>1
    <3> QED
      BY <1>8, <3>1, <3>2, <3>3 DEF TakeText, text
  <2> QED
    BY <1>a, <1>b, <2>1, <2>2, <2>4 DEF Typed, TypeOK, AtStart
<1>9. CASE UNCHANGED vars
  BY <1>9 DEF vars, Typed, TypeOK, ProgramShape, Calls, AtStart
<1> QED
  BY <1>1, <1>2, <1>3, <1>4, <1>5, <1>6, <1>7, <1>8, <1>9, <1>10
  DEF Next, Start, Host, HostFails, Modem, Finished

(***************************************************************************)
(* Where the session stands                                                *)
(***************************************************************************)

\* A queue loses its first element,
LEMMA Shift ==
    ASSUME NEW S, NEW s \in Seq(S), s # <<>>
    PROVE  /\ Head(s) \in S /\ Head(s) = s[1] /\ Tail(s) \in Seq(S)
           /\ Len(s) \in Nat \ {0} /\ Len(Tail(s)) = Len(s) - 1
           /\ \A i \in 1..Len(Tail(s)) : i + 1 \in 1..Len(s) /\ Tail(s)[i] = s[i + 1]
           /\ Len(s) = 1 => Tail(s) = <<>>
<1>1. /\ Head(s) \in S /\ Head(s) = s[1] /\ Tail(s) \in Seq(S)
      /\ Len(s) \in Nat \ {0} /\ Len(Tail(s)) = Len(s) - 1
      /\ \A i \in 1..Len(Tail(s)) : Tail(s)[i] = s[i + 1]
  BY HeadTailProperties, EmptySeq
<1>2. \A t \in Seq(S) : t # <<>> => Len(t) \in Nat \ {0}
  BY EmptySeq
<1>3. Len(s) = 1 => Tail(s) = <<>>
  <2>1. Len(s) = 1 => Len(Tail(s)) = 0
    BY <1>1
  <2> QED
    BY <1>1, <1>2, <2>1
<1>4. \A i \in 1..Len(Tail(s)) : i + 1 \in 1..Len(s)
  BY <1>1
<1> QED
  BY <1>1, <1>3, <1>4

\* or gets one at its end.
LEMMA Extend ==
    ASSUME NEW S, NEW s \in Seq(S), NEW e \in S
    PROVE  /\ Append(s, e) \in Seq(S) /\ Append(s, e) # <<>>
           /\ Len(s) \in Nat /\ Len(Append(s, e)) = Len(s) + 1
           /\ \A i \in 1..Len(s) : Append(s, e)[i] = s[i]
           /\ Append(s, e)[Len(s) + 1] = e
           /\ s = <<>> => Append(s, e) = <<e>> /\ Len(s) = 0
<1>1. /\ Append(s, e) \in Seq(S) /\ Append(s, e) # <<>>
      /\ Len(Append(s, e)) = Len(s) + 1
      /\ \A i \in 1..Len(s) : Append(s, e)[i] = s[i]
      /\ Append(s, e)[Len(s) + 1] = e
  BY AppendProperties
<1>2. Len(s) \in Nat
  BY LenProperties
<1>3. s = <<>> => Append(s, e) = <<e>> /\ Len(s) = 0
  OBVIOUS
<1> QED
  BY <1>1, <1>2, <1>3

Modes == Away \/ Deaf \/ Between \/ Waiting \/ Prompted \/ Invited \/ Told

\* A line that has been flushed holds nothing.
LEMMA Flushed ==
    ASSUME Typed, OnePending, PromptSays, ~Holds("text"), UNCHANGED <<calls, inbox, prompt>>,
           line' \in {<<>>, line}
    PROVE  OnePending' /\ PromptSays' /\ ~Holds("text")' /\ Holds("send")' = Holds("send")
<1>1. Len(inbox) \in Nat /\ Len(line) \in Nat
  BY Types DEF Typed
<1>2. CASE line' = line
  BY <1>2 DEF OnePending, PromptSays, Holds, Pending
<1>3. CASE line' = <<>>
  <2>1. Len(line') = 0 /\ Pending' <= Pending
    BY <1>1, <1>3 DEF Pending
  <2> QED
    BY <1>1, <2>1 DEF OnePending, PromptSays, Holds, Pending
<1> QED
  BY <1>2, <1>3

LEMMA OpenMode ==
    ASSUME Typed, Modes, NEW c \in Commands, Open(c)
    PROVE  Modes'
<1>1. /\ host.pc = "closed" /\ line' \in {<<>>, line}
      /\ host' = [Closed EXCEPT !.pc = "ready", !.command = c, !.steps = Programs[c]]
      /\ UNCHANGED <<calls, inbox, prompt>>
  BY DEF Open
<1>2. Len(Programs[c]) >= 3 /\ Programs[c][3] = "at" /\ Head(Programs[c]) = "at"
  BY ShapeOfProgram
<1>3. host'.pc = "ready" /\ host'.steps = Programs[c]
  BY <1>1 DEF Closed
<1>4. AtStart' /\ ~Asks("text")'
  BY <1>2, <1>3 DEF AtStart, Asks
<1>5. Away
  BY <1>1 DEF Modes, Deaf, Between, Waiting, Prompted, Invited, Told, Asks
<1>6. OnePending' /\ PromptSays' /\ ~Holds("text")'
  BY <1>1, <1>5, Flushed DEF Away
<1>7. CASE prompt # 0
  <2>1. Deaf'
    BY <1>1, <1>3, <1>4, <1>6, <1>7 DEF Deaf
  <2> QED
    BY <2>1 DEF Modes
<1>8. CASE prompt = 0
  <2>1. Between'
    BY <1>1, <1>3, <1>4, <1>6, <1>8 DEF Between
  <2> QED
    BY <2>1 DEF Modes
<1> QED
  BY <1>7, <1>8

LEMMA WriteMode ==
    ASSUME Typed, Modes, Write
    PROVE  Modes'
<1> DEFINE step == Head(host.steps)
           call == IF step = "text" THEN calls ELSE calls + 1
           e == [what |-> step, of |-> call]
<1>1. /\ host.pc = "ready" /\ host.steps # <<>> /\ calls' = call
      /\ host' = [host EXCEPT !.pc = "wait", !.call = call]
      /\ inbox' = Append(inbox, e)
      /\ UNCHANGED <<line, prompt>>
  BY DEF Write
<1>2. /\ host \in HostType(Calls) /\ calls \in Nat /\ Len(inbox) \in Nat /\ Len(line) \in Nat
      /\ inbox \in Seq(Command(Calls)) /\ line \in Seq(Word(Calls))
      /\ host.steps \in Seq(Steps)
  BY Types DEF Typed
<1>3. host'.pc = "wait" /\ host'.steps = host.steps /\ step \in Steps
  BY <1>1, <1>2, HeadTailProperties DEF HostType
<1>4. AtStart' = AtStart /\ (AtStart => step = "at")
  BY <1>3, StartAsks DEF AtStart
<1>5. e.what = step /\ e.of = call
  OBVIOUS
<1>6. /\ Len(inbox') = Len(inbox) + 1 /\ inbox'[Len(inbox) + 1] = e
      /\ \A i \in 1..Len(inbox) : inbox'[i] = inbox[i]
      /\ inbox = <<>> => inbox' = <<e>>
  <2>1. call \in Nat /\ Command(Calls) \subseteq Command(Calls \cup {call})
    BY <1>2 DEF Command
  <2>2. inbox \in Seq(Command(Calls \cup {call}))
    <3>1. Command(Calls) \subseteq Command(Calls \cup {call})
      BY <2>1
    <3> HIDE DEF call
    <3>2. inbox \in Seq(Command(Calls))
      BY <1>2
    <3> QED
      BY <3>1, <3>2, SeqWidens
  <2>3. e \in Command(Calls \cup {call})
    BY <1>3 DEF Command
  <2> HIDE DEF e
  <2> QED
    BY <1>1, <2>2, <2>3, Extend
<1> HIDE DEF step, e
<1>7. CASE Deaf
  <2>1. Deaf'
    BY <1>1, <1>2, <1>3, <1>4, <1>5, <1>6, <1>7 DEF Deaf, Holds, PromptSays
  <2> QED
    BY <2>1 DEF Modes
<1>8. CASE Between
  <2>1. step # "text" /\ call = calls + 1 /\ ~Asks("text")'
    BY <1>1, <1>3, <1>8 DEF Between, Asks, step
  <2>2. /\ prompt' = 0 /\ Pending' <= 2 /\ Pending' = Pending + 1 /\ ~Holds("text")'
    BY <1>1, <1>2, <1>5, <1>6, <1>8, <2>1 DEF Between, OnePending, Pending, Holds
  <2>3. ASSUME NEW i \in 1..Len(inbox')
        PROVE  /\ inbox'[i].of = IF i = Len(inbox') THEN calls' ELSE calls' - 1
               /\ inbox'[i].what = "send" =>
                    IF AtStart' THEN i = 1 /\ Len(inbox') = 2 ELSE i = Len(inbox') /\ Asks("send")'
    <3>1. CASE i = Len(inbox) + 1
      BY <1>1, <1>2, <1>3, <1>4, <1>5, <1>6, <2>1, <3>1 DEF Asks, step
    <3>2. CASE i \in 1..Len(inbox)
      <4>1. Len(inbox) = 1 /\ i = 1
        <5>1. Len(inbox) + Len(line) <= 1
          BY <1>8 DEF Between, OnePending, Pending
        <5>2. Len(inbox) \in Nat /\ Len(line) \in Nat
          BY <1>2
        <5>3. Len(inbox) <= 1
          BY <5>1, <5>2
        <5>4. \A n \in Nat : n <= 1 => \A k \in 1..n : n = 1 /\ k = 1
          OBVIOUS
        <5> QED
          BY <3>2, <5>2, <5>3, <5>4
      <4> QED
        BY <1>1, <1>2, <1>4, <1>6, <1>8, <2>1, <3>2, <4>1 DEF Between, OnePending, Holds
    <3> QED
      BY <1>2, <1>6, <3>1, <3>2
  <2>4. ASSUME NEW i \in 1..Len(line')
        PROVE  /\ line'[i].of = IF i = Pending' THEN calls' ELSE calls' - 1
               /\ line'[i].what # ">"
    BY <1>1, <1>2, <1>8, <2>1, <2>2 DEF Between, OnePending, PromptSays, Pending
  <2>5. Waiting'
    BY <1>3, <2>1, <2>2, <2>3, <2>4 DEF Waiting
  <2> QED
    BY <2>5 DEF Modes
<1>9. CASE Invited
  <2>1. step = "text" /\ call = calls /\ inbox = <<>> /\ Asks("text")'
    BY <1>1, <1>3, <1>9 DEF Invited, Asks, step
  <2>2. Invited'
    BY <1>1, <1>3, <1>6, <1>9, <2>1 DEF Invited, e
  <2> QED
    BY <2>2 DEF Modes
<1> QED
  BY <1>1, <1>7, <1>8, <1>9 DEF Modes, Away, Waiting, Prompted, Told

\* A failed step of a session that is owed nothing more than one thing.
LEMMA FailureMode ==
    ASSUME Typed, host.pc \in {"ready", "wait"}, host.steps # <<>>, host' = AfterFailure,
           OnePending', PromptSays', ~Holds("text")',
           Asks("list") => prompt' = 0 /\ ~Holds("send")'
    PROVE  Modes'
<1>1. CASE host'.pc = "closed"
  <2>1. Away'
    BY <1>1 DEF Away
  <2> QED
    BY <2>1 DEF Modes
<1>2. CASE /\ host'.pc = "ready" /\ Asks("list") /\ ~Asks("text")'
  <2>1. Between'
    BY <1>2 DEF Between
  <2> QED
    BY <2>1 DEF Modes
<1> QED
  BY <1>1, <1>2, AfterFailureType

\* A write failed.
LEMMA WriteFailsMode ==
    ASSUME Typed, Modes, WriteFails
    PROVE  Modes'
<1>1. /\ host.pc = "ready" /\ host.steps # <<>> /\ host' = AfterFailure
      /\ UNCHANGED <<calls, inbox, line, prompt>>
  BY DEF WriteFails
<1>2. Asks("list") => ~AtStart
  BY StartAsks DEF Asks
<1>3. OnePending' = OnePending /\ PromptSays' = PromptSays
      /\ Holds("text")' = Holds("text") /\ Holds("send")' = Holds("send")
  BY <1>1 DEF OnePending, PromptSays, Holds, Pending
<1>4. CASE Deaf
  BY <1>1, <1>2, <1>3, <1>4, FailureMode DEF Deaf
<1>5. CASE Between
  BY <1>1, <1>2, <1>3, <1>5, FailureMode DEF Between
<1>6. CASE Invited
  <2>1. inbox = <<>> /\ line = <<>> /\ ~Asks("list") /\ Len(inbox) = 0 /\ Len(line) = 0
    BY <1>1, <1>6 DEF Invited, Asks
  <2>2. OnePending /\ PromptSays /\ ~Holds("text")
    BY <2>1 DEF OnePending, PromptSays, Holds, Pending
  <2> QED
    BY <1>1, <1>3, <2>1, <2>2, FailureMode
<1> QED
  BY <1>1, <1>4, <1>5, <1>6 DEF Modes, Away, Waiting, Prompted, Told

\* What an answer that counts says of the step it answers.
Counts(d) ==
    /\ d.answer \in {d.call - 1, d.call}
    /\ d.step = "text" => d.answer = d.call /\ [text |-> d.call, number |-> d.call] \in sent

LEMMA ReadMode ==
    ASSUME Typed, Modes, Read
    PROVE  Modes' /\ (done' = done \/ Counts(done'))
<1> DEFINE word == Head(line)
           step == Head(host.steps)
<1>1. /\ host.pc = "wait" /\ line # <<>> /\ line' = Tail(line)
      /\ UNCHANGED <<calls, inbox, prompt, sent>>
  BY DEF Read, Unread
<1>2. /\ host \in HostType(Calls) /\ calls \in Nat /\ Len(inbox) \in Nat
      /\ inbox \in Seq(Command(Calls)) /\ line \in Seq(Word(Calls))
      /\ host.steps \in Seq(Steps) /\ host.steps # <<>> /\ ProgramShape(host.steps)
      /\ host.call = calls
  BY <1>1, Types DEF Typed, TypeOK
<1>3. /\ word = line[1] /\ Len(line) \in Nat \ {0} /\ Len(line') = Len(line) - 1
      /\ \A i \in 1..Len(line') : i + 1 \in 1..Len(line) /\ line'[i] = line[i + 1]
      /\ Len(line) = 1 => line' = <<>>
  BY <1>1, <1>2, Shift
<1>4. /\ step \in Steps /\ (step = "send" <=> Tail(host.steps) # <<>> /\ Head(Tail(host.steps)) = "text")
      /\ Asks("send") <=> step = "send"
      /\ Asks("text") <=> step = "text"
      /\ Asks("list") <=> step = "list"
      /\ AtStart => step = "at"
  BY <1>2, ShapeOfTail, StartAsks DEF Asks
<1>5. \/ /\ word.what = Expected(step)
         /\ done' = [step |-> step, call |-> calls, answer |-> word.of]
         /\ host'.pc = "ready" /\ host'.steps = Tail(host.steps)
         /\ Asks("text")' <=> step = "send"
      \/ word.what = "ERROR" /\ host' = AfterFailure /\ done' = done
      \/ word.what \notin {Expected(step), "ERROR"} /\ host' = host /\ done' = done
  <2>1. CASE /\ Succeeds(word, step)
             /\ done' = [step |-> step, call |-> host.call, answer |-> word.of]
             /\ host' = [host EXCEPT !.pc = "ready", !.steps = Tail(@)]
    <3>1. host'.pc = "ready" /\ host'.steps = Tail(host.steps)
      BY <1>2, <2>1 DEF HostType
    <3> HIDE DEF step, word
    <3> QED
      BY <1>2, <1>4, <2>1, <3>1 DEF Asks, Succeeds
  <2>2. CASE word.what = "ERROR" /\ host' = AfterFailure /\ UNCHANGED done
    BY <2>2
  <2>3. CASE word.what \notin {Expected(step), "ERROR"} /\ UNCHANGED <<host, done>>
    BY <2>3
  <2> QED
    BY <2>1, <2>2, <2>3 DEF Read
<1> HIDE DEF word, step
<1>6. CASE Deaf
  <2>1. step = "at" /\ word.what = ">"
    BY <1>3, <1>4, <1>6 DEF Deaf, PromptSays
  <2>2. host' = host /\ done' = done
    BY <1>5, <2>1 DEF Expected
  <2>3. Deaf'
    BY <1>1, <1>3, <1>6, <2>2 DEF Deaf, PromptSays, Holds, AtStart
  <2> QED
    BY <2>2, <2>3 DEF Modes
<1>7. CASE Waiting
  <2>1. /\ prompt = 0 /\ step # "text" /\ ~Holds("text")
        /\ Pending \in {1, 2} /\ Pending' = Pending - 1 /\ Len(inbox) <= 1
        /\ Len(inbox) + Len(line') = Pending - 1
        /\ word.what # ">" /\ word.of \in {calls - 1, calls}
    BY <1>1, <1>2, <1>3, <1>4, <1>7 DEF Waiting, Pending
  <2>2. \A i \in 1..Len(inbox) : inbox[i].of = calls
    BY <1>2, <1>7, <2>1 DEF Waiting
  <2>3. step # "send" => ~Holds("send")
    <3>1. ASSUME NEW i \in 1..Len(inbox), inbox[i].what = "send" PROVE Asks("send")
      <4>1. Len(inbox) # 2
        <5>1. Len(inbox) <= 1
          BY <2>1
        <5> QED
          BY <5>1
      <4> QED
        BY <1>7, <3>1, <4>1 DEF Waiting
    <3> QED
      BY <1>4, <3>1 DEF Holds
  <2>4. \A i \in 1..Len(line') : line'[i].of = (IF i = Pending' THEN calls ELSE calls - 1) /\ line'[i].what # ">"
    BY <1>2, <1>3, <1>7, <2>1 DEF Waiting, Pending
  <2>5. \A i \in 1..Len(line') : i = 1 /\ i = Pending'
    BY <1>1, <1>2, <1>3, <2>1
  <2>9. OnePending' /\ PromptSays' /\ ~Holds("text")'
    <3>1. Pending' <= 1
      BY <1>2, <2>1
    <3>2. \A i \in 1..Len(line') : line'[i].of = calls /\ line'[i].what # ">"
      BY <2>4, <2>5
    <3> QED
      BY <1>1, <2>1, <2>2, <3>1, <3>2 DEF OnePending, PromptSays, Holds
  <2>6. CASE /\ word.what = Expected(step)
             /\ done' = [step |-> step, call |-> calls, answer |-> word.of]
             /\ host'.pc = "ready" /\ host'.steps = Tail(host.steps)
             /\ Asks("text")' <=> step = "send"
    <3>1. step # "send"
      BY <2>1, <2>6 DEF Expected
    <3>2. Between'
      BY <1>1, <2>1, <2>3, <2>6, <2>9, <3>1 DEF Between, Holds
    <3>3. Counts(done')
      BY <2>1, <2>6 DEF Counts
    <3> QED
      BY <3>2, <3>3 DEF Modes
  <2>7. CASE word.what = "ERROR" /\ host' = AfterFailure /\ done' = done
    <3>1. Asks("list") => prompt' = 0 /\ ~Holds("send")'
      BY <1>1, <1>4, <2>1, <2>3 DEF Holds
    <3> QED
      BY <1>1, <1>2, <2>7, <2>9, <3>1, FailureMode
  <2>8. CASE word.what \notin {Expected(step), "ERROR"} /\ host' = host /\ done' = done
    <3>1. Pending' <= 2 /\ ~Asks("text")' /\ ~Holds("text")' /\ AtStart' = AtStart /\ Asks("send")' = Asks("send")
      BY <1>1, <1>4, <2>1, <2>8 DEF Asks, Holds, AtStart
    <3>2. Waiting'
      BY <1>1, <1>7, <2>1, <2>4, <2>8, <3>1 DEF Waiting
    <3> QED
      BY <2>8, <3>2 DEF Modes
  <2> QED
    BY <1>5, <2>6, <2>7, <2>8
<1>8. CASE Prompted
  <2>1. step = "send" /\ inbox = <<>> /\ Len(inbox) = 0 /\ Expected(step) = ">" /\ ~Asks("list") /\ ~Holds("text")
    BY <1>4, <1>8 DEF Prompted, Expected, Holds
  <2>2. CASE Len(line) = 1
    <3>1. word = [what |-> ">", of |-> calls] /\ line' = <<>>
      BY <1>3, <1>8, <2>2 DEF Prompted
    <3>2. /\ done' = [step |-> step, call |-> calls, answer |-> calls]
          /\ host'.pc = "ready" /\ Asks("text")'
      BY <1>5, <2>1, <3>1
    <3>3. Invited'
      BY <1>1, <1>8, <2>1, <3>1, <3>2 DEF Prompted, Invited
    <3>4. Counts(done')
      BY <2>1, <3>2 DEF Counts
    <3> QED
      BY <3>3, <3>4 DEF Modes
  <2>3. CASE Len(line) = 2
    <3>1. word.what # ">" /\ Len(line') = 1 /\ line'[1] = [what |-> ">", of |-> calls]
      BY <1>3, <1>8, <2>3 DEF Prompted
    <3>2. CASE word.what = "ERROR" /\ host' = AfterFailure /\ done' = done
      <4>1. \A i \in 1..Len(line') : i = 1
        BY <3>1
      <4>2. OnePending' /\ PromptSays' /\ ~Holds("text")'
        BY <1>1, <1>2, <1>8, <2>1, <3>1, <4>1 DEF OnePending, PromptSays, Pending, Holds, Prompted
      <4> QED
        BY <1>1, <1>2, <2>1, <3>2, <4>2, FailureMode
    <3>3. CASE host' = host /\ done' = done
      <4>1. Prompted'
        BY <1>1, <1>8, <3>1, <3>3 DEF Prompted, Asks
      <4> QED
        BY <3>3, <4>1 DEF Modes
    <3> QED
      BY <1>5, <2>1, <3>1, <3>2, <3>3
  <2> QED
    BY <1>8, <2>2, <2>3 DEF Prompted
<1>9. CASE Told
  <2>1. step = "text" /\ inbox = <<>> /\ Len(inbox) = 0 /\ Expected(step) = "+CMGS" /\ ~Asks("list") /\ ~Holds("text")
        /\ prompt = 0 /\ ~Holds("send")
    BY <1>4, <1>9 DEF Told, Expected, Holds
  <2>2. CASE line = <<[what |-> "ERROR", of |-> calls]>>
    <3>1. word.what = "ERROR"
      BY <1>3, <2>2
    <3>2. host' = AfterFailure /\ done' = done
      BY <1>5, <2>1, <3>1
    <3>3. line' = <<>> /\ Len(line') = 0
      BY <1>3, <2>2
    <3>4. OnePending' /\ PromptSays' /\ ~Holds("text")'
      <4>1. Pending' = 0 /\ Len(inbox') = 0
        BY <1>1, <2>1, <3>3 DEF Pending
      <4> QED
        BY <3>3, <4>1 DEF OnePending, PromptSays, Holds
    <3> QED
      BY <1>1, <1>2, <2>1, <3>2, <3>4, FailureMode
  <2>3. CASE /\ line = <<[what |-> "+CMGS", of |-> calls], [what |-> "OK", of |-> calls]>>
             /\ [text |-> calls, number |-> calls] \in sent
    <3>1. word = [what |-> "+CMGS", of |-> calls] /\ Len(line') = 1 /\ line'[1] = [what |-> "OK", of |-> calls]
      <4>1. Len(line) = 2 /\ line[1] = [what |-> "+CMGS", of |-> calls] /\ line[2] = [what |-> "OK", of |-> calls]
        BY <2>3
      <4> QED
        BY <1>3, <4>1
    <3>2. /\ done' = [step |-> step, call |-> calls, answer |-> calls]
          /\ host'.pc = "ready" /\ ~Asks("text")'
      BY <1>5, <2>1, <3>1
    <3>3. Between'
      <4>1. inbox' = <<>> /\ Len(inbox') = 0 /\ Pending' = 1
        BY <1>1, <2>1, <3>1 DEF Pending
      <4>2. \A i \in 1..Len(line') : line'[i].of = calls' /\ line'[i].what # ">"
        <5>1. \A i \in 1..Len(line') : i = 1
          BY <3>1
        <5> QED
          BY <1>1, <3>1, <5>1
      <4> QED
        BY <1>1, <2>1, <3>2, <4>1, <4>2 DEF Between, OnePending, PromptSays, Holds
    <3>4. Counts(done')
      BY <2>3, <3>2 DEF Counts
    <3> QED
      BY <3>3, <3>4 DEF Modes
  <2> QED
    BY <1>9, <2>2, <2>3 DEF Told
<1> QED
  BY <1>1, <1>6, <1>7, <1>8, <1>9 DEF Modes, Away, Between, Invited

LEMMA TimeoutMode ==
    ASSUME Typed, Modes, Timeout, Orderly'
    PROVE  Modes'
<1>1. /\ host.pc = "wait" /\ line = <<>> /\ line' = <<>> /\ host' = AfterFailure
      /\ UNCHANGED <<calls, inbox, prompt>>
      /\ troubles' = IF inbox = <<>> THEN troubles ELSE troubles \cup {"late"}
  BY DEF Timeout
<1>2. inbox = <<>>
  BY <1>1 DEF Orderly
<1>3. Len(inbox) = 0 /\ Len(line) = 0 /\ Len(line') = 0
  BY <1>1, <1>2
<1>4. Asks("list") => ~AtStart
  BY StartAsks DEF Asks
<1>5. Asks("list") => prompt = 0
  BY <1>1, <1>2, <1>3, <1>4 DEF Modes, Away, Deaf, Between, Waiting, Prompted, Invited, Told, Asks
<1>6. OnePending' /\ PromptSays' /\ ~Holds("text")' /\ ~Holds("send")'
  BY <1>1, <1>3 DEF OnePending, PromptSays, Pending, Holds
<1>7. host.steps # <<>>
  BY <1>1 DEF Typed, TypeOK
<1> QED
  BY <1>1, <1>5, <1>6, <1>7, FailureMode

LEMMA CloseMode ==
    ASSUME Typed, Modes, Close
    PROVE  Modes'
<1>1. /\ host.pc = "ready" /\ host.steps = <<>> /\ host'.pc = "closed"
      /\ UNCHANGED <<calls, inbox, line, prompt>>
  BY DEF Close, Closed
<1>2. Between
  BY <1>1, StartAsks DEF Modes, Away, Deaf, Waiting, Prompted, Invited, Told, Asks
<1>4. Away'
  BY <1>1, <1>2 DEF Between, Away, OnePending, PromptSays, Holds, Pending
<1> QED
  BY <1>4 DEF Modes

LEMMA ObeyMode ==
    ASSUME Typed, Modes, Obey, Orderly'
    PROVE  Modes'
<1> DEFINE c == Head(inbox)
           Say1(w) == line' = Append(line, [what |-> w, of |-> c.of])
<1>1. /\ host \in HostType(Calls) /\ calls \in Nat
      /\ inbox \in Seq(Command(Calls)) /\ line \in Seq(Word(Calls))
  BY Types DEF Typed
<1>2. /\ inbox # <<>> /\ prompt = 0 /\ c \in Command(Calls) /\ inbox' = Tail(inbox)
      /\ UNCHANGED <<host, calls>>
      /\ \/ c.what = "text"
         \/ prompt' = 0 /\ (Say1("OK") \/ Say1("ERROR"))
         \/ c.what = "send" /\ Say1(">") /\ prompt' = c.of
      /\ c.of \in Calls
  BY <1>1, ObeySays DEF Command, Orderly
<1>3. /\ c = inbox[1] /\ Len(inbox) \in Nat \ {0} /\ Len(inbox') = Len(inbox) - 1
      /\ \A i \in 1..Len(inbox') : i + 1 \in 1..Len(inbox) /\ inbox'[i] = inbox[i + 1]
      /\ Len(inbox) = 1 => inbox' = <<>>
  BY <1>1, <1>2, Shift
<1>4. ASSUME NEW w \in Words, Say1(w)
      PROVE  /\ Len(line) \in Nat /\ Len(line') = Len(line) + 1
             /\ \A i \in 1..Len(line) : line'[i] = line[i]
             /\ line'[Len(line) + 1] = [what |-> w, of |-> c.of]
  <2>1. [what |-> w, of |-> c.of] \in Word(Calls)
    BY <1>2 DEF Word
  <2> HIDE DEF c
  <2> QED
    BY <1>1, <1>4, <2>1, Extend
<1>5. Len(line) \in Nat /\ calls > 0 /\ c.of # 0
  BY <1>1, <1>2, LenProperties DEF Calls
<1> HIDE DEF c, Say1
<1>6. ~Holds("text") => c.what # "text"
  BY <1>3 DEF Holds
<1>7. ~Holds("text") => ~Holds("text")'
  BY <1>2, <1>3 DEF Holds
<1>8. ASSUME OnePending, ~Holds("text")
      PROVE  /\ Len(line) = 0 /\ Len(inbox') = 0 /\ c.of = calls /\ c.what # "text"
             /\ ~Holds("text")' /\ ~Holds("send")' /\ OnePending' /\ PromptSays'
  <2>1. Len(inbox) = 1 /\ Len(line) = 0 /\ Len(inbox') = 0 /\ c.of = calls /\ c.what # "text"
        /\ ~Holds("text")' /\ ~Holds("send")'
    BY <1>2, <1>3, <1>5, <1>6, <1>7, <1>8 DEF OnePending, Pending, Holds
  <2>2. ASSUME NEW w \in Words, Say1(w), (w = ">") <=> (prompt' # 0) PROVE OnePending' /\ PromptSays'
    <3>1. Len(line') = 1 /\ line'[1] = [what |-> w, of |-> calls]
      BY <1>4, <2>1, <2>2
    <3>2. \A i \in 1..Len(line') : line'[i].what = w /\ line'[i].of = calls
      <4>1. \A i \in 1..Len(line') : i = 1
        BY <3>1
      <4> QED
        BY <3>1, <4>1
    <3>3. Pending' = 1
      BY <2>1, <3>1 DEF Pending
    <3> QED
      <4>1. OnePending'
        <5>1. calls' = calls /\ Pending' <= 1
          BY <1>2, <3>3
        <5>2. \A i \in 1..Len(inbox') : inbox'[i].of = calls
          BY <2>1
        <5> QED
          BY <3>2, <5>1, <5>2 DEF OnePending
      <4>2. PromptSays'
        BY <2>2, <3>2 DEF PromptSays
      <4> QED
        BY <4>1, <4>2
  <2>3. OnePending' /\ PromptSays'
    BY <1>2, <1>5, <2>1, <2>2 DEF Words
  <2> QED
    BY <2>1, <2>3
<1>9. CASE Away
  <2>1. Away'
    BY <1>2, <1>8, <1>9 DEF Away
  <2> QED
    BY <2>1 DEF Modes
<1>11. CASE Between
  <2>1. Holds("send") <=> c.what = "send"
    <3>1. Len(inbox) = 1
      BY <1>3, <1>5, <1>11 DEF Between, OnePending, Pending
    <3> QED
      BY <1>3, <3>1 DEF Holds
  <2>2. AtStart' = AtStart /\ ~Asks("text")'
    BY <1>2, <1>11 DEF Between, AtStart, Asks
  <2>3. /\ ~Holds("text")' /\ ~Holds("send")' /\ OnePending' /\ PromptSays' /\ c.what # "text"
    BY <1>8, <1>11 DEF Between
  <2>4. CASE prompt' = 0
    <3>1. Between'
      BY <1>2, <1>11, <2>2, <2>3, <2>4 DEF Between
    <3> QED
      BY <3>1 DEF Modes
  <2>5. CASE prompt' # 0
    <3>1. Deaf'
      BY <1>2, <1>11, <2>1, <2>2, <2>3, <2>5 DEF Between, Deaf
    <3> QED
      BY <3>1 DEF Modes
  <2> QED
    BY <2>4, <2>5
<1>10. CASE Waiting
  <2>1. c.what # "text" /\ ~Asks("text")' /\ AtStart' = AtStart /\ Asks("send")' = Asks("send") /\ ~Holds("text")'
    BY <1>2, <1>6, <1>7, <1>10 DEF Waiting, Asks, AtStart
  <2>2. c.of = (IF 1 = Len(inbox) THEN calls ELSE calls - 1)
        /\ (c.what = "send" => IF AtStart THEN Len(inbox) = 2 ELSE 1 = Len(inbox) /\ Asks("send"))
    BY <1>3, <1>10 DEF Waiting
  <2>3. ASSUME NEW w \in {"OK", "ERROR"}, Say1(w), prompt' = 0 PROVE Modes'
    <3>1. /\ Len(line') = Len(line) + 1 /\ Pending' = Pending /\ Pending' = Len(inbox') + Len(line) + 1
          /\ \A i \in 1..Len(line) : line'[i] = line[i]
          /\ line'[Len(line) + 1] = [what |-> w, of |-> c.of]
      <4>1. /\ Len(line) \in Nat /\ Len(line') = Len(line) + 1
            /\ \A i \in 1..Len(line) : line'[i] = line[i]
            /\ line'[Len(line) + 1] = [what |-> w, of |-> c.of]
        BY <1>4, <2>3 DEF Words
      <4> QED
        BY <1>3, <4>1 DEF Pending
    <3>2. ASSUME NEW i \in 1..Len(inbox')
          PROVE  /\ inbox'[i].of = IF i = Len(inbox') THEN calls' ELSE calls' - 1
                 /\ inbox'[i].what = "send" =>
                      IF AtStart' THEN i = 1 /\ Len(inbox') = 2 ELSE i = Len(inbox') /\ Asks("send")'
      <4>1. i + 1 \in 1..Len(inbox) /\ inbox'[i] = inbox[i + 1]
            /\ (i + 1 = Len(inbox) <=> i = Len(inbox')) /\ i + 1 # 1
        BY <1>3
      <4> QED
        BY <1>2, <1>10, <2>1, <4>1 DEF Waiting
    <3>3. ASSUME NEW i \in 1..Len(line')
          PROVE  /\ line'[i].of = IF i = Pending' THEN calls' ELSE calls' - 1
                 /\ line'[i].what # ">"
      <4>1. CASE i = Len(line) + 1
        <5>1. i = Pending' <=> Len(inbox) = 1
          BY <1>3, <1>5, <3>1, <4>1
        <5>2. line'[i] = [what |-> w, of |-> c.of]
          BY <3>1, <4>1
        <5>3. line'[i].what = w /\ line'[i].of = c.of
          BY <5>2
        <5> QED
          BY <1>2, <2>2, <2>3, <5>1, <5>3
      <4>2. CASE i \in 1..Len(line)
        <5>1. i # Pending' /\ line'[i] = line[i] /\ Pending' = Pending
          BY <1>3, <1>5, <3>1, <4>2
        <5> QED
          BY <1>2, <1>10, <4>2, <5>1 DEF Waiting
      <4> QED
        BY <1>5, <3>1, <4>1, <4>2
    <3>4. Waiting'
      BY <1>2, <1>10, <2>1, <2>3, <3>1, <3>2, <3>3 DEF Waiting
    <3> QED
      BY <3>4 DEF Modes
  <2>4. ASSUME c.what = "send", Say1(">"), prompt' = c.of PROVE Modes'
    <3>1. /\ Len(line') = Len(line) + 1
          /\ \A i \in 1..Len(line) : line'[i] = line[i]
          /\ line'[Len(line) + 1] = [what |-> ">", of |-> c.of]
      BY <1>4, <2>4 DEF Words
    <3>2. CASE AtStart
      <4>1. Len(line) = 0
        BY <1>3, <1>5, <1>10, <2>2, <2>4, <3>2 DEF Waiting, Pending
      <4>2. Deaf'
        BY <1>2, <1>5, <1>10, <2>1, <2>4, <3>1, <3>2, <4>1 DEF Waiting, Deaf, PromptSays
      <4> QED
        BY <4>2 DEF Modes
    <3>3. CASE ~AtStart
      <4>1. Len(inbox) = 1 /\ Asks("send")' /\ c.of = calls /\ inbox' = <<>> /\ Len(line) \in {0, 1}
        BY <1>3, <1>5, <1>10, <2>1, <2>2, <2>4, <3>3 DEF Waiting, Pending
      <4>2. Len(line) = 1 => line'[1].what # ">"
        BY <1>10, <3>1 DEF Waiting
      <4>3. Prompted'
        BY <1>2, <1>5, <1>10, <2>4, <3>1, <4>1, <4>2 DEF Waiting, Prompted
      <4> QED
        BY <4>3 DEF Modes
    <3> QED
      BY <3>2, <3>3
  <2> QED
    BY <1>2, <2>1, <2>3, <2>4
<1> QED
  BY <1>2, <1>9, <1>10, <1>11 DEF Modes, Deaf, Prompted, Invited, Told

LEMMA TakeTextMode ==
    ASSUME Typed, Modes, TakeText
    PROVE  /\ Modes'
           /\ sent \subseteq sent'
           /\ sent' \subseteq sent \cup {[text |-> calls, number |-> calls]}
<1> DEFINE c == Head(inbox)
<1>1. /\ host \in HostType(Calls) /\ calls \in Nat
      /\ inbox \in Seq(Command(Calls)) /\ line \in Seq(Word(Calls))
  BY Types DEF Typed
<1>2. /\ inbox # <<>> /\ prompt # 0 /\ inbox' = Tail(inbox)
      /\ UNCHANGED <<host, calls>>
  BY DEF TakeText
<1>3. /\ c = inbox[1] /\ Len(inbox) \in Nat \ {0} /\ Len(inbox') = Len(inbox) - 1
      /\ \A i \in 1..Len(inbox') : i + 1 \in 1..Len(inbox) /\ inbox'[i] = inbox[i + 1]
      /\ Len(inbox) = 1 => inbox' = <<>>
      /\ c \in Command(Calls) /\ c.of \in Calls
  <2>1. /\ c = inbox[1] /\ Len(inbox) \in Nat \ {0} /\ Len(inbox') = Len(inbox) - 1
        /\ \A i \in 1..Len(inbox') : i + 1 \in 1..Len(inbox) /\ inbox'[i] = inbox[i + 1]
        /\ Len(inbox) = 1 => inbox' = <<>>
        /\ c \in Command(Calls)
    BY <1>1, <1>2, Shift
  <2> HIDE DEF c
  <2>2. c.of \in Calls
    BY <2>1 DEF Command
  <2> QED
    BY <2>1, <2>2
<1>4. \/ c.what # "text" /\ UNCHANGED <<line, prompt, sent>>
      \/ /\ c.what = "text" /\ prompt' = 0
         /\ \/ /\ Say(<<"+CMGS", "OK">>, c.of)
               /\ sent' = sent \cup {[text |-> c.of, number |-> prompt]}
            \/ Say(<<"ERROR">>, c.of) /\ UNCHANGED sent
  BY DEF TakeText
<1> HIDE DEF c
<1>5. ~Holds("text") => c.what # "text" /\ ~Holds("text")'
  BY <1>2, <1>3 DEF Holds
<1>9. ASSUME UNCHANGED <<line, prompt>>
      PROVE  (OnePending => OnePending') /\ PromptSays' = PromptSays
  <2>1. Len(line) \in Nat
    BY <1>1, LenProperties
  <2>2. OnePending => Pending' <= 1 /\ Len(inbox') = 0
    BY <1>3, <1>9, <2>1 DEF OnePending, Pending
  <2> QED
    BY <1>2, <1>9, <2>2 DEF OnePending, PromptSays
<1>6. CASE Away
  <2>1. UNCHANGED <<line, prompt, sent>>
    BY <1>4, <1>5, <1>6 DEF Away
  <2>2. Away'
    BY <1>2, <1>5, <1>6, <1>9, <2>1 DEF Away
  <2> QED
    BY <2>1, <2>2 DEF Modes
<1>7. CASE Deaf
  <2>1. UNCHANGED <<line, prompt, sent>>
    BY <1>4, <1>5, <1>7 DEF Deaf
  <2>2. Deaf'
    BY <1>2, <1>5, <1>7, <1>9, <2>1 DEF Deaf, AtStart
  <2> QED
    BY <2>1, <2>2 DEF Modes
<1>8. CASE Invited
  <2>1. host.pc = "wait" /\ inbox = <<[what |-> "text", of |-> calls]>> /\ line = <<>> /\ prompt = calls
        /\ Asks("text")'
    BY <1>2, <1>8 DEF Invited, Asks
  <2>2. Len(inbox) = 1 /\ inbox[1] = [what |-> "text", of |-> calls]
    BY <2>1
  <2>3. inbox' = <<>> /\ c.what = "text" /\ c.of = calls
    BY <1>3, <2>2
  <2>4. CASE /\ Say(<<"+CMGS", "OK">>, c.of)
             /\ sent' = sent \cup {[text |-> c.of, number |-> prompt]}
    <3>1. line' = <<[what |-> "+CMGS", of |-> calls], [what |-> "OK", of |-> calls]>>
      <4>1. line' = <<[what |-> "+CMGS", of |-> c.of], [what |-> "OK", of |-> c.of]>>
        BY <1>1, <1>3, <2>1, <2>4, SayTwo DEF Words
      <4> QED
        BY <2>3, <4>1
    <3>2. Told'
      BY <1>2, <1>4, <2>1, <2>3, <2>4, <3>1 DEF Told
    <3> QED
      BY <2>1, <2>3, <2>4, <3>2 DEF Modes
  <2>5. CASE Say(<<"ERROR">>, c.of) /\ UNCHANGED sent
    <3>1. line' = <<[what |-> "ERROR", of |-> calls]>>
      <4>1. line' = Append(line, [what |-> "ERROR", of |-> c.of]) /\ [what |-> "ERROR", of |-> c.of] \in Word(Calls)
        BY <1>1, <1>3, <2>5, SayOne DEF Words
      <4>2. Append(line, [what |-> "ERROR", of |-> c.of]) = <<[what |-> "ERROR", of |-> c.of]>>
        BY <1>1, <2>1, <4>1, Extend
      <4> QED
        BY <2>3, <4>1, <4>2
    <3>2. Told'
      BY <1>2, <1>4, <2>1, <2>3, <2>5, <3>1 DEF Told
    <3> QED
      BY <2>5, <3>2 DEF Modes
  <2> QED
    BY <1>4, <2>3, <2>4, <2>5
<1> QED
  BY <1>2, <1>6, <1>7, <1>8 DEF Modes, Between, Waiting, Prompted, Told

(***************************************************************************)
(* The theorems                                                            *)
(***************************************************************************)

LEMMA SessionInit == Init => SessionIInv
<1> SUFFICES ASSUME Init PROVE SessionIInv
  OBVIOUS
<1>1. Typed
  BY TypedInit
<1>2. host.pc = "closed" /\ inbox = <<>> /\ Len(inbox) = 0 /\ line = <<>> /\ Len(line) = 0
  BY DEF Init, Closed
<1>3. Away
  BY <1>2 DEF Away, OnePending, PromptSays, Pending, Holds
<1>4. done = Nothing /\ done.step # "text" /\ sent = {}
  BY DEF Init, Nothing
<1>5. RightNumber /\ ConfirmedIsSent /\ OneBehind
  BY <1>4 DEF RightNumber, ConfirmedIsSent, OneBehind
<1> QED
  BY <1>1, <1>3, <1>5 DEF SessionIInv, Typed

LEMMA SessionStep == SessionIInv /\ [Next]_vars => SessionIInv'
<1> SUFFICES ASSUME SessionIInv, [Next]_vars PROVE SessionIInv'
  OBVIOUS
<1>1. Typed /\ Typed'
  BY TypedStep DEF SessionIInv, Typed
<1>2. SUFFICES ASSUME Orderly' PROVE Modes' /\ RightNumber' /\ ConfirmedIsSent' /\ OneBehind'
  BY <1>1 DEF SessionIInv, Typed, Modes, RightNumber, ConfirmedIsSent, OneBehind
<1>3. Orderly
  <2>1. troubles \subseteq troubles'
    BY DEF Next, Start, Host, HostFails, Modem, Finished, Open, Write, WriteFails, Read, Timeout, BufferFull, Close,
           Obey, TakeText, vars
  <2> QED
    BY <1>2, <2>1 DEF Orderly
<1>4. Modes /\ RightNumber /\ ConfirmedIsSent /\ OneBehind
  BY <1>3 DEF SessionIInv, Modes
<1>5. ASSUME sent' = sent, done' = done
      PROVE  RightNumber' /\ ConfirmedIsSent' /\ OneBehind'
  BY <1>3, <1>4, <1>5 DEF RightNumber, ConfirmedIsSent, OneBehind
<1>6. CASE Start
  <2>1. PICK c \in Commands : Open(c)
    BY <1>6 DEF Start
  <2>2. sent' = sent /\ done' = done
    BY <2>1 DEF Open
  <2> QED
    BY <1>1, <1>4, <1>5, <2>1, <2>2, OpenMode
<1>7. CASE Write
  BY <1>1, <1>4, <1>5, <1>7, WriteMode DEF Write
<1>8. CASE Read
  <2>1. Modes' /\ (done' = done \/ Counts(done')) /\ sent' = sent
    BY <1>1, <1>4, <1>8, ReadMode DEF Read
  <2>2. CASE Counts(done')
    BY <1>3, <1>4, <2>1, <2>2 DEF Counts, RightNumber, ConfirmedIsSent, OneBehind
  <2> QED
    BY <1>5, <2>1, <2>2
<1>9. CASE Timeout
  BY <1>1, <1>2, <1>4, <1>5, <1>9, TimeoutMode DEF Timeout
<1>10. CASE BufferFull
  BY <1>2, <1>10 DEF BufferFull, Orderly
<1>15. CASE WriteFails
  BY <1>1, <1>4, <1>5, <1>15, WriteFailsMode DEF WriteFails
<1>11. CASE Close
  BY <1>1, <1>4, <1>5, <1>11, CloseMode DEF Close
<1>12. CASE Obey
  BY <1>1, <1>2, <1>4, <1>5, <1>12, ObeyMode DEF Obey
<1>13. CASE TakeText
  <2>1. /\ Modes' /\ sent \subseteq sent' /\ done' = done
        /\ sent' \subseteq sent \cup {[text |-> calls, number |-> calls]}
    BY <1>1, <1>4, <1>13, TakeTextMode DEF TakeText
  <2>2. RightNumber' /\ ConfirmedIsSent' /\ OneBehind'
    BY <1>3, <1>4, <2>1 DEF RightNumber, ConfirmedIsSent, OneBehind
  <2> QED
    BY <2>1, <2>2
<1>14. CASE UNCHANGED vars
  <2>1. Modes'
    BY <1>4, <1>14 DEF vars, Modes, Away, Deaf, Between, Waiting, Prompted, Invited, Told,
                      OnePending, PromptSays, Asks, Holds, Pending, AtStart
  <2> QED
    BY <1>5, <1>14, <2>1 DEF vars
<1> QED
  BY <1>6, <1>7, <1>8, <1>9, <1>10, <1>11, <1>12, <1>13, <1>14, <1>15 DEF Next, Host, HostFails, Modem, Finished

\* A session and the modem stand in one of seven ways towards each other, as
\* long as no answer is late, none overflows its buffer and no listing has OK or
\* ERROR in a message: also when errors, failed writes and lines that are not
\* flushed leave a session in the middle.
THEOREM SessionsInStep == Spec => []SessionIInv
<1>1. Init => SessionIInv
  BY SessionInit
<1>2. SessionIInv /\ [Next]_vars => SessionIInv'
  BY SessionStep
<1> QED
  BY <1>1, <1>2, PTL DEF Spec

\* With an orderly modem no session writes its text to a prompt another call
\* opened, whatever the sessions before it left on the line.
THEOREM TextsGoToTheirNumber == Spec => []RightNumber
<1>1. SessionIInv => RightNumber
  BY DEF SessionIInv
<1> QED
  BY <1>1, SessionsInStep, PTL

\* With an orderly modem a send that reported success is sent, and the
\* confirmation the code read was its own.
THEOREM ConfirmedSendsAreSent == Spec => []ConfirmedIsSent
<1>1. SessionIInv => ConfirmedIsSent
  BY DEF SessionIInv
<1> QED
  BY <1>1, SessionsInStep, PTL

\* With an orderly modem what a session reads is at most one call late: the
\* shift that a send starts does not grow in later sends, sessions, errors or
\* failed writes.  A listing that overflows the response or contains a word in a
\* message makes it grow: such a modem is not orderly.
THEOREM AnswersAreOneLate == Spec => []OneBehind
<1>1. SessionIInv => OneBehind
  BY DEF SessionIInv
<1> QED
  BY <1>1, SessionsInStep, PTL
=============================================================================
