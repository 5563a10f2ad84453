----------------------------- MODULE UrcReader ------------------------------
(***************************************************************************)
(* The way of an incoming message from the serial line to raw_sms in       *)
(* sms2wechat-v7.c.  The modem writes a report, "+CMT:..." and the PDU on  *)
(* a line each; the main loop of ServiceWorkLoop reads whatever is there   *)
(* (SerialCollectUntilQuiet) and gives it to ParsePduSmsResponse, which    *)
(* keeps the bytes of an unfinished line for the next call.  After a       *)
(* minute without a report the loop asks the modem three questions and     *)
(* throws away what it reads while it waits for the answers.               *)
(*                                                                         *)
(* The line carries tokens, pieces of text that the reader tells apart;    *)
(* a chunk may end between any two of them, inside "+CMT:", a PDU or a     *)
(* line end.  What becomes of a stored line is in Reassembly.              *)
(***************************************************************************)
EXTENDS Naturals, Sequences, FiniteSets, SequencesExt

CONSTANTS
    MaxReports, \* bound: messages that arrive
    MaxChecks,  \* bound: self-checks
    MaxNoise,   \* bound: other things the modem says
    Cap         \* sizeof(streamBuf), 128 KiB in the code

ASSUME BoundsAssumption == {MaxReports, MaxChecks, MaxNoise} \subseteq Nat
ASSUME CapAssumption == Cap \in Nat \ {0, 1}

VARIABLES
    wire,    \* the driver's queue and what is under way to it
    reports, \* how many reports the modem has sent; they are numbered
    noise,   \* how often it said something else
    buf,     \* streamBuf
    live,    \* isLiveCmtReport
    stored,  \* the lines inserted into raw_sms
    due,     \* 60 s have passed since the last "+CMT:" and the last check
    pc,      \* the main loop, or the question a self-check waits for
    checks,  \* how many self-checks there have been
    plain,   \* history: what a reader of single tokens made of the same bytes
    full,    \* history: streamBuf overflowed
    dropped  \* history: reports of which a token was thrown away

vars == <<wire, reports, noise, buf, live, stored, due, pc, checks, plain, full, dropped>>

-----------------------------------------------------------------------------
\* "+C" "MT:..." and the two halves of a PDU; a long line without meaning (an
\* answer, an echo); OK; +CIEV:.
Pieces == {"CR", "LF", "+C", "MT:", "pdu1", "pdu2", "long", "OK", "+CIEV:"}
Text(pieces, n) == [i \in 1..Len(pieces) |-> [text |-> pieces[i], of |-> n]]

Pdu(n) == Text(<<"pdu1", "pdu2">>, n)
Report(n) == Text(<<"CR", "LF", "+C", "MT:", "CR", "LF">>, n) \o Pdu(n) \o Text(<<"CR", "LF">>, n)
\* The line of an answer; the OK after it is passed over wherever it ends up and
\* is left to Noises.
Answer == Text(<<"long", "CR", "LF">>, 0)
Noises == {Text(<<"+CIEV:", "CR", "LF">>, 0), Text(<<"OK", "CR", "LF">>, 0), Text(<<"long">>, 0)}

\* strstr
Has(s, piece) == \E i \in 1..Len(s) : s[i].text = piece
HasCmt(s) == \E i \in 1..(Len(s) - 1) : s[i].text = "+C" /\ s[i + 1].text = "MT:"

\* More than ten characters.
IsLong(s) == \E i \in 1..Len(s) : s[i].text \in {"pdu1", "pdu2", "long"}

OfReports(s) == {s[i].of : i \in 1..Len(s)} \ {0}

-----------------------------------------------------------------------------
(* ParsePduSmsResponse                                                     *)

\* What a line does to isLiveCmtReport and raw_sms.
Mut_TakeLine(state, s) ==
    CASE Has(s, "+CIEV:") -> state
      [] HasCmt(s) /\ ~Has(s, "+CIEV:") -> [live |-> TRUE, stored |-> state.stored]
      [] state.live /\ IsLong(s) /\ ~Has(s, "OK") /\ ~HasCmt(s) /\ ~Has(s, "+CIEV:") ->
            [state EXCEPT !.stored = Append(@, s)]
      [] OTHER -> state
TakeLine(state, s) ==
    CASE Has(s, "+CIEV:") -> state
      [] HasCmt(s) /\ ~Has(s, "+CIEV:") -> [live |-> TRUE, stored |-> state.stored]
      [] state.live /\ IsLong(s) /\ ~Has(s, "OK") /\ ~HasCmt(s) /\ ~Has(s, "+CIEV:") ->
            [live |-> FALSE, stored |-> Append(state.stored, s)]
      [] OTHER -> state

\* The same reader without buffer and chunks: it takes one token at a time.
TakeToken(state, t) ==
    IF t.text = "LF" /\ state.line # <<>> /\ Last(state.line).text = "CR"
    THEN LET after == TakeLine([live |-> state.live, stored |-> state.stored], Front(state.line))
         IN [live |-> after.live, stored |-> after.stored, line |-> <<>>]
    ELSE [state EXCEPT !.line = Append(@, t)]
TakeTokens(state, tokens) ==
    LET after[i \in 0..Len(tokens)] == IF i = 0 THEN state ELSE TakeToken(after[i - 1], tokens[i])
    IN after[Len(tokens)]
NothingRead == [live |-> FALSE, stored |-> <<>>, line |-> <<>>]

\* The places of "\r\n" in the buffer, from left to right.
Ends(s) ==
    LET ends == {i \in 1..(Len(s) - 1) : s[i].text = "CR" /\ s[i + 1].text = "LF"} IN
    [n \in 1..Cardinality(ends) |-> CHOOSE i \in ends : Cardinality({j \in ends : j <= i}) = n]

LinesOf(s) ==
    LET ends == Ends(s) IN
    [i \in 1..Len(ends) |-> SubSeq(s, IF i = 1 THEN 1 ELSE ends[i - 1] + 2, ends[i] - 1)]

TakeLines(state, lines) ==
    LET after[i \in 0..Len(lines)] == IF i = 0 THEN state ELSE TakeLine(after[i - 1], lines[i])
    IN after[Len(lines)]

\* What stays in the buffer after the last end.
MutOff_Remainder(s) == IF Ends(s) = <<>> THEN s ELSE SubSeq(s, Last(Ends(s)) + 1, Len(s))
MutNone_Remainder(s) == <<>>
Remainder(s) == IF Ends(s) = <<>> THEN s ELSE SubSeq(s, Last(Ends(s)) + 2, Len(s))

\* A chunk goes behind what is in streamBuf; what does not fit pushes the
\* oldest bytes out.
Joined(chunk) ==
    LET all == buf \o chunk IN
    IF Len(all) < Cap THEN all ELSE SubSeq(all, Len(all) - Cap + 2, Len(all))
Pushed(chunk) == SubSeq(buf \o chunk, 1, Len(buf \o chunk) - Len(Joined(chunk)))

Init ==
    /\ wire = <<>>
    /\ reports = 0
    /\ noise = 0
    /\ buf = <<>>
    /\ live = FALSE
    /\ stored = <<>>
    /\ due = FALSE
    /\ pc = "loop"
    /\ checks = 0
    /\ plain = NothingRead
    /\ full = FALSE
    /\ dropped = {}

-----------------------------------------------------------------------------
(* The modem                                                               *)

SendReport ==
    /\ reports < MaxReports
    /\ reports' = reports + 1
    /\ wire' = wire \o Report(reports + 1)
    /\ UNCHANGED <<noise, buf, live, stored, due, pc, checks, plain, full, dropped>>

SendNoise ==
    /\ noise < MaxNoise
    /\ noise' = noise + 1
    /\ \E words \in Noises : wire' = wire \o words
    /\ UNCHANGED <<reports, buf, live, stored, due, pc, checks, plain, full, dropped>>

-----------------------------------------------------------------------------
(* The main loop                                                           *)

\* SerialCollectUntilQuiet returns some of what arrived, and the parser works
\* through every line that is complete.
Collect(k) ==
    /\ pc = "loop"
    /\ k \in 1..Len(wire) /\ k < Cap
    /\ LET chunk == SubSeq(wire, 1, k)
           text == Joined(chunk)
           after == TakeLines([live |-> live, stored |-> stored], LinesOf(text))
       IN /\ live' = after.live
          /\ stored' = after.stored
          /\ buf' = Remainder(text)
          /\ plain' = TakeTokens(plain, chunk)
          /\ full' = (full \/ text # buf \o chunk)
          /\ dropped' = dropped \cup OfReports(Pushed(chunk))
          /\ due' = (due /\ ~HasCmt(chunk))
    /\ wire' = SubSeq(wire, k + 1, Len(wire))
    /\ UNCHANGED <<reports, noise, pc, checks>>

\* A minute passes.  It may pass with bytes in the queue: the statements of the
\* parser and of the dispatch run on this thread and may take as long.
Tick ==
    /\ pc = "loop"
    /\ due' = TRUE
    /\ UNCHANGED <<wire, reports, noise, buf, live, stored, pc, checks, plain, full, dropped>>

\* The self-check asks AT+CPMS?, then AT+CNMI?, then sets AT+CNMI; an answer
\* that is late stays on the wire.
StartCheck ==
    /\ pc = "loop"
    /\ due
    /\ checks < MaxChecks
    /\ checks' = checks + 1
    /\ wire' = wire \o Answer
    /\ pc' = "cpms"
    /\ UNCHANGED <<reports, noise, buf, live, stored, due, plain, full, dropped>>

\* What arrived is written to the log, and the next question is asked.
Skip(k) ==
    /\ pc # "loop"
    /\ k \in 0..Len(wire)
    /\ dropped' = dropped \cup OfReports(SubSeq(wire, 1, k))
    /\ LET rest == SubSeq(wire, k + 1, Len(wire)) IN
       IF pc = "set"
       THEN pc' = "loop" /\ due' = FALSE /\ wire' = rest
       ELSE /\ pc' = IF pc = "cpms" THEN "cnmi" ELSE "set"
            /\ wire' = rest \o Answer
            /\ UNCHANGED due
    /\ UNCHANGED <<reports, noise, buf, live, stored, checks, plain, full>>

-----------------------------------------------------------------------------
Modem == SendReport \/ SendNoise
Read == \E k \in 1..Len(wire) : Collect(k)
Check == StartCheck \/ \E k \in 0..Len(wire) : Skip(k)

Next == Modem \/ Read \/ Tick \/ Check

Spec == Init /\ [][Next]_vars

-----------------------------------------------------------------------------
Sent == 1..reports

\* Every variable has its type; no complete line stays in the buffer.
TypeOK ==
    /\ wire \in Seq([text : Pieces, of : {0} \cup Sent])
    /\ buf \in Seq([text : Pieces, of : {0} \cup Sent]) /\ Len(buf) < Cap
    /\ Ends(buf) = <<>>
    /\ live \in BOOLEAN /\ due \in BOOLEAN
    /\ pc \in {"loop", "cpms", "cnmi", "set"}
    /\ dropped \subseteq Sent

\* How the bytes were cut into chunks makes no difference: the buffer, the flag
\* and the lines stored are those of a reader of single tokens, as long as the
\* buffer never overflowed (lines 1392-1486).
ChunksDoNotMatter == ~full => plain = [live |-> live, stored |-> stored, line |-> buf]

PlacesOf(n) == {i \in 1..Len(stored) : stored[i] = Pdu(n)}

\* A report that was read is stored once, after the earlier ones, unless a
\* self-check or an overflow took some of its bytes: losing one never costs
\* another (lines 1413-1466, 1626-1655).
OnlyTouchedAreLost ==
    \A n \in Sent :
        n \notin OfReports(wire) \cup OfReports(buf) \cup dropped =>
            /\ Cardinality(PlacesOf(n)) = 1
            /\ \A m \in 1..(n - 1) : \A i \in PlacesOf(m) : \A j \in PlacesOf(n) : i < j

\* A line that is stored and is no PDU, or only a part of one, is the trace of
\* a report that was cut: every other line is passed over.
GhostsAreTraces ==
    (\E i \in 1..Len(stored) : \A n \in Sent : stored[i] # Pdu(n)) => dropped # {}
=============================================================================
