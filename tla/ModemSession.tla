---------------------------- MODULE ModemSession ----------------------------
(***************************************************************************)
(* smset: sessions of main.c with a GSM modem over a serial line, through  *)
(* sms_modem.c.  The host writes a command and reads until the word it     *)
(* expects appears, "ERROR" appears, or no byte came for five seconds;     *)
(* what it did not read stays on the line.  The modem answers every        *)
(* command when it gets to it, or takes it for message text when the       *)
(* prompt of AT+CMGS is open.                                              *)
(*                                                                         *)
(* An answer is a sequence of words, each with the call it belongs to.     *)
(* Words the code never looks for (echo, listings, +CMTI) are left out.    *)
(***************************************************************************)
EXTENDS Naturals, Sequences, FiniteSets

CONSTANTS
    Commands,    \* the command lines users run, see Programs
    Loops,       \* bound: passes of the service loop
    MaxSessions, \* bound: how often smset is started
    Faults       \* what may happen, a subset of AllFaults

\* "late": an answer comes after the timeout.  "full": the buffer, 64 bytes for
\* the prompt and 4096 for the rest, fills up before the word.  "error": the
\* modem answers ERROR.  "word": a stored message contains the letters OK or
\* ERROR.  "write": port_write fails.
AllFaults == {"late", "full", "error", "word", "write"}

ASSUME CommandsAssumption ==
    Commands \subseteq {"--send", "--receive", "--self-test", "--service"}
ASSUME FaultsAssumption == Faults \subseteq AllFaults
ASSUME LoopsAssumption == Loops \in Nat /\ MaxSessions \in Nat

VARIABLES
    host,     \* the running session
    calls,    \* how many calls there have been; a call is named by its number
    sessions, \* how many sessions there have been
    inbox,    \* what the host wrote and the modem has not looked at
    line,     \* words on their way to the host
    prompt,   \* the call whose AT+CMGS prompt is open, 0 if none
    sent,     \* outside: messages sent, whose text and to whose number
    done,     \* the last call that returned SMS_MODEM_OK
    troubles  \* history: the "late", "full" and "word" that happened

vars == <<host, calls, sessions, inbox, line, prompt, sent, done, troubles>>

-----------------------------------------------------------------------------
\* The steps of a command line.  sms_modem_init is three commands that expect
\* OK; sms_modem_send is the command that expects ">" and the text.
Initialise == <<"at", "at", "at">>
Mut_SendOnce == <<"send", "text">>
SendOnce == Initialise \o <<"send", "text">>
Receive == Initialise \o <<"list">>
SelfTest == Initialise \o <<"send", "text", "list">>
Service == Initialise \o [i \in 1..Loops |-> "list"]

Programs == [c \in Commands |->
    CASE c = "--send" -> SendOnce
      [] c = "--receive" -> Receive
      [] c = "--self-test" -> SelfTest
      [] c = "--service" -> Service]

Expected(step) ==
    CASE step = "send" -> ">"
      [] step = "text" -> "+CMGS"
      [] OTHER -> "OK"

Closed == [pc |-> "closed", command |-> "", steps |-> <<>>, call |-> 0]
Nothing == [step |-> "", call |-> 0, answer |-> 0]

Init ==
    /\ host = Closed
    /\ calls = 0
    /\ sessions = 0
    /\ inbox = <<>>
    /\ line = <<>>
    /\ prompt = 0
    /\ sent = {}
    /\ done = Nothing
    /\ troubles = {}

-----------------------------------------------------------------------------
(* The host                                                                *)

\* sms_modem_open: what is on the line is flushed on POSIX and stays on Windows.
Open(c) ==
    /\ host.pc = "closed"
    /\ sessions < MaxSessions
    /\ sessions' = sessions + 1
    /\ host' = [Closed EXCEPT !.pc = "ready", !.command = c, !.steps = Programs[c]]
    /\ line' \in {<<>>, line}
    /\ UNCHANGED <<calls, inbox, prompt, sent, done, troubles>>

\* port_write; the text belongs to the call that opened the prompt.
Write ==
    /\ host.pc = "ready"
    /\ host.steps # <<>>
    /\ LET step == Head(host.steps)
           call == IF step = "text" THEN calls ELSE calls + 1 IN
       /\ calls' = call
       /\ host' = [host EXCEPT !.pc = "wait", !.call = call]
       /\ inbox' = Append(inbox, [what |-> step, of |-> call])
    /\ UNCHANGED <<sessions, line, prompt, sent, done, troubles>>

\* A step failed: init, send and the command line give up and close the port;
\* only the loop of the service goes on to the next listing.
AfterFailure ==
    IF host.command = "--service" /\ Head(host.steps) = "list"
    THEN [host EXCEPT !.pc = "ready", !.steps = Tail(@)]
    ELSE Closed

\* The write fails and the modem gets nothing to act on.
WriteFails ==
    /\ "write" \in Faults
    /\ host.pc = "ready"
    /\ host.steps # <<>>
    /\ host' = AfterFailure
    /\ UNCHANGED <<calls, sessions, inbox, line, prompt, sent, done, troubles>>

\* port_read_until consumes the bytes it looked at,
Mut_Unread == line
Unread == Tail(line)

\* and returns SMS_MODEM_OK at the word the step expects.
Mut_Succeeds(word, step) == word.what \in {Expected(step), "ERROR"}
Succeeds(word, step) == word.what = Expected(step)

Read ==
    /\ host.pc = "wait"
    /\ line # <<>>
    /\ line' = Unread
    /\ LET word == Head(line)
           step == Head(host.steps) IN
       \/ /\ Succeeds(word, step)
          /\ done' = [step |-> step, call |-> host.call, answer |-> word.of]
          /\ host' = [host EXCEPT !.pc = "ready", !.steps = Tail(@)]
       \/ /\ word.what = "ERROR"
          /\ host' = AfterFailure
          /\ UNCHANGED done
       \/ /\ word.what \notin {Expected(step), "ERROR"}
          /\ UNCHANGED <<host, done>>
    /\ UNCHANGED <<calls, sessions, inbox, prompt, sent, troubles>>

\* No byte for five seconds: the modem has nothing to say, or is slow.
Mut_Timeout == FALSE /\ UNCHANGED vars
Timeout ==
    /\ host.pc = "wait"
    /\ line = <<>>
    /\ inbox = <<>> \/ "late" \in Faults
    /\ troubles' = IF inbox = <<>> THEN troubles ELSE troubles \cup {"late"}
    /\ host' = AfterFailure
    /\ UNCHANGED <<calls, sessions, inbox, line, prompt, sent, done>>

\* The buffer is full of echo, reports and listings before the word comes; the
\* rest stays on the line.
BufferFull ==
    /\ "full" \in Faults
    /\ host.pc = "wait"
    /\ troubles' = troubles \cup {"full"}
    /\ host' = AfterFailure
    /\ UNCHANGED <<calls, sessions, inbox, line, prompt, sent, done>>

Close ==
    /\ host.pc = "ready"
    /\ host.steps = <<>>
    /\ host' = Closed
    /\ UNCHANGED <<calls, sessions, inbox, line, prompt, sent, done, troubles>>

-----------------------------------------------------------------------------
(* The modem, as sms_modem.c uses it                                       *)

Say(words, call) == line' = line \o [i \in 1..Len(words) |-> [what |-> words[i], of |-> call]]

\* What the modem may answer to a command when no prompt is open.  Message
\* text without a prompt is no command.
Answers(what) ==
    (IF what = "text" THEN {<<>>} ELSE
       {CASE what = "at" -> <<"OK">> [] what = "list" -> <<"OK">> [] what = "send" -> <<">">>})
    \cup (IF what = "list" /\ "word" \in Faults THEN {<<"OK", "OK">>, <<"ERROR", "OK">>} ELSE {})
    \cup (IF "error" \in Faults THEN {<<"ERROR">>} ELSE {})

TroubleOf(answer) == IF Len(answer) = 2 THEN {"word"} ELSE {}

Obey ==
    /\ inbox # <<>>
    /\ prompt = 0
    /\ LET command == Head(inbox) IN
       \E answer \in Answers(command.what) :
           /\ Say(answer, command.of)
           /\ prompt' = IF answer = <<">">> THEN command.of ELSE 0
           /\ troubles' = troubles \cup TroubleOf(answer)
    /\ inbox' = Tail(inbox)
    /\ UNCHANGED <<host, calls, sessions, sent, done>>

\* The prompt is open: anything is text, and only the text of a send ends with
\* the SUB that sends it.
TakeText ==
    /\ inbox # <<>>
    /\ prompt # 0
    /\ LET text == Head(inbox) IN
       IF text.what # "text"
       THEN UNCHANGED <<line, prompt, sent>>
       ELSE /\ prompt' = 0
            /\ \/ /\ Say(<<"+CMGS", "OK">>, text.of)
                  /\ sent' = sent \cup {[text |-> text.of, number |-> prompt]}
               \/ /\ "error" \in Faults
                  /\ Say(<<"ERROR">>, text.of)
                  /\ UNCHANGED sent
    /\ inbox' = Tail(inbox)
    /\ UNCHANGED <<host, calls, sessions, done, troubles>>

-----------------------------------------------------------------------------
Host == Write \/ Read \/ Timeout \/ Close
HostFails == WriteFails \/ BufferFull
Modem == Obey \/ TakeText
Start == \E c \in Commands : Open(c)

\* All sessions were run and the modem is at rest.
Finished ==
    /\ sessions = MaxSessions
    /\ host = Closed
    /\ inbox = <<>>
    /\ UNCHANGED vars

Next == Start \/ Host \/ HostFails \/ Modem \/ Finished

Spec == Init /\ [][Next]_vars

\* The host reads what is there or times out; the modem handles what it got.
FairSpec == Spec /\ WF_vars(Host) /\ WF_vars(Modem)

-----------------------------------------------------------------------------
Calls == 1..calls

Steps == {"at", "list", "send", "text"}

\* The session has had no answer that counts: its program begins with the three
\* commands of sms_modem_init.
AtStart == Len(host.steps) >= 3 /\ host.steps[3] = "at"

\* Every variable has its type; a session waits for the answer to its last
\* call, and nothing names a call that was not made.
TypeOK ==
    /\ host \in [pc : {"closed", "ready", "wait"}, command : Commands \cup {""},
                 steps : Seq(Steps), call : {0} \cup Calls]
    /\ calls \in Nat /\ sessions \in Nat
    /\ host.pc = "wait" => host.steps # <<>> /\ host.call = calls
    /\ host.pc = "wait" \/ (host.pc = "ready" /\ ~AtStart) => calls > 0
    /\ inbox \in Seq([what : Steps, of : Calls])
    /\ line \in Seq([what : {"OK", "ERROR", ">", "+CMGS"}, of : Calls])
    /\ prompt \in {0} \cup Calls
    /\ sent \subseteq [text : Calls, number : Calls]
    /\ done \in [step : Steps \cup {""}, call : {0} \cup Calls, answer : {0} \cup Calls]
    /\ troubles \subseteq Faults \cap {"late", "full", "word"}

\* Every answer came within the five seconds and fitted the buffer it was read
\* into, and no stored message ended the listing that contained it.
Orderly == troubles = {}

\* With an orderly modem a text goes to the number it was written for, whatever
\* errors and stray OKs shifted the answers by: no session writes text to a
\* prompt another call opened (sms_modem_init insists on an OK, 225-248).
RightNumber == Orderly => \A s \in sent : s.text = s.number

\* With an orderly modem a send that returned SMS_MODEM_OK was confirmed by its
\* own +CMGS and is sent (lines 265-290).
ConfirmedIsSent ==
    Orderly /\ done.step = "text" =>
        /\ done.answer = done.call
        /\ [text |-> done.call, number |-> done.call] \in sent

\* With an orderly modem the code reads the answer to the call it made or to
\* the one before: what a send leaves unread shifts the answers by one, and
\* neither later sends nor later sessions nor errors nor failed writes add to
\* the shift (lines 73, 158, 287).
OneBehind ==
    Orderly /\ done # Nothing => done.answer \in {done.call - 1, done.call}

-----------------------------------------------------------------------------
(* The inductive invariant of ModemSessionProofs                           *)

\* The commands of sms_modem_init come first, and a text after its send.
ProgramShape(steps) ==
    \A i \in 1..Len(steps) :
        /\ steps[i] = "at" => i <= 3 /\ (i > 1 => steps[i - 1] = "at")
        /\ steps[i] = "text" /\ i > 1 => steps[i - 1] = "send"
        /\ steps[i] = "send" => i < Len(steps) /\ steps[i + 1] = "text"

Asks(step) == host.steps # <<>> /\ Head(host.steps) = step
Holds(what) == \E i \in 1..Len(inbox) : inbox[i].what = what
Pending == Len(inbox) + Len(line)

\* At most one thing is pending, and it is of the last call.
OnePending ==
    /\ Pending <= 1
    /\ \A i \in 1..Len(inbox) : inbox[i].of = calls
    /\ \A i \in 1..Len(line) : line[i].of = calls

\* A ">" is on the line when the prompt it announces is open.
PromptSays == \A i \in 1..Len(line) : line[i].what = ">" <=> prompt # 0

\* No session: of the last one there is one thing left, at most.
Away ==
    /\ host.pc = "closed"
    /\ OnePending /\ PromptSays /\ ~Holds("text")

\* An earlier session left a prompt open: the modem takes the new session's
\* commands for text, and the session will time out.
Deaf ==
    /\ host.pc \in {"ready", "wait"}
    /\ prompt # 0 /\ AtStart
    /\ ~Holds("text") /\ PromptSays
    /\ host.pc = "ready" => OnePending

\* The session is between two steps: of its last call, or of the one before the
\* session, something is pending, at most one thing.
Between ==
    /\ host.pc = "ready" /\ prompt = 0 /\ ~Asks("text")
    /\ OnePending /\ PromptSays /\ ~Holds("text")
    /\ Holds("send") => AtStart

\* It waits for an answer: the last pending thing is of its call, and at most
\* one of the call before comes ahead of it.
Waiting ==
    /\ host.pc = "wait" /\ prompt = 0 /\ ~Asks("text")
    /\ Pending <= 2 /\ ~Holds("text")
    /\ \A i \in 1..Len(inbox) :
          /\ inbox[i].of = IF i = Len(inbox) THEN calls ELSE calls - 1
          /\ inbox[i].what = "send" =>
                IF AtStart THEN i = 1 /\ Len(inbox) = 2 ELSE i = Len(inbox) /\ Asks("send")
    /\ \A i \in 1..Len(line) :
          /\ line[i].of = IF i = Pending THEN calls ELSE calls - 1
          /\ line[i].what # ">"

\* The modem has opened the prompt for the session's own call, and nothing
\* comes after it.
Prompted ==
    /\ host.pc = "wait" /\ Asks("send") /\ prompt = calls /\ prompt # 0
    /\ inbox = <<>>
    /\ Len(line) \in {1, 2}
    /\ line[Len(line)] = [what |-> ">", of |-> calls]
    /\ Len(line) = 2 => line[1].what # ">"

\* The session has read the prompt, and then written the text.
Invited ==
    /\ Asks("text") /\ prompt = calls /\ prompt # 0
    /\ line = <<>>
    /\ \/ host.pc = "ready" /\ inbox = <<>>
       \/ host.pc = "wait" /\ inbox = <<[what |-> "text", of |-> calls]>>

\* The modem has taken the text.
Told ==
    /\ host.pc = "wait" /\ Asks("text") /\ prompt = 0
    /\ inbox = <<>>
    /\ \/ line = <<[what |-> "ERROR", of |-> calls]>>
       \/ /\ line = <<[what |-> "+CMGS", of |-> calls], [what |-> "OK", of |-> calls]>>
          /\ [text |-> calls, number |-> calls] \in sent

SessionIInv ==
    /\ TypeOK /\ ProgramShape(host.steps)
    /\ Orderly => Away \/ Deaf \/ Between \/ Waiting \/ Prompted \/ Invited \/ Told
    /\ RightNumber /\ ConfirmedIsSent /\ OneBehind

\* Every session comes to an end, whatever the modem does (lines 76-93).
SessionsEnd == (host.pc # "closed") ~> (host.pc = "closed")

-----------------------------------------------------------------------------
\* sms_modem.h:55, "`phone` - destination number": a text that is sent goes to
\* the number of its own call, also when the modem is slow.
TextGoesToPhone == \A s \in sent : s.text = s.number
=============================================================================
