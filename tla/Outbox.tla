------------------------------- MODULE Outbox -------------------------------
(***************************************************************************)
(* The table decoded_sms as a queue: dispatch_decoded_sms appends rows     *)
(* with send_status 0, WeChatAsyncPushThreadProc scans the unsent ones,    *)
(* posts each to the WeChat gateway (send_wechat_message) and sets         *)
(* send_status to 1.                                                       *)
(*                                                                         *)
(* The gateway is outside the process: it may take a message while its     *)
(* answer is lost, late (5 s) or not the one the code looks for.           *)
(***************************************************************************)
EXTENDS Naturals, FiniteSets

CONSTANTS
    BatchSize,  \* the LIMIT of the scan, 50 in the code
    MaxRows,    \* bound: rows inserted
    MaxMishaps, \* bound: deliveries of one row that leave no record
    Faults      \* what may happen besides a refusing gateway, in AllFaults

AllFaults == {"crash", "stop", "answerlost", "updatefails"}

ASSUME BatchAssumption == BatchSize \in Nat \ {0}
ASSUME BoundsAssumption ==
    MaxRows \in Nat /\ MaxMishaps \in Nat /\ Faults \subseteq AllFaults

VARIABLES
    rows,      \* how many rows decoded_sms has; their ids are 1..rows
    sent,      \* ids with send_status 1
    batch,     \* rows of the result set the thread has yet to fetch
    current,   \* the row whose UPDATE is due, 0 if none
    pc,        \* where the push thread stands
    stop,      \* g_hStopEvent: "clear", "set", or "closed" by ServiceMain
    delivered, \* outside: how often each row reached its chatroom
    mishaps    \* outside: how often a delivery of each row left no record

vars == <<rows, sent, batch, current, pc, stop, delivered, mishaps>>

Ids == 1..rows
Unsent == Ids \ sent

\* SELECT ... WHERE send_status = 0 ORDER BY id ASC LIMIT 50
Mut_Scanned == Ids
MutCursor_Scanned == {i \in Unsent : \A j \in sent : j < i}
Scanned == {i \in Unsent : Cardinality({j \in Unsent : j <= i}) <= BatchSize}

\* mysql_fetch_row hands the rows of the result out in the order of the ids.
Mut_IsNext(i) == i \in batch
IsNext(i) == i \in batch /\ \A j \in batch : i <= j

Bump(count, i) == [count EXCEPT ![i] = @ + 1]

Init ==
    /\ rows = 0
    /\ sent = {}
    /\ batch = {}
    /\ current = 0
    /\ pc = "loop"
    /\ stop = "clear"
    /\ delivered = [i \in Ids |-> 0]
    /\ mishaps = [i \in Ids |-> 0]

-----------------------------------------------------------------------------
\* dispatch_decoded_sms, on the receive thread: INSERT with send_status 0.  That
\* thread has left its loop when ServiceMain closes the event.
Insert ==
    /\ pc # "down"
    /\ stop # "closed"
    /\ rows < MaxRows
    /\ rows' = rows + 1
    /\ delivered' = [i \in 1..(rows + 1) |-> IF i = rows + 1 THEN 0 ELSE delivered[i]]
    /\ mishaps' = [i \in 1..(rows + 1) |-> IF i = rows + 1 THEN 0 ELSE mishaps[i]]
    /\ UNCHANGED <<sent, batch, current, pc, stop>>

\* The stop event is looked at once per pass, at the top of the loop.  A wait
\* for the closed handle fails, which is no stop, or finds what else was given
\* the handle since then.
ObserveStop ==
    /\ pc = "loop"
    /\ stop \in {"set", "closed"}
    /\ pc' = "exited"
    /\ UNCHANGED <<rows, sent, batch, current, stop, delivered, mishaps>>

\* A connection of its own for every pass; without one the thread sleeps and
\* is back at the top of the loop, which changes nothing.
Mut_Connect ==
    /\ pc = "loop"
    /\ pc' = "scan"
    /\ UNCHANGED <<rows, sent, batch, current, stop, delivered, mishaps>>
Connect ==
    /\ pc = "loop"
    /\ stop \in {"clear", "closed"}
    /\ pc' = "scan"
    /\ UNCHANGED <<rows, sent, batch, current, stop, delivered, mishaps>>

Scan ==
    /\ pc = "scan"
    /\ batch' = Scanned
    /\ pc' = "send"
    /\ UNCHANGED <<rows, sent, current, stop, delivered, mishaps>>

\* The SELECT fails: logged, next pass.
ScanFails ==
    /\ pc = "scan"
    /\ pc' = "loop"
    /\ UNCHANGED <<rows, sent, batch, current, stop, delivered, mishaps>>

\* HTTP 2xx with "msg":"success": send_wechat_message returns 0.
SendAccepted(i) ==
    /\ pc = "send"
    /\ IsNext(i)
    /\ delivered' = Bump(delivered, i)
    /\ batch' = batch \ {i}
    /\ current' = i
    /\ pc' = "mark"
    /\ UNCHANGED <<rows, sent, stop, mishaps>>

\* The gateway does not take the message: the pass is over (break).
Mut_SendRefused(i) ==
    /\ pc = "send"
    /\ IsNext(i)
    /\ batch' = batch \ {i}
    /\ UNCHANGED <<rows, sent, current, pc, stop, delivered, mishaps>>
SendRefused(i) ==
    /\ pc = "send"
    /\ IsNext(i)
    /\ batch' = {}
    /\ pc' = "loop"
    /\ UNCHANGED <<rows, sent, current, stop, delivered, mishaps>>

\* It takes the message and the answer is a timeout, an error status or a body
\* without the success mark: for the code the same as a refusal.
SendAnswerLost(i) ==
    /\ "answerlost" \in Faults
    /\ pc = "send"
    /\ IsNext(i)
    /\ mishaps[i] < MaxMishaps
    /\ delivered' = Bump(delivered, i)
    /\ mishaps' = Bump(mishaps, i)
    /\ batch' = {}
    /\ pc' = "loop"
    /\ UNCHANGED <<rows, sent, current, stop>>

\* UPDATE decoded_sms SET send_status=1; its result is not looked at.
Mut_Mark ==
    /\ pc = "mark"
    /\ sent' = sent \cup {current} \cup batch
    /\ current' = 0
    /\ pc' = "send"
    /\ UNCHANGED <<rows, batch, stop, delivered, mishaps>>
Mark ==
    /\ pc = "mark"
    /\ sent' = sent \cup {current}
    /\ current' = 0
    /\ pc' = "send"
    /\ UNCHANGED <<rows, batch, stop, delivered, mishaps>>

MarkFails ==
    /\ "updatefails" \in Faults
    /\ pc = "mark"
    /\ mishaps[current] < MaxMishaps
    /\ mishaps' = Bump(mishaps, current)
    /\ current' = 0
    /\ pc' = "send"
    /\ UNCHANGED <<rows, sent, batch, stop, delivered>>

\* Result set exhausted: close the connection, sleep 3 s.
EndBatch ==
    /\ pc = "send"
    /\ batch = {}
    /\ pc' = "loop"
    /\ UNCHANGED <<rows, sent, batch, current, stop, delivered, mishaps>>

-----------------------------------------------------------------------------
\* ServiceHandlerEx on SERVICE_CONTROL_STOP.
Stop ==
    /\ "stop" \in Faults
    /\ pc # "down"
    /\ stop = "clear"
    /\ stop' = "set"
    /\ UNCHANGED <<rows, sent, batch, current, pc, delivered, mishaps>>

\* ServiceWorkLoop ended, for the stop or because the modem was not set up, and
\* ServiceMain closes the event.  It does not wait for the push thread.
CloseEvent ==
    /\ "stop" \in Faults
    /\ pc # "down"
    /\ stop # "closed"
    /\ stop' = "closed"
    /\ UNCHANGED <<rows, sent, batch, current, pc, delivered, mishaps>>

\* What the process delivered and had not recorded when it ends is a mishap.
Vanish ==
    /\ pc # "down"
    /\ current # 0 => mishaps[current] < MaxMishaps
    /\ mishaps' = IF current = 0 THEN mishaps ELSE Bump(mishaps, current)
    /\ pc' = "down"
    /\ batch' = {}
    /\ current' = 0
    /\ UNCHANGED <<rows, sent, stop, delivered>>

\* ServiceMain returned: so does the dispatcher main called, and the detached
\* thread ends wherever it stands.
EndProcess == stop = "closed" /\ Vanish

Crash == "crash" \in Faults /\ Vanish

Restart ==
    /\ pc \in {"down", "exited"}
    /\ pc' = "loop"
    /\ stop' = "clear"
    /\ UNCHANGED <<rows, sent, batch, current, delivered, mishaps>>

-----------------------------------------------------------------------------
Accepted == \E i \in Ids : SendAccepted(i)
Failed == \E i \in Ids : SendRefused(i) \/ SendAnswerLost(i)

Next ==
    \/ Insert
    \/ ObserveStop \/ Connect \/ Scan \/ ScanFails
    \/ Accepted \/ Failed \/ Mark \/ MarkFails \/ EndBatch
    \/ Stop \/ CloseEvent \/ EndProcess \/ Crash \/ Restart

Spec == Init /\ [][Next]_vars

\* The thread never blocks for good: connecting, scanning and sending return
\* within their timeouts one way or the other.
ThreadFairness ==
    /\ WF_vars(ObserveStop \/ Connect)
    /\ WF_vars(Scan \/ ScanFails)
    /\ WF_vars(Accepted \/ Failed \/ EndBatch)
    /\ WF_vars(Mark \/ MarkFails)

\* A process whose ServiceMain returned ends, and a dead or stopped one is
\* started again.  Nothing is assumed of when ServiceMain returns.
FairSpec == Spec /\ ThreadFairness /\ WF_vars(EndProcess) /\ WF_vars(Restart)

\* The world treats the thread well: the process stays up in the end, and a
\* database and a gateway that are asked again and again answer in the end.
WorldIsKind ==
    /\ <>[](pc \notin {"exited", "down"})
    /\ SF_vars(Scan) /\ SF_vars(Accepted) /\ SF_vars(Mark)

-----------------------------------------------------------------------------
\* Every variable has its type.
TypeOK ==
    /\ rows \in 0..MaxRows
    /\ sent \subseteq Ids
    /\ batch \subseteq Ids
    /\ current \in {0} \cup Ids
    /\ pc \in {"loop", "scan", "send", "mark", "exited", "down"}
    /\ stop \in {"clear", "set", "closed"}
    /\ delivered \in [Ids -> Nat]
    /\ mishaps \in [Ids -> 0..MaxMishaps]

\* A row reaches its chatroom once, and once more for every delivery whose
\* record was lost (answer, UPDATE or process): duplicates have a cause, and
\* a recorded row was delivered (lines 864, 877-881).
DuplicatesHaveACause ==
    \A i \in Ids : delivered[i] = mishaps[i] + (IF i \in sent \/ i = current THEN 1 ELSE 0)

\* A row is never delivered while an older one still waits for its first
\* delivery: ORDER BY id and the break on failure (lines 864, 884).
NoOvertaking ==
    \A i, j \in Ids : j < i /\ delivered[i] > 0 => delivered[j] > 0

\* Where the thread stands and what it holds.  The rows before any row of the
\* batch are recorded, delivered, or earlier in the batch.
Holds ==
    /\ pc = "mark" <=> current # 0
    /\ pc \notin {"send", "mark"} => batch = {}
    /\ batch \cap sent = {}
    /\ current # 0 => current \notin sent \cup batch
    /\ \A i \in batch : \A j \in 1..(i - 1) : j \in batch \/ delivered[j] > 0

\* The inductive invariant of OutboxProofs.
IInv == TypeOK /\ Holds /\ DuplicatesHaveACause /\ NoOvertaking

\* The push thread keeps the promise of OrderedDelivery: a send is a delivery, the
\* UPDATE an acknowledgement (lines 864-884).
Promise == INSTANCE OrderedDelivery WITH acked <- sent
Implements == Promise!ASpec

\* In a kind world every row is recorded, whatever happened before: no row
\* is forgotten by a crash, a stop or a pass that broke off (lines 864-900).
EveryRowIsSent == WorldIsKind => \A i \in 1..MaxRows : (i \in Ids) ~> (i \in sent)

\* A thread told to stop does, whatever the gateway answers: it sees the event
\* at the end of its pass, or ServiceMain closed the event first and the thread
\* goes down with the process (lines 852, 884, 1730).
StopIsObeyed == (stop = "set") ~> (pc \in {"exited", "down"})
=============================================================================
