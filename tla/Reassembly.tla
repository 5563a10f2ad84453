----------------------------- MODULE Reassembly -----------------------------
(***************************************************************************)
(* The receive path of sms2wechat-v7.c, from the PDU line that follows a   *)
(* +CMT report to the rows of decoded_sms: ParsePduSmsResponse stores the  *)
(* line in raw_sms, handle_sms_frame gathers the parts of a concatenated   *)
(* SMS in a slot of pending_queue_head, run_garbage_collection flushes the *)
(* slots that waited too long, dispatch_decoded_sms inserts one row per    *)
(* target chatroom.                                                        *)
(*                                                                         *)
(* All of it runs on one thread.  The steps below are the pieces of that   *)
(* thread between two statements sent to the database, so that a crash may *)
(* fall between any two of them.  Any statement may fail by itself; a lost *)
(* connection, which nothing here opens again, is a run of such failures.  *)
(*                                                                         *)
(* A text is the sequence of raw_sms ids whose parts were concatenated:    *)
(* what a message says is abstracted, which parts it was made of is not.   *)
(***************************************************************************)
EXTENDS Integers, Sequences, FiniteSets

CONSTANTS
    Msgs,          \* messages people send to the gateway
    Concat,        \* those sent in several parts (a UDH with IEI 0 or 8)
    Malformed,     \* those whose PDU parse_raw_pdu rejects
    Undecodable,   \* those whose user data the decoders reject
    Keys,          \* (sender, ref_num) pairs
    KeyOf,         \* the pair a concatenated message carries
    TotalOf,       \* the number of parts a concatenated message announces
    PartNumbers,   \* the numbers its parts carry
    Groups,        \* chatroom wxids, the fallback one included
    MaxWxid,       \* MAX_WXID, the longest list of targets
    SegmentTimeout,\* g_cfg.segment_timeout_sec, in ticks
    MaxCopies,     \* bound: how often the network delivers each part of a message
    Faults,        \* the faults that may happen, a subset of AllFaults
    NoKey          \* stands for "no slot"

AllFaults == {"crash", "refused"}

ASSUME MsgsAssumption ==
    /\ Concat \subseteq Msgs
    /\ Malformed \subseteq Msgs
    /\ Undecodable \subseteq Msgs
ASSUME ConcatAssumption ==
    /\ KeyOf \in [Concat -> Keys]
    /\ TotalOf \in [Concat -> Nat \ {0}]
    /\ PartNumbers \in [Concat -> SUBSET Nat]
    /\ \A m \in Concat : PartNumbers[m] \subseteq 0..TotalOf[m]
ASSUME BoundsAssumption ==
    /\ SegmentTimeout \in Nat
    /\ MaxCopies \in [Msgs -> Nat]
    /\ MaxWxid \in Nat \ {0}
    /\ Faults \subseteq AllFaults
ASSUME NoKeyAssumption == NoKey \notin Keys

VARIABLES
    raw,      \* table raw_sms: a row per stored line, its id is its place
    decoded,  \* table decoded_sms, without send_status (see Outbox)
    pending,  \* pending_queue_head: the slot of every key
    pc,       \* where the receive thread stands
    cur,      \* id of the line being handled, 0 if none
    job,      \* the text being dispatched
    todo,     \* the targets dispatch_decoded_sms has not come to yet, a list
    expired,  \* slots the running garbage collection has yet to flush
    copies,   \* how often the modem reported each part
    refused   \* history: lines of texts one of whose INSERTs failed

vars == <<raw, decoded, pending, pc, cur, job, todo, expired, copies, refused>>

\* parse_raw_pdu rejects a part number above the total, not the number 0; what
\* has no concatenation header is part 1 of 1.
PartsOf(m) == IF m \in Concat THEN PartNumbers[m] ELSE {1}

\* mysql_query may return an error.
Refusing == "refused" \in Faults

IdsOf(text) == {text[i] : i \in 1..Len(text)}

\* The fields of parse_raw_pdu's SMSFrame, read off the raw row it came from.
MsgAt(i)  == raw[i].msg
PartAt(i) == raw[i].part

NoSlot == [total |-> 0, arrived |-> 0, age |-> 0, parts |-> <<>>]
NoJob  == [key |-> NoKey, text |-> <<>>, total |-> 0, partial |-> FALSE]

\* mysql_insert_id: the id of the row StoreLine adds.
Mut_NewId == Len(raw) + 2
NewId == Len(raw) + 1

Occupied(k) == pending[k].parts # <<>>

\* Older than segment_timeout_sec.
Mut_Expired(k) == Occupied(k) /\ pending[k].age >= SegmentTimeout
Expired(k) == Occupied(k) /\ pending[k].age > SegmentTimeout

\* gsm7bit_to_utf8 and ucs2be_to_utf8 accept the concatenated user data.
Mut_Decodable(text) == Len(text) > 1
Decodable(text) == \A i \in 1..Len(text) : MsgAt(text[i]) \notin Undecodable

\* arrived_count == total_parts
Mut_AllGathered(k) == pending[k].arrived >= pending[k].total - 1
MutLate_AllGathered(k) == pending[k].arrived > pending[k].total
AllGathered(k) == pending[k].arrived = pending[k].total

\* free_pending_sms
Mut_Freed(k) == [pending EXCEPT ![k].age = 0]
Freed(k) == [pending EXCEPT ![k] = NoSlot]

Init ==
    /\ raw = <<>>
    /\ decoded = <<>>
    /\ pending = [k \in Keys |-> NoSlot]
    /\ pc = "idle"
    /\ cur = 0
    /\ job = NoJob
    /\ todo = <<>>
    /\ expired = {}
    /\ copies = [m \in Msgs |-> [p \in PartsOf(m) |-> 0]]
    /\ refused = {}

-----------------------------------------------------------------------------
(* ParsePduSmsResponse: the INSERT into raw_sms and what follows it.       *)

\* The modem reports part p of m and the INSERT works.  parse_raw_pdu
\* rejects a malformed line, which then stays in raw_sms with status 0.
StoreLine(m, p) ==
    /\ pc = "idle"
    /\ copies[m][p] < MaxCopies[m]
    /\ copies' = [copies EXCEPT ![m][p] = @ + 1]
    /\ raw' = Append(raw, [msg |-> m, part |-> p, status |-> "new"])
    /\ IF m \in Malformed
       THEN UNCHANGED <<pc, cur>>
       ELSE /\ pc' = "frame"
            /\ cur' = NewId
    /\ UNCHANGED <<decoded, pending, job, todo, expired, refused>>

\* The INSERT fails: the line is logged and dropped.
LoseLine(m, p) ==
    /\ pc = "idle"
    /\ Refusing
    /\ copies[m][p] < MaxCopies[m]
    /\ copies' = [copies EXCEPT ![m][p] = @ + 1]
    /\ UNCHANGED <<raw, decoded, pending, pc, cur, job, todo, expired, refused>>

-----------------------------------------------------------------------------
(* handle_sms_frame                                                        *)

\* A message of one part is dispatched at once, or ignored when its user
\* data does not decode.
HandleSingle ==
    /\ pc = "frame"
    /\ MsgAt(cur) \notin Concat
    /\ IF Decodable(<<cur>>)
       THEN /\ job' = [key |-> NoKey, text |-> <<cur>>, total |-> 1, partial |-> FALSE]
            /\ pc' = "route"
            /\ UNCHANGED cur
       ELSE /\ pc' = "idle"
            /\ cur' = 0
            /\ UNCHANGED job
    /\ UNCHANGED <<raw, decoded, pending, todo, expired, copies, refused>>

\* The slot of (sender, ref_num) already holds a part with this number.
HandleDuplicate ==
    /\ pc = "frame"
    /\ MsgAt(cur) \in Concat
    /\ LET parts == pending[KeyOf[MsgAt(cur)]].parts IN
       \E i \in 1..Len(parts) : PartAt(parts[i]) = PartAt(cur)
    /\ pc' = "idle"
    /\ cur' = 0
    /\ UNCHANGED <<raw, decoded, pending, job, todo, expired, copies, refused>>

\* Where handle_sms_frame links a node with part number n into the list:
\* before the head if the head's number is larger, else after the last of
\* the leading nodes whose successor's number is smaller.
Mut_IsPlace(parts, at, n) == at = Len(parts) + 1
IsPlace(parts, at, n) ==
    /\ \A i \in 1..(at - 1) : PartAt(parts[i]) < n
    /\ at <= Len(parts) => PartAt(parts[at]) > n

Mut_Linked(parts, at, id) ==
    [i \in 1..(IF at > Len(parts) THEN at ELSE Len(parts)) |-> IF i = at THEN id ELSE parts[i]]
Linked(parts, at, id) ==
    [i \in 1..(Len(parts) + 1) |->
        IF i < at THEN parts[i] ELSE IF i = at THEN id ELSE parts[i - 1]]

\* Opens a slot if the key has none, links the part, counts it.
HandleNewPart ==
    /\ pc = "frame"
    /\ MsgAt(cur) \in Concat
    /\ LET m == MsgAt(cur)
           k == KeyOf[m]
           parts == pending[k].parts
       IN /\ \A i \in 1..Len(parts) : PartAt(parts[i]) # PartAt(cur)
          /\ \E at \in 1..(Len(parts) + 1) :
                /\ IsPlace(parts, at, PartAt(cur))
                /\ pending' = [pending EXCEPT ![k] =
                     [total   |-> IF Occupied(k) THEN @.total ELSE TotalOf[m],
                      arrived |-> @.arrived + 1,
                      age     |-> @.age,
                      parts   |-> Linked(parts, at, cur)]]
    /\ pc' = "mark"
    /\ UNCHANGED <<raw, decoded, cur, job, todo, expired, copies, refused>>

\* The UPDATE of raw_sms; when it fails the row stays as it was, and nobody
\* looks at the result.
Marked ==
    \/ raw' = [raw EXCEPT ![cur].status = "done"]
    \/ Refusing /\ raw' = raw

\* A slot whose count reached the total is decoded and handed to dispatch,
\* or thrown away when the text does not decode.
MarkPart ==
    /\ pc = "mark"
    /\ MsgAt(cur) \in Concat
    /\ Marked
    /\ LET k == KeyOf[MsgAt(cur)] IN
       IF ~AllGathered(k)
       THEN /\ pc' = "idle"
            /\ UNCHANGED <<job, pending>>
       ELSE IF Decodable(pending[k].parts)
       THEN /\ pc' = "route"
            /\ job' = [key |-> k, text |-> pending[k].parts,
                       total |-> pending[k].total, partial |-> FALSE]
            /\ UNCHANGED pending
       ELSE /\ pc' = "idle"
            /\ pending' = Freed(k)
            /\ UNCHANGED job
    /\ cur' = 0
    /\ UNCHANGED <<decoded, todo, expired, copies, refused>>

\* A single message is marked after its dispatch.
MarkSingle ==
    /\ pc = "mark"
    /\ MsgAt(cur) \notin Concat
    /\ Marked
    /\ pc' = "idle"
    /\ cur' = 0
    /\ UNCHANGED <<decoded, pending, job, todo, expired, copies, refused>>

-----------------------------------------------------------------------------
(* dispatch_decoded_sms                                                    *)

\* lookup_wxid_by_tenantip and the fallback yield a list of chatrooms, at
\* least one (RouteCache says which); it may name a chatroom twice.
Route ==
    /\ pc = "route"
    /\ \E n \in 1..MaxWxid : todo' \in [1..n -> Groups]
    /\ pc' = "insert"
    /\ UNCHANGED <<raw, decoded, pending, cur, job, expired, copies, refused>>

\* One INSERT per target, in the order of the list; a failed one is logged and
\* skipped.  `left` is the place of the target, counted from the list's end.
InsertRow ==
    /\ pc = "insert"
    /\ todo # <<>>
    /\ todo' = Tail(todo)
    /\ \/ /\ decoded' = Append(decoded, [text |-> job.text, total |-> job.total,
                                         partial |-> job.partial,
                                         group |-> Head(todo), left |-> Len(todo)])
          /\ UNCHANGED refused
       \/ /\ Refusing
          /\ refused' = refused \cup IdsOf(job.text)
          /\ UNCHANGED decoded
    /\ UNCHANGED <<raw, pending, pc, cur, job, expired, copies>>

\* Back in the caller: handle_sms_frame marks a single message,
\* free_pending_sms drops the slot of a gathered one.
EndDispatch ==
    /\ pc = "insert"
    /\ todo = <<>>
    /\ IF job.key = NoKey
       THEN pc' = "mark" /\ UNCHANGED pending
       ELSE /\ pending' = Freed(job.key)
            /\ pc' = IF job.partial THEN "sweep" ELSE "idle"
    /\ job' = NoJob
    /\ UNCHANGED <<raw, decoded, cur, todo, expired, copies, refused>>

-----------------------------------------------------------------------------
(* run_garbage_collection                                                  *)

\* `now` is read once: the slots to flush are those expired at that instant.
StartSweep ==
    /\ pc = "idle"
    /\ \E k \in Keys : Expired(k)
    /\ expired' = {k \in Keys : Expired(k)}
    /\ pc' = "sweep"
    /\ UNCHANGED <<raw, decoded, pending, cur, job, todo, copies, refused>>

\* flush_incomplete_pending_sms, then free_pending_sms.
FlushSlot(k) ==
    /\ pc = "sweep"
    /\ k \in expired
    /\ expired' = expired \ {k}
    /\ IF Decodable(pending[k].parts)
       THEN /\ job' = [key |-> k, text |-> pending[k].parts,
                       total |-> pending[k].total, partial |-> TRUE]
            /\ pc' = "route"
            /\ UNCHANGED pending
       ELSE /\ pending' = Freed(k)
            /\ UNCHANGED <<job, pc>>
    /\ UNCHANGED <<raw, decoded, cur, todo, copies, refused>>

EndSweep ==
    /\ pc = "sweep"
    /\ expired = {}
    /\ pc' = "idle"
    /\ UNCHANGED <<raw, decoded, pending, cur, job, todo, expired, copies, refused>>

-----------------------------------------------------------------------------
(* Time and faults                                                         *)

\* time() advances.  Ages matter only when a collection starts, so letting
\* them grow between two passes of the loop is enough; the cap keeps them
\* finite and is past the timeout.
Tick ==
    /\ pc = "idle"
    /\ pending' = [k \in Keys |->
         IF Occupied(k) /\ pending[k].age <= SegmentTimeout
         THEN [pending[k] EXCEPT !.age = @ + 1] ELSE pending[k]]
    /\ UNCHANGED <<raw, decoded, pc, cur, job, todo, expired, copies, refused>>

\* The process dies, or the service is stopped and returns from
\* ServiceWorkLoop: the slots are memory, the tables are not.
Crash ==
    /\ "crash" \in Faults
    /\ pc # "down"
    /\ pc' = "down"
    /\ pending' = [k \in Keys |-> NoSlot]
    /\ cur' = 0
    /\ job' = NoJob
    /\ todo' = <<>>
    /\ expired' = {}
    /\ UNCHANGED <<raw, decoded, copies, refused>>

\* ServiceWorkLoop reaches its receive loop again.
Restart ==
    /\ pc = "down"
    /\ pc' = "idle"
    /\ UNCHANGED <<raw, decoded, pending, cur, job, todo, expired, copies, refused>>

-----------------------------------------------------------------------------
Line == \E m \in Msgs : \E p \in PartsOf(m) : StoreLine(m, p) \/ LoseLine(m, p)

\* What the thread does by itself once it has something to do.
Work ==
    \/ HandleSingle \/ HandleDuplicate \/ HandleNewPart
    \/ MarkPart \/ MarkSingle
    \/ Route \/ InsertRow \/ EndDispatch
    \/ StartSweep \/ (\E k \in Keys : FlushSlot(k)) \/ EndSweep

Next == Line \/ Work \/ Tick \/ Crash \/ Restart

Spec == Init /\ [][Next]_vars

\* The receive loop never blocks for good and calls the collection on every
\* pass; the service manager or an operator starts a dead process again.
Fairness == WF_vars(Work) /\ WF_vars(Tick) /\ WF_vars(Restart)

FairSpec == Spec /\ Fairness

-----------------------------------------------------------------------------
(* Types and invariants                                                    *)

Ids   == 1..Len(raw)
Texts == Seq(Ids)

\* Every variable has its type; ids in slots and texts are rows of raw_sms.
TypeOK ==
    /\ raw \in Seq([msg : Msgs, part : Nat, status : {"new", "done"}])
    /\ decoded \in Seq([text : Texts, total : Nat, partial : BOOLEAN, group : Groups,
                       left : Nat])
    /\ pending \in [Keys -> [total : Nat, arrived : Nat,
                             age : 0..(SegmentTimeout + 1), parts : Texts]]
    /\ pc \in {"idle", "frame", "mark", "route", "insert", "sweep", "down"}
    /\ cur \in {0} \cup Ids
    /\ job \in [key : Keys \cup {NoKey}, text : Texts, total : Nat, partial : BOOLEAN]
    /\ todo \in Seq(Groups)
    /\ expired \subseteq Keys
    /\ DOMAIN copies = Msgs
    /\ \A m \in Msgs : copies[m] \in [PartsOf(m) -> 0..MaxCopies[m]]
    /\ refused \subseteq Ids

\* What the thread holds at each point: the line being handled, the text being
\* dispatched (the slot of job.key, or the single line cur), the slots still to
\* be flushed.  The frame pointers of handle_sms_frame and of the collection
\* never outlive what they point to.
Hands ==
    /\ pc \in {"frame", "mark"} => cur \in Ids
    /\ pc \in {"idle", "sweep", "down"} => cur = 0
    /\ pc = "mark" /\ MsgAt(cur) \in Concat =>
          \E i \in 1..Len(pending[KeyOf[MsgAt(cur)]].parts) :
              pending[KeyOf[MsgAt(cur)]].parts[i] = cur
    /\ pc \notin {"route", "insert"} => job = NoJob
    /\ pc \in {"route", "insert"} /\ job.key = NoKey =>
          /\ cur \in Ids
          /\ MsgAt(cur) \notin Concat
          /\ job = [key |-> NoKey, text |-> <<cur>>, total |-> 1, partial |-> FALSE]
    /\ job.key # NoKey =>
          /\ cur = 0
          /\ Occupied(job.key)
          /\ job.text = pending[job.key].parts
          /\ job.total = pending[job.key].total
          /\ job.key \notin expired
    /\ pc # "insert" => todo = <<>>
    /\ pc # "sweep" /\ ~job.partial => expired = {}
    /\ \A k \in expired : Occupied(k)

NumbersOf(text) == {PartAt(text[i]) : i \in 1..Len(text)}
MsgsOf(text)    == {MsgAt(text[i]) : i \in 1..Len(text)}

\* The list of a slot is strictly sorted by part number, holds parts of its
\* own key only, and arrived_count is its length (lines 1281-1302).
SlotsSorted ==
    \A k \in Keys :
        LET parts == pending[k].parts IN
        /\ pending[k].arrived = Len(parts)
        /\ \A i \in 1..Len(parts) :
              MsgAt(parts[i]) \in Concat /\ KeyOf[MsgAt(parts[i])] = k
        /\ \A i, j \in 1..Len(parts) : i < j => PartAt(parts[i]) < PartAt(parts[j])

\* The slot the thread is filling, or the one it is dispatching.
InHand(k) ==
    \/ pc = "mark" /\ MsgAt(cur) \in Concat /\ KeyOf[MsgAt(cur)] = k
    \/ job.key = k

\* A slot with all its parts never waits for the timeout: it is dispatched
\* and freed by the very call that completed it (lines 1333-1357).
NoFullSlotWaits ==
    \A k \in Keys : Occupied(k) /\ ~InHand(k) => pending[k].arrived < pending[k].total

\* Two texts made of a common line.
Share(s, t) == \E i \in 1..Len(s) : \E j \in 1..Len(t) : s[i] = t[j]

\* A stored line feeds one dispatch at most: no row of raw_sms is used by
\* two texts, and none is still in a slot once its text is out (free_pending_sms
\* after every flush and every completion).
DispatchedOnce ==
    /\ \A i, j \in 1..Len(decoded) :
         Share(decoded[i].text, decoded[j].text)
            => /\ decoded[i].text = decoded[j].text
               /\ decoded[i].partial = decoded[j].partial
    /\ \A i \in 1..Len(decoded) : \A k \in Keys :
         Share(decoded[i].text, pending[k].parts) => job.key = k

\* The line in hand is in no slot and no text yet, and the text in hand shares
\* its lines with no other text: what makes DispatchedOnce inductive.
HandsApart ==
    /\ pc = "frame" =>
          /\ \A k \in Keys : ~Share(<<cur>>, pending[k].parts)
          /\ \A i \in 1..Len(decoded) : ~Share(decoded[i].text, <<cur>>)
    /\ pc \in {"route", "insert"} =>
          \A i \in 1..Len(decoded) :
              Share(decoded[i].text, job.text)
                 => decoded[i].text = job.text /\ decoded[i].partial = job.partial

\* Of one text no two rows come from the same place of the list of targets, and
\* they come in its order: a text is dispatched once, however many INSERTs fail,
\* and a chatroom has as many rows of it as the list names it at most (the loop
\* of dispatch_decoded_sms).
OneRowPerTarget ==
    \A i, j \in 1..Len(decoded) :
        i < j /\ decoded[i].text = decoded[j].text => decoded[i].left > decoded[j].left

\* A text announced as PARTIAL lacks a part, one announced without it has as
\* many parts as its slot was opened for (lines 1333 and 1206-1211).
PartialMeansIncomplete ==
    \A i \in 1..Len(decoded) :
        LET row == decoded[i] IN
        IF row.partial THEN Len(row.text) \in 1..(row.total - 1)
                       ELSE Len(row.text) = row.total

\* No two messages in flight share a sender and a reference number.
RefsDistinct == \A m, n \in Concat : KeyOf[m] = KeyOf[n] => m = n

\* What a text without the PARTIAL mark is: a single message, or parts of one
\* sender and reference in the order of their numbers, none twice, as many as
\* one of them announces.  Messages that share a reference may be mixed in it;
\* if it is of one message, then of all of it unless a part is numbered 0.
Whole(text) ==
    /\ \A a, b \in 1..Len(text) : a < b => PartAt(text[a]) < PartAt(text[b])
    /\ \/ \E r \in Ids : MsgAt(r) \notin Concat /\ text = <<r>>
       \/ /\ \E k \in Keys : \A m \in MsgsOf(text) : m \in Concat /\ KeyOf[m] = k
          /\ \E m \in MsgsOf(text) : Len(text) = TotalOf[m]
          /\ \A m \in Concat :
                MsgsOf(text) = {m} /\ 0 \notin NumbersOf(text) => NumbersOf(text) = 1..TotalOf[m]

\* Whatever parts came, repeated, late or with a reference in use, a text sent
\* as complete is whole in that sense (lines 1254-1357).
CompleteIsWhole ==
    \A i \in 1..Len(decoded) : ~decoded[i].partial => Whole(decoded[i].text)

\* The strengthenings CompleteIsWhole rests on.  A line carries a number its
\* message uses; the total of a slot is what one of its parts announces; a slot
\* never counts more parts than its total, and the text in hand has exactly
\* the total when complete and fewer when partial.
PartsLegal == \A r \in Ids : PartAt(r) \in PartsOf(MsgAt(r))

TotalsAgree ==
    \A k \in Keys : Occupied(k) =>
        \E i \in 1..Len(pending[k].parts) :
            pending[k].total = TotalOf[MsgAt(pending[k].parts[i])]

CountsRight ==
    /\ \A k \in Keys : Occupied(k) => pending[k].arrived <= pending[k].total
    /\ job.key # NoKey => IF job.partial THEN Len(job.text) < job.total
                                         ELSE Len(job.text) = job.total

\* No row of a text whose dispatch begins, and none from a place of the list the
\* dispatch has yet to come to: what makes OneRowPerTarget inductive.
RowsAhead ==
    \A i \in 1..Len(decoded) :
        /\ pc = "route" => decoded[i].text # job.text
        /\ pc = "insert" /\ decoded[i].text = job.text => decoded[i].left > Len(todo)

\* A slot that waits to be flushed is as old as it was when the collection
\* found it.
ExpiredAreLate == \A k \in expired : pending[k].age > SegmentTimeout

\* A dispatch that is through, and a single message about to be marked, left a
\* row of the text, or an INSERT of it failed.
DispatchLands ==
    /\ pc = "insert" /\ todo = <<>> =>
          \/ \E i \in 1..Len(decoded) : decoded[i].text = job.text
          \/ IdsOf(job.text) \subseteq refused
    /\ pc = "mark" /\ MsgAt(cur) \notin Concat =>
          \/ \E i \in 1..Len(decoded) : decoded[i].text = <<cur>>
          \/ cur \in refused

\* The inductive invariant of ReassemblyProofs.
IInv ==
    /\ TypeOK /\ Hands /\ HandsApart /\ DispatchedOnce
    /\ SlotsSorted /\ NoFullSlotWaits /\ PartsLegal /\ TotalsAgree /\ CountsRight
    /\ RowsAhead /\ ExpiredAreLate /\ DispatchLands

Reported(m) == {p \in PartsOf(m) : copies[m][p] > 0}
EnoughIn(m) == Cardinality(Reported(m)) >= (IF m \in Concat THEN TotalOf[m] ELSE 1)
IsOut(m) == \E i \in 1..Len(decoded) : m \in MsgsOf(decoded[i].text)

\* Without faults, and with distinct references, a message of which as many
\* parts were reported as it announces has reached decoded_sms, whole or as a
\* partial text that left before the last part came, as soon as the thread is
\* idle again.
ReceivedIsOut ==
    (Faults = {} /\ RefsDistinct /\ pc = "idle") =>
        \A m \in Msgs \ (Malformed \cup Undecodable) : EnoughIn(m) => IsOut(m)

-----------------------------------------------------------------------------
(* What a step may not do, and what must happen                            *)

\* An incomplete text leaves only after its slot waited longer than
\* segment_timeout_sec (line 1365).
PartialOnlyWhenLate ==
    [][\A k \in Keys : job'.key = k /\ job'.partial /\ job.key # k
            => pending[k].age > SegmentTimeout]_vars

\* The user data of m does not decode, or it may be gathered with such data: a
\* slot is decoded as a whole.
Spoilt(m) ==
    \/ m \in Undecodable
    \/ m \in Concat /\ \E n \in Concat \cap Undecodable : KeyOf[n] = KeyOf[m]

\* A line marked as done is held by a slot, by the text being dispatched or by
\* a row of decoded_sms from then on, although status 1 comes before the
\* dispatch and before the other parts (line 1331).  What loses it is the end of
\* the process (1660), an INSERT of its text that failed, after which the slot is
\* freed all the same (827, 1245), or user data that does not decode, its own or
\* that of a part in the same slot, and nothing else.
Kept(r) ==
    \/ \E k \in Keys : r \in IdsOf(pending[k].parts)
    \/ r \in IdsOf(job.text)
    \/ \E i \in 1..Len(decoded) : r \in IdsOf(decoded[i].text)
KeptUntilLost ==
    [][\A r \in Ids' :
          /\ raw'[r].status = "done" /\ ~Spoilt(raw'[r].msg)
          /\ r \in Ids /\ raw[r].status = "done" => Kept(r)
          => Kept(r)' \/ pc' = "down" \/ r \in refused']_vars

PartIsOut(m, p) ==
    \E i \in 1..Len(decoded) : \E r \in IdsOf(decoded[i].text) :
        raw[r].msg = m /\ raw[r].part = p

\* What ReceivedIsOut rests on: without faults a line with every part that was
\* reported is in hand, in a slot or in a text.
PartsHeld ==
    Faults = {} =>
        /\ refused = {} /\ pc # "down"
        /\ \A m \in Msgs \ Malformed : \A p \in PartsOf(m) :
              ~Spoilt(m) /\ copies[m][p] > 0 /\ (RefsDistinct \/ m \notin Concat) =>
                  \E r \in Ids : /\ MsgAt(r) = m /\ PartAt(r) = p
                                 /\ Kept(r) \/ (pc = "frame" /\ cur = r)

\* Without faults every part that was reported ends up in a dispatched text,
\* whole or partial, and not only in a slot.
EveryPartGetsOut ==
    \A m \in Msgs \ (Malformed \cup Undecodable) : \A p \in PartsOf(m) :
        (copies[m][p] > 0) ~> PartIsOut(m, p)
=============================================================================
