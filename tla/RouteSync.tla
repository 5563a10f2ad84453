----------------------------- MODULE RouteSync ------------------------------
(***************************************************************************)
(* sms_route_sync.py beside the gateway: every INTERVAL_SECONDS it selects *)
(* the unsent rows of decoded_sms that come from a whitelisted sender,     *)
(* executes those that are commands (_smsRoute, _smsRegister), tells the   *)
(* chatroom through the WeChat API, and sets send_status to 1 or -1, all   *)
(* of a cycle in one transaction (run_sync_cycle).                         *)
(*                                                                         *)
(* The push thread of Outbox works on the same rows at the same time, with *)
(* send_status 0 for its only test.  Here Outbox's `sent` holds the rows   *)
(* whose send_status is not 0, `failed` those where it is -1.              *)
(***************************************************************************)
EXTENDS Outbox, Sequences

CONSTANTS
    Syncs,     \* running instances of the script, one if the PID file works
    SyncBatch, \* --batch-size, 100 in the code
    MaxAborts  \* bound: cycles that end in a rollback

ASSUME SyncAssumption == SyncBatch \in Nat \ {0} /\ MaxAborts \in Nat

VARIABLES
    kind,    \* what each row is, see Kinds
    failed,  \* ids with send_status -1
    sync,    \* per instance: where it stands and what its transaction holds
    effects, \* how often a command was executed in full and committed
    torn,    \* commands a part of whose effect was committed
    noticed, \* outside: how often the chatroom was told of the command
    lost,    \* history: such notices whose cycle was rolled back
    aborts   \* how many cycles were rolled back

syncVars == <<failed, sync, effects, torn, noticed, lost, aborts>>
allVars == <<vars, kind, syncVars>>

\* "alert": the sender is not whitelisted.  "chat": whitelisted, not a command.
Kinds == {"alert", "chat", "route", "register"}
IsCommand(i) == kind[i] \in {"route", "register"}

Between == [pc |-> "idle", rows |-> {}, cur |-> 0, marks |-> {}, fails |-> {},
            effect |-> {}, torn |-> {}, told |-> {}]

\* SELECT ... WHERE send_status=0 AND sender IN (...) ORDER BY id LIMIT: the
\* marks of a transaction that is not committed are not seen.
Mut_Selected == {i \in Ids : kind[i] # "alert"}
Selected ==
    LET pending == {i \in Unsent : kind[i] # "alert"} IN
    {i \in pending : Cardinality({j \in pending : j <= i}) <= SyncBatch}

\* Row locks: rows a transaction has updated.
LockedBy(s) == sync[s].marks \cup sync[s].fails
Locked == UNION {LockedBy(s) : s \in Syncs}

Count(count, ids) == [i \in DOMAIN count |-> IF i \in ids THEN count[i] + 1 ELSE count[i]]

SInit ==
    /\ Init
    /\ kind = <<>>
    /\ failed = {}
    /\ sync = [s \in Syncs |-> Between]
    /\ effects = <<>>
    /\ torn = {}
    /\ noticed = <<>>
    /\ lost = <<>>
    /\ aborts = 0

-----------------------------------------------------------------------------
(* The gateway's side: dispatch inserts, the push thread forwards.         *)

InsertKind(k) ==
    /\ Insert
    /\ kind' = Append(kind, k)
    /\ effects' = Append(effects, 0)
    /\ noticed' = Append(noticed, 0)
    /\ lost' = Append(lost, 0)
    /\ UNCHANGED <<failed, sync, torn, aborts>>

\* The push thread's UPDATE waits for a lock on the row and then sets 1,
\* whatever the row holds by then.
PushMark ==
    /\ Mark
    /\ current \notin Locked
    /\ failed' = failed \ {current}
    /\ UNCHANGED <<kind, sync, effects, torn, noticed, lost, aborts>>

PushOther ==
    /\ ObserveStop \/ Connect \/ Scan \/ ScanFails \/ Accepted \/ Failed
        \/ MarkFails \/ EndBatch \/ Stop \/ CloseEvent \/ EndProcess \/ Crash \/ Restart
    /\ UNCHANGED <<kind, syncVars>>

-----------------------------------------------------------------------------
(* run_sync_cycle                                                          *)

At(s, place) == sync[s].pc = place

\* Row i is the next one of the loop.
IsTurn(s, i) == At(s, "row") /\ i \in sync[s].rows /\ \A j \in sync[s].rows : i <= j

\* Instance s moves on, and nothing outside its transaction changes.
Step(s, record) ==
    /\ sync' = [sync EXCEPT ![s] = record]
    /\ UNCHANGED <<vars, kind, failed, effects, torn, lost, aborts>>

\* A cycle that finds no row, or no database, changes nothing.
BeginCycle(s) ==
    /\ At(s, "idle")
    /\ Selected # {}
    /\ Step(s, [Between EXCEPT !.pc = "row", !.rows = Selected])
    /\ UNCHANGED noticed

\* parse_sms_command returns None: the row keeps send_status 0.
SkipRow(s, i) ==
    /\ IsTurn(s, i)
    /\ ~IsCommand(i)
    /\ Step(s, [sync[s] EXCEPT !.rows = @ \ {i}])
    /\ UNCHANGED noticed

\* The chatroom's wxid: from the WeChat API for a route, from
\* wechat_chatroom for a registration.
FindRoom(s, i) ==
    /\ IsTurn(s, i)
    /\ IsCommand(i)
    /\ \E found \in BOOLEAN :
         Step(s, [sync[s] EXCEPT !.cur = i, !.rows = @ \ {i},
                                 !.pc = IF found THEN "apply" ELSE "fail"])
    /\ UNCHANGED noticed

\* insert_chatroom_row, insert_tenant_ip_rows.
Apply(s) ==
    /\ At(s, "apply")
    /\ Step(s, [sync[s] EXCEPT !.pc = "notice", !.effect = @ \cup {sync[s].cur}])
    /\ UNCHANGED noticed

\* A statement is refused: what the earlier ones wrote stays in the transaction,
\* some rows of a registration, or the chatroom of a route whose tenants were to
\* be renamed next.
ApplyFails(s) ==
    /\ At(s, "apply")
    /\ \E some \in SUBSET {sync[s].cur} :
         Step(s, [sync[s] EXCEPT !.pc = "fail", !.torn = @ \cup some])
    /\ UNCHANGED noticed

\* send_route_result_message, send_register_result_message.
Notice(s) ==
    /\ At(s, "notice")
    /\ noticed' = Count(noticed, {sync[s].cur})
    /\ Step(s, [sync[s] EXCEPT !.pc = "mark", !.told = @ \cup {sync[s].cur}])

\* The call fails; the chatroom may have been told all the same.
NoticeFails(s) ==
    /\ At(s, "notice")
    /\ \E told \in SUBSET {sync[s].cur} :
         /\ noticed' = Count(noticed, told)
         /\ Step(s, [sync[s] EXCEPT !.pc = "fail", !.told = @ \cup told])

\* update_sms_status: an UPDATE of a row another transaction holds waits.
MarkRow(s) ==
    /\ At(s, "mark")
    /\ sync[s].cur \notin Locked
    /\ Step(s, [sync[s] EXCEPT !.pc = "row", !.cur = 0, !.marks = @ \cup {sync[s].cur}])
    /\ UNCHANGED noticed

\* That UPDATE is refused or waits too long: the row is treated as failed with
\* the command executed and announced.
MarkRowFails(s) ==
    /\ At(s, "mark")
    /\ Step(s, [sync[s] EXCEPT !.pc = "fail"])
    /\ UNCHANGED noticed

\* The except branch: the effect so far stays, the row becomes -1.
Mut_MarkFailed(s) ==
    /\ At(s, "fail")
    /\ Step(s, [sync[s] EXCEPT !.pc = "row", !.cur = 0])
    /\ UNCHANGED noticed
MutSuccess_MarkFailed(s) ==
    /\ At(s, "fail")
    /\ sync[s].cur \notin Locked
    /\ Step(s, [sync[s] EXCEPT !.pc = "row", !.cur = 0, !.marks = @ \cup {sync[s].cur}])
    /\ UNCHANGED noticed
MutKeeps_MarkFailed(s) ==
    /\ At(s, "fail")
    /\ sync[s].cur \notin Locked
    /\ Step(s, [sync[s] EXCEPT !.pc = "row", !.fails = @ \cup {sync[s].cur}])
    /\ UNCHANGED noticed
MarkFailed(s) ==
    /\ At(s, "fail")
    /\ sync[s].cur \notin Locked
    /\ Step(s, [sync[s] EXCEPT !.pc = "row", !.cur = 0, !.fails = @ \cup {sync[s].cur}])
    /\ UNCHANGED noticed

Commit(s) ==
    /\ At(s, "row")
    /\ sync[s].rows = {}
    /\ sent' = sent \cup sync[s].marks \cup sync[s].fails
    /\ failed' = (failed \ sync[s].marks) \cup sync[s].fails
    /\ effects' = Count(effects, sync[s].effect)
    /\ torn' = torn \cup sync[s].torn
    /\ sync' = [sync EXCEPT ![s] = Between]
    /\ UNCHANGED <<rows, batch, current, pc, stop, delivered, mishaps, kind, noticed, lost, aborts>>

\* The connection is lost, the commit fails, or the process dies: rollback.
\* The next cycle starts over.
Abort(s) ==
    /\ ~At(s, "idle")
    /\ aborts < MaxAborts
    /\ aborts' = aborts + 1
    /\ lost' = Count(lost, sync[s].told)
    /\ sync' = [sync EXCEPT ![s] = Between]
    /\ UNCHANGED <<vars, kind, failed, effects, torn, noticed>>

-----------------------------------------------------------------------------
SyncStep(s) ==
    \/ BeginCycle(s)
    \/ (\E i \in Ids : SkipRow(s, i) \/ FindRoom(s, i))
    \/ Apply(s) \/ ApplyFails(s)
    \/ Notice(s) \/ NoticeFails(s)
    \/ MarkRow(s) \/ MarkRowFails(s) \/ MarkFailed(s) \/ Commit(s)

SNext ==
    \/ \E k \in Kinds : InsertKind(k)
    \/ PushMark \/ PushOther
    \/ \E s \in Syncs : SyncStep(s) \/ Abort(s)

SSpec == SInit /\ [][SNext]_allVars

\* Every call of the script returns within a timeout; nothing is asked of the
\* gateway.
FairSyncSpec == SSpec /\ \A s \in Syncs : WF_allVars(SyncStep(s))

-----------------------------------------------------------------------------
SyncRecords ==
    [pc : {"idle", "row", "apply", "notice", "mark", "fail"}, rows : SUBSET Nat, cur : Nat,
     marks : SUBSET Nat, fails : SUBSET Nat, effect : SUBSET Nat, torn : SUBSET Nat,
     told : SUBSET Nat]

\* Every variable has its type, and an instance holds a row only while it
\* works on it.
SyncTypeOK ==
    /\ rows \in Nat /\ sent \subseteq Ids /\ batch \subseteq Ids /\ current \in {0} \cup Ids
    /\ delivered \in [Ids -> Nat]
    /\ kind \in Seq(Kinds) /\ Len(kind) = rows
    /\ failed \subseteq sent /\ torn \subseteq sent
    /\ effects \in Seq(Nat) /\ noticed \in Seq(Nat) /\ lost \in Seq(Nat)
    /\ Len(effects) = rows /\ Len(noticed) = rows /\ Len(lost) = rows
    /\ sync \in [Syncs -> SyncRecords]
    /\ \A s \in Syncs : sync[s].rows \cup LockedBy(s) \subseteq Ids
    /\ \A s \in Syncs : sync[s].cur \in IF sync[s].pc \in {"idle", "row"} THEN {0} ELSE Ids

\* A command takes effect once at most, whatever cycles are rolled back and
\* whatever the push thread does with its row (lines 798-818, 910-926).
ExecutedOnce == \A i \in Ids : effects[i] <= 1

\* The chatroom is told of a command once, and once more only for every cycle
\* that was rolled back after the notice (lines 872, 928-929).
NoticesHaveACause == \A i \in Ids : noticed[i] <= 1 + lost[i]

\* What send_status tells of a command the push thread did not forward: 1 means
\* executed and told, and a command executed in part shows -1 (913, 923).
StatusTells ==
    \A i \in sent :
        IsCommand(i) /\ delivered[i] = 0 =>
            /\ i \notin failed => effects[i] > 0 /\ noticed[i] > 0
            /\ i \in torn => i \in failed

\* A command gets its status although the push thread never gets a message
\* through, unless skipped rows fill the LIMIT (lines 808, 849).
CommandsSettle ==
    [](Cardinality({i \in Ids : kind[i] = "chat"}) < SyncBatch) =>
        \A i \in 1..MaxRows : (i \in Ids /\ IsCommand(i)) ~> i \in sent

-----------------------------------------------------------------------------
(* The inductive invariant these follow from, for one instance             *)

\* Rows of transaction r by what has become of them.
Open(r) == r.rows \cup (IF r.pc \in {"apply", "notice"} THEN {r.cur} ELSE {})
Holding(r) == r.rows \cup {r.cur} \cup r.marks \cup r.fails \cup r.effect
Succeeded(r) == r.marks \cup (IF r.pc = "mark" THEN {r.cur} ELSE {})

\* A row gets one status, what was done for a row shows in it, and only the
\* row in hand is in between.
Legal(r) ==
    /\ r.pc = "idle" => r = Between
    /\ r.cur \notin r.rows \cup r.marks \cup r.fails
    /\ r.rows \cap (r.marks \cup r.fails) = {}
    /\ r.marks \cap r.fails = {}
    /\ r.marks \subseteq r.effect
    /\ r.pc \in {"notice", "mark"} => r.cur \in r.effect
    /\ r.effect \subseteq r.marks \cup r.fails \cup
         (IF r.pc \in {"notice", "mark", "fail"} THEN {r.cur} ELSE {})
    /\ r.told \subseteq r.marks \cup r.fails \cup
         (IF r.pc \in {"mark", "fail"} THEN {r.cur} ELSE {})
    /\ r.torn \subseteq r.fails \cup (IF r.pc = "fail" THEN {r.cur} ELSE {})

\* What row i went through so far: its history agrees with its status.
Settled(i) ==
    /\ noticed[i] <= lost[i] + 1
    /\ effects[i] = 0 \/ (effects[i] = 1 /\ i \in sent)
    /\ i \in sent /\ delivered[i] = 0 =>
         /\ i \notin failed => effects[i] > 0 /\ noticed[i] > 0
         /\ i \in torn => i \in failed

\* What transaction r may rely on for row i: only the push thread can have
\* settled a row it holds, and a row it has yet to announce is not announced.
Relied(r, i) ==
    /\ i \in Open(r) \/ i \notin sent \cup r.told => noticed[i] <= lost[i]
    /\ i \in Holding(r) => effects[i] = 0 /\ (delivered[i] = 0 => i \notin sent)
    /\ i \in Succeeded(r) => noticed[i] > 0

\* One instance of the script, which the PID file is for.
Alone == \A s, t \in Syncs : s = t

SyncIInv ==
    /\ SyncTypeOK
    /\ pc = "mark" => current # 0
    /\ current # 0 => delivered[current] > 0
    /\ \A s \in Syncs : Legal(sync[s])
    /\ \A i \in Ids : Settled(i) /\ \A s \in Syncs : Relied(sync[s], i)

-----------------------------------------------------------------------------
(* What the script says and the two programs together do not do            *)

\* Lines 3-10: "Process SMS command rows ... 5. Mark source row as processed":
\* a command whose row is marked as processed was executed.
ProcessedIsExecuted ==
    \A i \in sent \ failed : IsCommand(i) => effects[i] > 0
=============================================================================
