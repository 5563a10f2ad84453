---------------------------- MODULE ScriptProofs ----------------------------
(***************************************************************************)
(* sms_route_sync.py, in three parts.                                      *)
(*                                                                         *)
(* One instance beside the push thread: whatever the two do to the same    *)
(* rows, and whatever cycles are rolled back, a command takes effect once, *)
(* is announced once per cycle that got that far, and has a status that    *)
(* tells what became of it.                                                *)
(*                                                                         *)
(* The PID file keeps instances apart, for every set of process ids.       *)
(*                                                                         *)
(* However many processes run the script one after the other, a command    *)
(* takes effect once: the PID file gives that one transaction is open at   *)
(* most (ExclusiveIInv), the transaction that what it executed is what it  *)
(* marks (TransactionsIInv), and a marked row is not selected again        *)
(* (EffectsIInv).                                                          *)
(***************************************************************************)
EXTENDS ScriptInstances, TLAPS

(***************************************************************************)
(* One instance beside the push thread                                     *)
(***************************************************************************)

\* Adding an element to a sequence.
LEMMA Appending ==
    ASSUME NEW S, NEW q \in Seq(S), NEW e \in S
    PROVE  /\ Append(q, e) \in Seq(S)
           /\ Len(Append(q, e)) = Len(q) + 1
           /\ \A i \in 1..Len(q) : Append(q, e)[i] = q[i]
           /\ Append(q, e)[Len(q) + 1] = e
    OBVIOUS

\* A counter of a row more.
LEMMA NewCounter ==
    ASSUME NEW count \in Seq(Nat), NEW n \in Nat, Len(count) = n
    PROVE  /\ Append(count, 0) \in Seq(Nat)
           /\ Len(Append(count, 0)) = n + 1
           /\ \A i \in 1..n : Append(count, 0)[i] = count[i]
           /\ Append(count, 0)[n + 1] = 0
    BY 0 \in Nat, Appending

\* Counting keeps a sequence of numbers one, of the same length.
LEMMA Counting ==
    ASSUME NEW count \in Seq(Nat), NEW ids
    PROVE  /\ Count(count, ids) \in Seq(Nat)
           /\ Len(Count(count, ids)) = Len(count)
           /\ \A i \in 1..Len(count) :
                Count(count, ids)[i] = IF i \in ids THEN count[i] + 1 ELSE count[i]
<1>1. \A i \in 1..Len(count) : count[i] \in Nat
    OBVIOUS
<1>2. DOMAIN count = 1..Len(count) /\ Len(count) \in Nat
    OBVIOUS
<1>3. Count(count, ids) \in [1..Len(count) -> Nat]
    BY <1>1, <1>2 DEF Count
<1>4. Count(count, ids) \in Seq(Nat) /\ Len(Count(count, ids)) = Len(count)
    BY <1>2, <1>3
<1> QED BY <1>2, <1>4 DEF Count

\* The counters of a row are numbers.
LEMMA Counters ==
    ASSUME SyncTypeOK, NEW i \in Ids
    PROVE  /\ i \in Nat /\ i # 0
           /\ effects[i] \in Nat /\ noticed[i] \in Nat /\ lost[i] \in Nat /\ delivered[i] \in Nat
    BY DEF SyncTypeOK, Ids

\* The initial states satisfy the invariant.
LEMMA SyncInitial == SInit => SyncIInv
<1> SUFFICES ASSUME SInit PROVE SyncIInv
    OBVIOUS
<1> USE DEF SInit, Init
<1>1. Ids = {}
    BY DEF Ids
<1>2. /\ kind \in Seq(Kinds) /\ effects \in Seq(Nat) /\ noticed \in Seq(Nat) /\ lost \in Seq(Nat)
      /\ Len(kind) = 0 /\ Len(effects) = 0 /\ Len(noticed) = 0 /\ Len(lost) = 0
    OBVIOUS
<1>3. sync \in [Syncs -> SyncRecords]
    BY DEF SyncRecords, Between
<1>4. \A s \in Syncs : sync[s].rows \cup LockedBy(s) \subseteq Ids /\ sync[s].cur = 0
                       /\ sync[s].pc = "idle"
    BY DEF Between, LockedBy
<1>5. delivered \in [Ids -> Nat]
    BY <1>1
<1>6. SyncTypeOK
    BY <1>1, <1>2, <1>3, <1>4, <1>5 DEF SyncTypeOK
<1>7. \A s \in Syncs : Legal(sync[s])
    BY DEF Legal, Between
<1> QED BY <1>1, <1>6, <1>7 DEF SyncIInv

-----------------------------------------------------------------------------
(* Steps of the gateway                                                    *)

\* What a step has to say of a row to keep the accounts: nothing but the
\* status, set together with a delivery, and further deliveries.
LEMMA RowKept ==
    ASSUME SyncIInv, NEW i \in Ids, Settled(i), \A s \in Syncs : Relied(sync[s], i),
           UNCHANGED sync,
           effects'[i] = effects[i], noticed'[i] = noticed[i], lost'[i] = lost[i],
           i \in torn' <=> i \in torn,
           delivered'[i] \in Nat, delivered'[i] >= delivered[i],
           i \in sent => i \in sent',
           delivered[i] = 0 => (i \in sent' <=> i \in sent) /\ (i \in failed' <=> i \in failed)
    PROVE  Settled(i)' /\ \A s \in Syncs : Relied(sync[s], i)'
<1>1. delivered[i] \in Nat
    BY Counters DEF SyncIInv
<1>2. delivered'[i] = 0 => delivered[i] = 0
    BY <1>1
<1>3. Settled(i)'
    BY <1>2 DEF Settled
<1>4. ASSUME NEW s \in Syncs PROVE Relied(sync[s], i)'
    BY <1>2 DEF Relied, Open, Holding, Succeeded
<1> QED BY <1>3, <1>4

\* Dispatch adds a row nothing has happened to yet.
LEMMA InsertKeepsSync ==
    ASSUME SyncIInv, NEW k \in Kinds, InsertKind(k)
    PROVE  SyncIInv'
<1>1. /\ rows' = rows + 1 /\ sent' = sent /\ sync' = sync /\ failed' = failed /\ torn' = torn
      /\ batch' = batch /\ current' = current /\ pc' = pc
      /\ effects' = Append(effects, 0) /\ noticed' = Append(noticed, 0)
      /\ lost' = Append(lost, 0) /\ kind' = Append(kind, k)
      /\ delivered' = [i \in 1..(rows + 1) |-> IF i = rows + 1 THEN 0 ELSE delivered[i]]
    BY DEF InsertKind, Insert
<1>2. SyncTypeOK /\ rows \in Nat
    BY DEF SyncIInv, SyncTypeOK
<1>3. /\ effects' \in Seq(Nat) /\ Len(effects') = rows'
      /\ \A i \in Ids : effects'[i] = effects[i]
      /\ effects'[rows'] = 0
    BY <1>1, <1>2, NewCounter DEF SyncTypeOK, Ids
<1>4. /\ noticed' \in Seq(Nat) /\ Len(noticed') = rows'
      /\ \A i \in Ids : noticed'[i] = noticed[i]
      /\ noticed'[rows'] = 0
    BY <1>1, <1>2, NewCounter DEF SyncTypeOK, Ids
<1>5. /\ lost' \in Seq(Nat) /\ Len(lost') = rows'
      /\ \A i \in Ids : lost'[i] = lost[i]
      /\ lost'[rows'] = 0
    BY <1>1, <1>2, NewCounter DEF SyncTypeOK, Ids
<1>6. kind' \in Seq(Kinds) /\ Len(kind') = rows'
    BY <1>1, <1>2, Appending DEF SyncTypeOK
<1>7. /\ Ids \subseteq Ids' /\ rows' \in Ids' /\ rows' \notin Ids /\ rows' # 0
      /\ \A i \in Ids' : i \in Ids \/ i = rows'
    BY <1>1, <1>2 DEF Ids
<1>8. /\ delivered' \in [Ids' -> Nat]
      /\ \A i \in Ids : delivered'[i] = delivered[i]
    BY <1>1, <1>2 DEF SyncTypeOK, Ids
<1>9. SyncTypeOK'
    BY <1>1, <1>2, <1>3, <1>4, <1>5, <1>6, <1>7, <1>8 DEF SyncTypeOK, LockedBy
<1>10. ASSUME NEW i \in Ids' PROVE Settled(i)' /\ \A s \in Syncs : Relied(sync[s], i)'
  <2>1. CASE i \in Ids
    <3>1. delivered'[i] \in Nat /\ delivered'[i] >= delivered[i]
      BY <1>2, <1>8, <2>1 DEF SyncTypeOK
    <3>2. Settled(i) /\ \A s \in Syncs : Relied(sync[s], i)
      BY <2>1 DEF SyncIInv
    <3> QED BY <1>1, <1>3, <1>4, <1>5, <2>1, <3>1, <3>2, RowKept
  <2>2. CASE i = rows'
    <3>1. i \notin sent'
      BY <1>1, <1>2, <1>7, <2>2 DEF SyncTypeOK
    <3>2. Settled(i)'
      BY <1>3, <1>4, <1>5, <2>2, <3>1 DEF Settled
    <3>3. ASSUME NEW s \in Syncs PROVE Relied(sync[s], i)'
      <4>1. /\ sync[s].rows \cup sync[s].marks \cup sync[s].fails \subseteq Ids
            /\ sync[s].cur \in {0} \cup Ids
            /\ sync[s].pc \in {"apply", "notice", "mark"} => sync[s].cur \in Ids
        BY <1>2 DEF SyncTypeOK, LockedBy
      <4>2. i \notin Holding(sync[s]) /\ i \notin Succeeded(sync[s])
        <5>1. Legal(sync[s]) /\ i # 0 /\ i \notin Ids
          BY <1>7, <2>2 DEF SyncIInv
        <5> QED BY <4>1, <5>1 DEF Legal, Holding, Succeeded
      <4> QED BY <1>1, <1>4, <1>5, <2>2, <4>2 DEF Relied, Open, Holding, Succeeded
    <3> QED BY <3>2, <3>3
  <2> QED BY <1>7, <2>1, <2>2
<1>11. current' # 0 => delivered'[current'] > 0
    BY <1>1, <1>2, <1>8 DEF SyncIInv, SyncTypeOK
<1> QED BY <1>1, <1>9, <1>10, <1>11 DEF SyncIInv

\* The push thread: it gives a status only to rows it has delivered.
LEMMA PushKeepsSync ==
    ASSUME SyncIInv, PushMark \/ PushOther
    PROVE  SyncIInv'
<1>1. SyncTypeOK /\ UNCHANGED <<sync, effects, noticed, lost, torn, kind, rows>> /\ Ids' = Ids
    BY DEF SyncIInv, PushMark, PushOther, syncVars, Mark, ObserveStop, Connect, Scan, ScanFails,
           Accepted, SendAccepted, Failed, SendRefused, SendAnswerLost, MarkFails, EndBatch, Stop,
           CloseEvent, EndProcess, Crash, Vanish, Restart, Ids
<1>2. \A i \in Ids : delivered[i] \in Nat /\ delivered[i] >= delivered[i]
    BY <1>1, Counters
<1> DEFINE Handed ==
      /\ \A i \in Ids : delivered'[i] \in Nat /\ delivered'[i] >= delivered[i]
      /\ delivered' \in [Ids -> Nat]
      /\ batch' \subseteq Ids /\ current' \in {0} \cup Ids
      /\ pc' = "mark" => current' # 0
      /\ current' # 0 => delivered'[current'] > 0
<1>3. Handed
  <2>1. CASE PushMark
    BY <1>1, <1>2, <2>1 DEF SyncIInv, PushMark, Mark, SyncTypeOK
  <2>2. ASSUME NEW i \in Ids, SendAccepted(i) \/ SendAnswerLost(i)
        PROVE  /\ \A j \in Ids : delivered'[j] \in Nat /\ delivered'[j] >= delivered[j]
               /\ delivered' \in [Ids -> Nat]
               /\ delivered'[i] > 0
    BY <1>1, <1>2, <2>2 DEF SyncTypeOK, SendAccepted, SendAnswerLost, Bump
  <2>3. ASSUME NEW i \in Ids, SendAccepted(i) PROVE Handed
    <3>1. batch' \subseteq Ids /\ current' = i /\ pc' = "mark"
      BY <1>1, <2>3 DEF SyncTypeOK, SendAccepted
    <3>2. i # 0
      BY <1>1, Counters
    <3> QED BY <2>2, <2>3, <3>1, <3>2
  <2>4. ASSUME NEW i \in Ids, SendAnswerLost(i) PROVE Handed
    BY <1>1, <2>2, <2>4 DEF SyncIInv, SyncTypeOK, SendAnswerLost
  <2>5. ASSUME NEW i \in Ids, SendRefused(i) PROVE Handed
    BY <1>1, <1>2, <2>5 DEF SyncIInv, SyncTypeOK, SendRefused
  <2>6. CASE Scan
    <3>1. Scanned \subseteq Ids
      BY DEF Scanned, Unsent
    <3> QED BY <1>1, <1>2, <2>6, <3>1 DEF SyncIInv, SyncTypeOK, Scan
  <2>7. CASE MarkFails \/ EndProcess \/ Crash
    BY <1>1, <1>2, <2>7 DEF SyncIInv, SyncTypeOK, MarkFails, EndProcess, Crash, Vanish
  <2>8. CASE \/ ObserveStop \/ Connect \/ ScanFails \/ EndBatch \/ Stop \/ CloseEvent
             \/ Restart
    BY <1>1, <1>2, <2>8 DEF SyncIInv, SyncTypeOK, ObserveStop, Connect, ScanFails, EndBatch,
                            Stop, CloseEvent, Restart
  <2> QED BY <2>1, <2>3, <2>4, <2>5, <2>6, <2>7, <2>8 DEF PushOther, Accepted, Failed
<1>4. /\ sent \subseteq sent' /\ sent' \subseteq Ids /\ failed' \subseteq sent'
      /\ \A i \in Ids : delivered[i] = 0 =>
           (i \in sent' <=> i \in sent) /\ (i \in failed' <=> i \in failed)
  <2>1. CASE PushMark
    <3>1. current \in Ids /\ delivered[current] > 0
      BY <1>1, <2>1 DEF SyncIInv, SyncTypeOK, PushMark, Mark
    <3>2. sent' = sent \cup {current} /\ failed' = failed \ {current}
      BY <2>1 DEF PushMark, Mark
    <3>3. failed \subseteq sent /\ sent \subseteq Ids
      BY <1>1 DEF SyncTypeOK
    <3>4. \A i \in Ids : delivered[i] = 0 => i # current
      BY <3>1
    <3> QED BY <3>1, <3>2, <3>3, <3>4
  <2>2. CASE PushOther
    BY <1>1, <2>2 DEF SyncTypeOK, PushOther, syncVars, ObserveStop, Connect, Scan, ScanFails,
        Accepted, SendAccepted, Failed, SendRefused, SendAnswerLost, MarkFails, EndBatch, Stop,
        CloseEvent, EndProcess, Crash, Vanish, Restart
  <2> QED BY <2>1, <2>2
<1>5. SyncTypeOK'
    BY <1>1, <1>3, <1>4 DEF SyncTypeOK, LockedBy
<1>6. ASSUME NEW i \in Ids PROVE Settled(i)' /\ \A s \in Syncs : Relied(sync[s], i)'
  <2>1. Settled(i) /\ \A s \in Syncs : Relied(sync[s], i)
    BY DEF SyncIInv
  <2> QED BY <1>1, <1>3, <1>4, <2>1, RowKept
<1> QED BY <1>1, <1>3, <1>5, <1>6 DEF SyncIInv

-----------------------------------------------------------------------------
(* Steps of the script                                                     *)

\* A transaction of another shape in the same tables.
LEMMA RecordTypes ==
    ASSUME SyncTypeOK, NEW s \in Syncs, NEW record \in SyncRecords,
           sync' = [sync EXCEPT ![s] = record],
           record.rows \cup record.marks \cup record.fails \subseteq Ids,
           record.cur \in IF record.pc \in {"idle", "row"} THEN {0} ELSE Ids,
           UNCHANGED <<rows, batch, current, delivered, kind>>,
           sent' \subseteq Ids, failed' \subseteq sent', torn' \subseteq sent',
           effects' \in Seq(Nat), noticed' \in Seq(Nat), lost' \in Seq(Nat),
           Len(effects') = rows, Len(noticed') = rows, Len(lost') = rows
    PROVE  SyncTypeOK' /\ sync'[s] = record /\ \A t \in Syncs : t # s => sync'[t] = sync[t]
<1>1. /\ sync' \in [Syncs -> SyncRecords]
      /\ sync'[s] = record
      /\ \A t \in Syncs : t # s => sync'[t] = sync[t]
    BY DEF SyncTypeOK
<1>2. Ids' = Ids
    BY DEF Ids
<1>3. \A t \in Syncs : /\ sync'[t].rows \cup LockedBy(t)' \subseteq Ids
                       /\ sync'[t].cur \in IF sync'[t].pc \in {"idle", "row"} THEN {0} ELSE Ids
  <2> SUFFICES ASSUME NEW t \in Syncs
               PROVE  /\ sync'[t].rows \cup LockedBy(t)' \subseteq Ids
                      /\ sync'[t].cur \in IF sync'[t].pc \in {"idle", "row"} THEN {0} ELSE Ids
    OBVIOUS
  <2>1. CASE t = s
    BY <1>1, <2>1 DEF LockedBy
  <2>2. CASE t # s
    BY <1>1, <2>2 DEF SyncTypeOK, LockedBy
  <2> QED BY <2>1, <2>2
<1> QED BY <1>1, <1>2, <1>3 DEF SyncTypeOK

\* A step within the transaction, with `new` the rows the chatroom is told of.
LEMMA StepInCycle ==
    ASSUME SyncIInv, Alone, NEW s \in Syncs, NEW record \in SyncRecords, NEW new \in SUBSET Nat,
           Step(s, record), noticed' = Count(noticed, new),
           Legal(record),
           record.rows \cup record.marks \cup record.fails \subseteq Ids,
           record.cur \in IF record.pc \in {"idle", "row"} THEN {0} ELSE Ids,
           new \subseteq Open(sync[s]),
           record.told = sync[s].told \cup new,
           Open(record) \cap new = {},
           Open(record) \subseteq Open(sync[s]) \cup (Unsent \ sync[s].told),
           Holding(record) \subseteq Holding(sync[s]) \cup Unsent \cup {0},
           Succeeded(record) \subseteq Succeeded(sync[s]) \cup new,
           \A i \in Unsent : effects[i] = 0
    PROVE  SyncIInv'
<1>1. /\ sync' = [sync EXCEPT ![s] = record]
      /\ UNCHANGED <<rows, sent, batch, current, pc, delivered, kind, failed, effects, torn, lost>>
      /\ Ids' = Ids
    BY DEF Step, vars, Ids
<1>2. SyncTypeOK /\ Ids = 1..rows /\ rows \in Nat
    BY DEF SyncIInv, SyncTypeOK, Ids
<1>3. /\ noticed' \in Seq(Nat) /\ Len(noticed') = rows
      /\ \A i \in Ids : noticed'[i] = IF i \in new THEN noticed[i] + 1 ELSE noticed[i]
  <2>1. noticed \in Seq(Nat) /\ Ids = 1..Len(noticed) /\ Len(noticed) = rows
    BY <1>2 DEF SyncTypeOK
  <2>2. \A ids : /\ Count(noticed, ids) \in Seq(Nat)
                 /\ Len(Count(noticed, ids)) = Len(noticed)
                 /\ \A i \in 1..Len(noticed) : Count(noticed, ids)[i] =
                      IF i \in ids THEN noticed[i] + 1 ELSE noticed[i]
    BY <2>1, Counting
  <2> QED BY <1>2, <2>1, <2>2
<1>4. SyncTypeOK' /\ sync'[s] = record /\ \A t \in Syncs : t = s
    BY <1>1, <1>2, <1>3, RecordTypes DEF SyncTypeOK, Alone
<1>5. ASSUME NEW i \in Ids PROVE Settled(i)' /\ Relied(record, i)'
  <2>1. Settled(i) /\ Relied(sync[s], i)
    BY DEF SyncIInv
  <2>2. /\ effects[i] \in Nat /\ noticed[i] \in Nat /\ lost[i] \in Nat /\ i # 0
        /\ noticed'[i] = IF i \in new THEN noticed[i] + 1 ELSE noticed[i]
    BY <1>2, <1>3, Counters
  <2>3. i \in new => noticed[i] <= lost[i]
    BY <2>1 DEF Relied
  <2>4. Settled(i)'
    BY <1>1, <2>1, <2>2, <2>3 DEF Settled
  <2>5. i \in Open(record) \/ i \notin sent \cup record.told => noticed'[i] <= lost'[i]
    <3>1. CASE i \in new
      BY <3>1
    <3>2. CASE i \notin new
      BY <1>1, <2>1, <2>2, <3>2 DEF Relied, Unsent
    <3> QED BY <3>1, <3>2
  <2>6. i \in Holding(record) => effects'[i] = 0 /\ (delivered'[i] = 0 => i \notin sent')
    BY <1>1, <2>1, <2>2 DEF Relied, Unsent
  <2>7. i \in Succeeded(record) => noticed'[i] > 0
    BY <2>1, <2>2 DEF Relied
  <2>8. Relied(record, i)'
    BY <1>1, <2>5, <2>6, <2>7 DEF Relied, Open, Holding, Succeeded
  <2> QED BY <2>4, <2>8
<1> QED BY <1>1, <1>4, <1>5 DEF SyncIInv

\* A transaction that ends leaves nothing behind in the script.
LEMMA BetweenLegal == Between \in SyncRecords /\ Legal(Between) /\ Open(Between) = {}
                      /\ Holding(Between) = {0} /\ Succeeded(Between) = {}
    BY DEF Between, SyncRecords, Legal, Open, Holding, Succeeded

\* The commit: the statuses, the effects and the account of the notices agree.
LEMMA CommitKeeps ==
    ASSUME SyncIInv, Alone, NEW s \in Syncs, Commit(s)
    PROVE  SyncIInv'
<1> DEFINE r == sync[s]
<1>1. /\ r.pc = "row" /\ r.rows = {}
      /\ sent' = sent \cup r.marks \cup r.fails
      /\ failed' = (failed \ r.marks) \cup r.fails
      /\ effects' = Count(effects, r.effect)
      /\ torn' = torn \cup r.torn
      /\ sync' = [sync EXCEPT ![s] = Between]
      /\ UNCHANGED <<rows, batch, current, pc, delivered, kind, noticed, lost>>
      /\ Ids' = Ids
    BY DEF Commit, At, Ids
<1>2. SyncTypeOK /\ Ids = 1..rows /\ rows \in Nat /\ Legal(r)
    BY DEF SyncIInv, SyncTypeOK, Ids
<1>3. /\ effects' \in Seq(Nat) /\ Len(effects') = rows
      /\ \A i \in Ids : effects'[i] = IF i \in r.effect THEN effects[i] + 1 ELSE effects[i]
  <2>1. effects \in Seq(Nat) /\ Ids = 1..Len(effects) /\ Len(effects) = rows
    BY <1>2 DEF SyncTypeOK
  <2>2. \A ids : /\ Count(effects, ids) \in Seq(Nat)
                 /\ Len(Count(effects, ids)) = Len(effects)
                 /\ \A i \in 1..Len(effects) : Count(effects, ids)[i] =
                      IF i \in ids THEN effects[i] + 1 ELSE effects[i]
    BY <2>1, Counting
  <2> QED BY <1>1, <1>2, <2>1, <2>2
<1>4. /\ r.marks \cap r.fails = {} /\ r.marks \subseteq r.effect
      /\ r.effect \subseteq r.marks \cup r.fails
      /\ r.told \subseteq r.marks \cup r.fails
      /\ r.torn \subseteq r.fails
      /\ r.marks \cup r.fails \subseteq Ids
    BY <1>1, <1>2 DEF Legal, SyncTypeOK, LockedBy
<1>5. sent' \subseteq Ids /\ failed' \subseteq sent' /\ torn' \subseteq sent'
    BY <1>1, <1>2, <1>4 DEF SyncTypeOK
<1>6. SyncTypeOK' /\ sync'[s] = Between /\ \A t \in Syncs : t = s
  <2>1. /\ Between \in SyncRecords
        /\ Between.rows \cup Between.marks \cup Between.fails \subseteq Ids
        /\ Between.cur \in IF Between.pc \in {"idle", "row"} THEN {0} ELSE Ids
    BY BetweenLegal DEF Between
  <2> QED BY <1>1, <1>2, <1>3, <1>5, <2>1, RecordTypes DEF SyncTypeOK, Alone
<1>7. ASSUME NEW i \in Ids PROVE Settled(i)' /\ Relied(Between, i)'
  <2>1. Settled(i) /\ Relied(r, i)
    BY DEF SyncIInv
  <2>2. /\ effects[i] \in Nat /\ noticed[i] \in Nat /\ lost[i] \in Nat /\ i # 0
        /\ effects'[i] = IF i \in r.effect THEN effects[i] + 1 ELSE effects[i]
    BY <1>2, <1>3, Counters
  <2>3. i \in r.effect \cup r.marks \cup r.fails =>
          effects[i] = 0 /\ (delivered[i] = 0 => i \notin sent)
    BY <2>1 DEF Relied, Holding
  <2>4. effects'[i] = 0 \/ (effects'[i] = 1 /\ i \in sent')
    BY <1>1, <1>4, <2>1, <2>2, <2>3 DEF Settled
  <2>5. ASSUME i \in sent', delivered'[i] = 0
        PROVE  /\ i \notin failed' => effects'[i] > 0 /\ noticed'[i] > 0
               /\ i \in torn' => i \in failed'
    <3>1. CASE i \in r.marks
      <4>1. noticed[i] > 0
        BY <2>1, <3>1 DEF Relied, Succeeded
      <4>2. i \notin torn /\ i \notin r.torn
        BY <1>1, <1>2, <1>4, <2>3, <2>5, <3>1 DEF SyncTypeOK
      <4> QED BY <1>1, <1>4, <2>2, <3>1, <4>1, <4>2
    <3>2. CASE i \in r.fails
      BY <1>1, <3>2
    <3>3. CASE i \notin r.marks \cup r.fails
      BY <1>1, <1>4, <2>1, <2>2, <2>5, <3>3 DEF Settled
    <3> QED BY <3>1, <3>2, <3>3
  <2>6. Settled(i)'
    BY <1>1, <2>1, <2>4, <2>5 DEF Settled
  <2>7. i \notin sent' => noticed'[i] <= lost'[i]
    BY <1>1, <1>4, <2>1 DEF Relied
  <2>8. Relied(Between, i)'
    BY <2>2, <2>7, BetweenLegal DEF Relied, Between, Open, Holding, Succeeded
  <2> QED BY <2>6, <2>8
<1>8. /\ pc' = "mark" => current' # 0
      /\ current' # 0 => delivered'[current'] > 0
    BY <1>1 DEF SyncIInv
<1> QED BY <1>1, <1>6, <1>7, <1>8, BetweenLegal DEF SyncIInv, Between

\* A rollback: the notices stay, and are counted as lost.
LEMMA AbortKeeps ==
    ASSUME SyncIInv, Alone, NEW s \in Syncs, Abort(s)
    PROVE  SyncIInv'
<1> DEFINE r == sync[s]
<1>1. /\ lost' = Count(lost, r.told)
      /\ sync' = [sync EXCEPT ![s] = Between]
      /\ UNCHANGED <<rows, sent, batch, current, pc, delivered, kind, failed, effects, torn, noticed>>
      /\ Ids' = Ids
    BY DEF Abort, vars, Ids
<1>2. SyncTypeOK /\ Ids = 1..rows /\ rows \in Nat
    BY DEF SyncIInv, SyncTypeOK, Ids
<1>3. /\ lost' \in Seq(Nat) /\ Len(lost') = rows
      /\ \A i \in Ids : lost'[i] = IF i \in r.told THEN lost[i] + 1 ELSE lost[i]
  <2>1. lost \in Seq(Nat) /\ Ids = 1..Len(lost) /\ Len(lost) = rows
    BY <1>2 DEF SyncTypeOK
  <2>2. \A ids : /\ Count(lost, ids) \in Seq(Nat)
                 /\ Len(Count(lost, ids)) = Len(lost)
                 /\ \A i \in 1..Len(lost) : Count(lost, ids)[i] =
                      IF i \in ids THEN lost[i] + 1 ELSE lost[i]
    BY <2>1, Counting
  <2>3. lost' = Count(lost, r.told)
    BY <1>1
  <2> HIDE DEF r
  <2> QED BY <2>1, <2>2, <2>3, <1>2
<1>4. SyncTypeOK' /\ sync'[s] = Between /\ \A t \in Syncs : t = s
  <2>1. /\ Between \in SyncRecords
        /\ Between.rows \cup Between.marks \cup Between.fails \subseteq Ids
        /\ Between.cur \in IF Between.pc \in {"idle", "row"} THEN {0} ELSE Ids
    BY BetweenLegal DEF Between
  <2> QED BY <1>1, <1>2, <1>3, <2>1, RecordTypes DEF SyncTypeOK, Alone
<1>5. ASSUME NEW i \in Ids PROVE Settled(i)' /\ Relied(Between, i)'
  <2>1. Settled(i) /\ Relied(r, i)
    BY DEF SyncIInv
  <2>2. /\ noticed[i] \in Nat /\ lost[i] \in Nat /\ i # 0
        /\ lost'[i] = IF i \in r.told THEN lost[i] + 1 ELSE lost[i]
    BY <1>2, <1>3, Counters
  <2>3. Settled(i)'
    BY <1>1, <2>1, <2>2 DEF Settled
  <2>4. i \notin sent' => noticed'[i] <= lost'[i]
    BY <1>1, <2>1, <2>2 DEF Relied, Settled
  <2>5. Relied(Between, i)'
    BY <2>2, <2>4, BetweenLegal DEF Relied, Between, Open, Holding, Succeeded
  <2> QED BY <2>3, <2>5
<1>6. /\ pc' = "mark" => current' # 0
      /\ current' # 0 => delivered'[current'] > 0
    BY <1>1 DEF SyncIInv
<1> QED BY <1>1, <1>4, <1>5, <1>6, BetweenLegal DEF SyncIInv, Between
\* A step of a cycle.
LEMMA CycleKeeps ==
    ASSUME SyncIInv, Alone, NEW s \in Syncs, SyncStep(s)
    PROVE  SyncIInv'
<1> DEFINE r == sync[s]
<1>1. /\ r \in SyncRecords /\ Legal(r)
      /\ r.rows \cup r.marks \cup r.fails \subseteq Ids
      /\ r.cur \in IF r.pc \in {"idle", "row"} THEN {0} ELSE Ids
      /\ \A i \in Ids : i \in Nat /\ i # 0
      /\ Ids \subseteq Nat
    BY Counters DEF SyncIInv, SyncTypeOK, LockedBy
<1>2. \A i \in Unsent : effects[i] = 0
    BY DEF SyncIInv, Settled, Unsent
<1>3. Count(noticed, {}) = noticed
  <2>1. noticed \in Seq(Nat)
    BY DEF SyncIInv, SyncTypeOK
  <2>2. noticed = [i \in DOMAIN noticed |-> noticed[i]]
    BY <2>1
  <2> QED BY <2>2 DEF Count
<1>4. ASSUME NEW record \in SyncRecords, Step(s, record), UNCHANGED noticed,
             Legal(record),
             record.rows \cup record.marks \cup record.fails \subseteq Ids,
             record.cur \in IF record.pc \in {"idle", "row"} THEN {0} ELSE Ids,
             record.told = r.told,
             Open(record) \subseteq Open(r) \cup (Unsent \ r.told),
             Holding(record) \subseteq Holding(r) \cup Unsent \cup {0},
             Succeeded(record) \subseteq Succeeded(r)
      PROVE  SyncIInv'
  <2>1. noticed' = Count(noticed, {}) /\ record.told = r.told \cup {}
    BY <1>3, <1>4
  <2>2. {} \in SUBSET Nat /\ {} \subseteq Open(r) /\ Open(record) \cap {} = {}
    OBVIOUS
  <2>3. Succeeded(record) \subseteq Succeeded(r) \cup {}
    BY <1>4
  <2> QED BY <1>2, <1>4, <2>1, <2>2, <2>3, StepInCycle
<1> USE DEF SyncRecords, At
<1>5. CASE BeginCycle(s)
  <2> DEFINE new == [Between EXCEPT !.pc = "row", !.rows = Selected]
  <2>1. Selected \subseteq Unsent /\ Unsent \subseteq Ids
    BY DEF Selected, Unsent
  <2>2. r = Between
    BY <1>1, <1>5 DEF BeginCycle, Legal
  <2>3. new \in SyncRecords /\ Step(s, new) /\ UNCHANGED noticed
    BY <1>1, <1>5, <2>1 DEF BeginCycle, Between
  <2>4. /\ Legal(new)
        /\ new.rows \cup new.marks \cup new.fails \subseteq Ids
        /\ new.cur \in IF new.pc \in {"idle", "row"} THEN {0} ELSE Ids
        /\ new.told = r.told
    BY <1>1, <2>1, <2>2 DEF Legal, Between
  <2>5. /\ Open(new) \subseteq Open(r) \cup (Unsent \ r.told)
        /\ Holding(new) \subseteq Holding(r) \cup Unsent
        /\ Succeeded(new) \subseteq Succeeded(r)
    BY <2>1, <2>2 DEF Open, Holding, Succeeded, Between
  <2> HIDE DEF new
  <2> QED BY <1>4, <2>3, <2>4, <2>5
<1>6. ASSUME NEW i \in Ids, SkipRow(s, i) PROVE SyncIInv'
  <2> DEFINE new == [r EXCEPT !.rows = @ \ {i}]
  <2>1. new \in SyncRecords /\ Step(s, new) /\ UNCHANGED noticed /\ r.pc = "row"
    BY <1>1, <1>6 DEF SkipRow, IsTurn
  <2>2. /\ Legal(new)
        /\ new.rows \cup new.marks \cup new.fails \subseteq Ids
        /\ new.cur \in IF new.pc \in {"idle", "row"} THEN {0} ELSE Ids
        /\ new.told = r.told
        /\ Open(new) \subseteq Open(r)
        /\ Holding(new) \subseteq Holding(r)
        /\ Succeeded(new) \subseteq Succeeded(r)
    BY <1>1, <2>1 DEF Legal, Open, Holding, Succeeded, Between
  <2> HIDE DEF new
  <2> QED BY <1>4, <2>1, <2>2
<1>7. ASSUME NEW i \in Ids, FindRoom(s, i) PROVE SyncIInv'
  <2>1. PICK found \in BOOLEAN :
          Step(s, [r EXCEPT !.cur = i, !.rows = @ \ {i},
                            !.pc = IF found THEN "apply" ELSE "fail"])
    BY <1>7 DEF FindRoom
  <2>2. PICK place \in {"apply", "fail"} :
          Step(s, [r EXCEPT !.cur = i, !.rows = @ \ {i}, !.pc = place])
    BY <2>1
  <2> DEFINE new == [r EXCEPT !.cur = i, !.rows = @ \ {i}, !.pc = place]
  <2>3. i \in r.rows /\ r.pc = "row" /\ UNCHANGED noticed
    BY <1>7 DEF FindRoom, IsTurn
  <2>4. new \in SyncRecords
    BY <1>1
  <2>5. /\ Legal(new)
        /\ new.rows \cup new.marks \cup new.fails \subseteq Ids
        /\ new.cur \in IF new.pc \in {"idle", "row"} THEN {0} ELSE Ids
        /\ new.told = r.told
        /\ Open(new) \subseteq Open(r)
        /\ Holding(new) \subseteq Holding(r)
        /\ Succeeded(new) \subseteq Succeeded(r)
    BY <1>1, <2>3 DEF Legal, Open, Holding, Succeeded, Between
  <2> HIDE DEF new
  <2> QED BY <1>4, <2>2, <2>3, <2>4, <2>5 DEF new
<1>8. CASE Apply(s)
  <2> DEFINE new == [r EXCEPT !.pc = "notice", !.effect = @ \cup {r.cur}]
  <2>1. r.pc = "apply" /\ Step(s, new) /\ UNCHANGED noticed
    BY <1>8 DEF Apply
  <2>2. new \in SyncRecords
    BY <1>1, <2>1
  <2>3. /\ Legal(new)
        /\ new.rows \cup new.marks \cup new.fails \subseteq Ids
        /\ new.cur \in IF new.pc \in {"idle", "row"} THEN {0} ELSE Ids
        /\ new.told = r.told
        /\ Open(new) \subseteq Open(r)
        /\ Holding(new) \subseteq Holding(r)
        /\ Succeeded(new) \subseteq Succeeded(r)
    BY <1>1, <2>1 DEF Legal, Open, Holding, Succeeded, Between
  <2> HIDE DEF new
  <2> QED BY <1>4, <2>1, <2>2, <2>3
<1>9. CASE ApplyFails(s)
  <2>1. PICK some \in SUBSET {r.cur} :
          Step(s, [r EXCEPT !.pc = "fail", !.torn = @ \cup some])
    BY <1>9 DEF ApplyFails
  <2> DEFINE new == [r EXCEPT !.pc = "fail", !.torn = @ \cup some]
  <2>2. r.pc = "apply" /\ UNCHANGED noticed /\ some \subseteq {r.cur}
    BY <1>9 DEF ApplyFails
  <2>3. new \in SyncRecords
    BY <1>1, <2>2
  <2>4. /\ Legal(new)
        /\ new.rows \cup new.marks \cup new.fails \subseteq Ids
        /\ new.cur \in IF new.pc \in {"idle", "row"} THEN {0} ELSE Ids
        /\ new.told = r.told
        /\ Open(new) \subseteq Open(r)
        /\ Holding(new) \subseteq Holding(r)
        /\ Succeeded(new) \subseteq Succeeded(r)
    BY <1>1, <2>2 DEF Legal, Open, Holding, Succeeded, Between
  <2> HIDE DEF new
  <2> QED BY <1>4, <2>1, <2>2, <2>3, <2>4 DEF new
<1>10. CASE Notice(s) \/ NoticeFails(s)
  <2>1. PICK told \in SUBSET {r.cur}, place \in {"mark", "fail"} :
          /\ place = "mark" => told = {r.cur}
          /\ noticed' = Count(noticed, told)
          /\ Step(s, [r EXCEPT !.pc = place, !.told = @ \cup told])
    BY <1>10, ZenonT(40) DEF Notice, NoticeFails
  <2> DEFINE new == [r EXCEPT !.pc = place, !.told = @ \cup told]
  <2>2. r.pc = "notice" /\ told \subseteq {r.cur}
    BY <1>10 DEF Notice, NoticeFails
  <2>3. new \in SyncRecords /\ told \in SUBSET Nat
    BY <1>1, <2>2
  <2>4. /\ Legal(new)
        /\ new.rows \cup new.marks \cup new.fails \subseteq Ids
        /\ new.cur \in IF new.pc \in {"idle", "row"} THEN {0} ELSE Ids
        /\ new.told = r.told \cup told
    BY <1>1, <2>2 DEF Legal, Between
  <2>5. /\ told \subseteq Open(r)
        /\ Open(new) \cap told = {}
        /\ Open(new) \subseteq Open(r) \cup (Unsent \ r.told)
        /\ Holding(new) \subseteq Holding(r) \cup Unsent
        /\ Succeeded(new) \subseteq Succeeded(r) \cup told
    BY <1>1, <2>1, <2>2 DEF Legal, Open, Holding, Succeeded
  <2> HIDE DEF new
  <2>6. Step(s, new)
    BY <2>1 DEF new
  <2> QED BY <1>2, <2>1, <2>3, <2>4, <2>5, <2>6, StepInCycle
<1>11. CASE MarkRow(s)
  <2> DEFINE new == [r EXCEPT !.pc = "row", !.cur = 0, !.marks = @ \cup {r.cur}]
  <2>1. r.pc = "mark" /\ Step(s, new) /\ UNCHANGED noticed
    BY <1>11 DEF MarkRow
  <2>2. new \in SyncRecords
    BY <1>1, <2>1
  <2>3. /\ Legal(new)
        /\ new.rows \cup new.marks \cup new.fails \subseteq Ids
        /\ new.cur \in IF new.pc \in {"idle", "row"} THEN {0} ELSE Ids
        /\ new.told = r.told
    BY <1>1, <2>1 DEF Legal, Between
  <2>4. /\ Open(new) \subseteq Open(r)
        /\ Holding(new) \subseteq Holding(r) \cup {0}
        /\ Succeeded(new) \subseteq Succeeded(r)
    BY <1>1, <2>1 DEF Legal, Open, Holding, Succeeded, Between
  <2> HIDE DEF new
  <2> QED BY <1>4, <2>1, <2>2, <2>3, <2>4
<1>12. CASE MarkFailed(s)
  <2> DEFINE new == [r EXCEPT !.pc = "row", !.cur = 0, !.fails = @ \cup {r.cur}]
  <2>1. r.pc = "fail" /\ Step(s, new) /\ UNCHANGED noticed
    BY <1>12 DEF MarkFailed
  <2>2. new \in SyncRecords
    BY <1>1, <2>1
  <2>3. /\ Legal(new)
        /\ new.rows \cup new.marks \cup new.fails \subseteq Ids
        /\ new.cur \in IF new.pc \in {"idle", "row"} THEN {0} ELSE Ids
        /\ new.told = r.told
    BY <1>1, <2>1 DEF Legal, Between
  <2>4. /\ Open(new) \subseteq Open(r)
        /\ Holding(new) \subseteq Holding(r) \cup {0}
        /\ Succeeded(new) \subseteq Succeeded(r)
    BY <1>1, <2>1 DEF Legal, Open, Holding, Succeeded, Between
  <2> HIDE DEF new
  <2> QED BY <1>4, <2>1, <2>2, <2>3, <2>4
<1>13. CASE MarkRowFails(s)
  <2> DEFINE new == [r EXCEPT !.pc = "fail"]
  <2>1. r.pc = "mark" /\ Step(s, new) /\ UNCHANGED noticed
    BY <1>13 DEF MarkRowFails
  <2>2. new \in SyncRecords
    BY <1>1, <2>1
  <2>3. /\ Legal(new)
        /\ new.rows \cup new.marks \cup new.fails \subseteq Ids
        /\ new.cur \in IF new.pc \in {"idle", "row"} THEN {0} ELSE Ids
        /\ new.told = r.told
    BY <1>1, <2>1 DEF Legal, Between
  <2>4. /\ Open(new) \subseteq Open(r)
        /\ Holding(new) \subseteq Holding(r) \cup {0}
        /\ Succeeded(new) \subseteq Succeeded(r)
    BY <1>1, <2>1 DEF Legal, Open, Holding, Succeeded, Between
  <2> HIDE DEF new
  <2> QED BY <1>4, <2>1, <2>2, <2>3, <2>4
<1> QED BY <1>5, <1>6, <1>7, <1>8, <1>9, <1>10, <1>11, <1>12, <1>13,
           CommitKeeps DEF SyncStep

-----------------------------------------------------------------------------
\* Every step keeps the invariant.
LEMMA SyncKeeps == ASSUME SyncIInv, Alone, [SNext]_allVars PROVE SyncIInv'
<1>1. CASE UNCHANGED allVars
  <2> USE <1>1 DEF allVars, vars, syncVars
  <2>1. SyncTypeOK'
    BY DEF SyncIInv, SyncTypeOK, Ids, LockedBy
  <2>2. ASSUME NEW i \in Ids PROVE Settled(i)' /\ \A s \in Syncs : Relied(sync[s], i)'
    BY DEF SyncIInv, Settled, Relied, Open, Holding, Succeeded
  <2> QED BY <2>1, <2>2 DEF SyncIInv, Ids
<1>2. CASE SNext
    BY <1>2, InsertKeepsSync, PushKeepsSync, CycleKeeps, AbortKeeps DEF SNext
<1> QED BY <1>1, <1>2

\* The inductive invariant, for any number of rows, rollbacks and mishaps.
THEOREM SyncInvariant == ASSUME Alone PROVE SSpec => []SyncIInv
<1>1. SyncIInv /\ [SNext]_allVars => SyncIInv'
    BY SyncKeeps
<1> QED BY SyncInitial, <1>1, PTL DEF SSpec

\* With one instance a command takes effect once at most, whatever is rolled
\* back and whatever the push thread does with its row (lines 798-818, 910-926).
THEOREM CommandsTakeEffectOnce == ASSUME Alone PROVE SSpec => []ExecutedOnce
<1>1. SyncIInv => ExecutedOnce
    BY DEF SyncIInv, ExecutedOnce, Settled
<1> QED BY SyncInvariant, <1>1, PTL

\* With one instance the chatroom is told of a command once, and once more only
\* for each cycle that was rolled back after the notice (lines 872, 928-929).
THEOREM NoticesAreAccountedFor == ASSUME Alone PROVE SSpec => []NoticesHaveACause
<1>1. SyncIInv => NoticesHaveACause
  <2> SUFFICES ASSUME SyncIInv, NEW i \in Ids PROVE noticed[i] <= 1 + lost[i]
    BY DEF NoticesHaveACause
  <2>1. noticed[i] <= lost[i] + 1 /\ lost[i] \in Nat
    BY Counters DEF SyncIInv, Settled
  <2> QED BY <2>1
<1> QED BY SyncInvariant, <1>1, PTL

\* With one instance the status of a command that was not forwarded tells what
\* became of it: 1, executed and told; -1, whenever it was executed in part
\* (lines 913, 923).
THEOREM StatusIsTruthful == ASSUME Alone PROVE SSpec => []StatusTells
<1>1. SyncIInv => StatusTells
    BY DEF SyncIInv, SyncTypeOK, StatusTells, Settled
<1> QED BY SyncInvariant, <1>1, PTL

(***************************************************************************)
(* The PID file                                                            *)
(*                                                                         *)
(* Exclusive is not inductive: that nobody runs when a start writes the    *)
(* file depends on what the start saw.  ExclusiveIInv follows one start    *)
(* through its steps.                                                      *)
(***************************************************************************)

\* Initially there is no file and no process.
LEMMA ExclusiveInit == InstInit => ExclusiveIInv
    BY DEF InstInit, ExclusiveIInv, InstTypeOK, Starting, Running, Phases,
           StartPhases, RunPhases

\* Every step of a process keeps the types.
LEMMA TypesNext == ASSUME InstTypeOK, InstNext PROVE InstTypeOK'
<1> USE DEF InstTypeOK, Goto, Phases, StartPhases, RunPhases
<1>1. PICK p \in Pids : InstStep(p) \/ Leave(p) \/ Kill(p)
    BY DEF InstNext
<1>2. CASE Launch(p) BY <1>2 DEF Launch
<1>3. CASE LookForFile(p) BY <1>3 DEF LookForFile
<1>4. CASE ReadFile(p) BY <1>4 DEF ReadFile
<1>5. CASE Refuse(p) BY <1>5 DEF Refuse
<1>6. CASE FindStale(p) BY <1>6 DEF FindStale
<1>7. CASE RemoveFile(p) BY <1>7 DEF RemoveFile
<1>8. CASE OpenFile(p) BY <1>8 DEF OpenFile
<1>9. CASE WriteFile(p) BY <1>9 DEF WriteFile
<1>10. CASE Leave(p) BY <1>10 DEF Leave
<1>11. CASE LookOnceMore(p) BY <1>11 DEF LookOnceMore
<1>12. CASE Unlink(p) BY <1>12 DEF Unlink
<1>13. CASE Kill(p) BY <1>13 DEF Kill
<1>14. CASE Occupy(p) BY <1>14 DEF Occupy
<1> QED BY <1>1, <1>2, <1>3, <1>4, <1>5, <1>6, <1>7, <1>8, <1>9, <1>10, <1>11,
           <1>12, <1>13, <1>14 DEF InstStep

\* Every step of a process keeps the invariant.
LEMMA ExclusiveNext == ASSUME ExclusiveIInv, InstNext PROVE ExclusiveIInv'
<1> USE PidsAssumption DEF ExclusiveIInv, InstTypeOK, Goto, Starting, Running, Phases,
        StartPhases, RunPhases
<1>0. InstTypeOK'
    BY TypesNext
<1>1. PICK p \in Pids : InstStep(p) \/ Leave(p) \/ Kill(p)
    BY DEF InstNext
<1>2. CASE Launch(p) BY <1>0, <1>2 DEF Launch
<1>3. CASE LookForFile(p) BY <1>0, <1>3 DEF LookForFile
<1>4. CASE ReadFile(p) BY <1>0, <1>4 DEF ReadFile
<1>5. CASE Refuse(p) BY <1>0, <1>5 DEF Refuse
<1>6. CASE FindStale(p) BY <1>0, <1>6 DEF FindStale, Alive
<1>7. CASE RemoveFile(p) BY <1>0, <1>7 DEF RemoveFile
<1>8. CASE OpenFile(p) BY <1>0, <1>8 DEF OpenFile
<1>9. CASE WriteFile(p) BY <1>0, <1>9 DEF WriteFile
<1>10. CASE Leave(p) BY <1>0, <1>10 DEF Leave
<1>11. CASE LookOnceMore(p) BY <1>0, <1>11 DEF LookOnceMore
<1>12. CASE Unlink(p) BY <1>0, <1>12 DEF Unlink
<1>13. CASE Kill(p) BY <1>0, <1>13 DEF Kill
<1>14. CASE Occupy(p) BY <1>0, <1>14 DEF Occupy
<1> QED BY <1>1, <1>2, <1>3, <1>4, <1>5, <1>6, <1>7, <1>8, <1>9, <1>10, <1>11,
           <1>12, <1>13, <1>14 DEF InstStep

\* A step that changes nothing keeps it, too.
LEMMA ExclusiveStutter == ASSUME ExclusiveIInv, UNCHANGED instVars PROVE ExclusiveIInv'
    BY DEF ExclusiveIInv, InstTypeOK, Starting, Running, instVars

\* Unless two starts overlapped or a running instance was taken for gone, one
\* instance runs at most and the file names it (ensure_single_instance).
THEOREM OneInstance == InstSpec => []Exclusive
<1>1. ExclusiveIInv => Exclusive
    BY DEF ExclusiveIInv, Exclusive
<1>2. ExclusiveIInv /\ [InstNext]_instVars => ExclusiveIInv'
    BY ExclusiveNext, ExclusiveStutter
<1> QED BY ExclusiveInit, <1>1, <1>2, PTL DEF InstSpec

-----------------------------------------------------------------------------
(* Refusals                                                                *)

\* Every step of a process keeps the ids that tell a start of an instance
\* those of running or ended ones.
LEMMA NamesNext ==
    ASSUME InstTypeOK, NamesIInv, InstNext
    PROVE  NamesIInv'
<1> USE PidsAssumption DEF NamesIInv, InstTypeOK, Goto, Starting, Named, Phases, StartPhases,
        RunPhases
<1>0. InstTypeOK'
    BY TypesNext
<1>1. PICK p \in Pids : InstStep(p) \/ Leave(p) \/ Kill(p)
    BY DEF InstNext
<1>2. CASE Launch(p) BY <1>0, <1>2 DEF Launch
<1>3. CASE LookForFile(p) BY <1>0, <1>3 DEF LookForFile
<1>4. CASE ReadFile(p) BY <1>0, <1>4 DEF ReadFile
<1>5. CASE Refuse(p) BY <1>0, <1>5 DEF Refuse
<1>6. CASE FindStale(p) BY <1>0, <1>6 DEF FindStale, Alive
<1>7. CASE RemoveFile(p) BY <1>0, <1>7 DEF RemoveFile
<1>8. CASE OpenFile(p) BY <1>0, <1>8 DEF OpenFile
<1>9. CASE WriteFile(p) BY <1>0, <1>9 DEF WriteFile
<1>10. CASE Leave(p) BY <1>0, <1>10 DEF Leave
<1>11. CASE LookOnceMore(p) BY <1>0, <1>11 DEF LookOnceMore
<1>12. CASE Unlink(p) BY <1>0, <1>12 DEF Unlink
<1>13. CASE Kill(p) BY <1>0, <1>13 DEF Kill
<1>14. CASE Occupy(p) BY <1>0, <1>14 DEF Occupy
<1> QED BY <1>1, <1>2, <1>3, <1>4, <1>5, <1>6, <1>7, <1>8, <1>9, <1>10, <1>11,
           <1>12, <1>13, <1>14 DEF InstStep

\* A start is refused because an instance runs, unless two starts overlapped,
\* one took a running instance for gone, or an id was used again
\* (ensure_single_instance, line 153).
THEOREM RefusalsHaveACause == InstSpec => RefusedForACause
<1>1. InstInit => InstTypeOK /\ NamesIInv
  <2> SUFFICES ASSUME InstInit PROVE InstTypeOK /\ NamesIInv
    OBVIOUS
  <2>1. InstTypeOK
    BY DEF InstInit, InstTypeOK, Phases, StartPhases, RunPhases
  <2>2. Named \cap Pids = {}
    BY PidsAssumption DEF InstInit, Named
  <2>3. NamesIInv
    BY <2>2 DEF InstInit, NamesIInv, Starting, StartPhases
  <2> QED BY <2>1, <2>3
<1>2. InstTypeOK /\ NamesIInv /\ [InstNext]_instVars => (InstTypeOK /\ NamesIInv)'
  <2>1. ASSUME InstTypeOK, NamesIInv, UNCHANGED instVars PROVE (InstTypeOK /\ NamesIInv)'
    <3>1. Named' = Named /\ Starting' = Starting
      BY <2>1 DEF Named, Starting, instVars
    <3> QED BY <2>1, <3>1 DEF InstTypeOK, NamesIInv, instVars
  <2> QED BY <2>1, TypesNext, NamesNext
<1>3. InstTypeOK /\ NamesIInv =>
        [\A p \in Pids : Refuse(p) => Running # {} \/ history # {}]_instVars
    BY DEF InstTypeOK, NamesIInv, Named, Refuse, Alive, Running
<1> QED BY <1>1, <1>2, <1>3, PTL DEF InstSpec, RefusedForACause

(***************************************************************************)
(* The script                                                              *)
(***************************************************************************)

\* The initial states satisfy the invariant.
LEMMA ScriptInitial == ScriptInit => ScriptIInv
<1> SUFFICES ASSUME ScriptInit PROVE ScriptIInv
    OBVIOUS
<1>1. rows = 0 /\ Ids = {}
    BY DEF ScriptInit, SInit, Init, Ids
<1>2. effects \in Seq(Nat) /\ Len(effects) = 0
    BY DEF ScriptInit, SInit
<1>3. sync \in [Syncs -> SyncRecords]
    BY DEF ScriptInit, SInit, SyncRecords, Between
<1>4. TransactionsIInv
    BY DEF ScriptInit, SInit, TransactionsIInv, At, Between
<1>5. EffectsIInv
    BY <1>1 DEF EffectsIInv
<1> QED BY <1>1, <1>2, <1>3, <1>4, <1>5, ExclusiveInit DEF ScriptIInv, ScriptInit

-----------------------------------------------------------------------------
(* Steps outside the transactions                                          *)

\* A step that leaves transactions, effects and processes alone, and takes no
\* row's status back.
LEMMA NothingOfOurs ==
    ASSUME ScriptIInv, UNCHANGED <<sync, effects, rows, instVars>>, sent \subseteq sent'
    PROVE  ScriptIInv'
<1>1. ExclusiveIInv'
    BY ExclusiveStutter DEF ScriptIInv
<1>2. TransactionsIInv'
    BY DEF ScriptIInv, TransactionsIInv, LockedBy, At, instVars
<1>3. EffectsIInv'
    BY DEF ScriptIInv, EffectsIInv, Claimed, Ids, instVars
<1> QED BY <1>1, <1>2, <1>3 DEF ScriptIInv

\* Dispatch adds a row.
LEMMA GatewayInserts ==
    ASSUME ScriptIInv, NEW k \in Kinds, InsertKind(k), UNCHANGED instVars
    PROVE  ScriptIInv'
<1>1. /\ rows' = rows + 1 /\ effects' = Append(effects, 0)
      /\ sent' = sent /\ sync' = sync
    BY DEF InsertKind, Insert
<1>2. /\ rows' \in Nat /\ effects' \in Seq(Nat) /\ Len(effects') = rows'
      /\ \A i \in Ids : effects'[i] = effects[i]
      /\ effects'[rows'] = 0
    BY <1>1, Appending, 0 \in Nat DEF ScriptIInv, Ids
<1>3. \A i \in Ids' : i \in Ids \/ i = rows'
    BY <1>1 DEF Ids, ScriptIInv
<1>4. ExclusiveIInv'
    BY ExclusiveStutter DEF ScriptIInv
<1>5. TransactionsIInv'
    BY <1>1 DEF ScriptIInv, TransactionsIInv, LockedBy, At, instVars
<1>6. EffectsIInv'
  <2> SUFFICES ASSUME "together" \notin history', NEW i \in Ids'
               PROVE  /\ effects'[i] \in {0, 1}
                      /\ effects'[i] = 1 => i \in sent'
                      /\ \A t \in Syncs : i \in Claimed(t)' => effects'[i] = 0
    BY DEF EffectsIInv
  <2>1. \A t \in Syncs : Claimed(t)' = Claimed(t)
    BY <1>1 DEF Claimed
  <2>2. CASE i \in Ids
    BY <1>1, <1>2, <2>1, <2>2 DEF ScriptIInv, EffectsIInv, instVars
  <2>3. CASE i = rows'
    BY <1>2, <2>3
  <2> QED BY <1>3, <2>2, <2>3
<1> QED BY <1>1, <1>2, <1>4, <1>5, <1>6 DEF ScriptIInv

\* The gateway inserts rows and sets their status; it has no transaction.
LEMMA GatewayNext == ASSUME ScriptIInv, Gateway PROVE ScriptIInv'
<1>1. ASSUME NEW k \in Kinds, InsertKind(k), UNCHANGED instVars PROVE ScriptIInv'
    BY <1>1, GatewayInserts
<1>2. CASE PushMark
    BY <1>2, NothingOfOurs DEF Gateway, PushMark, Mark
<1>3. CASE PushOther
  <2>1. UNCHANGED <<sync, effects, rows, sent>>
    BY <1>3 DEF PushOther, syncVars, ObserveStop, Connect, Scan, ScanFails, Accepted,
                SendAccepted, Failed, SendRefused, SendAnswerLost, MarkFails, EndBatch, Stop,
                CloseEvent, EndProcess, Crash, Vanish, Restart
  <2> QED BY <2>1, NothingOfOurs DEF Gateway
<1> QED BY <1>1, <1>2, <1>3 DEF Gateway

\* Steps of the PID file protocol leave what runs alone.
LEMMA ManageNext ==
    ASSUME ScriptIInv, NEW p \in Syncs, Manage(p)
    PROVE  ScriptIInv'
<1>1. /\ p \in Pids /\ InstStep(p)
      /\ UNCHANGED <<sync, effects, rows, sent>>
    BY InstancesAssumption DEF Manage, allVars, vars, syncVars
<1>2. ExclusiveIInv'
    BY <1>1, ExclusiveNext DEF ScriptIInv, InstNext
<1>3. \A q \in Pids : phase[q] = "run" => phase'[q] = "run"
    BY <1>1 DEF ScriptIInv, ExclusiveIInv, InstTypeOK, InstStep, Goto, Launch, LookForFile,
       ReadFile, Refuse, FindStale, RemoveFile, OpenFile, WriteFile, LookOnceMore, Unlink, Occupy
<1>4. history \subseteq history'
    BY <1>1 DEF InstStep, Launch, LookForFile, ReadFile, Refuse, FindStale, RemoveFile,
       OpenFile, WriteFile, LookOnceMore, Unlink, Occupy
<1>5. TransactionsIInv'
    BY <1>1, <1>3, InstancesAssumption DEF ScriptIInv, TransactionsIInv, LockedBy, At
<1>6. EffectsIInv'
    BY <1>1, <1>4 DEF ScriptIInv, EffectsIInv, Claimed, Ids
<1> QED BY <1>1, <1>2, <1>5, <1>6 DEF ScriptIInv

-----------------------------------------------------------------------------
(* Steps of a transaction                                                  *)

\* While no two instances run, one transaction is open at most, and the others
\* claim nothing.
LEMMA OneTransaction ==
    ASSUME ScriptIInv, "together" \notin history,
           NEW s \in Syncs, ~At(s, "idle"), NEW t \in Syncs, t # s
    PROVE  sync[t] = Between
    BY InstancesAssumption DEF ScriptIInv, TransactionsIInv, ExclusiveIInv, Running, RunPhases

\* A step of instance s that changes its own record only, to one that claims
\* nothing more than it did, or rows without a status.
LEMMA RecordStep ==
    ASSUME ScriptIInv, NEW s \in Syncs, phase[s] = "run", NEW record \in SyncRecords,
           sync' = [sync EXCEPT ![s] = record],
           UNCHANGED <<effects, rows, sent, instVars>>,
           record.pc = "idle" => record = Between,
           record.effect \subseteq record.marks \cup record.fails \cup
             (IF record.pc \in {"notice", "mark", "fail"} THEN {record.cur} ELSE {}),
           record.rows \cup {record.cur} \cup record.effect \subseteq
             Claimed(s) \cup Unsent \cup {0}
    PROVE  ScriptIInv'
<1>1. /\ sync' \in [Syncs -> SyncRecords]
      /\ sync'[s] = record
      /\ \A t \in Syncs : t # s => sync'[t] = sync[t]
    BY DEF ScriptIInv
<1>2. ExclusiveIInv'
    BY ExclusiveStutter DEF ScriptIInv
<1>3. TransactionsIInv'
    BY <1>1 DEF ScriptIInv, TransactionsIInv, LockedBy, At, instVars
<1>4. EffectsIInv'
  <2> SUFFICES ASSUME "together" \notin history', NEW i \in Ids'
               PROVE  /\ effects'[i] \in {0, 1}
                      /\ effects'[i] = 1 => i \in sent'
                      /\ \A t \in Syncs : i \in Claimed(t)' => effects'[i] = 0
    BY DEF EffectsIInv
  <2>1. "together" \notin history /\ i \in Ids /\ i # 0
    BY DEF instVars, Ids, ScriptIInv
  <2>2. /\ effects[i] \in {0, 1}
        /\ effects[i] = 1 => i \in sent
        /\ \A t \in Syncs : i \in Claimed(t) => effects[i] = 0
    BY <2>1 DEF ScriptIInv, EffectsIInv
  <2>3. ASSUME NEW t \in Syncs, i \in Claimed(t)' PROVE effects[i] = 0
    <3>1. CASE t # s
      BY <1>1, <2>2, <2>3, <3>1 DEF Claimed
    <3>2. CASE t = s
      <4>1. i \in Claimed(s) \/ i \in Unsent
        BY <1>1, <2>1, <2>3, <3>2 DEF Claimed
      <4> QED BY <2>2, <4>1 DEF Unsent
    <3> QED BY <3>1, <3>2
  <2> QED BY <2>2, <2>3
<1> QED BY <1>1, <1>2, <1>3, <1>4 DEF ScriptIInv

\* The commit: what was executed takes effect and has its status.
LEMMA CommitStep ==
    ASSUME ScriptIInv, NEW s \in Syncs, phase[s] = "run", Commit(s), UNCHANGED instVars
    PROVE  ScriptIInv'
<1>1. /\ At(s, "row")
      /\ sent' = sent \cup sync[s].marks \cup sync[s].fails
      /\ effects' = Count(effects, sync[s].effect)
      /\ sync' = [sync EXCEPT ![s] = Between]
      /\ rows' = rows
    BY DEF Commit
<1>2. /\ effects' \in Seq(Nat) /\ Len(effects') = rows
      /\ \A i \in Ids :
           effects'[i] = IF i \in sync[s].effect THEN effects[i] + 1 ELSE effects[i]
  <2>1. effects \in Seq(Nat) /\ Len(effects) = rows /\ Ids = 1..Len(effects)
    BY DEF ScriptIInv, Ids
  <2>2. \A ids : /\ Count(effects, ids) \in Seq(Nat)
                 /\ Len(Count(effects, ids)) = Len(effects)
                 /\ \A i \in 1..Len(effects) : Count(effects, ids)[i] =
                      IF i \in ids THEN effects[i] + 1 ELSE effects[i]
    BY <2>1, Counting
  <2> QED BY <1>1, <2>1, <2>2
<1>3. /\ sync' \in [Syncs -> SyncRecords]
      /\ sync'[s] = Between
      /\ \A t \in Syncs : t # s => sync'[t] = sync[t]
    BY <1>1 DEF ScriptIInv, SyncRecords, Between
<1>4. ExclusiveIInv'
    BY ExclusiveStutter DEF ScriptIInv
<1>5. TransactionsIInv'
    BY <1>3 DEF ScriptIInv, TransactionsIInv, LockedBy, At, Between, instVars
<1>6. EffectsIInv'
  <2> SUFFICES ASSUME "together" \notin history', NEW i \in Ids'
               PROVE  /\ effects'[i] \in {0, 1}
                      /\ effects'[i] = 1 => i \in sent'
                      /\ \A t \in Syncs : i \in Claimed(t)' => effects'[i] = 0
    BY DEF EffectsIInv
  <2>1. "together" \notin history /\ i \in Ids /\ i # 0
    BY <1>1 DEF instVars, Ids, ScriptIInv
  <2>2. \A t \in Syncs : sync'[t] = Between
    BY <1>1, <1>3, <2>1, OneTransaction DEF At
  <2>3. \A t \in Syncs : i \notin Claimed(t)'
    BY <2>1, <2>2 DEF Claimed, Between
  <2>4. /\ effects[i] \in {0, 1}
        /\ effects[i] = 1 => i \in sent
        /\ i \in sync[s].effect => effects[i] = 0
    BY <2>1 DEF ScriptIInv, EffectsIInv, Claimed
  <2>5. i \in sync[s].effect => i \in sent'
    BY <1>1 DEF ScriptIInv, TransactionsIInv, LockedBy, At
  <2> QED BY <1>1, <1>2, <2>1, <2>3, <2>4, <2>5
<1> QED BY <1>1, <1>2, <1>3, <1>4, <1>5, <1>6 DEF ScriptIInv

\* A rollback, the process running or dying.
LEMMA AbortStep ==
    ASSUME ScriptIInv, NEW s \in Syncs, Abort(s), ExclusiveIInv', history \subseteq history',
           \A t \in Syncs : t # s => phase'[t] = phase[t]
    PROVE  ScriptIInv'
<1>1. /\ sync' = [sync EXCEPT ![s] = Between]
      /\ UNCHANGED <<rows, sent, effects>>
    BY DEF Abort, vars
<1>2. /\ sync' \in [Syncs -> SyncRecords]
      /\ sync'[s] = Between
      /\ \A t \in Syncs : t # s => sync'[t] = sync[t]
    BY <1>1 DEF ScriptIInv, SyncRecords, Between
<1>3. TransactionsIInv'
    BY <1>2 DEF ScriptIInv, TransactionsIInv, LockedBy, At, Between
<1>4. EffectsIInv'
  <2>1. \A t \in Syncs : Claimed(t)' \subseteq Claimed(t) \cup {0}
    BY <1>2 DEF Claimed, Between
  <2>2. \A i \in Ids : i # 0
    BY DEF Ids, ScriptIInv
  <2> QED BY <1>1, <2>1, <2>2 DEF ScriptIInv, EffectsIInv, Ids
<1> QED BY <1>1, <1>2, <1>3, <1>4 DEF ScriptIInv

\* A step of a cycle, a rollback included, while the instance runs.
LEMMA CycleNext ==
    ASSUME ScriptIInv, NEW s \in Syncs, Cycle(s)
    PROVE  ScriptIInv'
<1>0. /\ phase[s] = "run"
      /\ UNCHANGED instVars
      /\ SyncStep(s) \/ Abort(s)
    BY DEF Cycle
<1>1. /\ sync[s] \in SyncRecords
      /\ sync[s].effect \subseteq LockedBy(s) \cup
           (IF sync[s].pc \in {"notice", "mark", "fail"} THEN {sync[s].cur} ELSE {})
      /\ \A i \in Ids : i \in Nat
    BY DEF ScriptIInv, TransactionsIInv, Ids
<1> USE <1>0, <1>1, RecordStep DEF Step, At, SyncRecords, LockedBy, Claimed, vars, Between
<1>2. CASE BeginCycle(s)
  <2>1. Selected \subseteq Unsent /\ Selected \subseteq Nat
    BY DEF Selected, Unsent
  <2> QED BY <1>2, <2>1 DEF BeginCycle
<1>3. ASSUME NEW i \in Ids, SkipRow(s, i) PROVE ScriptIInv'
    BY <1>3 DEF SkipRow, IsTurn
<1>4. ASSUME NEW i \in Ids, FindRoom(s, i) PROVE ScriptIInv'
  <2>1. PICK found \in BOOLEAN :
          Step(s, [sync[s] EXCEPT !.cur = i, !.rows = @ \ {i},
                                  !.pc = IF found THEN "apply" ELSE "fail"])
    BY <1>4 DEF FindRoom
  <2>2. CASE found
    <3>1. Step(s, [sync[s] EXCEPT !.cur = i, !.rows = @ \ {i}, !.pc = "apply"])
      BY <2>1, <2>2
    <3> QED BY <1>4, <3>1, ZenonT(40) DEF FindRoom, IsTurn
  <2>3. CASE ~found
    <3>1. Step(s, [sync[s] EXCEPT !.cur = i, !.rows = @ \ {i}, !.pc = "fail"])
      BY <2>1, <2>3
    <3> QED BY <1>4, <3>1, ZenonT(40) DEF FindRoom, IsTurn
  <2> QED BY <2>2, <2>3
<1>5. CASE Apply(s) BY <1>5 DEF Apply
<1>6. CASE ApplyFails(s)
  <2>1. PICK some \in SUBSET {sync[s].cur} :
          Step(s, [sync[s] EXCEPT !.pc = "fail", !.torn = @ \cup some])
    BY <1>6 DEF ApplyFails
  <2>2. some \subseteq Nat
    OBVIOUS
  <2>3. [sync[s] EXCEPT !.pc = "fail", !.torn = @ \cup some] \in SyncRecords
    BY <2>2
  <2> QED BY <1>6, <2>1, <2>3 DEF ApplyFails
<1>7. CASE Notice(s) BY <1>7 DEF Notice
<1>8. CASE NoticeFails(s)
  <2>1. PICK told \in SUBSET {sync[s].cur} :
          Step(s, [sync[s] EXCEPT !.pc = "fail", !.told = @ \cup told])
    BY <1>8 DEF NoticeFails
  <2>2. [sync[s] EXCEPT !.pc = "fail", !.told = @ \cup told] \in SyncRecords
    OBVIOUS
  <2> QED BY <1>8, <2>1, <2>2 DEF NoticeFails
<1>9. CASE MarkRow(s) BY <1>9 DEF MarkRow
<1>10. CASE MarkFailed(s) BY <1>10 DEF MarkFailed
<1>11. CASE Commit(s) BY <1>0, <1>11, CommitStep
<1>13. CASE MarkRowFails(s) BY <1>13 DEF MarkRowFails
<1>12. CASE Abort(s)
  <2>1. ExclusiveIInv'
    BY ExclusiveStutter DEF ScriptIInv
  <2> QED BY <1>12, <2>1, AbortStep DEF instVars
<1> QED BY <1>0, <1>2, <1>3, <1>4, <1>5, <1>6, <1>7, <1>8, <1>9, <1>10, <1>11,
           <1>12, <1>13 DEF SyncStep

\* An instance leaves its loop between cycles.
LEMMA LeaveNext == ASSUME ScriptIInv, NEW s \in Syncs, LeaveLoop(s) PROVE ScriptIInv'
<1>1. /\ At(s, "idle") /\ Leave(s) /\ s \in Pids
      /\ UNCHANGED <<sync, effects, rows, sent>>
    BY InstancesAssumption DEF LeaveLoop, allVars, vars, syncVars
<1>2. ExclusiveIInv'
    BY <1>1, ExclusiveNext DEF ScriptIInv, InstNext
<1>3. history' = history /\ \A t \in Syncs : t # s => phase'[t] = phase[t]
    BY <1>1, InstancesAssumption DEF Leave, Goto, ScriptIInv, ExclusiveIInv, InstTypeOK
<1>4. TransactionsIInv'
    BY <1>1, <1>3 DEF ScriptIInv, TransactionsIInv, LockedBy, At
<1>5. EffectsIInv'
    BY <1>1, <1>3 DEF ScriptIInv, EffectsIInv, Claimed, Ids
<1> QED BY <1>1, <1>2, <1>4, <1>5 DEF ScriptIInv

\* A process dies, and its transaction is rolled back.
LEMMA DieNext == ASSUME ScriptIInv, NEW s \in Syncs, Die(s) PROVE ScriptIInv'
<1>1. Kill(s) /\ s \in Pids
    BY InstancesAssumption DEF Die
<1>2. ExclusiveIInv'
    BY <1>1, ExclusiveNext DEF ScriptIInv, InstNext
<1>3. history' = history /\ \A t \in Syncs : t # s => phase'[t] = phase[t]
    BY <1>1, InstancesAssumption DEF Kill, Goto, ScriptIInv, ExclusiveIInv, InstTypeOK
<1>4. CASE ~At(s, "idle")
    BY <1>2, <1>3, <1>4, AbortStep DEF Die
<1>5. CASE At(s, "idle")
  <2>1. UNCHANGED <<sync, effects, rows, sent>>
    BY <1>5 DEF Die, allVars, vars, syncVars
  <2>2. TransactionsIInv'
    BY <1>3, <1>5, <2>1 DEF ScriptIInv, TransactionsIInv, LockedBy, At
  <2>3. EffectsIInv'
    BY <1>3, <2>1 DEF ScriptIInv, EffectsIInv, Claimed, Ids
  <2> QED BY <1>2, <2>1, <2>2, <2>3 DEF ScriptIInv
<1> QED BY <1>4, <1>5

-----------------------------------------------------------------------------
\* Every step keeps the invariant.
LEMMA ScriptStep == ASSUME ScriptIInv, [ScriptNext]_scriptVars PROVE ScriptIInv'
<1>1. CASE UNCHANGED scriptVars
    BY <1>1, NothingOfOurs DEF scriptVars, allVars, vars, syncVars
<1>2. CASE ScriptNext
    BY <1>2, GatewayNext, CycleNext, ManageNext, LeaveNext, DieNext DEF ScriptNext
<1> QED BY <1>1, <1>2

\* A command takes effect once at most, for any number of processes, rows,
\* rollbacks and faults of the gateway, unless two starts overlapped or one took
\* a running instance for gone (sms_route_sync.py, 141-174 and 797-942).
THEOREM ExecutedOnceUnlessTogether == ScriptSpec => []OnceUnlessTogether
<1>1. ScriptIInv => OnceUnlessTogether
    BY DEF ScriptIInv, EffectsIInv, OnceUnlessTogether, ExecutedOnce
<1> QED BY ScriptInitial, ScriptStep, <1>1, PTL DEF ScriptSpec

\* The composed program keeps instances apart as the PID file alone does.
THEOREM OneInstanceAtATime == ScriptSpec => []Exclusive
<1>1. ScriptIInv => Exclusive
    BY DEF ScriptIInv, ExclusiveIInv, Exclusive
<1> QED BY ScriptInitial, ScriptStep, <1>1, PTL DEF ScriptSpec
=============================================================================
