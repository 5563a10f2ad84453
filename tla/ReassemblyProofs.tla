-------------------------- MODULE ReassemblyProofs --------------------------
(***************************************************************************)
(* Proofs about Reassembly, for every value of its constants.              *)
(***************************************************************************)
EXTENDS Reassembly, TLAPS, SequenceTheorems, FiniteSetTheorems

RawRow == [msg : Msgs, part : Nat, status : {"new", "done"}]
Row(ids) == [text : Seq(ids), total : Nat, partial : BOOLEAN, group : Groups,
             left : Nat]

(***************************************************************************)
(* Small facts about sequences of ids                                      *)
(***************************************************************************)

\* A sequence over a set is one over any larger set.
LEMMA SeqGrows ==
    ASSUME NEW S, NEW T, S \subseteq T, NEW s \in Seq(S)
    PROVE  s \in Seq(T)
  OBVIOUS

\* A table typed with some ids keeps its type when there are more of them.
LEMMA RowsGrow ==
    ASSUME NEW S, NEW T, S \subseteq T, NEW d \in Seq(Row(S))
    PROVE  d \in Seq(Row(T))
<1>1. Row(S) \subseteq Row(T)
  BY SeqGrows DEF Row
<1> QED
  BY <1>1, SeqGrows

\* What Linked builds is a sequence with one more id.
LEMMA LinkedType ==
    ASSUME NEW S, NEW s \in Seq(S), NEW at \in 1..(Len(s) + 1), NEW id \in S
    PROVE  /\ Linked(s, at, id) \in Seq(S)
           /\ Len(Linked(s, at, id)) = Len(s) + 1
           /\ \A i \in 1..(Len(s) + 1) : Linked(s, at, id)[i] =
                 IF i < at THEN s[i] ELSE IF i = at THEN id ELSE s[i - 1]
<1> DEFINE L == Linked(s, at, id)
<1>1. L \in [1..(Len(s) + 1) -> S]
  BY DEF Linked
<1>2. L \in Seq(S)
  BY <1>1, IsASeq
<1> QED
  BY <1>1, <1>2, LenProperties DEF Linked

\* The UPDATE of raw_sms keeps the table's type, ids and lines.
LEMMA MarkedType ==
    ASSUME raw \in Seq(RawRow), cur \in Ids, Marked
    PROVE  /\ raw' \in Seq(RawRow)
           /\ Len(raw') = Len(raw)
           /\ \A r \in Ids : raw'[r].msg = raw[r].msg /\ raw'[r].part = raw[r].part
<1> DEFINE row == [raw[cur] EXCEPT !.status = "done"]
<1>1. raw[cur] \in RawRow
  BY ElementOfSeq DEF Ids
<1>2. row \in RawRow
  BY <1>1 DEF RawRow
<1>3. CASE raw' = [raw EXCEPT ![cur].status = "done"]
  <2>1. raw' = [raw EXCEPT ![cur] = row]
    BY <1>3
  <2> HIDE DEF row
  <2>2. raw' \in Seq(RawRow) /\ Len(raw') = Len(raw)
    BY <2>1, <1>2, ExceptSeq DEF Ids
  <2>3. row.msg = raw[cur].msg /\ row.part = raw[cur].part
    BY <1>1 DEF row, RawRow
  <2> QED
    BY <2>1, <2>2, <2>3, LenProperties DEF Ids
<1>4. CASE raw' = raw
  BY <1>4
<1> QED
  BY <1>3, <1>4 DEF Marked

(***************************************************************************)
(* Type correctness                                                        *)
(***************************************************************************)
SlotType(ids) == [total : Nat, arrived : Nat, age : 0..(SegmentTimeout + 1), parts : Seq(ids)]
JobType(ids)  == [key : Keys \cup {NoKey}, text : Seq(ids), total : Nat, partial : BOOLEAN]

LEMMA SlotsGrow ==
    ASSUME NEW S, NEW T, S \subseteq T
    PROVE  SlotType(S) \subseteq SlotType(T) /\ JobType(S) \subseteq JobType(T)
  BY SeqGrows DEF SlotType, JobType

LEMMA EmptyTypes ==
    NoSlot \in SlotType(Ids) /\ NoJob \in JobType(Ids)
  BY BoundsAssumption, EmptySeq DEF NoSlot, NoJob, SlotType, JobType

\* The row an INSERT adds.
NewRow == [text |-> job.text, total |-> job.total, partial |-> job.partial,
           group |-> Head(todo), left |-> Len(todo)]

\* An INSERT takes the first target off the list and adds its row, or fails.
LEMMA InsertMoves ==
    ASSUME TypeOK, InsertRow
    PROVE  /\ NewRow \in Row(Ids) /\ IdsOf(job.text) \subseteq Ids
           /\ NewRow.text = job.text /\ NewRow.total = job.total
           /\ NewRow.partial = job.partial /\ NewRow.left = Len(todo)
           /\ todo' \in Seq(Groups) /\ Len(todo) \in Nat \ {0} /\ Len(todo') = Len(todo) - 1
           /\ \/ decoded' = Append(decoded, NewRow) /\ refused' = refused
              \/ decoded' = decoded /\ refused' = refused \cup IdsOf(job.text)
<1>1. todo \in Seq(Groups) /\ todo # <<>> /\ todo' = Tail(todo)
  BY DEF TypeOK, InsertRow
<1>2. /\ Head(todo) \in Groups /\ Tail(todo) \in Seq(Groups)
      /\ Len(todo) \in Nat \ {0} /\ Len(Tail(todo)) = Len(todo) - 1
  BY <1>1, HeadTailProperties, EmptySeq, LenProperties
<1>3. job \in JobType(Ids)
  BY DEF TypeOK, JobType, Texts
<1>4. job.text \in Seq(Ids) /\ job.total \in Nat /\ job.partial \in BOOLEAN
  BY <1>3 DEF JobType
<1>5. NewRow \in Row(Ids)
  BY <1>2, <1>4 DEF NewRow, Row
<1>6. IdsOf(job.text) \subseteq Ids
  BY <1>4, ElementOfSeq DEF IdsOf
<1>7. \/ decoded' = Append(decoded, NewRow) /\ refused' = refused
      \/ decoded' = decoded /\ refused' = refused \cup IdsOf(job.text)
  BY DEF InsertRow, NewRow
<1> QED
  BY <1>1, <1>2, <1>5, <1>6, <1>7 DEF NewRow

\* The list of targets is never empty when a dispatch begins.
LEMMA RouteMoves ==
    ASSUME Route
    PROVE  todo' \in Seq(Groups) /\ todo' # <<>>
<1>1. PICK n \in 1..MaxWxid : todo' \in [1..n -> Groups]
  BY DEF Route
<1>2. n \in Nat \ {0}
  BY BoundsAssumption
<1>3. todo' \in Seq(Groups)
  BY <1>1, <1>2, IsASeq
<1>4. Len(todo') = n
  BY <1>1, <1>2, <1>3, LenProperties
<1> QED
  BY <1>2, <1>3, <1>4, EmptySeq

LEMMA TypeInit == Init => TypeOK
<1> SUFFICES ASSUME Init PROVE TypeOK
  OBVIOUS
<1>1. pending \in [Keys -> SlotType(Ids)] /\ job \in JobType(Ids)
  BY EmptyTypes DEF Init
<1>2. raw \in Seq(RawRow) /\ decoded \in Seq(Row(Ids))
  BY EmptySeq DEF Init
<1>3. \A m \in Msgs : copies[m] \in [PartsOf(m) -> 0..MaxCopies[m]]
  BY BoundsAssumption DEF Init
<1> QED
  BY <1>1, <1>2, <1>3 DEF Init, TypeOK, SlotType, JobType, RawRow, Row, Texts

LEMMA TypeStep == TypeOK /\ Hands /\ [Next]_vars => TypeOK'
<1> SUFFICES ASSUME TypeOK, Hands, [Next]_vars PROVE TypeOK'
  OBVIOUS
<1> USE BoundsAssumption
<1>a. /\ raw \in Seq(RawRow)
      /\ decoded \in Seq(Row(Ids))
      /\ pending \in [Keys -> SlotType(Ids)]
      /\ job \in JobType(Ids)
  BY DEF TypeOK, SlotType, JobType, RawRow, Row, Texts
<1>b. ASSUME /\ raw' \in Seq(RawRow)
             /\ decoded' \in Seq(Row(Ids'))
             /\ pending' \in [Keys -> SlotType(Ids')]
             /\ job' \in JobType(Ids')
             /\ pc' \in {"idle", "frame", "mark", "route", "insert", "sweep", "down"}
             /\ cur' \in {0} \cup Ids'
             /\ todo' \in Seq(Groups)
             /\ expired' \subseteq Keys
             /\ DOMAIN copies' = Msgs
             /\ \A m \in Msgs : copies'[m] \in [PartsOf(m) -> 0..MaxCopies[m]]
             /\ refused' \subseteq Ids'
      PROVE  TypeOK'
  BY <1>b DEF TypeOK, SlotType, JobType, RawRow, Row, Texts, PartsOf
<1>c. Len(raw) \in Nat /\ Ids = 1..Len(raw)
  BY <1>a, LenProperties DEF Ids
<1>d. \A k \in Keys : pending[k] \in SlotType(Ids) /\ pending[k].parts \in Seq(Ids)
  BY <1>a DEF SlotType
<1>e. NoSlot \in SlotType(Ids) /\ NoJob \in JobType(Ids)
  BY EmptyTypes
<1>1. ASSUME NEW m \in Msgs, NEW p \in PartsOf(m), StoreLine(m, p) \/ LoseLine(m, p)
      PROVE  TypeOK'
  <2>1. /\ DOMAIN copies' = Msgs
        /\ \A n \in Msgs : copies'[n] \in [PartsOf(n) -> 0..MaxCopies[n]]
    <3>1. /\ copies' = [copies EXCEPT ![m] = [copies[m] EXCEPT ![p] = copies[m][p] + 1]]
          /\ copies[m][p] < MaxCopies[m]
      BY <1>1 DEF StoreLine, LoseLine, NewId
    <3>2. copies[m] \in [PartsOf(m) -> 0..MaxCopies[m]]
      BY DEF TypeOK
    <3>3. [copies[m] EXCEPT ![p] = copies[m][p] + 1] \in [PartsOf(m) -> 0..MaxCopies[m]]
      BY <3>1, <3>2
    <3> QED
      BY <3>1, <3>3 DEF TypeOK
  <2>2. CASE LoseLine(m, p)
    BY <1>a, <1>b, <2>1, <2>2 DEF LoseLine, TypeOK, Ids
  <2>3. CASE StoreLine(m, p)
    <3>1. p \in Nat
      BY ConcatAssumption DEF PartsOf
    <3>2. raw' \in Seq(RawRow) /\ Len(raw') = Len(raw) + 1
      BY <1>a, <2>3, <3>1 DEF StoreLine, RawRow, NewId
    <3>3. Ids \subseteq Ids' /\ Len(raw) + 1 \in Ids'
      BY <1>c, <3>2 DEF Ids
    <3>4. decoded' \in Seq(Row(Ids'))
      BY <1>a, <2>3, <3>3, RowsGrow DEF StoreLine, NewId
    <3>5. pending' \in [Keys -> SlotType(Ids')] /\ job' \in JobType(Ids')
      BY <1>a, <2>3, <3>3, SlotsGrow DEF StoreLine, NewId
    <3>6. cur' \in {0} \cup Ids'
      BY <2>3, <3>3 DEF StoreLine, TypeOK, NewId
    <3>7. refused' \subseteq Ids'
      BY <2>3, <3>3 DEF StoreLine, TypeOK
    <3> QED
      BY <1>b, <2>1, <2>3, <3>2, <3>4, <3>5, <3>6, <3>7 DEF StoreLine, TypeOK, NewId
  <2> QED
    BY <1>1, <2>2, <2>3
<1>2. CASE HandleSingle
  <2>1. cur \in Ids
    BY <1>2 DEF HandleSingle, Hands
  <2>2. [key |-> NoKey, text |-> <<cur>>, total |-> 1, partial |-> FALSE] \in JobType(Ids)
    <3>1. <<cur>> \in Seq(Ids)
      BY <2>1
    <3> QED
      BY <3>1 DEF JobType
  <2>3. job' \in JobType(Ids)
    BY <1>2, <1>a, <2>2 DEF HandleSingle
  <2> QED
    BY <1>2, <1>a, <1>b, <2>1, <2>3 DEF HandleSingle, TypeOK, Ids
<1>3. CASE HandleDuplicate
  BY <1>3, <1>a, <1>b DEF HandleDuplicate, TypeOK, Ids
<1>4. CASE HandleNewPart
  <2> DEFINE m == MsgAt(cur)
             k == KeyOf[m]
  <2>1. cur \in Ids /\ k \in Keys /\ TotalOf[m] \in Nat
    BY <1>4, ConcatAssumption DEF HandleNewPart, Hands
  <2>2. PICK at \in 1..(Len(pending[k].parts) + 1) :
           pending' = [pending EXCEPT ![k] =
                     [total   |-> IF Occupied(k) THEN @.total ELSE TotalOf[m],
                      arrived |-> @.arrived + 1,
                      age     |-> @.age,
                      parts   |-> Linked(pending[k].parts, at, cur)]]
    BY <1>4 DEF HandleNewPart
  <2>3. Linked(pending[k].parts, at, cur) \in Seq(Ids)
    BY <1>d, <2>1, LinkedType
  <2>4. pending' \in [Keys -> SlotType(Ids)]
    <3> DEFINE slot == [total   |-> IF Occupied(k) THEN pending[k].total ELSE TotalOf[m],
                        arrived |-> pending[k].arrived + 1,
                        age     |-> pending[k].age,
                        parts   |-> Linked(pending[k].parts, at, cur)]
    <3>1. pending[k] \in SlotType(Ids)
      BY <1>d, <2>1
    <3>2. slot \in SlotType(Ids)
      <4> HIDE DEF k, m
      <4> QED
        BY <2>1, <2>3, <3>1 DEF SlotType
    <3>3. pending' = [pending EXCEPT ![k] = slot]
      BY <2>2
    <3> HIDE DEF k, slot
    <3> QED
      BY <1>a, <3>2, <3>3
  <2> QED
    BY <1>4, <1>a, <1>b, <2>4 DEF HandleNewPart, TypeOK, Ids
<1>5. CASE MarkPart
  <2>1. cur \in Ids /\ KeyOf[MsgAt(cur)] \in Keys
    BY <1>5, ConcatAssumption DEF MarkPart, Hands, Freed, AllGathered
  <2>2. raw' \in Seq(RawRow) /\ Ids' = Ids
    BY <1>5, <1>a, <2>1, MarkedType DEF MarkPart, Ids, Freed, AllGathered
  <2>3. pending' \in [Keys -> SlotType(Ids)]
    BY <1>5, <1>a, <1>e DEF MarkPart, Freed, AllGathered
  <2>4. job' \in JobType(Ids)
    <3> DEFINE k == KeyOf[MsgAt(cur)]
    <3>1. [key |-> k, text |-> pending[k].parts, total |-> pending[k].total,
           partial |-> FALSE] \in JobType(Ids)
      BY <1>d, <2>1 DEF JobType, SlotType
    <3> QED
      BY <1>5, <1>a, <3>1 DEF MarkPart, Freed, AllGathered
  <2> QED
    BY <1>5, <1>a, <1>b, <2>2, <2>3, <2>4 DEF MarkPart, TypeOK, Freed, AllGathered
<1>6. CASE MarkSingle
  <2>1. raw' \in Seq(RawRow) /\ Ids' = Ids
    BY <1>6, <1>a, MarkedType DEF MarkSingle, Ids, Hands
  <2> QED
    BY <1>6, <1>a, <1>b, <2>1 DEF MarkSingle, TypeOK
<1>7. CASE Route
  BY <1>7, <1>a, <1>b, RouteMoves DEF Route, TypeOK, Ids
<1>8. CASE InsertRow
  <2>1. /\ NewRow \in Row(Ids) /\ IdsOf(job.text) \subseteq Ids /\ todo' \in Seq(Groups)
        /\ \/ decoded' = Append(decoded, NewRow) /\ refused' = refused
           \/ decoded' = decoded /\ refused' = refused \cup IdsOf(job.text)
    BY <1>8, InsertMoves
  <2>2. decoded' \in Seq(Row(Ids))
    <3> DEFINE row == NewRow
               rows == Row(Ids)
    <3>1. decoded \in Seq(rows) /\ row \in rows
      BY <1>a, <2>1
    <3>2. decoded' = decoded \/ decoded' = Append(decoded, row)
      BY <2>1
    <3> HIDE DEF row, rows
    <3>3. decoded' \in Seq(rows)
      BY <3>1, <3>2
    <3> QED
      BY <3>3 DEF rows
  <2>3. refused' \subseteq Ids
    BY <2>1 DEF TypeOK
  <2> QED
    BY <1>8, <1>a, <1>b, <2>1, <2>2, <2>3 DEF InsertRow, TypeOK, Ids
<1>9. CASE EndDispatch
  <2>1. pending' \in [Keys -> SlotType(Ids)]
    BY <1>9, <1>a, <1>e DEF EndDispatch, Freed
  <2> QED
    BY <1>9, <1>a, <1>b, <1>e, <2>1 DEF EndDispatch, TypeOK, Ids, Freed
<1>10. CASE StartSweep
  BY <1>10, <1>a, <1>b DEF StartSweep, TypeOK, Ids
<1>11. ASSUME NEW k \in Keys, FlushSlot(k)
       PROVE  TypeOK'
  <2>1. pending' \in [Keys -> SlotType(Ids)]
    BY <1>11, <1>a, <1>e DEF FlushSlot, Freed
  <2>2. [key |-> k, text |-> pending[k].parts, total |-> pending[k].total,
         partial |-> TRUE] \in JobType(Ids)
    BY <1>d DEF JobType, SlotType
  <2>3. job' \in JobType(Ids)
    BY <1>11, <1>a, <2>2 DEF FlushSlot, Freed
  <2> QED
    BY <1>11, <1>a, <1>b, <2>1, <2>3 DEF FlushSlot, TypeOK, Ids, Freed
<1>12. CASE EndSweep
  BY <1>12, <1>a, <1>b DEF EndSweep, TypeOK, Ids
<1>13. CASE Tick
  <2>1. ASSUME NEW k \in Keys, pending[k].age <= SegmentTimeout
        PROVE  [pending[k] EXCEPT !.age = @ + 1] \in SlotType(Ids)
    <3>1. pending[k].age + 1 \in 0..(SegmentTimeout + 1)
      BY <1>d, <2>1 DEF SlotType
    <3> QED
      BY <1>d, <3>1 DEF SlotType
  <2>2. pending' \in [Keys -> SlotType(Ids)]
    BY <1>13, <1>d, <2>1 DEF Tick
  <2> QED
    BY <1>13, <1>a, <1>b, <2>2 DEF Tick, TypeOK, Ids
<1>14. CASE Crash
  BY <1>14, <1>a, <1>b, <1>e DEF Crash, TypeOK, Ids
<1>15. CASE Restart
  BY <1>15, <1>a, <1>b DEF Restart, TypeOK, Ids
<1>16. CASE UNCHANGED vars
  BY <1>16, <1>a, <1>b DEF vars, TypeOK, Ids
<1> QED
  BY <1>1, <1>2, <1>3, <1>4, <1>5, <1>6, <1>7, <1>8, <1>9, <1>10, <1>11,
     <1>12, <1>13, <1>14, <1>15, <1>16 DEF Next, Line, Work

\* The lines of raw_sms are permanent: a step adds rows or changes a status.
LEMMA RawStable ==
    ASSUME TypeOK, Hands, [Next]_vars
    PROVE  /\ Ids \subseteq Ids'
           /\ \A r \in Ids : raw'[r].msg = raw[r].msg /\ raw'[r].part = raw[r].part
           /\ \A r \in Ids : raw[r].status = "done" => raw'[r].status = "done"
<1>a. raw \in Seq(RawRow)
  BY DEF TypeOK, RawRow
<1>1. ASSUME NEW m \in Msgs, NEW p \in PartsOf(m), StoreLine(m, p)
      PROVE  /\ Ids \subseteq Ids'
             /\ \A r \in Ids : raw'[r] = raw[r]
  <2>1. p \in Nat
    BY ConcatAssumption DEF PartsOf
  <2> QED
    BY <1>1, <1>a, <2>1 DEF StoreLine, Ids, RawRow, NewId
<1>2. CASE MarkPart \/ MarkSingle
  <2>1. Marked /\ cur \in Ids
    BY <1>2 DEF MarkPart, MarkSingle, Hands, Freed, AllGathered
  <2>2. /\ Ids' = Ids
        /\ \A r \in Ids : raw'[r].msg = raw[r].msg /\ raw'[r].part = raw[r].part
    BY <1>a, <2>1, MarkedType DEF Ids
  <2>3. CASE raw' = raw
    BY <2>2, <2>3
  <2>4. CASE raw' = [raw EXCEPT ![cur].status = "done"]
    <3> DEFINE row == [raw[cur] EXCEPT !.status = "done"]
    <3>1. raw[cur] \in RawRow
      BY <1>a, <2>1, ElementOfSeq DEF Ids
    <3>2. row.status = "done"
      BY <3>1 DEF RawRow
    <3>3. raw' = [raw EXCEPT ![cur] = row]
      BY <2>4
    <3> HIDE DEF row
    <3>4. \A r \in Ids : raw'[r] = IF r = cur THEN row ELSE raw[r]
      BY <1>a, <2>1, <3>3, LenProperties DEF Ids
    <3> QED
      BY <2>2, <3>2, <3>4
  <2> QED
    BY <2>1, <2>3, <2>4 DEF Marked
<1>3. CASE UNCHANGED raw
  BY <1>3 DEF Ids
<1>4. \/ MarkPart \/ MarkSingle \/ UNCHANGED raw
      \/ \E m \in Msgs : \E p \in PartsOf(m) : StoreLine(m, p)
  BY DEF Next, Line, Work, LoseLine, HandleSingle, HandleDuplicate, HandleNewPart,
     Route, InsertRow, EndDispatch, StartSweep, FlushSlot, EndSweep, Tick, Crash,
     Restart, vars, Freed
<1> QED
  BY <1>1, <1>2, <1>3, <1>4

LEMMA HandsStep == TypeOK /\ Hands /\ [Next]_vars => Hands'
<1> SUFFICES ASSUME TypeOK, Hands, [Next]_vars PROVE Hands'
  OBVIOUS
<1> USE NoKeyAssumption
<1>a. /\ raw \in Seq(RawRow)
      /\ pending \in [Keys -> SlotType(Ids)]
      /\ expired \subseteq Keys
  BY DEF TypeOK, SlotType, RawRow, Texts
<1>b. Len(raw) \in Nat /\ Ids = 1..Len(raw)
  BY <1>a, LenProperties DEF Ids
<1>c. /\ Ids \subseteq Ids'
      /\ \A r \in Ids : MsgAt(r)' = MsgAt(r)
  BY RawStable DEF MsgAt
<1>d. NoJob.key = NoKey /\ NoJob.partial = FALSE
  BY DEF NoJob
<1>e. \A k \in Keys : ~Occupied(k) => pending[k].parts = <<>>
  BY DEF Occupied
<1>1. ASSUME NEW m \in Msgs, NEW p \in PartsOf(m), StoreLine(m, p) \/ LoseLine(m, p)
      PROVE  Hands'
  <2>1. pc' = "frame" => cur' \in Ids'
    <3>1. CASE LoseLine(m, p)
      BY <1>1, <3>1 DEF LoseLine
    <3>2. CASE StoreLine(m, p)
      <4>1. p \in Nat
        BY ConcatAssumption DEF PartsOf
      <4>2. Len(raw') = Len(raw) + 1
        BY <1>a, <3>2, <4>1 DEF StoreLine, RawRow, NewId
      <4> QED
        BY <1>b, <3>2, <4>2 DEF StoreLine, Ids, NewId
    <3> QED
      BY <1>1, <3>1, <3>2
  <2> QED
    BY <1>1, <1>c, <1>d, <2>1 DEF StoreLine, LoseLine, Hands, Occupied, NewId
<1>2. CASE HandleSingle
  BY <1>2, <1>c, <1>d DEF HandleSingle, Hands, Occupied, MsgAt, Ids
<1>3. CASE HandleDuplicate
  BY <1>3, <1>c, <1>d DEF HandleDuplicate, Hands, Occupied, MsgAt, Ids
<1>4. CASE HandleNewPart
  <2> DEFINE m == MsgAt(cur)
             k == KeyOf[m]
  <2>1. cur \in Ids /\ k \in Keys
    BY <1>4, ConcatAssumption DEF HandleNewPart, Hands
  <2>2. PICK at \in 1..(Len(pending[k].parts) + 1) :
           pending' = [pending EXCEPT ![k] =
                     [total   |-> IF Occupied(k) THEN @.total ELSE TotalOf[m],
                      arrived |-> @.arrived + 1,
                      age     |-> @.age,
                      parts   |-> Linked(pending[k].parts, at, cur)]]
    BY <1>4 DEF HandleNewPart
  <2>3. pending'[k].parts = Linked(pending[k].parts, at, cur)
    BY <1>a, <2>1, <2>2
  <2>4. /\ at \in 1..Len(pending'[k].parts)
        /\ pending'[k].parts[at] = cur
    <3>1. pending[k].parts \in Seq(Ids)
      BY <1>a, <2>1 DEF SlotType
    <3> QED
      BY <2>1, <2>3, <3>1, LinkedType, LenProperties, SMTT(30)
  <2>5. KeyOf[MsgAt(cur)]' = k /\ cur' = cur
    BY <1>4 DEF HandleNewPart, MsgAt
  <2> HIDE DEF k, m
  <2>6. pc' = "mark" /\ job' = job /\ pc = "frame" /\ todo' = todo /\ expired' = expired
    BY <1>4 DEF HandleNewPart
  <2>7. job = NoJob /\ todo = <<>> /\ expired = {}
    BY <2>6, <1>d DEF Hands
  <2>8. cur' \in Ids'
    BY <1>c, <2>1, <2>5
  <2> QED
    BY <1>d, <2>4, <2>5, <2>6, <2>7, <2>8 DEF Hands
<1>5. CASE MarkPart
  <2> DEFINE k == KeyOf[MsgAt(cur)]
  <2>1. cur \in Ids /\ k \in Keys
    BY <1>5, ConcatAssumption DEF MarkPart, Hands, Freed, AllGathered
  <2>2. Occupied(k)
    BY <1>5, <2>1, <1>e DEF MarkPart, Hands, Freed, AllGathered
  <2>3. job = NoJob /\ todo = <<>> /\ expired = {}
    BY <1>5, <1>d DEF MarkPart, Hands, Freed, AllGathered
  <2>4. CASE pc' = "idle"
    BY <1>5, <1>d, <2>3, <2>4 DEF MarkPart, Hands, Freed, AllGathered
  <2>5. CASE pc' = "route"
    <3>1. /\ job' = [key |-> k, text |-> pending[k].parts,
                     total |-> pending[k].total, partial |-> FALSE]
          /\ pending' = pending /\ cur' = 0 /\ todo' = <<>> /\ expired' = {}
      BY <1>5, <2>3, <2>5 DEF MarkPart, Freed, AllGathered
    <3> HIDE DEF k
    <3> QED
      BY <2>1, <2>2, <2>5, <3>1 DEF Hands, Occupied
  <2> QED
    BY <1>5, <2>4, <2>5 DEF MarkPart, Freed, AllGathered
<1>6. CASE MarkSingle
  BY <1>6, <1>d DEF MarkSingle, Hands
<1>7. CASE Route
  BY <1>7, <1>c DEF Route, Hands, Occupied, MsgAt, Ids
<1>8. CASE InsertRow
  BY <1>8, <1>c DEF InsertRow, Hands, Occupied, MsgAt, Ids
<1>9. CASE EndDispatch
  <2>1. CASE job.key = NoKey
    BY <1>9, <1>c, <1>d, <2>1 DEF EndDispatch, Hands, Occupied, MsgAt, Ids, Freed
  <2>2. CASE job.key # NoKey
    BY <1>9, <1>a, <1>d, <2>2 DEF EndDispatch, Hands, Occupied, Freed
  <2> QED
    BY <2>1, <2>2
<1>10. CASE StartSweep
  BY <1>10, <1>d DEF StartSweep, Hands, Occupied, Expired
<1>11. ASSUME NEW k \in Keys, FlushSlot(k)
       PROVE  Hands'
  <2>1. Occupied(k) /\ job = NoJob /\ todo = <<>> /\ cur = 0
    BY <1>11 DEF FlushSlot, Hands, Freed
  <2>2. CASE pc' = "route"
    <3>1. /\ job' = [key |-> k, text |-> pending[k].parts,
                     total |-> pending[k].total, partial |-> TRUE]
          /\ pending' = pending /\ cur' = 0 /\ todo' = <<>> /\ expired' = expired \ {k}
      BY <1>11, <2>1, <2>2 DEF FlushSlot, Freed
    <3> QED
      BY <2>1, <2>2, <3>1 DEF Hands, Occupied
  <2>3. CASE pc' # "route"
    BY <1>11, <1>a, <1>d, <2>1, <2>3 DEF FlushSlot, Hands, Occupied, Freed
  <2> QED
    BY <2>2, <2>3
<1>12. CASE EndSweep
  BY <1>12, <1>d DEF EndSweep, Hands
<1>13. CASE Tick
  BY <1>13, <1>d DEF Tick, Hands
<1>14. CASE Crash
  BY <1>14, <1>d DEF Crash, Hands
<1>15. CASE Restart
  BY <1>15, <1>d DEF Restart, Hands, Occupied
<1>16. CASE UNCHANGED vars
  BY <1>16, <1>c DEF vars, Hands, Occupied, MsgAt, Ids
<1> QED
  BY <1>1, <1>2, <1>3, <1>4, <1>5, <1>6, <1>7, <1>8, <1>9, <1>10, <1>11,
     <1>12, <1>13, <1>14, <1>15, <1>16 DEF Next, Line, Work

\* Every reachable state is well typed and the thread's hands hold what its
\* place in the code says.
THEOREM TypeCorrect == Spec => [](TypeOK /\ Hands)
<1>1. Init => TypeOK /\ Hands
  BY TypeInit, NoKeyAssumption DEF Init, Hands, NoJob
<1>2. TypeOK /\ Hands /\ [Next]_vars => (TypeOK /\ Hands)'
  BY TypeStep, HandsStep
<1> QED
  BY <1>1, <1>2, PTL DEF Spec

(***************************************************************************)
(* The slots                                                               *)
(***************************************************************************)

\* The conjunct of SlotsSorted about one slot.
SlotSorted(k) ==
    LET parts == pending[k].parts IN
    /\ pending[k].arrived = Len(parts)
    /\ \A i \in 1..Len(parts) :
          MsgAt(parts[i]) \in Concat /\ KeyOf[MsgAt(parts[i])] = k
    /\ \A i, j \in 1..Len(parts) : i < j => PartAt(parts[i]) < PartAt(parts[j])

\* A slot the step leaves alone, or empties, stays sorted.
LEMMA SlotKept ==
    ASSUME TypeOK, Hands, [Next]_vars, NEW k \in Keys, SlotSorted(k),
           \/ /\ pending'[k].parts = pending[k].parts
              /\ pending'[k].arrived = pending[k].arrived
           \/ pending'[k] = NoSlot
    PROVE  SlotSorted(k)'
<1>1. \A i \in 1..Len(pending[k].parts) : pending[k].parts[i] \in Ids
  BY ElementOfSeq DEF TypeOK, Texts
<1>2. /\ \A r \in Ids : MsgAt(r)' = MsgAt(r) /\ PartAt(r)' = PartAt(r)
  BY RawStable DEF MsgAt, PartAt
<1>3. CASE pending'[k] = NoSlot
  <2>1. pending'[k].arrived = 0 /\ pending'[k].parts = <<>>
    BY <1>3 DEF NoSlot
  <2> QED
    BY <2>1 DEF SlotSorted
<1>4. CASE pending'[k].parts = pending[k].parts /\ pending'[k].arrived = pending[k].arrived
  <2>1. PICK parts : parts = pending[k].parts
    OBVIOUS
  <2>2. parts = pending'[k].parts /\ pending'[k].arrived = Len(parts)
    BY <1>4, <2>1 DEF SlotSorted
  <2>3. \A i \in 1..Len(parts) :
           /\ raw'[parts[i]].msg = raw[parts[i]].msg
           /\ raw'[parts[i]].part = raw[parts[i]].part
    BY <1>1, <1>2, <2>1 DEF MsgAt, PartAt
  <2>4. \A i \in 1..Len(parts) :
           raw'[parts[i]].msg \in Concat /\ KeyOf[raw'[parts[i]].msg] = k
    BY <2>1, <2>3 DEF SlotSorted, MsgAt
  <2>5. \A i, j \in 1..Len(parts) : i < j => raw'[parts[i]].part < raw'[parts[j]].part
    BY <2>1, <2>3 DEF SlotSorted, PartAt
  <2> QED
    BY <2>2, <2>4, <2>5 DEF SlotSorted, MsgAt, PartAt
<1> QED
  BY <1>3, <1>4

LEMMA SortedStep == TypeOK /\ Hands /\ SlotsSorted /\ [Next]_vars => SlotsSorted'
<1> SUFFICES ASSUME TypeOK, Hands, SlotsSorted, [Next]_vars, NEW k \in Keys
             PROVE  SlotSorted(k)'
  BY DEF SlotsSorted, SlotSorted
<1>a. pending \in [Keys -> SlotType(Ids)]
  BY DEF TypeOK, SlotType, Texts
<1>b. SlotSorted(k)
  BY DEF SlotsSorted, SlotSorted
<1>1. CASE HandleNewPart
  <2> DEFINE key == KeyOf[MsgAt(cur)]
  <2>1. cur \in Ids /\ MsgAt(cur) \in Concat
    BY <1>1 DEF HandleNewPart, Hands
  <2>2. PICK at \in 1..(Len(pending[key].parts) + 1) :
           /\ IsPlace(pending[key].parts, at, PartAt(cur))
           /\ pending' = [pending EXCEPT ![key] =
                     [total   |-> IF Occupied(key) THEN @.total ELSE TotalOf[MsgAt(cur)],
                      arrived |-> @.arrived + 1,
                      age     |-> @.age,
                      parts   |-> Linked(pending[key].parts, at, cur)]]
    BY <1>1 DEF HandleNewPart
  <2>3. CASE k # key
    <3>1. pending'[k] = pending[k]
      BY <1>a, <2>2, <2>3
    <3> QED
      BY <1>b, <3>1, SlotKept
  <2>4. CASE k = key
    <3> DEFINE s == pending[k].parts
               L == Linked(s, at, cur)
    <3>1. pending'[k].parts = L /\ pending'[k].arrived = pending[k].arrived + 1
      BY <1>a, <2>2, <2>4
    <3>2. s \in Seq(Ids) /\ pending[k].arrived = Len(s)
      BY <1>a, <1>b DEF SlotType, SlotSorted
    <3>3. /\ Len(s) \in Nat /\ at \in 1..(Len(s) + 1)
          /\ Len(L) = Len(s) + 1
          /\ \A i \in 1..(Len(s) + 1) : L[i] = IF i < at THEN s[i] ELSE IF i = at THEN cur ELSE s[i - 1]
      <4>1. at \in 1..(Len(s) + 1) /\ Len(s) \in Nat
        BY <2>2, <2>4, <3>2, LenProperties
      <4> HIDE DEF s
      <4>2. /\ Linked(s, at, cur) \in Seq(Ids)
            /\ Len(Linked(s, at, cur)) = Len(s) + 1
            /\ \A i \in 1..(Len(s) + 1) : Linked(s, at, cur)[i] =
                  IF i < at THEN s[i] ELSE IF i = at THEN cur ELSE s[i - 1]
        BY <2>1, <3>2, <4>1, LinkedType
      <4> QED
        BY <4>1, <4>2
    <3>4. raw' = raw
      BY <1>1 DEF HandleNewPart
    <3>5. \A i \in Ids : PartAt(i) \in Nat
      <4>1. raw \in Seq(RawRow)
        BY DEF TypeOK, RawRow
      <4> QED
        <5>1. \A i \in Ids : raw[i] \in RawRow
          BY <4>1, ElementOfSeq DEF Ids
        <5> QED
          BY <5>1 DEF PartAt, RawRow
    <3>6. \A i \in 1..Len(s) : s[i] \in Ids
      BY <3>2, ElementOfSeq
    <3>7. \A i \in 1..Len(s) : MsgAt(s[i]) \in Concat /\ KeyOf[MsgAt(s[i])] = k
      BY <1>b DEF SlotSorted
    <3>8. \A i, j \in 1..Len(s) : i < j => PartAt(s[i]) < PartAt(s[j])
      BY <1>b DEF SlotSorted
    <3>9. \A i \in 1..Len(s) : /\ i < at => PartAt(s[i]) < PartAt(cur)
                               /\ i >= at => PartAt(cur) < PartAt(s[i])
      <4>1. ASSUME NEW i \in 1..Len(s), i < at PROVE PartAt(s[i]) < PartAt(cur)
        BY <2>2, <2>4, <3>3, <4>1 DEF IsPlace
      <4>2. ASSUME NEW i \in 1..Len(s), i >= at PROVE PartAt(cur) < PartAt(s[i])
        <5>1. at \in 1..Len(s) /\ PartAt(s[at]) > PartAt(cur)
          BY <2>2, <2>4, <3>3, <4>2 DEF IsPlace
        <5>2. PartAt(s[at]) \in Nat /\ PartAt(s[i]) \in Nat /\ PartAt(cur) \in Nat
          BY <2>1, <3>5, <3>6, <5>1
        <5>3. i = at \/ PartAt(s[at]) < PartAt(s[i])
          BY <3>8, <5>1, <4>2
        <5> QED
          BY <5>1, <5>2, <5>3
      <4> QED
        BY <4>1, <4>2
    <3> HIDE DEF s, L
    <3>10. \A i \in 1..Len(L) : MsgAt(L[i]) \in Concat /\ KeyOf[MsgAt(L[i])] = k
      <4>1. KeyOf[MsgAt(cur)] = k
        BY <2>4
      <4> QED
        BY <2>1, <3>3, <3>7, <4>1, SMTT(30)
    <3>11. ASSUME NEW i \in 1..Len(L), NEW j \in 1..Len(L), i < j
           PROVE  PartAt(L[i]) < PartAt(L[j])
      <4>1. CASE i < at /\ j < at
        BY <3>3, <3>8, <3>11, <4>1
      <4>2. CASE i < at /\ j = at
        BY <3>3, <3>9, <3>11, <4>2
      <4>3. CASE i < at /\ j > at
        <5>1. i \in 1..Len(s) /\ j - 1 \in 1..Len(s) /\ i < j - 1
          BY <3>3, <3>11, <4>3
        <5> QED
          BY <3>3, <3>8, <4>3, <5>1, SMTT(30)
      <4>4. CASE i = at
        <5>1. j - 1 \in 1..Len(s) /\ j - 1 >= at
          BY <3>3, <3>11, <4>4
        <5> QED
          BY <3>3, <3>9, <3>11, <4>4, <5>1
      <4>5. CASE i > at
        <5>1. i - 1 \in 1..Len(s) /\ j - 1 \in 1..Len(s) /\ i - 1 < j - 1
          BY <3>3, <3>11, <4>5
        <5> QED
          <6>1. L[i] = s[i - 1] /\ L[j] = s[j - 1]
            BY <3>3, <3>11, <4>5
          <6> QED
            BY <3>8, <5>1, <6>1
      <4> QED
        BY <3>3, <3>11, <4>1, <4>2, <4>3, <4>4, <4>5
    <3> QED
      BY <3>1, <3>2, <3>3, <3>4, <3>10, <3>11 DEF SlotSorted, MsgAt, PartAt
  <2> QED
    BY <2>3, <2>4
<1>2. CASE ~HandleNewPart
  <2>1. \/ /\ pending'[k].parts = pending[k].parts
           /\ pending'[k].arrived = pending[k].arrived
        \/ pending'[k] = NoSlot
    <3>1. CASE MarkPart \/ EndDispatch \/ Crash \/ \E l \in Keys : FlushSlot(l)
      BY <1>a, <3>1 DEF MarkPart, EndDispatch, Crash, FlushSlot, Freed, AllGathered
    <3>2. CASE Tick
      BY <1>a, <3>2 DEF Tick, SlotType
    <3>3. CASE UNCHANGED pending
      BY <3>3
    <3>4. \/ MarkPart \/ EndDispatch \/ Crash \/ (\E l \in Keys : FlushSlot(l))
          \/ Tick \/ UNCHANGED pending
      BY <1>2 DEF Next, Line, Work, StoreLine, LoseLine, HandleSingle, HandleDuplicate,
         Route, InsertRow, StartSweep, EndSweep, MarkSingle, Restart, vars, NewId
    <3> QED
      BY <3>1, <3>2, <3>3, <3>4
  <2> QED
    BY <1>b, <2>1, SlotKept
<1> QED
  BY <1>1, <1>2

\* Parts of a slot are strictly sorted, of its own key, and as many as
\* arrived_count says.
THEOREM SlotsAreSorted == Spec => []SlotsSorted
<1>1. Init => SlotsSorted
  BY DEF Init, SlotsSorted, NoSlot
<1>2. TypeOK /\ Hands /\ SlotsSorted /\ [Next]_vars => SlotsSorted'
  BY SortedStep
<1> QED
  BY <1>1, <1>2, TypeCorrect, PTL DEF Spec

(***************************************************************************)
(* No line feeds two texts                                                 *)
(***************************************************************************)
ApartInv == TypeOK /\ Hands /\ SlotsSorted /\ HandsApart /\ DispatchedOnce

\* The two conjuncts of DispatchedOnce and of HandsApart.
RowsAgree ==
    \A i, j \in 1..Len(decoded) :
         Share(decoded[i].text, decoded[j].text)
            => /\ decoded[i].text = decoded[j].text
               /\ decoded[i].partial = decoded[j].partial
RowsLeftSlots ==
    \A i \in 1..Len(decoded) : \A k \in Keys :
         Share(decoded[i].text, pending[k].parts) => job.key = k
LineIsFresh ==
    pc = "frame" =>
          /\ \A k \in Keys : ~Share(<<cur>>, pending[k].parts)
          /\ \A i \in 1..Len(decoded) : ~Share(decoded[i].text, <<cur>>)
JobAgrees ==
    pc \in {"route", "insert"} =>
          \A i \in 1..Len(decoded) :
              Share(decoded[i].text, job.text)
                 => decoded[i].text = job.text /\ decoded[i].partial = job.partial

LEMMA NoShareEmpty == \A s : ~Share(s, <<>>)
  BY DEF Share

\* A text shares a line with a list the id was linked into only if it shared
\* one with the list before, or holds the id.
LEMMA ShareLinked ==
    ASSUME NEW S, NEW s \in Seq(S), NEW at \in 1..(Len(s) + 1), NEW id \in S, NEW t,
           Share(t, Linked(s, at, id))
    PROVE  Share(t, s) \/ Share(t, <<id>>)
<1> DEFINE L == Linked(s, at, id)
<1>1. /\ Len(s) \in Nat
      /\ Len(L) = Len(s) + 1
      /\ \A i \in 1..(Len(s) + 1) : L[i] = IF i < at THEN s[i] ELSE IF i = at THEN id ELSE s[i - 1]
  BY LinkedType, LenProperties
<1> HIDE DEF L
<1>2. PICK i \in 1..Len(t), j \in 1..Len(L) : t[i] = L[j]
  BY DEF Share, L
<1>3. CASE j = at
  <2>1. t[i] = id
    BY <1>1, <1>2, <1>3
  <2>2. Len(<<id>>) = 1 /\ <<id>>[1] = id
    OBVIOUS
  <2> QED
    BY <2>1, <2>2 DEF Share
<1>4. CASE j < at
  <2>1. j \in 1..Len(s) /\ t[i] = s[j]
    BY <1>1, <1>2, <1>4
  <2> QED
    BY <2>1 DEF Share
<1>5. CASE j > at
  <2>1. j - 1 \in 1..Len(s) /\ t[i] = s[j - 1]
    BY <1>1, <1>2, <1>5
  <2> QED
    BY <2>1 DEF Share
<1> QED
  BY <1>1, <1>3, <1>4, <1>5

\* An id no row of raw_sms has is in no text.
LEMMA NoShareNew ==
    ASSUME NEW S, NEW s \in Seq(S), NEW id, id \notin S
    PROVE  ~Share(s, <<id>>) /\ ~Share(<<id>>, s)
<1>1. Len(<<id>>) = 1 /\ <<id>>[1] = id
  OBVIOUS
<1>2. \A i \in 1..Len(s) : s[i] # id
  BY ElementOfSeq
<1> QED
  BY <1>1, <1>2 DEF Share

\* Slots of different keys share no line, and none holds a single message.
LEMMA SlotsDisjoint ==
    ASSUME SlotsSorted, NEW k \in Keys
    PROVE  /\ \A l \in Keys : Share(pending[l].parts, pending[k].parts) => l = k
           /\ \A r : Share(<<r>>, pending[k].parts) => MsgAt(r) \in Concat
<1>1. \A l \in Keys : \A i \in 1..Len(pending[l].parts) :
         MsgAt(pending[l].parts[i]) \in Concat /\ KeyOf[MsgAt(pending[l].parts[i])] = l
  BY DEF SlotsSorted
<1>2. \A r : Len(<<r>>) = 1 /\ <<r>>[1] = r
  OBVIOUS
<1>3. \A l \in Keys : Share(pending[l].parts, pending[k].parts) => l = k
  BY <1>1 DEF Share
<1>4. ASSUME NEW r, Share(<<r>>, pending[k].parts) PROVE MsgAt(r) \in Concat
  <2>1. PICK i \in 1..Len(<<r>>), j \in 1..Len(pending[k].parts) :
              <<r>>[i] = pending[k].parts[j]
    BY <1>4 DEF Share
  <2>2. pending[k].parts[j] = r
    BY <2>1, <1>2
  <2> QED
    BY <1>1, <2>1, <2>2
<1> QED
  BY <1>3, <1>4

LEMMA ApartStep == ApartInv /\ [Next]_vars => HandsApart' /\ DispatchedOnce'
<1> DEFINE Goal == HandsApart' /\ DispatchedOnce'
<1> SUFFICES ASSUME ApartInv, [Next]_vars PROVE Goal
  OBVIOUS
<1> USE NoKeyAssumption
<1>a. /\ RowsAgree /\ RowsLeftSlots /\ LineIsFresh /\ JobAgrees
      /\ TypeOK /\ Hands /\ SlotsSorted
  BY DEF ApartInv, DispatchedOnce, RowsAgree, RowsLeftSlots, HandsApart, LineIsFresh, JobAgrees
<1>b. /\ raw \in Seq(RawRow)
      /\ decoded \in Seq(Row(Ids))
      /\ pending \in [Keys -> SlotType(Ids)]
      /\ job \in JobType(Ids)
      /\ Len(raw) \in Nat /\ Ids = 1..Len(raw)
      /\ Len(decoded) \in Nat
  BY <1>a, LenProperties DEF TypeOK, SlotType, RawRow, Row, JobType, Texts, Ids
<1>c. \A i \in 1..Len(decoded) : decoded[i].text \in Seq(Ids)
  <2>1. \A i \in 1..Len(decoded) : decoded[i] \in Row(Ids)
    BY <1>b, ElementOfSeq
  <2> QED
    BY <2>1 DEF Row
<1>d. \A k \in Keys : pending[k].parts \in Seq(Ids)
  BY <1>b DEF SlotType
<1>e. NoJob.key = NoKey
  BY DEF NoJob
<1>f. ASSUME /\ \A i, j \in 1..Len(decoded') :
                   Share(decoded'[i].text, decoded'[j].text)
                     => /\ decoded'[i].text = decoded'[j].text
                        /\ decoded'[i].partial = decoded'[j].partial
             /\ \A i \in 1..Len(decoded') : \A k \in Keys :
                   Share(decoded'[i].text, pending'[k].parts) => job'.key = k
             /\ pc' = "frame" =>
                   /\ \A k \in Keys : ~Share(<<cur'>>, pending'[k].parts)
                   /\ \A i \in 1..Len(decoded') : ~Share(decoded'[i].text, <<cur'>>)
             /\ pc' \in {"route", "insert"} =>
                   \A i \in 1..Len(decoded') :
                       Share(decoded'[i].text, job'.text)
                         => decoded'[i].text = job'.text /\ decoded'[i].partial = job'.partial
      PROVE  Goal
  BY <1>f DEF DispatchedOnce, HandsApart, Share
<1>g. ASSUME job = NoJob, NEW i \in 1..Len(decoded), NEW k \in Keys
      PROVE  ~Share(decoded[i].text, pending[k].parts)
  BY <1>a, <1>e, <1>g DEF RowsLeftSlots
\* A step that keeps the rows and the lists, in a state that holds nothing new.
<1>h. ASSUME decoded' = decoded, job' = job,
             \A k \in Keys : pending'[k].parts = pending[k].parts,
             pc' # "frame" \/ (pc = "frame" /\ cur' = cur),
             pc' \in {"route", "insert"} => pc \in {"route", "insert"}
      PROVE  Goal
  BY <1>a, <1>f, <1>h DEF RowsAgree, RowsLeftSlots, LineIsFresh, JobAgrees
<1>1. ASSUME NEW m \in Msgs, NEW p \in PartsOf(m), StoreLine(m, p) \/ LoseLine(m, p)
      PROVE  Goal
  <2>1. /\ pc' \in {"idle", "frame"} /\ decoded' = decoded /\ pending' = pending /\ job' = job
        /\ pc' = "frame" => cur' \notin Ids
    BY <1>1, <1>b DEF StoreLine, LoseLine, NewId
  <2>2. pc' = "frame" =>
          /\ \A k \in Keys : ~Share(<<cur'>>, pending[k].parts)
          /\ \A i \in 1..Len(decoded) : ~Share(decoded[i].text, <<cur'>>)
    BY <1>c, <1>d, <2>1, NoShareNew
  <2> QED
    BY <1>a, <1>f, <2>1, <2>2 DEF RowsAgree, RowsLeftSlots
<1>2. CASE HandleSingle
  <2>1. job = NoJob /\ pc = "frame" /\ decoded' = decoded /\ pending' = pending
    BY <1>2, <1>a DEF HandleSingle, Hands
  <2>2. /\ pc' \in {"idle", "route"}
        /\ pc' = "route" => job'.text = <<cur>>
    BY <1>2 DEF HandleSingle
  <2> QED
    BY <1>a, <1>f, <1>g, <2>1, <2>2 DEF RowsAgree, LineIsFresh
<1>3. CASE HandleDuplicate
  BY <1>3, <1>h DEF HandleDuplicate
<1>4. CASE HandleNewPart
  <2> DEFINE key == KeyOf[MsgAt(cur)]
  <2>1. /\ cur \in Ids /\ key \in Keys /\ pc = "frame"
        /\ pc' = "mark" /\ decoded' = decoded /\ job' = job
    BY <1>4, <1>a, ConcatAssumption DEF HandleNewPart, Hands
  <2>2. PICK at \in 1..(Len(pending[key].parts) + 1) :
           pending' = [pending EXCEPT ![key] =
                     [total   |-> IF Occupied(key) THEN @.total ELSE TotalOf[MsgAt(cur)],
                      arrived |-> @.arrived + 1,
                      age     |-> @.age,
                      parts   |-> Linked(pending[key].parts, at, cur)]]
    BY <1>4 DEF HandleNewPart
  <2>3. \A k \in Keys : pending'[k].parts =
           IF k = key THEN Linked(pending[key].parts, at, cur) ELSE pending[k].parts
    BY <1>b, <2>1, <2>2
  <2> HIDE DEF key
  <2>4. ASSUME NEW i \in 1..Len(decoded), NEW k \in Keys,
               Share(decoded[i].text, pending'[k].parts)
        PROVE  Share(decoded[i].text, pending[k].parts)
    <3>1. ~Share(decoded[i].text, <<cur>>)
      BY <1>a, <2>1 DEF LineIsFresh
    <3>2. CASE k = key
      <4>1. pending[key].parts \in Seq(Ids) /\ Share(decoded[i].text, Linked(pending[key].parts, at, cur))
        BY <1>d, <2>1, <2>3, <2>4, <3>2
      <4> QED
        BY <2>1, <2>2, <3>1, <3>2, <4>1, ShareLinked
    <3> QED
      BY <2>3, <2>4, <3>2
  <2> QED
    BY <1>a, <1>f, <2>1, <2>4 DEF RowsAgree, RowsLeftSlots
<1>5. ASSUME \/ MarkPart
             \/ \E k \in Keys : FlushSlot(k)
      PROVE  Goal
  <2>1. /\ job = NoJob /\ decoded' = decoded
        /\ \A l \in Keys : pending'[l].parts = pending[l].parts \/ pending'[l].parts = <<>>
        /\ pc' \in {"idle", "sweep", "route"}
    BY <1>5, <1>a, <1>b DEF MarkPart, FlushSlot, Hands, NoSlot, Freed, AllGathered
  <2>2. pc' = "route" => \E k \in Keys : job'.text = pending[k].parts
    <3>1. ASSUME MarkPart, pc' = "route" PROVE \E k \in Keys : job'.text = pending[k].parts
      <4>1. KeyOf[MsgAt(cur)] \in Keys
        BY <3>1, ConcatAssumption DEF MarkPart, Freed, AllGathered
      <4>2. job' = [key |-> KeyOf[MsgAt(cur)], text |-> pending[KeyOf[MsgAt(cur)]].parts,
                    total |-> pending[KeyOf[MsgAt(cur)]].total, partial |-> FALSE]
        BY <3>1 DEF MarkPart, Freed, AllGathered
      <4> QED
        BY <4>1, <4>2
    <3>2. ASSUME NEW k \in Keys, FlushSlot(k), pc' = "route"
          PROVE  job'.text = pending[k].parts
      BY <3>2 DEF FlushSlot, Freed
    <3> QED
      BY <1>5, <3>1, <3>2
  <2>3. \A i \in 1..Len(decoded) : \A k \in Keys :
            /\ ~Share(decoded[i].text, pending[k].parts)
            /\ ~Share(decoded[i].text, pending'[k].parts)
    BY <1>g, <2>1, NoShareEmpty
  <2> QED
    BY <1>a, <1>f, <2>1, <2>2, <2>3 DEF RowsAgree
<1>6. CASE MarkSingle
  BY <1>6, <1>h DEF MarkSingle
<1>7. CASE Route
  BY <1>7, <1>h DEF Route
<1>8. CASE InsertRow
  <2>1. pending' = pending /\ job' = job /\ pc = "insert" /\ pc' = "insert" /\ cur' = cur
    BY <1>8 DEF InsertRow
  <2>2. CASE decoded' = decoded
    BY <1>h, <2>1, <2>2
  <2>3. CASE decoded' # decoded
    <3> DEFINE row == NewRow
    <3>1. decoded' = Append(decoded, row)
      BY <1>8, <1>a, <2>3, InsertMoves
    <3>2. row.text = job.text /\ row.partial = job.partial
      BY <1>8, <1>a, InsertMoves
    <3>3. row \in Row(Ids)
      BY <1>8, <1>a, InsertMoves
    <3> HIDE DEF row
    <3>4. /\ Len(decoded') = Len(decoded) + 1
          /\ \A i \in 1..Len(decoded) : decoded'[i] = decoded[i]
          /\ decoded'[Len(decoded) + 1] = row
      BY <1>b, <3>1, <3>3
    <3>5. \A i \in 1..Len(decoded') :
              \/ i \in 1..Len(decoded) /\ decoded'[i] = decoded[i]
              \/ decoded'[i].text = job.text /\ decoded'[i].partial = job.partial
      BY <1>b, <3>2, <3>4
    <3>6. \A i \in 1..Len(decoded) :
              Share(decoded[i].text, job.text)
                 => decoded[i].text = job.text /\ decoded[i].partial = job.partial
      BY <1>a, <2>1 DEF JobAgrees
    <3>7. ASSUME NEW i \in 1..Len(decoded'), Share(decoded'[i].text, job.text)
          PROVE  decoded'[i].text = job.text /\ decoded'[i].partial = job.partial
      BY <3>5, <3>6, <3>7
    <3>8. ASSUME NEW i \in 1..Len(decoded'), NEW j \in 1..Len(decoded'),
                 Share(decoded'[i].text, decoded'[j].text)
          PROVE  /\ decoded'[i].text = decoded'[j].text
                 /\ decoded'[i].partial = decoded'[j].partial
      <4>1. CASE i \in 1..Len(decoded) /\ j \in 1..Len(decoded)
        BY <1>a, <3>4, <3>8, <4>1 DEF RowsAgree
      <4>2. CASE decoded'[j].text = job.text /\ decoded'[j].partial = job.partial
        BY <3>7, <3>8, <4>2
      <4>3. CASE decoded'[i].text = job.text /\ decoded'[i].partial = job.partial
        <5>1. Share(decoded'[j].text, job.text)
          BY <3>8, <4>3 DEF Share
        <5> QED
          BY <3>7, <4>3, <5>1
      <4> QED
        BY <3>5, <4>1, <4>2, <4>3
    <3>9. ASSUME NEW k \in Keys, Share(job.text, pending[k].parts)
          PROVE  job.key = k
      <4>1. CASE job.key = NoKey
        <5>1. job = [key |-> NoKey, text |-> <<cur>>, total |-> 1, partial |-> FALSE]
              /\ MsgAt(cur) \notin Concat
          BY <1>a, <2>1, <4>1 DEF Hands
        <5>2. job.text = <<cur>>
          BY <5>1
        <5> QED
          BY <1>a, <3>9, <5>1, <5>2, SlotsDisjoint
      <4>2. CASE job.key # NoKey
        <5>1. job.key \in Keys /\ job.text = pending[job.key].parts
          BY <1>a, <1>b, <4>2 DEF Hands, JobType
        <5> QED
          BY <1>a, <3>9, <5>1, SlotsDisjoint
      <4> QED
        BY <4>1, <4>2
    <3>10. ASSUME NEW i \in 1..Len(decoded'), NEW k \in Keys,
                  Share(decoded'[i].text, pending[k].parts)
           PROVE  job.key = k
      BY <1>a, <3>5, <3>9, <3>10 DEF RowsLeftSlots
    <3> QED
      BY <1>f, <2>1, <3>7, <3>8, <3>10
  <2> QED
    BY <2>2, <2>3
<1>9. CASE EndDispatch
  <2>1. decoded' = decoded /\ pc' \in {"mark", "sweep", "idle"}
    BY <1>9 DEF EndDispatch, Freed
  <2>2. ASSUME NEW k \in Keys, NEW i \in 1..Len(decoded)
        PROVE  ~Share(decoded[i].text, pending'[k].parts)
    <3>1. CASE job.key = k
      <4>1. pending'[k].parts = <<>>
        BY <1>9, <1>b, <3>1 DEF EndDispatch, NoSlot, Freed
      <4> QED
        BY <4>1, NoShareEmpty
    <3>2. CASE job.key # k
      <4>1. pending'[k].parts = pending[k].parts
        BY <1>9, <1>b, <3>2 DEF EndDispatch, Freed
      <4> QED
        BY <1>a, <3>2, <4>1 DEF RowsLeftSlots
    <3> QED
      BY <3>1, <3>2
  <2> QED
    BY <1>a, <1>f, <2>1, <2>2 DEF RowsAgree
<1>10. CASE StartSweep
  BY <1>10, <1>h DEF StartSweep
<1>11. CASE EndSweep
  BY <1>11, <1>h DEF EndSweep
<1>12. CASE Tick
  <2>1. \A k \in Keys : pending'[k].parts = pending[k].parts
    BY <1>12, <1>b DEF Tick, SlotType
  <2> QED
    BY <1>12, <1>h, <2>1 DEF Tick
<1>13. CASE Crash
  <2>1. \A k \in Keys : pending'[k].parts = <<>>
    BY <1>13 DEF Crash, NoSlot
  <2>2. decoded' = decoded /\ pc' = "down"
    BY <1>13 DEF Crash
  <2> QED
    BY <1>a, <1>f, <2>1, <2>2, NoShareEmpty DEF RowsAgree
<1>14. CASE Restart
  BY <1>14, <1>h DEF Restart
<1>15. CASE UNCHANGED vars
  BY <1>15, <1>h DEF vars
<1> QED
  BY <1>1, <1>2, <1>3, <1>4, <1>5, <1>6, <1>7, <1>8, <1>9, <1>10, <1>11,
     <1>12, <1>13, <1>14, <1>15 DEF Next, Line, Work

\* No stored line feeds two different texts, and a text that left is out of
\* its slot: crashes, refused statements and repeated parts included.
THEOREM NoLineTwice == Spec => []DispatchedOnce
<1>1. Init => HandsApart /\ DispatchedOnce
  BY DEF Init, HandsApart, DispatchedOnce
<1>2. ApartInv /\ [Next]_vars => HandsApart' /\ DispatchedOnce'
  BY ApartStep
<1> QED
  BY <1>1, <1>2, TypeCorrect, SlotsAreSorted, PTL DEF Spec, ApartInv

(***************************************************************************)
(* Counting: a text sent as complete holds the whole message               *)
(***************************************************************************)

\* A step that reports no new line leaves raw_sms with the same ids, messages
\* and part numbers; one that does adds a part its message has.
LEMMA LegalStep == TypeOK /\ Hands /\ PartsLegal /\ [Next]_vars => PartsLegal'
<1> SUFFICES ASSUME TypeOK, Hands, PartsLegal, [Next]_vars, NEW r \in Ids'
             PROVE  raw'[r].part \in PartsOf(raw'[r].msg)
  BY DEF PartsLegal, PartAt, MsgAt, PartsOf
<1>a. raw \in Seq(RawRow)
  BY DEF TypeOK, RawRow
<1>1. CASE r \in Ids
  BY <1>1, RawStable DEF PartsLegal, PartAt, MsgAt
<1>2. CASE r \notin Ids
  <2>1. ASSUME NEW m \in Msgs, NEW p \in PartsOf(m), StoreLine(m, p)
        PROVE  raw'[r].part \in PartsOf(raw'[r].msg)
    <3>1. p \in Nat
      BY ConcatAssumption DEF PartsOf
    <3>2. r = Len(raw) + 1 /\ raw'[r] = [msg |-> m, part |-> p, status |-> "new"]
      BY <1>2, <1>a, <2>1, <3>1 DEF StoreLine, Ids, RawRow, NewId
    <3> QED
      BY <3>2
  <2>2. CASE MarkPart \/ MarkSingle
    <3>1. Marked /\ cur \in Ids
      BY <2>2 DEF MarkPart, MarkSingle, Hands, Freed, AllGathered
    <3> QED
      BY <1>2, <1>a, <3>1, MarkedType DEF Ids
  <2>3. CASE UNCHANGED raw
    BY <1>2, <2>3 DEF Ids
  <2>4. \/ MarkPart \/ MarkSingle \/ UNCHANGED raw
        \/ \E m \in Msgs : \E p \in PartsOf(m) : StoreLine(m, p)
    BY DEF Next, Line, Work, LoseLine, HandleSingle, HandleDuplicate, HandleNewPart,
       Route, InsertRow, EndDispatch, StartSweep, FlushSlot, EndSweep, Tick, Crash,
       Restart, vars, Freed
  <2> QED
    BY <2>1, <2>2, <2>3, <2>4
<1> QED
  BY <1>1, <1>2

LEMMA TotalsStep == TypeOK /\ Hands /\ TotalsAgree /\ [Next]_vars => TotalsAgree'
<1> SUFFICES ASSUME TypeOK, Hands, TotalsAgree, [Next]_vars,
                    NEW k \in Keys, pending'[k].parts # <<>>
             PROVE  \E i \in 1..Len(pending'[k].parts) :
                        pending'[k].total = TotalOf[raw'[pending'[k].parts[i]].msg]
  BY DEF TotalsAgree, Occupied, MsgAt
<1>a. pending \in [Keys -> SlotType(Ids)]
  BY DEF TypeOK, SlotType, Texts
<1>b. /\ pending[k].parts \in Seq(Ids)
      /\ \A j \in 1..Len(pending[k].parts) : pending[k].parts[j] \in Ids
  BY <1>a, ElementOfSeq DEF SlotType
<1>c. \A r \in Ids : raw'[r].msg = MsgAt(r)
  BY RawStable DEF MsgAt
<1>d. Occupied(k) => \E j \in 1..Len(pending[k].parts) :
                         pending[k].total = TotalOf[MsgAt(pending[k].parts[j])]
  BY DEF TotalsAgree
<1>e. ASSUME pending'[k].parts = pending[k].parts, pending'[k].total = pending[k].total
      PROVE  \E i \in 1..Len(pending'[k].parts) :
                 pending'[k].total = TotalOf[raw'[pending'[k].parts[i]].msg]
  BY <1>b, <1>c, <1>d, <1>e DEF Occupied
<1>1. CASE HandleNewPart
  <2> DEFINE m == MsgAt(cur)
             key == KeyOf[m]
  <2>1. cur \in Ids /\ m \in Concat /\ key \in Keys
    BY <1>1, ConcatAssumption DEF HandleNewPart, Hands
  <2>2. PICK at \in 1..(Len(pending[key].parts) + 1) :
           pending' = [pending EXCEPT ![key] =
                     [total   |-> IF Occupied(key) THEN @.total ELSE TotalOf[m],
                      arrived |-> @.arrived + 1,
                      age     |-> @.age,
                      parts   |-> Linked(pending[key].parts, at, cur)]]
    BY <1>1 DEF HandleNewPart
  <2> HIDE DEF m
  <2>3. CASE k # key
    BY <1>a, <1>e, <2>1, <2>2, <2>3
  <2>4. CASE k = key
    <3> DEFINE s == pending[k].parts
    <3>1. /\ pending'[k].total = IF Occupied(k) THEN pending[k].total ELSE TotalOf[m]
          /\ pending'[k].parts = Linked(s, at, cur)
      BY <1>a, <2>1, <2>2, <2>4
    <3>2. at \in 1..(Len(s) + 1)
      BY <2>2, <2>4
    <3>3. s \in Seq(Ids) /\ Len(s) \in Nat
      BY <1>b, LenProperties
    <3>4. \A j \in 1..Len(s) : s[j] \in Ids
      BY <1>b
    <3>5. Occupied(k) => \E j \in 1..Len(s) : pending[k].total = TotalOf[MsgAt(s[j])]
      BY <1>d
    <3> HIDE DEF s, key
    <3>6. /\ Linked(s, at, cur) \in Seq(Ids)
          /\ Len(Linked(s, at, cur)) = Len(s) + 1
          /\ \A j \in 1..(Len(s) + 1) : Linked(s, at, cur)[j] =
                IF j < at THEN s[j] ELSE IF j = at THEN cur ELSE s[j - 1]
      <4>1. cur \in Ids
        BY <2>1
      <4> QED
        BY <3>2, <3>3, <4>1, LinkedType
    <3>7. CASE Occupied(k)
      <4>1. PICK j \in 1..Len(s) : pending[k].total = TotalOf[MsgAt(s[j])]
        BY <3>5, <3>7
      <4>2. PICK i \in 1..(Len(s) + 1) : Linked(s, at, cur)[i] = s[j]
        <5>1. CASE j < at
          BY <3>3, <3>6, <5>1
        <5>2. CASE ~(j < at)
          <6>1. j + 1 \in 1..(Len(s) + 1) /\ ~(j + 1 < at) /\ j + 1 # at /\ (j + 1) - 1 = j
            BY <3>2, <3>3, <5>2
          <6> QED
            BY <3>6, <6>1
        <5> QED
          BY <5>1, <5>2
      <4> QED
        BY <1>c, <3>1, <3>4, <3>6, <3>7, <4>1, <4>2
    <3>8. CASE ~Occupied(k)
      <4>1. Linked(s, at, cur)[at] = cur /\ at \in 1..Len(Linked(s, at, cur))
        BY <3>2, <3>6
      <4>2. raw'[cur].msg = m
        BY <1>c, <2>1 DEF m
      <4> QED
        BY <3>1, <3>8, <4>1, <4>2
    <3> QED
      BY <3>7, <3>8
  <2> QED
    BY <2>3, <2>4
<1>2. CASE ~HandleNewPart
  <2>1. \/ /\ pending'[k].parts = pending[k].parts
           /\ pending'[k].total = pending[k].total
        \/ pending'[k] = NoSlot
    <3>1. CASE MarkPart \/ EndDispatch \/ Crash \/ \E l \in Keys : FlushSlot(l)
      BY <1>a, <3>1 DEF MarkPart, EndDispatch, Crash, FlushSlot, Freed, AllGathered
    <3>2. CASE Tick
      BY <1>a, <3>2 DEF Tick, SlotType
    <3>3. CASE UNCHANGED pending
      BY <3>3
    <3>4. \/ MarkPart \/ EndDispatch \/ Crash \/ (\E l \in Keys : FlushSlot(l))
          \/ Tick \/ UNCHANGED pending
      BY <1>2 DEF Next, Line, Work, StoreLine, LoseLine, HandleSingle, HandleDuplicate,
         Route, InsertRow, StartSweep, EndSweep, MarkSingle, Restart, vars, NewId
    <3> QED
      BY <3>1, <3>2, <3>3, <3>4
  <2>2. pending'[k] # NoSlot
    BY DEF NoSlot
  <2> QED
    BY <1>e, <2>1, <2>2
<1> QED
  BY <1>1, <1>2

LEMMA CountsStep ==
    /\ TypeOK /\ Hands /\ SlotsSorted /\ NoFullSlotWaits /\ CountsRight
    /\ [Next]_vars
    => NoFullSlotWaits' /\ CountsRight'
<1> DEFINE Goal == NoFullSlotWaits' /\ CountsRight'
<1> SUFFICES ASSUME TypeOK, Hands, SlotsSorted, NoFullSlotWaits, CountsRight, [Next]_vars
             PROVE  Goal
  OBVIOUS
<1> USE NoKeyAssumption
<1>a. /\ pending \in [Keys -> SlotType(Ids)]
      /\ job \in JobType(Ids)
  BY DEF TypeOK, SlotType, JobType, Texts
<1>b. \A k \in Keys : pending[k].arrived \in Nat /\ pending[k].total \in Nat
                      /\ pending[k].arrived = Len(pending[k].parts)
                      /\ pending[k].parts \in Seq(Ids)
  BY <1>a DEF SlotType, SlotsSorted
<1>c. NoJob.key = NoKey
  BY DEF NoJob
<1>d. /\ \A k \in Keys : Occupied(k) => pending[k].arrived <= pending[k].total
      /\ \A k \in Keys : Occupied(k) /\ ~InHand(k) => pending[k].arrived < pending[k].total
  BY DEF CountsRight, NoFullSlotWaits
<1>e. NoSlot.parts = <<>>
  BY DEF NoSlot
\* A step that changes no count and takes nothing out of the thread's hands.
<1>f. ASSUME \A k \in Keys : \/ pending'[k].parts = <<>>
                             \/ /\ pending'[k].parts = pending[k].parts
                                /\ pending'[k].arrived = pending[k].arrived
                                /\ pending'[k].total = pending[k].total
                                /\ InHand(k) => InHand(k)' \/ pending[k].arrived # pending[k].total,
             \/ job'.key = NoKey
             \/ job' = job
             \/ \E k \in Keys : /\ Occupied(k)
                                /\ job'.text = pending[k].parts
                                /\ job'.total = pending[k].total
                                /\ IF job'.partial THEN pending[k].arrived < pending[k].total
                                                   ELSE pending[k].arrived = pending[k].total
      PROVE  Goal
  <2>1. NoFullSlotWaits'
    <3> SUFFICES ASSUME NEW k \in Keys, pending'[k].parts # <<>>, ~InHand(k)'
                 PROVE  pending'[k].arrived < pending'[k].total
      BY DEF NoFullSlotWaits, Occupied
    <3> QED
      BY <1>b, <1>d, <1>f DEF Occupied
  <2>2. CountsRight'
    <3>1. \A k \in Keys : pending'[k].parts # <<>> => pending'[k].arrived <= pending'[k].total
      BY <1>d, <1>f DEF Occupied
    <3>2. job'.key # NoKey => IF job'.partial THEN Len(job'.text) < job'.total
                                              ELSE Len(job'.text) = job'.total
      BY <1>b, <1>f DEF CountsRight
    <3> QED
      BY <3>1, <3>2 DEF CountsRight, Occupied
  <2> QED
    BY <2>1, <2>2
<1>1. ASSUME \/ \E m \in Msgs : \E p \in PartsOf(m) : StoreLine(m, p) \/ LoseLine(m, p)
             \/ Route \/ InsertRow
             \/ StartSweep \/ EndSweep \/ Restart \/ UNCHANGED vars
      PROVE  Goal
  <2>1. pending' = pending /\ job' = job
    BY <1>1 DEF StoreLine, LoseLine, Route, InsertRow, StartSweep, EndSweep, Restart,
       vars, NewId
  <2>2. \A k \in Keys : InHand(k) => InHand(k)'
    <3>1. CASE pc = "mark"
      <4>1. pc' = "mark" /\ cur' = cur /\ raw' = raw
        BY <1>1, <3>1 DEF StoreLine, LoseLine, Route, InsertRow, StartSweep, EndSweep,
           Restart, vars, NewId
      <4> QED
        BY <2>1, <4>1 DEF InHand, MsgAt
    <3>2. CASE pc # "mark"
      BY <2>1, <3>2 DEF InHand
    <3> QED
      BY <3>1, <3>2
  <2> QED
    BY <1>f, <2>1, <2>2
<1>2. CASE HandleSingle \/ HandleDuplicate
  <2>1. pending' = pending /\ job'.key = NoKey /\ pc = "frame" /\ job = NoJob
    BY <1>2, <1>c DEF HandleSingle, HandleDuplicate, Hands
  <2>2. \A k \in Keys : ~InHand(k)
    BY <1>c, <2>1 DEF InHand
  <2> QED
    BY <1>f, <2>1, <2>2
<1>3. CASE HandleNewPart
  <2>0. PICK m \in Concat, key \in Keys : m = MsgAt(cur) /\ key = KeyOf[m]
    BY <1>3, ConcatAssumption DEF HandleNewPart
  <2>1. /\ cur \in Ids /\ m \in Concat /\ key \in Keys /\ TotalOf[m] \in Nat \ {0}
        /\ pc = "frame" /\ job = NoJob /\ job' = NoJob
        /\ pc' = "mark" /\ cur' = cur /\ raw' = raw
    BY <1>3, <2>0, ConcatAssumption DEF HandleNewPart, Hands
  <2>2. PICK at \in 1..(Len(pending[key].parts) + 1) :
           pending' = [pending EXCEPT ![key] =
                     [total   |-> IF Occupied(key) THEN @.total ELSE TotalOf[m],
                      arrived |-> @.arrived + 1,
                      age     |-> @.age,
                      parts   |-> Linked(pending[key].parts, at, cur)]]
    BY <1>3, <2>0 DEF HandleNewPart
  <2>3. InHand(key)'
    BY <2>0, <2>1 DEF InHand, MsgAt
  <2>4. \A k \in Keys : ~InHand(k)
    BY <1>c, <2>1 DEF InHand
  <2>5. /\ pending'[key].arrived = pending[key].arrived + 1
        /\ pending'[key].total = IF Occupied(key) THEN pending[key].total ELSE TotalOf[m]
        /\ \A k \in Keys : k # key => pending'[k] = pending[k]
    BY <1>a, <2>1, <2>2
  <2>6. pending'[key].arrived <= pending'[key].total
    <3>1. CASE Occupied(key)
      BY <1>b, <1>d, <2>1, <2>4, <2>5, <3>1
    <3>2. CASE ~Occupied(key)
      <4>1. pending[key].arrived = 0
        BY <1>b, <2>1, <3>2 DEF Occupied
      <4> QED
        BY <2>1, <2>5, <3>2, <4>1
    <3> QED
      BY <3>1, <3>2
  <2>7. \A k \in Keys : k # key => (pending'[k].parts # <<>> => pending'[k].arrived < pending'[k].total)
    BY <1>d, <2>4, <2>5 DEF Occupied
  <2>8. NoFullSlotWaits'
    BY <2>3, <2>7 DEF NoFullSlotWaits, Occupied
  <2>9. CountsRight'
    <3>1. \A k \in Keys : pending'[k].parts # <<>> => pending'[k].arrived <= pending'[k].total
      BY <1>b, <1>d, <2>5, <2>6 DEF Occupied
    <3> QED
      BY <1>c, <2>1, <3>1 DEF CountsRight, Occupied
  <2> QED
    BY <2>8, <2>9
<1>4. CASE MarkPart
  <2>0. PICK key \in Keys : key = KeyOf[MsgAt(cur)]
    BY <1>4, ConcatAssumption DEF MarkPart, Freed, AllGathered
  <2>1. /\ cur \in Ids /\ key \in Keys /\ job = NoJob /\ pc = "mark"
    BY <1>4 DEF MarkPart, Hands, Freed, AllGathered
  <2>2. Occupied(key)
    BY <1>4, <2>0, <2>1 DEF MarkPart, Hands, Occupied, Freed, AllGathered
  <2>3. \A k \in Keys : InHand(k) => k = key
    BY <1>c, <2>0, <2>1 DEF InHand
  <2>4. CASE pending[key].arrived # pending[key].total
    <3>1. pending' = pending /\ job' = job
      BY <1>4, <2>0, <2>4 DEF MarkPart, Freed, AllGathered
    <3> QED
      BY <1>f, <2>3, <2>4, <3>1
  <2>5. CASE pending[key].arrived = pending[key].total /\ pc' = "route"
    <3>1. /\ pending' = pending
          /\ job' = [key |-> key, text |-> pending[key].parts,
                     total |-> pending[key].total, partial |-> FALSE]
      BY <1>4, <2>0, <2>5 DEF MarkPart, Freed, AllGathered
    <3>2. /\ job'.key = key /\ job'.text = pending[key].parts
          /\ job'.total = pending[key].total /\ job'.partial = FALSE
      BY <3>1
    <3>3. InHand(key)'
      BY <3>2 DEF InHand
    <3> QED
      BY <1>f, <2>1, <2>2, <2>3, <2>5, <3>1, <3>2, <3>3
  <2>6. CASE pending[key].arrived = pending[key].total /\ pc' # "route"
    <3>1. pending' = [pending EXCEPT ![key] = NoSlot] /\ job' = job
      BY <1>4, <2>0, <2>6 DEF MarkPart, Freed, AllGathered
    <3>2. pending'[key].parts = <<>> /\ \A k \in Keys : k # key => pending'[k] = pending[k]
      BY <1>a, <1>e, <2>1, <3>1
    <3> QED
      BY <1>f, <2>3, <3>1, <3>2
  <2> QED
    BY <2>4, <2>5, <2>6
<1>5. CASE MarkSingle
  <2>1. pending' = pending /\ job' = job /\ pc = "mark" /\ job = NoJob /\ MsgAt(cur) \notin Concat
    BY <1>5 DEF MarkSingle, Hands
  <2>2. \A k \in Keys : ~InHand(k)
    BY <1>c, <2>1 DEF InHand
  <2> QED
    BY <1>f, <2>1, <2>2
<1>6. CASE EndDispatch
  <2>1. job' = NoJob /\ pc = "insert"
    BY <1>6 DEF EndDispatch, Freed
  <2>2. \A k \in Keys : InHand(k) => k = job.key
    BY <2>1 DEF InHand
  <2>3. \A k \in Keys : IF k = job.key THEN pending'[k].parts = <<>> ELSE pending'[k] = pending[k]
    BY <1>6, <1>a, <1>e DEF EndDispatch, Freed
  <2> QED
    BY <1>c, <1>f, <2>1, <2>2, <2>3
<1>7. ASSUME NEW key \in Keys, FlushSlot(key)
      PROVE  Goal
  <2>1. pc = "sweep" /\ job = NoJob /\ Occupied(key)
    BY <1>7 DEF FlushSlot, Hands, Freed
  <2>2. \A k \in Keys : ~InHand(k)
    BY <1>c, <2>1 DEF InHand
  <2>3. CASE pc' = "route"
    <3>1. /\ pending' = pending
          /\ job' = [key |-> key, text |-> pending[key].parts,
                     total |-> pending[key].total, partial |-> TRUE]
      BY <1>7, <2>1, <2>3 DEF FlushSlot, Freed
    <3>2. /\ job'.text = pending[key].parts
          /\ job'.total = pending[key].total /\ job'.partial = TRUE
      BY <3>1
    <3>3. pending[key].arrived < pending[key].total
      BY <1>d, <2>1, <2>2
    <3> QED
      BY <1>f, <2>1, <2>2, <3>1, <3>2, <3>3
  <2>4. CASE pc' # "route"
    <3>1. pending' = [pending EXCEPT ![key] = NoSlot] /\ job' = job
      BY <1>7, <2>4 DEF FlushSlot, Freed
    <3>2. pending'[key].parts = <<>> /\ \A k \in Keys : k # key => pending'[k] = pending[k]
      BY <1>a, <1>e, <3>1
    <3> QED
      BY <1>f, <2>2, <3>1, <3>2
  <2> QED
    BY <2>3, <2>4
<1>8. CASE Tick
  <2>1. \A k \in Keys : /\ pending'[k].parts = pending[k].parts
                        /\ pending'[k].arrived = pending[k].arrived
                        /\ pending'[k].total = pending[k].total
    BY <1>8, <1>a DEF Tick, SlotType
  <2>2. job' = job /\ pc = "idle"
    BY <1>8 DEF Tick
  <2>3. \A k \in Keys : InHand(k) => InHand(k)'
    BY <2>2 DEF InHand
  <2> QED
    BY <1>f, <2>1, <2>2, <2>3
<1>9. CASE Crash
  <2>1. job' = NoJob /\ \A k \in Keys : pending'[k].parts = <<>>
    BY <1>9, <1>e DEF Crash
  <2> QED
    BY <1>c, <1>f, <2>1
<1> QED
  BY <1>1, <1>2, <1>3, <1>4, <1>5, <1>6, <1>7, <1>8, <1>9 DEF Next, Line, Work

\* A complete message never waits in its slot, and no slot counts more parts
\* than it was opened for.
THEOREM FullSlotsLeave == Spec => [](NoFullSlotWaits /\ CountsRight)
<1>1. Init => NoFullSlotWaits /\ CountsRight
  BY NoKeyAssumption DEF Init, NoFullSlotWaits, CountsRight, NoSlot, NoJob, Occupied
<1>2. /\ TypeOK /\ Hands /\ SlotsSorted /\ NoFullSlotWaits /\ CountsRight
      /\ [Next]_vars
      => (NoFullSlotWaits /\ CountsRight)'
  BY CountsStep
<1> QED
  BY <1>1, <1>2, TypeCorrect, SlotsAreSorted, PTL DEF Spec

\* n numbers in strict order between 1 and n are all the numbers from 1 to n.
LEMMA SortedFills ==
    ASSUME NEW n \in Nat, NEW f \in [1..n -> 1..n],
           \A i, j \in 1..n : i < j => f[i] < f[j]
    PROVE  {f[i] : i \in 1..n} = 1..n
<1> DEFINE S == {f[i] : i \in 1..n}
<1>1. \A i, j \in 1..n : f[i] = f[j] => i = j
  <2> SUFFICES ASSUME NEW i \in 1..n, NEW j \in 1..n, f[i] = f[j], i # j PROVE FALSE
    OBVIOUS
  <2>1. f[i] \in 1..n /\ f[j] \in 1..n
    OBVIOUS
  <2>2. i < j \/ j < i
    OBVIOUS
  <2> QED
    BY <2>1, <2>2
<1>2. f \in Bijection(1..n, S)
  BY <1>1 DEF Bijection, Injection, Surjection, IsInjective
<1>3. ExistsBijection(1..n, S)
  BY <1>2 DEF ExistsBijection
<1>4. Cardinality(S) = n
  BY <1>3, FS_CountingElements
<1>5. IsFiniteSet(1..n) /\ Cardinality(1..n) = n
  BY FS_Interval
<1>6. S \in SUBSET (1..n)
  OBVIOUS
<1> QED
  BY <1>4, <1>5, <1>6, FS_Subset

\* Whole, read off a given table: the form in which texts are compared across a
\* step.
WholeIn(table, text) ==
    LET msgs    == {table[text[i]].msg : i \in 1..Len(text)}
        numbers == {table[text[i]].part : i \in 1..Len(text)}
    IN /\ \A a, b \in 1..Len(text) : a < b => table[text[a]].part < table[text[b]].part
       /\ \/ \E r \in 1..Len(table) : table[r].msg \notin Concat /\ text = <<r>>
          \/ /\ \E k \in Keys : \A m \in msgs : m \in Concat /\ KeyOf[m] = k
             /\ \E m \in msgs : Len(text) = TotalOf[m]
             /\ \A m \in Concat :
                   msgs = {m} /\ 0 \notin numbers => numbers = 1..TotalOf[m]

\* Rows of raw_sms do not change their line: a whole text stays whole.
LEMMA WholeStable ==
    ASSUME TypeOK, Hands, [Next]_vars, NEW text \in Seq(Ids), Whole(text)
    PROVE  WholeIn(raw', text)
<1> DEFINE msgs    == {raw'[text[i]].msg : i \in 1..Len(text)}
           numbers == {raw'[text[i]].part : i \in 1..Len(text)}
<1>1. \A i \in 1..Len(text) : text[i] \in Ids
  BY ElementOfSeq
<1>2. \A i \in 1..Len(text) : /\ MsgAt(text[i]) = raw'[text[i]].msg
                              /\ PartAt(text[i]) = raw'[text[i]].part
  BY <1>1, RawStable DEF MsgAt, PartAt
<1>3. MsgsOf(text) = msgs
  BY <1>2 DEF MsgsOf
<1>4. NumbersOf(text) = numbers
  BY <1>2 DEF NumbersOf
<1>5. \A a, b \in 1..Len(text) : a < b => raw'[text[a]].part < raw'[text[b]].part
  BY <1>2 DEF Whole
<1>6. ASSUME NEW r \in Ids, MsgAt(r) \notin Concat
      PROVE  r \in 1..Len(raw') /\ raw'[r].msg \notin Concat
  BY <1>6, RawStable DEF Ids, MsgAt
<1> HIDE DEF msgs, numbers
<1>7. \/ \E r \in 1..Len(raw') : raw'[r].msg \notin Concat /\ text = <<r>>
      \/ /\ \E k \in Keys : \A m \in msgs : m \in Concat /\ KeyOf[m] = k
         /\ \E m \in msgs : Len(text) = TotalOf[m]
         /\ \A m \in Concat :
               msgs = {m} /\ 0 \notin numbers => numbers = 1..TotalOf[m]
  BY <1>3, <1>4, <1>6 DEF Whole
<1> QED
  BY <1>5, <1>7 DEF WholeIn, msgs, numbers

\* The text in hand is whole when it is not partial.
LEMMA JobWhole ==
    ASSUME TypeOK, Hands, SlotsSorted, PartsLegal, TotalsAgree, CountsRight,
           pc = "insert", ~job.partial
    PROVE  Whole(job.text)
<1> USE NoKeyAssumption
<1>a. /\ pending \in [Keys -> SlotType(Ids)]
      /\ job \in JobType(Ids)
  BY DEF TypeOK, SlotType, JobType, Texts
<1>1. CASE job.key = NoKey
  <2>1. job = [key |-> NoKey, text |-> <<cur>>, total |-> 1, partial |-> FALSE]
        /\ MsgAt(cur) \notin Concat /\ cur \in Ids
    BY <1>1 DEF Hands
  <2> DEFINE text == <<cur>>
  <2>2. job.text = text /\ Len(text) = 1
    BY <2>1
  <2>3. \A a, b \in 1..Len(text) : a < b => PartAt(text[a]) < PartAt(text[b])
    BY <2>2
  <2> QED
    BY <2>1, <2>2, <2>3 DEF Whole
<1>2. CASE job.key # NoKey
  <2> DEFINE k == job.key
             text == pending[k].parts
             n == Len(text)
  <2>1. /\ k \in Keys /\ job.text = text /\ Occupied(k)
        /\ n = pending[k].total
    BY <1>a, <1>2 DEF Hands, JobType, CountsRight
  <2>2. text \in Seq(Ids) /\ n \in Nat /\ \A i \in 1..n : text[i] \in Ids
    <3>1. text \in Seq(Ids)
      BY <1>a, <2>1 DEF SlotType
    <3> QED
      BY <3>1, ElementOfSeq, LenProperties
  <2>3. /\ \A i \in 1..n : MsgAt(text[i]) \in Concat /\ KeyOf[MsgAt(text[i])] = k
        /\ \A i, j \in 1..n : i < j => PartAt(text[i]) < PartAt(text[j])
        /\ \E i \in 1..n : n = TotalOf[MsgAt(text[i])]
    BY <2>1 DEF SlotsSorted, TotalsAgree
  <2> HIDE DEF k, text, n
  <2>4. \A m \in MsgsOf(text) : m \in Concat /\ KeyOf[m] = k
    BY <2>3 DEF MsgsOf, n
  <2>5. \E m \in MsgsOf(text) : n = TotalOf[m]
    BY <2>3 DEF MsgsOf, n
  <2>6. ASSUME NEW m \in Concat, MsgsOf(text) = {m}, 0 \notin NumbersOf(text)
        PROVE  NumbersOf(text) = 1..TotalOf[m]
    <3> DEFINE f == [i \in 1..n |-> PartAt(text[i])]
    <3>1. n = TotalOf[m]
      BY <2>5, <2>6
    <3>2. \A i \in 1..n : MsgAt(text[i]) = m /\ PartAt(text[i]) # 0
      BY <2>6 DEF MsgsOf, NumbersOf, n
    <3>3. \A i \in 1..n : PartAt(text[i]) \in 1..n
      <4> SUFFICES ASSUME NEW i \in 1..n PROVE PartAt(text[i]) \in 1..n
        OBVIOUS
      <4>1. PartAt(text[i]) \in PartNumbers[m]
        BY <2>2, <3>2 DEF PartsLegal, PartsOf
      <4>2. PartAt(text[i]) \in 0..n
        BY <3>1, <4>1, ConcatAssumption
      <4> QED
        BY <2>2, <3>2, <4>2
    <3>4. f \in [1..n -> 1..n]
      BY <3>3
    <3>5. \A i, j \in 1..n : i < j => f[i] < f[j]
      BY <2>3
    <3>6. NumbersOf(text) = {f[i] : i \in 1..n}
      BY DEF NumbersOf, n
    <3> HIDE DEF f
    <3>7. {f[i] : i \in 1..n} = 1..n
      BY <2>2, <3>4, <3>5, SortedFills
    <3> QED
      BY <3>1, <3>6, <3>7
  <2>7. k \in Keys /\ job.text = text /\ n = Len(text)
    BY <2>1 DEF n
  <2> QED
    BY <2>3, <2>4, <2>5, <2>6, <2>7 DEF Whole
<1> QED
  BY <1>1, <1>2

LEMMA RowsStep ==
    /\ TypeOK /\ Hands /\ SlotsSorted /\ PartsLegal /\ TotalsAgree /\ CountsRight
    /\ PartialMeansIncomplete /\ CompleteIsWhole /\ [Next]_vars
    => PartialMeansIncomplete' /\ CompleteIsWhole'
<1> DEFINE Inv == /\ TypeOK /\ Hands /\ SlotsSorted /\ PartsLegal /\ TotalsAgree /\ CountsRight
                  /\ PartialMeansIncomplete /\ CompleteIsWhole
<1> SUFFICES ASSUME Inv, [Next]_vars, NEW i \in 1..Len(decoded')
             PROVE  /\ IF decoded'[i].partial
                       THEN Len(decoded'[i].text) \in 1..(decoded'[i].total - 1)
                       ELSE Len(decoded'[i].text) = decoded'[i].total
                    /\ ~decoded'[i].partial => WholeIn(raw', decoded'[i].text)
  BY DEF PartialMeansIncomplete, CompleteIsWhole, WholeIn, Whole, MsgsOf, NumbersOf,
     MsgAt, PartAt, Ids
<1> USE NoKeyAssumption
<1>a. /\ decoded \in Seq(Row(Ids))
      /\ pending \in [Keys -> SlotType(Ids)]
      /\ job \in JobType(Ids)
      /\ Len(decoded) \in Nat
  BY LenProperties DEF TypeOK, SlotType, Row, JobType, Texts
<1>1. CASE i \in 1..Len(decoded) /\ decoded'[i] = decoded[i]
  <2>1. PICK t : t = decoded[i].text
    OBVIOUS
  <2>2. t \in Seq(Ids)
    <3>1. decoded[i] \in Row(Ids)
      BY <1>a, <1>1, ElementOfSeq
    <3> QED
      BY <2>1, <3>1 DEF Row
  <2>3. ~decoded[i].partial => Whole(t)
    BY <1>1, <2>1 DEF CompleteIsWhole, Whole
  <2>4. ~decoded[i].partial => WholeIn(raw', t)
    BY <2>2, <2>3, WholeStable
  <2>5. t = decoded'[i].text
    BY <1>1, <2>1
  <2>6. ~decoded'[i].partial => WholeIn(raw', decoded'[i].text)
    BY <1>1, <2>4, <2>5
  <2> QED
    BY <1>1, <2>6 DEF PartialMeansIncomplete
<1>2. ASSUME InsertRow, ~(i \in 1..Len(decoded) /\ decoded'[i] = decoded[i])
      PROVE  /\ IF decoded'[i].partial
                THEN Len(decoded'[i].text) \in 1..(decoded'[i].total - 1)
                ELSE Len(decoded'[i].text) = decoded'[i].total
             /\ ~decoded'[i].partial => WholeIn(raw', decoded'[i].text)
  <2> DEFINE row == NewRow
  <2>1. decoded' = Append(decoded, row) /\ pc = "insert" /\ raw' = raw
    BY <1>2, InsertMoves DEF InsertRow
  <2>2. row \in Row(Ids) /\ row.text = job.text /\ row.total = job.total /\ row.partial = job.partial
    BY <1>2, InsertMoves
  <2> HIDE DEF row
  <2>3. decoded'[i] = row
    BY <1>a, <1>2, <2>1, <2>2
  <2>4. IF job.partial THEN Len(job.text) \in 1..(job.total - 1) ELSE Len(job.text) = job.total
    <3>1. CASE job.key = NoKey
      <4>1. job = [key |-> NoKey, text |-> <<cur>>, total |-> 1, partial |-> FALSE]
        BY <2>1, <3>1 DEF Hands
      <4>2. job.text = <<cur>> /\ job.total = 1 /\ job.partial = FALSE
        BY <4>1
      <4> QED
        BY <4>2
    <3>2. CASE job.key # NoKey
      <4>1. job.text \in Seq(Ids) /\ job.text # <<>> /\ job.total \in Nat
        BY <1>a, <3>2 DEF Hands, Occupied, JobType
      <4>2. Len(job.text) \in Nat \ {0}
        BY <4>1, EmptySeq
      <4>3. IF job.partial THEN Len(job.text) < job.total ELSE Len(job.text) = job.total
        BY <3>2 DEF CountsRight
      <4> QED
        BY <4>1, <4>2, <4>3
    <3> QED
      BY <3>1, <3>2
  <2>5. ~job.partial => Whole(job.text)
    BY <2>1, JobWhole
  <2>6. PICK t : t = job.text
    OBVIOUS
  <2>7. t \in Seq(Ids)
    BY <1>a, <2>6 DEF JobType
  <2>8. ~job.partial => WholeIn(raw', t)
    BY <2>5, <2>6, <2>7, WholeStable
  <2>9. ~decoded'[i].partial => WholeIn(raw', decoded'[i].text)
    <3>1. decoded'[i].text = t /\ decoded'[i].partial = job.partial
      BY <2>2, <2>3, <2>6
    <3> QED
      BY <2>8, <3>1
  <2> QED
    BY <2>2, <2>3, <2>4, <2>9
<1>3. \/ i \in 1..Len(decoded) /\ decoded'[i] = decoded[i]
      \/ InsertRow
  BY DEF Next, Line, Work, StoreLine, LoseLine, HandleSingle, HandleDuplicate, HandleNewPart,
     MarkPart, MarkSingle, Route, EndDispatch, StartSweep, FlushSlot, EndSweep, Tick, Crash,
     Restart, vars, Freed, AllGathered, NewId
<1> QED
  BY <1>1, <1>2, <1>3

(***************************************************************************)
(* Rows and dispatches                                                     *)
(***************************************************************************)

\* INSERT adds one row of the text in hand; no other step touches decoded_sms.
LEMMA RowsAppend ==
    ASSUME TypeOK, [Next]_vars
    PROVE  /\ Len(decoded) \in Nat
           /\ \A i \in 1..Len(decoded) : decoded[i].text \in Seq(Ids)
           /\ \/ decoded' = decoded
              \/ /\ InsertRow /\ pc = "insert"
                 /\ Len(decoded') = Len(decoded) + 1
                 /\ \A i \in 1..Len(decoded) : decoded'[i] = decoded[i]
                 /\ decoded'[Len(decoded) + 1] = NewRow
<1>a. decoded \in Seq(Row(Ids)) /\ Len(decoded) \in Nat
  BY LenProperties DEF TypeOK, Row, Texts
<1>1. \A i \in 1..Len(decoded) : decoded[i].text \in Seq(Ids)
  <2>1. \A i \in 1..Len(decoded) : decoded[i] \in Row(Ids)
    BY <1>a, ElementOfSeq
  <2> QED
    BY <2>1 DEF Row
<1>2. ASSUME InsertRow, decoded' # decoded
      PROVE  /\ pc = "insert"
             /\ Len(decoded') = Len(decoded) + 1
             /\ \A i \in 1..Len(decoded) : decoded'[i] = decoded[i]
             /\ decoded'[Len(decoded) + 1] = NewRow
  <2>1. NewRow \in Row(Ids) /\ decoded' = Append(decoded, NewRow)
    BY <1>2, InsertMoves
  <2>2. pc = "insert"
    BY <1>2 DEF InsertRow
  <2> QED
    BY <1>a, <2>1, <2>2
<1>3. decoded' = decoded \/ InsertRow
  BY DEF Next, Line, Work, StoreLine, LoseLine, HandleSingle, HandleDuplicate, HandleNewPart,
     MarkPart, MarkSingle, Route, EndDispatch, StartSweep, FlushSlot, EndSweep, Tick,
     Crash, Restart, vars, Freed, AllGathered, NewId
<1> QED
  BY <1>a, <1>1, <1>2, <1>3

\* The history of failed INSERTs only grows.
LEMMA RefusedStays ==
    ASSUME [Next]_vars
    PROVE  refused \subseteq refused'
  BY DEF Next, Line, Work, StoreLine, LoseLine, HandleSingle, HandleDuplicate, HandleNewPart,
     MarkPart, MarkSingle, Route, InsertRow, EndDispatch, StartSweep, FlushSlot, EndSweep, Tick,
     Crash, Restart, vars, Freed, AllGathered, NewId

\* A dispatch begins with the single line in hand or with the parts of a slot,
\* from a state in which no other text is in hand.
LEMMA JobBegins ==
    ASSUME TypeOK, Hands, [Next]_vars, pc' = "route", pc # "route"
    PROVE  /\ job = NoJob /\ decoded' = decoded
           /\ \/ /\ pc = "frame" /\ job'.text = <<cur>>
                 /\ job'.key = NoKey /\ ~job'.partial
              \/ \E k \in Keys : /\ Occupied(k) /\ job'.text = pending[k].parts
                                 /\ job'.key = k
                                 /\ job'.partial => FlushSlot(k)
<1>1. CASE HandleSingle
  BY <1>1 DEF HandleSingle, Hands
<1>2. CASE MarkPart
  <2> DEFINE key == KeyOf[MsgAt(cur)]
  <2>1. key \in Keys /\ pc = "mark" /\ MsgAt(cur) \in Concat
    BY <1>2, ConcatAssumption DEF MarkPart, Freed, AllGathered
  <2>2. job' = [key |-> key, text |-> pending[key].parts,
                total |-> pending[key].total, partial |-> FALSE]
    BY <1>2 DEF MarkPart, Freed, AllGathered
  <2>3. job'.key = key /\ job'.text = pending[key].parts /\ ~job'.partial
    BY <2>2
  <2>4. Occupied(key)
    BY <2>1 DEF Hands, Occupied
  <2>5. job = NoJob /\ decoded' = decoded
    BY <1>2, <2>1 DEF Hands, MarkPart, Freed, AllGathered
  <2> QED
    BY <2>1, <2>3, <2>4, <2>5
<1>3. ASSUME NEW k \in Keys, FlushSlot(k)
      PROVE  /\ job = NoJob /\ decoded' = decoded
             /\ Occupied(k) /\ job'.text = pending[k].parts /\ job'.key = k
  <2>1. pc = "sweep" /\ k \in expired /\ decoded' = decoded
    BY <1>3 DEF FlushSlot, Freed
  <2>2. job' = [key |-> k, text |-> pending[k].parts,
                total |-> pending[k].total, partial |-> TRUE]
    BY <1>3 DEF FlushSlot, Freed
  <2>3. job'.text = pending[k].parts /\ job'.key = k
    BY <2>2
  <2> QED
    BY <2>1, <2>3 DEF Hands
<1>4. HandleSingle \/ MarkPart \/ \E k \in Keys : FlushSlot(k)
  BY DEF Next, Line, Work, StoreLine, LoseLine, HandleDuplicate, HandleNewPart,
     MarkSingle, Route, InsertRow, EndDispatch, StartSweep, EndSweep, Tick,
     Crash, Restart, vars, Freed, AllGathered, NewId
<1> QED
  BY <1>1, <1>2, <1>3, <1>4

\* What a step may do while a text is in hand.
LEMMA JobStays ==
    ASSUME [Next]_vars
    PROVE  /\ pc' = "route" /\ pc = "route" => job' = job /\ decoded' = decoded
           /\ pc' = "insert" =>
                 /\ job' = job
                 /\ \/ pc = "route" /\ Route
                    \/ pc = "insert" /\ InsertRow
                    \/ pc = "insert" /\ UNCHANGED <<decoded, todo>>
  BY DEF Next, Line, Work, StoreLine, LoseLine, HandleSingle, HandleDuplicate, HandleNewPart,
     MarkPart, MarkSingle, Route, InsertRow, EndDispatch, StartSweep, FlushSlot, EndSweep, Tick,
     Crash, Restart, vars, Freed, AllGathered, NewId

LEMMA RowsAheadStep ==
    ApartInv /\ RowsAhead /\ [Next]_vars => RowsAhead'
<1> SUFFICES ASSUME ApartInv, RowsAhead, [Next]_vars, NEW i \in 1..Len(decoded')
             PROVE  /\ pc' = "route" => decoded'[i].text # job'.text
                    /\ pc' = "insert" /\ decoded'[i].text = job'.text => decoded'[i].left > Len(todo')
  BY DEF RowsAhead
<1> USE NoKeyAssumption
<1>a. TypeOK /\ Hands /\ DispatchedOnce /\ HandsApart
  BY DEF ApartInv
<1>1. ASSUME pc' = "route", pc # "route"
      PROVE  decoded'[i].text # job'.text
  <2>1. job = NoJob /\ decoded' = decoded
    BY <1>a, <1>1, JobBegins
  <2>2. ASSUME pc = "frame", job'.text = <<cur>>
        PROVE  decoded[i].text # job'.text
    <3>1. ~Share(decoded[i].text, <<cur>>)
      BY <1>a, <2>1, <2>2 DEF HandsApart
    <3>2. Share(<<cur>>, <<cur>>)
      <4>1. Len(<<cur>>) = 1 /\ <<cur>>[1] = <<cur>>[1]
        OBVIOUS
      <4> QED
        BY <4>1 DEF Share
    <3> QED
      BY <2>2, <3>1, <3>2
  <2>3. ASSUME NEW k \in Keys, Occupied(k), job'.text = pending[k].parts
        PROVE  decoded[i].text # job'.text
    <3>1. ~Share(decoded[i].text, pending[k].parts)
      BY <1>a, <2>1 DEF DispatchedOnce, NoJob
    <3>2. pending[k].parts \in Seq(Ids) /\ pending[k].parts # <<>>
      BY <1>a, <2>3 DEF TypeOK, Texts, Occupied
    <3>3. 1 \in 1..Len(pending[k].parts)
      BY <3>2, EmptySeq, LenProperties
    <3> QED
      BY <2>3, <3>1, <3>3 DEF Share
  <2> QED
    BY <1>a, <1>1, <2>1, <2>2, <2>3, JobBegins
<1>2. ASSUME pc' = "route", pc = "route"
      PROVE  decoded'[i].text # job'.text
  BY <1>2, JobStays DEF RowsAhead
<1>3. ASSUME pc' = "insert", decoded'[i].text = job'.text
      PROVE  decoded'[i].left > Len(todo')
  <2>1. job' = job
    BY <1>3, JobStays
  <2>2. CASE pc = "route" /\ Route
    BY <1>3, <2>1, <2>2 DEF Route, RowsAhead
  <2>3. CASE pc = "insert" /\ UNCHANGED <<decoded, todo>>
    BY <1>3, <2>1, <2>3 DEF RowsAhead
  <2>4. ASSUME pc = "insert", InsertRow
        PROVE  decoded'[i].left > Len(todo')
    <3>1. /\ Len(todo) \in Nat \ {0} /\ Len(todo') = Len(todo) - 1
          /\ NewRow.left = Len(todo)
      BY <1>a, <2>4, InsertMoves
    <3>2. ASSUME i \in 1..Len(decoded), decoded'[i] = decoded[i]
          PROVE  decoded'[i].left > Len(todo')
      <4>1. decoded[i].left > Len(todo)
        BY <1>3, <2>1, <2>4, <3>2 DEF RowsAhead
      <4>2. decoded[i].left \in Nat
        <5>1. decoded \in Seq(Row(Ids))
          BY <1>a DEF TypeOK, Row, Texts
        <5>2. decoded[i] \in Row(Ids)
          BY <3>2, <5>1, ElementOfSeq
        <5> QED
          BY <5>2 DEF Row
      <4> QED
        BY <3>1, <3>2, <4>1, <4>2
    <3>3. CASE decoded' = decoded
      BY <3>2, <3>3
    <3>4. CASE decoded' # decoded
      <4>1. /\ Len(decoded) \in Nat /\ Len(decoded') = Len(decoded) + 1
            /\ \A j \in 1..Len(decoded) : decoded'[j] = decoded[j]
            /\ decoded'[Len(decoded) + 1] = NewRow
        BY <1>a, <3>4, RowsAppend
      <4>2. CASE i \in 1..Len(decoded)
        BY <3>2, <4>1, <4>2
      <4>3. CASE i = Len(decoded) + 1
        BY <3>1, <4>1, <4>3
      <4> QED
        BY <4>1, <4>2, <4>3
    <3> QED
      BY <3>3, <3>4
  <2> QED
    BY <1>3, <2>2, <2>3, <2>4, JobStays
<1> QED
  BY <1>1, <1>2, <1>3

\* A row that is added is from a later place than the rows of that text.
LEMMA RowsOnceStep ==
    TypeOK /\ RowsAhead /\ OneRowPerTarget /\ [Next]_vars => OneRowPerTarget'
<1> SUFFICES ASSUME TypeOK, RowsAhead, OneRowPerTarget, [Next]_vars,
                    NEW i \in 1..Len(decoded'), NEW j \in 1..Len(decoded'),
                    i < j, decoded'[i].text = decoded'[j].text
             PROVE  decoded'[i].left > decoded'[j].left
  BY DEF OneRowPerTarget
<1>1. CASE decoded' = decoded
  BY <1>1 DEF OneRowPerTarget
<1>2. ASSUME InsertRow, pc = "insert",
             Len(decoded') = Len(decoded) + 1,
             \A n \in 1..Len(decoded) : decoded'[n] = decoded[n],
             decoded'[Len(decoded) + 1] = NewRow
      PROVE  decoded'[i].left > decoded'[j].left
  <2>1. Len(decoded) \in Nat
    BY RowsAppend
  <2>2. NewRow.text = job.text /\ NewRow.left = Len(todo)
    BY <1>2, InsertMoves
  <2>3. CASE j \in 1..Len(decoded)
    <3>1. i \in 1..Len(decoded)
      BY <2>1, <2>3
    <3> QED
      BY <1>2, <2>3, <3>1 DEF OneRowPerTarget
  <2>4. CASE j = Len(decoded) + 1
    <3>1. i \in 1..Len(decoded)
      BY <2>1, <2>4
    <3>2. decoded[i].text = job.text
      BY <1>2, <2>2, <2>4, <3>1
    <3> QED
      BY <1>2, <2>2, <2>4, <3>1, <3>2 DEF RowsAhead
  <2> QED
    BY <1>2, <2>1, <2>3, <2>4
<1> QED
  BY <1>1, <1>2, RowsAppend

LEMMA LateStep == TypeOK /\ Hands /\ ExpiredAreLate /\ [Next]_vars => ExpiredAreLate'
<1> SUFFICES ASSUME TypeOK, Hands, ExpiredAreLate, [Next]_vars, NEW k \in expired'
             PROVE  pending'[k].age > SegmentTimeout
  BY DEF ExpiredAreLate
<1> USE NoKeyAssumption
<1>a. /\ pending \in [Keys -> SlotType(Ids)] /\ expired \subseteq Keys
  BY DEF TypeOK, SlotType, Texts
<1>1. CASE StartSweep
  BY <1>1 DEF StartSweep, Expired
<1>2. ASSUME k \in expired, pending'[k] = pending[k]
      PROVE  pending'[k].age > SegmentTimeout
  BY <1>2 DEF ExpiredAreLate
<1>3. CASE EndDispatch
  <2>1. k \in expired
    BY <1>3 DEF EndDispatch, Freed
  <2>2. job.key # k
    BY <1>a, <2>1 DEF Hands
  <2>3. pending'[k] = pending[k]
    BY <1>3, <1>a, <2>1, <2>2 DEF EndDispatch, Freed
  <2> QED
    BY <1>2, <2>1, <2>3
<1>4. ASSUME NEW l \in Keys, FlushSlot(l)
      PROVE  pending'[k].age > SegmentTimeout
  <2>1. k \in expired /\ k # l
    BY <1>4 DEF FlushSlot, Freed
  <2>2. pending'[k] = pending[k]
    BY <1>4, <1>a, <2>1 DEF FlushSlot, Freed
  <2> QED
    BY <1>2, <2>1, <2>2
<1>5. CASE MarkPart \/ HandleNewPart \/ Tick \/ Crash
  <2>1. MarkPart \/ HandleNewPart \/ Tick => expired = {}
    BY DEF MarkPart, HandleNewPart, Tick, Hands, Freed, AllGathered, NoJob
  <2> QED
    BY <1>5, <2>1 DEF MarkPart, HandleNewPart, Tick, Crash, Freed, AllGathered
<1>6. \/ StartSweep \/ EndDispatch \/ (\E l \in Keys : FlushSlot(l))
      \/ MarkPart \/ HandleNewPart \/ Tick \/ Crash
      \/ UNCHANGED <<pending, expired>>
  BY DEF Next, Line, Work, StoreLine, LoseLine, HandleSingle, HandleDuplicate,
     MarkSingle, Route, InsertRow, EndSweep, Restart, vars, NewId
<1> QED
  BY <1>1, <1>2, <1>3, <1>4, <1>5, <1>6

LEMMA LandsStep == TypeOK /\ Hands /\ DispatchLands /\ [Next]_vars => DispatchLands'
<1> SUFFICES ASSUME TypeOK, Hands, DispatchLands, [Next]_vars PROVE DispatchLands'
  OBVIOUS
<1> USE NoKeyAssumption
<1>a. refused \subseteq refused'
  BY RefusedStays
<1>1. ASSUME pc' = "insert", todo' = <<>>
      PROVE  \/ \E i \in 1..Len(decoded') : decoded'[i].text = job'.text
             \/ IdsOf(job'.text) \subseteq refused'
  <2>1. job' = job
    BY <1>1, JobStays
  <2>2. ~Route
    BY <1>1, RouteMoves
  <2>3. CASE pc = "insert" /\ UNCHANGED <<decoded, todo>>
    BY <1>1, <1>a, <2>1, <2>3 DEF DispatchLands
  <2>4. CASE InsertRow
    <3>1. CASE decoded' = decoded
      <4>1. refused' = refused \cup IdsOf(job.text)
        <5>1. NewRow \in Row(Ids) /\ decoded \in Seq(Row(Ids))
          BY <2>4, InsertMoves DEF TypeOK, Row, Texts
        <5>2. Append(decoded, NewRow) # decoded
          <6>1. Len(Append(decoded, NewRow)) = Len(decoded) + 1 /\ Len(decoded) \in Nat
            BY <5>1
          <6> QED
            BY <6>1
        <5> QED
          BY <2>4, <3>1, <5>2, InsertMoves
      <4> QED
        BY <2>1, <4>1
    <3>2. CASE decoded' # decoded
      <4>1. /\ Len(decoded) \in Nat /\ Len(decoded') = Len(decoded) + 1
            /\ decoded'[Len(decoded) + 1] = NewRow
        BY <3>2, RowsAppend
      <4>2. NewRow.text = job.text
        BY <2>4, InsertMoves
      <4> QED
        BY <2>1, <4>1, <4>2
    <3> QED
      BY <3>1, <3>2
  <2> QED
    BY <1>1, <2>2, <2>3, <2>4, JobStays
<1>2. ASSUME pc' = "mark", MsgAt(cur)' \notin Concat
      PROVE  \/ \E i \in 1..Len(decoded') : decoded'[i].text = <<cur'>>
             \/ cur' \in refused'
  <2>1. CASE EndDispatch
    <3>1. /\ job.key = NoKey /\ pc = "insert" /\ todo = <<>>
          /\ decoded' = decoded /\ cur' = cur
      BY <1>2, <2>1 DEF EndDispatch, Freed
    <3>2. job = [key |-> NoKey, text |-> <<cur>>, total |-> 1, partial |-> FALSE]
      BY <3>1 DEF Hands
    <3>3. job.text = <<cur>>
      BY <3>2
    <3>4. Len(<<cur>>) = 1 /\ <<cur>>[1] = cur
      OBVIOUS
    <3>5. cur \in IdsOf(<<cur>>)
      BY <3>4, SMTT(30) DEF IdsOf
    <3> QED
      BY <1>a, <3>1, <3>3, <3>5 DEF DispatchLands
  <2>2. CASE HandleNewPart
    BY <1>2, <2>2 DEF HandleNewPart, MsgAt
  <2>3. CASE pc = "mark" /\ cur' = cur /\ raw' = raw /\ decoded' = decoded
    BY <1>2, <1>a, <2>3 DEF DispatchLands, MsgAt
  <2> QED
    BY <1>2, <2>1, <2>2, <2>3 DEF Next, Line, Work, StoreLine, LoseLine, HandleSingle,
       HandleDuplicate, MarkPart, MarkSingle, Route, InsertRow, StartSweep, FlushSlot,
       EndSweep, Tick, Crash, Restart, vars, Freed, AllGathered, NewId
<1> QED
  BY <1>1, <1>2 DEF DispatchLands

\* What IInv of Reassembly names is an invariant: the conjuncts the runs check
\* together hold for every value of the constants.
THEOREM InductiveInvariant == Spec => []IInv
<1>1. Init => /\ PartsLegal /\ TotalsAgree /\ HandsApart /\ DispatchedOnce
              /\ RowsAhead /\ ExpiredAreLate /\ DispatchLands
  BY DEF Init, PartsLegal, TotalsAgree, HandsApart, DispatchedOnce, Ids, NoSlot,
     Occupied, RowsAhead, ExpiredAreLate, DispatchLands
<1>2. TypeOK /\ Hands /\ PartsLegal /\ [Next]_vars => PartsLegal'
  BY LegalStep
<1>3. TypeOK /\ Hands /\ TotalsAgree /\ [Next]_vars => TotalsAgree'
  BY TotalsStep
<1>4. ApartInv /\ [Next]_vars => HandsApart' /\ DispatchedOnce'
  BY ApartStep
<1>5. ApartInv /\ RowsAhead /\ [Next]_vars => RowsAhead'
  BY RowsAheadStep
<1>6. TypeOK /\ Hands /\ ExpiredAreLate /\ [Next]_vars => ExpiredAreLate'
  BY LateStep
<1>7. TypeOK /\ Hands /\ DispatchLands /\ [Next]_vars => DispatchLands'
  BY LandsStep
<1> QED
  BY <1>1, <1>2, <1>3, <1>4, <1>5, <1>6, <1>7, TypeCorrect, SlotsAreSorted, FullSlotsLeave, PTL
  DEF Spec, IInv, ApartInv

\* A text without the PARTIAL mark has, in order and each once, as many parts of
\* one sender and reference as one of them announces: all of its message if it
\* is of one message and no part is numbered 0.  One with the mark lacks a part.
\* No premise on the references, on the numbers, or on what fails.
THEOREM CompleteTextsAreWhole == Spec => [](PartialMeansIncomplete /\ CompleteIsWhole)
<1>1. Init => PartialMeansIncomplete /\ CompleteIsWhole
  BY DEF Init, PartialMeansIncomplete, CompleteIsWhole
<1>2. IInv /\ PartialMeansIncomplete /\ CompleteIsWhole /\ [Next]_vars
      => PartialMeansIncomplete' /\ CompleteIsWhole'
  BY RowsStep DEF IInv
<1> QED
  BY <1>1, <1>2, InductiveInvariant, PTL DEF Spec

\* A text announced as PARTIAL lacks a part and one announced without it has
\* as many parts as its slot was opened for, whatever the references are.
THEOREM PartialTextsLackAPart == Spec => []PartialMeansIncomplete
  BY CompleteTextsAreWhole, PTL

\* No two rows of a text come from the same place of its list of targets: no
\* step between two INSERTs, a crash or a failed INSERT included, makes
\* dispatch_decoded_sms go over a text again.
THEOREM OneRowEach == Spec => []OneRowPerTarget
<1>1. Init => OneRowPerTarget
  BY DEF Init, OneRowPerTarget
<1>2. IInv /\ OneRowPerTarget /\ [Next]_vars => OneRowPerTarget'
  BY RowsOnceStep DEF IInv
<1> QED
  BY <1>1, <1>2, InductiveInvariant, PTL DEF Spec

\* The collection begins to flush a slot only when it waited longer than
\* segment_timeout_sec, however many slots it flushes before it.
THEOREM PartialsAreLate == Spec => PartialOnlyWhenLate
<1>1. IInv /\ [Next]_vars =>
        [\A k \in Keys : job'.key = k /\ job'.partial /\ job.key # k
            => pending[k].age > SegmentTimeout]_vars
  <2> SUFFICES ASSUME IInv, [Next]_vars, NEW k \in Keys,
                      job'.key = k, job'.partial, job.key # k
               PROVE  pending[k].age > SegmentTimeout
    OBVIOUS
  <2>a. TypeOK /\ Hands /\ ExpiredAreLate
    BY DEF IInv
  <2>1. CASE pc' = "route" /\ pc # "route"
    <3>1. FlushSlot(k)
      BY <2>a, <2>1, NoKeyAssumption, JobBegins
    <3> QED
      BY <2>a, <3>1 DEF FlushSlot, ExpiredAreLate, Freed
  <2>2. CASE ~(pc' = "route" /\ pc # "route")
    <3>1. job' = job \/ job' = NoJob
      BY <2>a, <2>2 DEF Next, Line, Work, StoreLine, LoseLine, HandleSingle, HandleDuplicate,
         HandleNewPart, MarkPart, MarkSingle, Route, InsertRow, EndDispatch, StartSweep,
         FlushSlot, EndSweep, Tick, Crash, Restart, vars, Freed,
         AllGathered, NewId
    <3> QED
      BY <3>1, NoKeyAssumption, SMTT(30) DEF NoJob
  <2> QED
    BY <2>1, <2>2
<1> QED
  BY <1>1, InductiveInvariant, PTL DEF Spec, PartialOnlyWhenLate

(***************************************************************************)
(* Where a stored line is                                                  *)
(***************************************************************************)

\* Linking an id into a list takes none out of it.
LEMMA LinkedIds ==
    ASSUME NEW S, NEW s \in Seq(S), NEW at \in 1..(Len(s) + 1), NEW id \in S
    PROVE  /\ IdsOf(s) \subseteq IdsOf(Linked(s, at, id))
           /\ id \in IdsOf(Linked(s, at, id))
<1> DEFINE L == Linked(s, at, id)
<1>1. /\ Len(s) \in Nat
      /\ Len(L) = Len(s) + 1
      /\ \A i \in 1..(Len(s) + 1) : L[i] = IF i < at THEN s[i] ELSE IF i = at THEN id ELSE s[i - 1]
  BY LinkedType, LenProperties
<1> HIDE DEF L
<1>2. ASSUME NEW i \in 1..Len(s) PROVE s[i] \in IdsOf(L)
  <2>1. CASE i < at
    <3>1. i \in 1..Len(L) /\ L[i] = s[i]
      BY <1>1, <2>1
    <3> QED
      BY <3>1 DEF IdsOf
  <2>2. CASE i >= at
    <3>1. i + 1 \in 1..Len(L) /\ L[i + 1] = s[i]
      BY <1>1, <2>2
    <3> QED
      BY <3>1 DEF IdsOf
  <2> QED
    BY <1>1, <2>1, <2>2
<1>3. at \in 1..Len(L) /\ L[at] = id
  BY <1>1
<1>4. id \in IdsOf(L)
  BY <1>3 DEF IdsOf
<1>5. IdsOf(s) \subseteq IdsOf(L)
  BY <1>2 DEF IdsOf
<1> QED
  BY <1>4, <1>5 DEF L

\* A slot that does not decode holds nothing but lines that are spoilt.
LEMMA UndecodableSlot ==
    ASSUME SlotsSorted, NEW k \in Keys, ~Decodable(pending[k].parts),
           NEW r \in IdsOf(pending[k].parts)
    PROVE  Spoilt(MsgAt(r))
<1> DEFINE parts == pending[k].parts
<1>1. \A i \in 1..Len(parts) : MsgAt(parts[i]) \in Concat /\ KeyOf[MsgAt(parts[i])] = k
  BY DEF SlotsSorted
<1>2. PICK i \in 1..Len(parts) : MsgAt(parts[i]) \in Undecodable
  BY DEF Decodable
<1>3. PICK j \in 1..Len(parts) : r = parts[j]
  BY DEF IdsOf
<1> QED
  BY <1>1, <1>2, <1>3 DEF Spoilt

\* What the step may do to the parts of a slot.
LEMMA SlotMoves ==
    ASSUME TypeOK, Hands, [Next]_vars, NEW k \in Keys, pc' # "down"
    PROVE  \/ IdsOf(pending[k].parts) \subseteq IdsOf(pending'[k].parts)
           \/ ~Decodable(pending[k].parts)
           \/ EndDispatch /\ job.key = k
<1>a. pending \in [Keys -> SlotType(Ids)]
  BY DEF TypeOK, SlotType, Texts
<1>1. CASE HandleNewPart
  <2> DEFINE key == KeyOf[MsgAt(cur)]
  <2>1. cur \in Ids /\ key \in Keys
    BY <1>1, ConcatAssumption DEF HandleNewPart, Hands
  <2>2. PICK at \in 1..(Len(pending[key].parts) + 1) :
           pending' = [pending EXCEPT ![key] =
                     [total   |-> IF Occupied(key) THEN @.total ELSE TotalOf[MsgAt(cur)],
                      arrived |-> @.arrived + 1,
                      age     |-> @.age,
                      parts   |-> Linked(pending[key].parts, at, cur)]]
    BY <1>1 DEF HandleNewPart
  <2>3. pending'[k].parts =
           IF k = key THEN Linked(pending[key].parts, at, cur) ELSE pending[k].parts
    BY <1>a, <2>1, <2>2
  <2> HIDE DEF key
  <2>4. pending[key].parts \in Seq(Ids)
    BY <1>a, <2>1 DEF SlotType
  <2> QED
    BY <2>1, <2>2, <2>3, <2>4, LinkedIds
<1>2. CASE MarkPart
  BY <1>2, <1>a DEF MarkPart, Freed, AllGathered
<1>3. ASSUME NEW l \in Keys, FlushSlot(l)
      PROVE  IdsOf(pending[k].parts) \subseteq IdsOf(pending'[k].parts) \/ ~Decodable(pending[k].parts)
  BY <1>3, <1>a DEF FlushSlot, Freed
<1>4. CASE EndDispatch
  BY <1>4, <1>a DEF EndDispatch, Freed
<1>5. CASE Tick
  BY <1>5, <1>a DEF Tick
<1>6. \/ HandleNewPart \/ MarkPart \/ (\E l \in Keys : FlushSlot(l)) \/ EndDispatch \/ Tick
      \/ UNCHANGED pending
  BY DEF Next, Line, Work, StoreLine, LoseLine, HandleSingle, HandleDuplicate,
     MarkSingle, Route, InsertRow, StartSweep, EndSweep, Crash, Restart, vars, NewId
<1> QED
  BY <1>1, <1>2, <1>3, <1>4, <1>5, <1>6

\* The text in hand stays in hand until its dispatch ends.
LEMMA JobMoves ==
    ASSUME Hands, [Next]_vars, pc' # "down", job' # job, job # NoJob
    PROVE  EndDispatch /\ pc = "insert" /\ todo = <<>> /\ decoded' = decoded
<1>1. pc \in {"route", "insert"}
  BY DEF Hands
<1> QED
  BY <1>1 DEF Next, Line, Work, StoreLine, LoseLine, HandleSingle, HandleDuplicate, HandleNewPart,
     MarkPart, MarkSingle, Route, InsertRow, EndDispatch, StartSweep, FlushSlot, EndSweep, Tick,
     Crash, Restart, vars, Freed, AllGathered, NewId

\* A line in a slot or in a text does not get lost while the process runs and
\* no INSERT of its text failed, unless it is spoilt.
LEMMA KeptStep ==
    ASSUME TypeOK, Hands, SlotsSorted, DispatchLands, [Next]_vars,
           NEW r \in Ids, Kept(r), ~Spoilt(MsgAt(r)), pc' # "down",
           r \notin refused'
    PROVE  Kept(r)'
<1> USE NoKeyAssumption
<1>a. /\ Len(decoded) \in Nat
      /\ \A i \in 1..Len(decoded) : i \in 1..Len(decoded') /\ decoded'[i] = decoded[i]
  <2>1. Len(decoded) \in Nat
    BY RowsAppend
  <2>2. CASE decoded' = decoded
    BY <2>1, <2>2
  <2>3. CASE /\ Len(decoded') = Len(decoded) + 1
             /\ \A i \in 1..Len(decoded) : decoded'[i] = decoded[i]
    BY <2>1, <2>3
  <2> QED
    BY <2>1, <2>2, <2>3, RowsAppend
<1>1. ASSUME NEW i \in 1..Len(decoded), r \in IdsOf(decoded[i].text)
      PROVE  Kept(r)'
  BY <1>a, <1>1 DEF Kept
<1>2. ASSUME r \in IdsOf(job.text)
      PROVE  Kept(r)'
  <2>1. CASE job' = job
    BY <1>2, <2>1 DEF Kept
  <2>2. CASE job' # job
    <3>1. job # NoJob
      BY <1>2 DEF IdsOf, NoJob
    <3>2. r \notin refused
      BY RefusedStays
    <3>3. \E i \in 1..Len(decoded) : decoded[i].text = job.text
      BY <1>2, <2>2, <3>1, <3>2, JobMoves DEF DispatchLands
    <3> QED
      BY <1>1, <1>2, <3>3
  <2> QED
    BY <2>1, <2>2
<1>3. ASSUME NEW k \in Keys, r \in IdsOf(pending[k].parts)
      PROVE  Kept(r)'
  <2>1. CASE IdsOf(pending[k].parts) \subseteq IdsOf(pending'[k].parts)
    BY <1>3, <2>1 DEF Kept
  <2>2. CASE EndDispatch /\ job.key = k
    <3>1. job.text = pending[k].parts /\ pc = "insert" /\ todo = <<>>
      BY <2>2 DEF EndDispatch, Freed, Hands
    <3>2. r \notin refused
      BY RefusedStays
    <3>3. \E i \in 1..Len(decoded) : decoded[i].text = job.text
      BY <1>3, <3>1, <3>2 DEF DispatchLands
    <3> QED
      BY <1>1, <1>3, <3>1, <3>3
  <2> QED
    BY <1>3, <2>1, <2>2, SlotMoves, UndecodableSlot
<1> QED
  BY <1>1, <1>2, <1>3 DEF Kept

\* A line that becomes done is in hand in a slot, or its row is written, unless
\* an INSERT of it failed.
LEMMA MarkedIsKept ==
    ASSUME TypeOK, Hands, DispatchLands, [Next]_vars,
           NEW r \in Ids', raw'[r].status = "done", ~(r \in Ids /\ raw[r].status = "done"),
           r \notin refused
    PROVE  r \in Ids /\ Kept(r)
<1>a. raw \in Seq(RawRow)
  BY DEF TypeOK, RawRow
<1>1. ASSUME NEW m \in Msgs, NEW p \in PartsOf(m), StoreLine(m, p)
      PROVE  r \in Ids /\ Kept(r)
  <2> DEFINE row == [msg |-> m, part |-> p, status |-> "new"]
  <2>1. p \in Nat
    BY ConcatAssumption DEF PartsOf
  <2>2. row \in RawRow /\ row.status = "new"
    BY <2>1 DEF RawRow
  <2>3. raw' = Append(raw, row)
    BY <1>1 DEF StoreLine
  <2> HIDE DEF row
  <2>4. /\ Len(raw) \in Nat /\ Len(raw') = Len(raw) + 1
        /\ \A i \in Ids : raw'[i] = raw[i]
        /\ raw'[Len(raw) + 1] = row
    BY <1>a, <2>2, <2>3 DEF Ids
  <2> QED
    BY <2>2, <2>4 DEF Ids
<1>2. CASE MarkPart \/ MarkSingle
  <2>1. Marked /\ cur \in Ids /\ pc = "mark"
    BY <1>2 DEF MarkPart, MarkSingle, Hands, Freed, AllGathered
  <2>2. Len(raw') = Len(raw)
    BY <1>a, <2>1, MarkedType
  <2>3. r \in Ids
    BY <2>2 DEF Ids
  <2>4. raw' # raw
    BY <2>3
  <2>5. raw' = [raw EXCEPT ![cur].status = "done"]
    BY <2>1, <2>4 DEF Marked
  <2>6. r = cur
    BY <1>a, <2>3, <2>5, LenProperties DEF Ids
  <2>7. CASE MarkPart
    <3>1. MsgAt(cur) \in Concat /\ KeyOf[MsgAt(cur)] \in Keys
      BY <2>7, ConcatAssumption DEF MarkPart, Freed, AllGathered
    <3>2. cur \in IdsOf(pending[KeyOf[MsgAt(cur)]].parts)
      BY <2>1, <3>1 DEF Hands, IdsOf
    <3> QED
      BY <2>3, <2>6, <3>1, <3>2 DEF Kept
  <2>8. CASE MarkSingle
    <3>1. PICK i \in 1..Len(decoded) : decoded[i].text = <<cur>>
      BY <2>1, <2>6, <2>8 DEF MarkSingle, DispatchLands
    <3>2. Len(<<cur>>) = 1 /\ <<cur>>[1] = cur
      OBVIOUS
    <3>3. cur \in IdsOf(<<cur>>)
      BY <3>2 DEF IdsOf
    <3> QED
      BY <2>3, <2>6, <3>1, <3>3 DEF Kept
  <2> QED
    BY <1>2, <2>7, <2>8
<1>3. CASE UNCHANGED raw
  BY <1>3 DEF Ids
<1>4. \/ MarkPart \/ MarkSingle \/ UNCHANGED raw
      \/ \E m \in Msgs : \E p \in PartsOf(m) : StoreLine(m, p)
  BY DEF Next, Line, Work, LoseLine, HandleSingle, HandleDuplicate, HandleNewPart,
     Route, InsertRow, EndDispatch, StartSweep, FlushSlot, EndSweep, Tick, Crash,
     Restart, vars, Freed
<1> QED
  BY <1>1, <1>2, <1>3, <1>4

\* The line in hand that is not spoilt goes into a slot or into a text, or a
\* slot holds its part already.
LEMMA FrameStep ==
    ASSUME TypeOK, Hands, SlotsSorted, PartsLegal, [Next]_vars,
           pc = "frame", pc' # "down", ~Spoilt(MsgAt(cur)),
           RefsDistinct \/ MsgAt(cur) \notin Concat
    PROVE  \E r \in Ids : /\ MsgAt(r) = MsgAt(cur) /\ PartAt(r) = PartAt(cur)
                          /\ Kept(r)' \/ (pc' = "frame" /\ cur' = r)
<1>a. cur \in Ids /\ pending \in [Keys -> SlotType(Ids)]
  BY DEF Hands, TypeOK, SlotType, Texts
<1>1. CASE HandleSingle
  <2>0. Len(<<cur>>) = 1 /\ <<cur>>[1] = cur
    OBVIOUS
  <2>1. Decodable(<<cur>>)
    BY <2>0 DEF Decodable, Spoilt
  <2>2. job'.text = <<cur>>
    BY <1>1, <2>1 DEF HandleSingle
  <2>3. cur \in IdsOf(job'.text)
    BY <2>0, <2>2 DEF IdsOf
  <2> QED
    BY <1>a, <2>3 DEF Kept
<1>2. CASE HandleDuplicate
  <2> DEFINE k == KeyOf[MsgAt(cur)]
  <2>1. k \in Keys /\ MsgAt(cur) \in Concat /\ pending' = pending
    BY <1>2, ConcatAssumption DEF HandleDuplicate
  <2>2. PICK i \in 1..Len(pending[k].parts) : PartAt(pending[k].parts[i]) = PartAt(cur)
    BY <1>2 DEF HandleDuplicate
  <2>3. MsgAt(pending[k].parts[i]) \in Concat /\ KeyOf[MsgAt(pending[k].parts[i])] = k
    BY <2>1 DEF SlotsSorted
  <2>4. MsgAt(pending[k].parts[i]) = MsgAt(cur)
    BY <2>1, <2>3 DEF RefsDistinct
  <2>5. pending[k].parts[i] \in Ids
    <3>1. pending[k].parts \in Seq(Ids)
      BY <1>a, <2>1 DEF SlotType
    <3> QED
      BY <3>1, ElementOfSeq
  <2>6. pending[k].parts[i] \in IdsOf(pending[k].parts)
    BY DEF IdsOf
  <2>7. \E l \in Keys : pending'[l].parts = pending[k].parts
    BY <2>1
  <2>8. PICK r \in Ids : /\ MsgAt(r) = MsgAt(cur) /\ PartAt(r) = PartAt(cur)
                         /\ r \in IdsOf(pending[k].parts)
    BY <2>2, <2>4, <2>5, <2>6
  <2>9. Kept(r)'
    BY <2>7, <2>8 DEF Kept
  <2> QED
    BY <2>8, <2>9
<1>3. CASE HandleNewPart
  <2> DEFINE key == KeyOf[MsgAt(cur)]
  <2>1. key \in Keys
    BY <1>3, ConcatAssumption DEF HandleNewPart
  <2>2. PICK at \in 1..(Len(pending[key].parts) + 1) :
           pending' = [pending EXCEPT ![key] =
                     [total   |-> IF Occupied(key) THEN @.total ELSE TotalOf[MsgAt(cur)],
                      arrived |-> @.arrived + 1,
                      age     |-> @.age,
                      parts   |-> Linked(pending[key].parts, at, cur)]]
    BY <1>3 DEF HandleNewPart
  <2>3. pending'[key].parts = Linked(pending[key].parts, at, cur)
    BY <1>a, <2>1, <2>2
  <2> HIDE DEF key
  <2>4. pending[key].parts \in Seq(Ids)
    BY <1>a, <2>1 DEF SlotType
  <2>5. cur \in IdsOf(pending'[key].parts)
    BY <1>a, <2>2, <2>3, <2>4, LinkedIds
  <2>6. \E l \in Keys : cur \in IdsOf(pending'[l].parts)
    BY <2>1, <2>5
  <2>7. PICK r \in Ids : r = cur
    BY <1>a
  <2>8. Kept(r)'
    BY <2>6, <2>7 DEF Kept
  <2> QED
    BY <2>7, <2>8
<1>4. CASE pc' = "frame" /\ cur' = cur
  BY <1>a, <1>4
<1>5. \/ HandleSingle \/ HandleDuplicate \/ HandleNewPart
      \/ pc' = "frame" /\ cur' = cur
  BY DEF Next, Line, Work, StoreLine, LoseLine, MarkPart, MarkSingle, Route, InsertRow,
     EndDispatch, StartSweep, FlushSlot, EndSweep, Tick, Crash, Restart, vars,
     Freed, AllGathered, NewId
<1> QED
  BY <1>1, <1>2, <1>3, <1>4, <1>5

\* A part counted by a step is the line the step stores.
LEMMA HeldNew ==
    ASSUME TypeOK, [Next]_vars, Faults = {}, NEW m \in Msgs \ Malformed, NEW p \in PartsOf(m),
           ~(copies[m][p] > 0), copies'[m][p] > 0
    PROVE  \E r \in Ids' : /\ raw'[r].msg = m /\ raw'[r].part = p
                           /\ pc' = "frame" /\ cur' = r
<1>0. \E n \in Msgs : \E q \in PartsOf(n) : StoreLine(n, q)
  BY DEF Next, Line, Work, LoseLine, HandleSingle, HandleDuplicate, HandleNewPart,
     MarkPart, MarkSingle, Route, InsertRow, EndDispatch, StartSweep, FlushSlot, EndSweep, Tick,
     Crash, Restart, vars, Freed, AllGathered, Refusing
<1>b. PICK n \in Msgs : \E q \in PartsOf(n) : StoreLine(n, q)
  BY <1>0
<1>1. PICK q \in PartsOf(n) : StoreLine(n, q)
  BY <1>b
<1>2. n = m /\ q = p
  <2>1. copies' = [copies EXCEPT ![n] = [copies[n] EXCEPT ![q] = copies[n][q] + 1]]
    BY <1>1 DEF StoreLine
  <2>2. DOMAIN copies = Msgs /\ copies[m] \in [PartsOf(m) -> 0..MaxCopies[m]]
    BY DEF TypeOK
  <2> QED
    BY <2>1, <2>2
<1>3. raw \in Seq(RawRow)
  BY DEF TypeOK, RawRow
<1>4. p \in Nat
  BY ConcatAssumption DEF PartsOf
<1> DEFINE row == [msg |-> m, part |-> p, status |-> "new"]
<1>5. row \in RawRow /\ row.msg = m /\ row.part = p
  BY <1>4 DEF RawRow
<1>6. raw' = Append(raw, row) /\ pc' = "frame" /\ cur' = Len(raw) + 1
  BY <1>1, <1>2 DEF StoreLine, NewId
<1> HIDE DEF row
<1>7. Len(raw) + 1 \in Ids' /\ raw'[Len(raw) + 1] = row
  BY <1>3, <1>5, <1>6 DEF Ids
<1> QED
  BY <1>5, <1>6, <1>7

LEMMA HeldStep ==
    TypeOK /\ Hands /\ SlotsSorted /\ PartsLegal /\ DispatchLands /\ PartsHeld /\ [Next]_vars
    => PartsHeld'
<1> SUFFICES ASSUME TypeOK, Hands, SlotsSorted, PartsLegal, DispatchLands, PartsHeld,
                    [Next]_vars, Faults = {}
             PROVE  /\ refused' = {} /\ pc' # "down"
                    /\ \A m \in Msgs \ Malformed : \A p \in PartsOf(m) :
                          ~Spoilt(m) /\ copies'[m][p] > 0 /\ (RefsDistinct \/ m \notin Concat) =>
                              \E r \in Ids' : /\ raw'[r].msg = m /\ raw'[r].part = p
                                              /\ Kept(r)' \/ (pc' = "frame" /\ cur' = r)
  BY DEF PartsHeld, MsgAt, PartAt, Spoilt, RefsDistinct, PartsOf
<1>1. refused = {} /\ pc # "down"
  BY SMTT(30) DEF PartsHeld
<1>2. refused' = {} /\ pc' # "down"
  BY <1>1 DEF Next, Line, Work, StoreLine, LoseLine, HandleSingle, HandleDuplicate, HandleNewPart,
     MarkPart, MarkSingle, Route, InsertRow, EndDispatch, StartSweep, FlushSlot, EndSweep, Tick,
     Crash, Restart, vars, Freed, AllGathered, NewId, Refusing
<1>3. /\ Ids \subseteq Ids'
      /\ \A r \in Ids : raw'[r].msg = MsgAt(r) /\ raw'[r].part = PartAt(r)
  BY RawStable DEF MsgAt, PartAt
<1>4. ASSUME NEW m \in Msgs \ Malformed, NEW p \in PartsOf(m), ~Spoilt(m), copies'[m][p] > 0,
             RefsDistinct \/ m \notin Concat
      PROVE  \E r \in Ids' : /\ raw'[r].msg = m /\ raw'[r].part = p
                             /\ Kept(r)' \/ (pc' = "frame" /\ cur' = r)
  <2>1. CASE copies[m][p] > 0
    <3>1. PICK r \in Ids : /\ MsgAt(r) = m /\ PartAt(r) = p
                           /\ Kept(r) \/ (pc = "frame" /\ cur = r)
      BY <1>4, <2>1 DEF PartsHeld
    <3>2. CASE Kept(r)
      BY <1>1, <1>2, <1>3, <1>4, <3>1, <3>2, KeptStep
    <3>3. CASE pc = "frame" /\ cur = r
      <4>1. \E s \in Ids : /\ MsgAt(s) = m /\ PartAt(s) = p
                           /\ Kept(s)' \/ (pc' = "frame" /\ cur' = s)
        BY <1>1, <1>2, <1>4, <3>1, <3>3, FrameStep
      <4> QED
        BY <1>3, <4>1
    <3> QED
      BY <3>1, <3>2, <3>3
  <2>2. CASE ~(copies[m][p] > 0)
    BY <1>1, <1>4, <2>2, HeldNew
  <2> QED
    BY <2>1, <2>2
<1> QED
  BY <1>2, <1>4

\* A line marked as done stays in a slot, in the text in hand or in a row of
\* decoded_sms unless the process ends, an INSERT of its text fails, or it is
\* spoilt: for any messages, references and faults.
THEOREM DoneLinesAreKept == Spec => KeptUntilLost
<1>1. IInv /\ [Next]_vars =>
        [\A r \in Ids' :
          /\ raw'[r].status = "done" /\ ~Spoilt(raw'[r].msg)
          /\ r \in Ids /\ raw[r].status = "done" => Kept(r)
          => Kept(r)' \/ pc' = "down" \/ r \in refused']_vars
  <2> SUFFICES ASSUME IInv, [Next]_vars, NEW r \in Ids',
                      raw'[r].status = "done", ~Spoilt(raw'[r].msg),
                      r \in Ids /\ raw[r].status = "done" => Kept(r),
                      pc' # "down", r \notin refused'
               PROVE  Kept(r)'
    OBVIOUS
  <2>1. TypeOK /\ Hands /\ SlotsSorted /\ DispatchLands
    BY DEF IInv
  <2>2. r \in Ids /\ Kept(r)
    BY <2>1, MarkedIsKept, RefusedStays
  <2>3. raw'[r].msg = MsgAt(r)
    BY <2>1, <2>2, RawStable DEF MsgAt
  <2> QED
    BY <2>1, <2>2, <2>3, KeptStep
<1> QED
  BY <1>1, InductiveInvariant, PTL DEF Spec, KeptUntilLost

\* With as many parts in its slot as it announces a message would fill it.
LEMMA HeldIsOut ==
    ASSUME IInv, PartsHeld
    PROVE  ReceivedIsOut
<1> USE NoKeyAssumption, ConcatAssumption
<1> SUFFICES ASSUME Faults = {}, RefsDistinct, pc = "idle",
                    NEW m \in Msgs \ (Malformed \cup Undecodable), EnoughIn(m), ~IsOut(m)
             PROVE  FALSE
  BY DEF ReceivedIsOut
<1>a. TypeOK /\ Hands /\ SlotsSorted /\ NoFullSlotWaits /\ TotalsAgree
  BY DEF IInv
<1>b. pending \in [Keys -> SlotType(Ids)] /\ job = NoJob
  BY <1>a DEF TypeOK, SlotType, Texts, Hands
<1>1. ~Spoilt(m)
  BY DEF Spoilt, RefsDistinct
<1>2. ASSUME NEW p \in Reported(m)
      PROVE  \E k \in Keys : \E i \in 1..Len(pending[k].parts) :
                MsgAt(pending[k].parts[i]) = m /\ PartAt(pending[k].parts[i]) = p
  <2>1. PICK r \in Ids : MsgAt(r) = m /\ PartAt(r) = p /\ Kept(r)
    BY <1>1 DEF PartsHeld, Reported
  <2>2. r \notin IdsOf(job.text)
    BY <1>b DEF NoJob, IdsOf
  <2>3. \A i \in 1..Len(decoded) : r \notin IdsOf(decoded[i].text)
    BY <2>1 DEF IsOut, IdsOf, MsgsOf
  <2>4. PICK k \in Keys : r \in IdsOf(pending[k].parts)
    BY <2>1, <2>2, <2>3 DEF Kept
  <2> QED
    BY <2>1, <2>4 DEF IdsOf
<1>c. IsFiniteSet(Reported(m)) /\ Cardinality(Reported(m)) \in Nat
  <2>1. PICK N \in Nat : Reported(m) \subseteq 0..N
    <3>1. CASE m \in Concat
      BY <3>1 DEF Reported, PartsOf
    <3>2. CASE m \notin Concat
      <4>1. Reported(m) \subseteq 0..1
        BY <3>2 DEF Reported, PartsOf
      <4> QED
        BY <4>1
    <3> QED
      BY <3>1, <3>2
  <2>2. IsFiniteSet(0..N)
    BY FS_Interval
  <2> QED
    BY <2>1, <2>2, FS_Subset, FS_CardinalityType
<1>3. /\ m \in Concat => Cardinality(Reported(m)) >= TotalOf[m]
      /\ m \notin Concat => Cardinality(Reported(m)) >= 1
  BY DEF EnoughIn
<1>4. PICK p0 : p0 \in Reported(m)
  <2>1. Cardinality({}) = 0
    BY FS_EmptySet
  <2>2. Reported(m) # {}
    <3>1. CASE m \in Concat
      <4>1. TotalOf[m] \in Nat \ {0}
        BY <3>1
      <4> QED
        BY <1>3, <1>c, <2>1, <3>1, <4>1
    <3>2. CASE m \notin Concat
      BY <1>3, <1>c, <2>1, <3>2, SMTT(30)
    <3> QED
      BY <3>1, <3>2
  <2> QED
    BY <2>2
<1>5. m \in Concat
  BY <1>2, <1>a, <1>4 DEF SlotsSorted
<1> DEFINE k == KeyOf[m]
           parts == pending[k].parts
           n == Len(parts)
<1>6. k \in Keys /\ TotalOf[m] \in Nat \ {0}
  BY <1>5
<1>7. \A p \in Reported(m) : \E i \in 1..n : MsgAt(parts[i]) = m /\ PartAt(parts[i]) = p
  <2> SUFFICES ASSUME NEW p \in Reported(m)
               PROVE  \E i \in 1..n : MsgAt(parts[i]) = m /\ PartAt(parts[i]) = p
    OBVIOUS
  <2>1. PICK l \in Keys : \E i \in 1..Len(pending[l].parts) :
           MsgAt(pending[l].parts[i]) = m /\ PartAt(pending[l].parts[i]) = p
    BY <1>2
  <2>2. l = k
    BY <1>a, <2>1 DEF SlotsSorted
  <2> QED
    BY <2>1, <2>2
<1>8. n \in Nat
  <2>1. parts \in Seq(Ids)
    BY <1>b, <1>6 DEF SlotType
  <2> QED
    BY <2>1, LenProperties
<1>9. Occupied(k)
  <2>1. PICK i \in 1..n : MsgAt(parts[i]) = m
    BY <1>4, <1>7
  <2> QED
    BY <2>1 DEF Occupied
<1>10. pending[k].arrived = n /\ pending[k].total = TotalOf[m]
  <2>1. PICK i \in 1..n : pending[k].total = TotalOf[MsgAt(parts[i])]
    BY <1>a, <1>6, <1>9 DEF TotalsAgree
  <2>2. MsgAt(parts[i]) \in Concat /\ KeyOf[MsgAt(parts[i])] = k /\ pending[k].arrived = n
    BY <1>a, <1>6, <2>1 DEF SlotsSorted
  <2>3. MsgAt(parts[i]) = m
    BY <1>5, <2>2 DEF RefsDistinct
  <2> QED
    BY <2>1, <2>2, <2>3
<1>11. n < TotalOf[m]
  <2>1. ~InHand(k)
    BY <1>b, <1>6 DEF InHand, NoJob
  <2> QED
    BY <1>a, <1>6, <1>9, <1>10, <2>1 DEF NoFullSlotWaits
<1>12. Cardinality(Reported(m)) <= n
  <2> DEFINE R == Reported(m)
             f == [p \in R |-> CHOOSE i \in 1..n : PartAt(parts[i]) = p]
  <2> HIDE DEF n, parts, R
  <2>1. \A p \in R : f[p] \in 1..n /\ PartAt(parts[f[p]]) = p
    BY <1>7 DEF R
  <2> HIDE DEF f
  <2>2. f \in [R -> 1..n]
    BY <2>1 DEF f
  <2>3. f \in Injection(R, 1..n)
    BY <2>1, <2>2 DEF Injection, IsInjective
  <2>4. IsFiniteSet(1..n) /\ Cardinality(1..n) = n
    <3>1. 1 \in Int /\ n \in Int
      BY <1>8
    <3>2. IsFiniteSet(1..n) /\ Cardinality(1..n) = IF 1 > n THEN 0 ELSE n - 1 + 1
      BY <3>1, FS_Interval
    <3> QED
      BY <1>8, <3>2
  <2>5. Cardinality(R) <= n
    BY <2>3, <2>4, FS_Injection
  <2> QED
    BY <2>5 DEF R
<1> QED
  BY <1>3, <1>5, <1>6, <1>8, <1>11, <1>12, <1>c

\* Without faults, and with distinct references, a message of which as many
\* parts were reported as it announces has left as soon as the thread is idle: no order of its parts,
\* no repetition and no collection in between keeps it in a slot.
THEOREM CompleteReportsGetOut == Spec => []ReceivedIsOut
<1>1. Init => PartsHeld
  BY DEF Init, PartsHeld
<1>2. IInv /\ PartsHeld /\ [Next]_vars => PartsHeld'
  BY HeldStep DEF IInv
<1>3. IInv /\ PartsHeld => ReceivedIsOut
  BY HeldIsOut
<1> QED
  BY <1>1, <1>2, <1>3, InductiveInvariant, PTL DEF Spec
=============================================================================
