---------------------------- MODULE OutboxProofs ----------------------------
(***************************************************************************)
(* Proofs about Outbox, for every batch size, every number of rows and     *)
(* every set of faults: the inductive invariant, and the refinement of     *)
(* OrderedDelivery.                                                        *)
(***************************************************************************)
EXTENDS Outbox, FiniteSetTheorems, TLAPS

\* LIMIT n of an ascending scan leaves out no smaller row: if a row is in the
\* result, so is every unsent row before it (line 864).
LEMMA ScanIsInitial ==
    ASSUME rows \in Nat, sent \subseteq Ids,
           NEW i \in Scanned, NEW j \in Unsent, j < i
    PROVE  j \in Scanned
<1> DEFINE Below(x) == {y \in Unsent : y <= x}
<1>1. Unsent \subseteq 1..rows /\ i \in Unsent
  BY DEF Unsent, Ids, Scanned
<1>2. IsFiniteSet(1..rows)
  BY FS_Interval
<1>3. IsFiniteSet(Unsent)
  BY <1>1, <1>2, FS_Subset
<1>4. IsFiniteSet(Below(i))
  BY <1>3, FS_Subset
<1>5. Below(j) \subseteq Below(i)
  <2>1. \A y \in Unsent : y <= j => y <= i
    BY <1>1
  <2> QED
    BY <2>1
<1>6. IsFiniteSet(Below(j)) /\ Cardinality(Below(j)) <= Cardinality(Below(i))
  BY <1>4, <1>5, FS_Subset
<1>7. Cardinality(Below(j)) \in Nat /\ Cardinality(Below(i)) \in Nat
  BY <1>4, <1>6, FS_CardinalityType
<1>8. Cardinality(Below(i)) <= BatchSize
  BY DEF Scanned
<1>9. Cardinality(Below(j)) <= BatchSize
  BY <1>6, <1>7, <1>8, BatchAssumption
<1> QED
  BY <1>9 DEF Scanned

LEMMA InitInvariant == Init => IInv
<1> SUFFICES ASSUME Init PROVE IInv
  OBVIOUS
<1> USE DEF Init
<1>1. Ids = {}
  BY DEF Ids
<1>2. TypeOK
  <2>1. rows \in 0..MaxRows
    BY BoundsAssumption
  <2>2. delivered \in [Ids -> Nat] /\ mishaps \in [Ids -> 0..MaxMishaps]
    BY <1>1
  <2>3. stop \in {"clear", "set", "closed"}
    OBVIOUS
  <2> QED
    BY <2>1, <2>2, <2>3 DEF TypeOK
<1>3. Holds
  BY DEF Holds
<1>4. DuplicatesHaveACause /\ NoOvertaking
  BY <1>1 DEF DuplicatesHaveACause, NoOvertaking
<1> QED
  BY <1>2, <1>3, <1>4 DEF IInv

-----------------------------------------------------------------------------
(* One lemma per action that changes the table or what was delivered.      *)

LEMMA InsertKeeps == IInv /\ Insert => IInv'
<1> SUFFICES ASSUME IInv, Insert PROVE IInv'
  OBVIOUS
<1> USE BoundsAssumption DEF IInv, Insert, Ids
<1>1. TypeOK'
  BY DEF TypeOK
<1>2. \A i \in Ids : delivered'[i] = delivered[i] /\ mishaps'[i] = mishaps[i]
  BY DEF TypeOK
<1>3. delivered'[rows + 1] = 0 /\ mishaps'[rows + 1] = 0
  BY DEF TypeOK
<1>4. Holds'
  BY <1>2 DEF TypeOK, Holds
<1>5. DuplicatesHaveACause'
  BY <1>2, <1>3 DEF TypeOK, DuplicatesHaveACause
<1>6. NoOvertaking'
  BY <1>2, <1>3 DEF TypeOK, NoOvertaking
<1> QED
  BY <1>1, <1>4, <1>5, <1>6

LEMMA ScanKeeps == IInv /\ Scan => IInv'
<1> SUFFICES ASSUME IInv, Scan PROVE IInv'
  OBVIOUS
<1> USE DEF IInv, Scan
<1>1. Scanned \subseteq Unsent /\ rows \in Nat /\ sent \subseteq Ids
  BY DEF Scanned, TypeOK
<1>2. \A j \in sent : delivered[j] > 0
  BY DEF TypeOK, DuplicatesHaveACause, Ids
<1>3. ASSUME NEW i \in Scanned, NEW j \in 1..(i - 1)
      PROVE  j \in Scanned \/ delivered[j] > 0
  <2>1. j \in Ids /\ j < i
    BY <1>1 DEF Unsent, Ids
  <2>2. CASE j \in sent
    BY <1>2, <2>2
  <2>3. CASE j \notin sent
    BY <1>1, <2>1, <2>3, ScanIsInitial DEF Unsent
  <2> QED
    BY <2>2, <2>3
<1>4. TypeOK'
  BY <1>1 DEF TypeOK, Ids, Unsent
<1>5. Holds'
  BY <1>1, <1>3 DEF TypeOK, Holds, Ids, Unsent
<1>6. DuplicatesHaveACause' /\ NoOvertaking'
  BY DEF TypeOK, DuplicatesHaveACause, NoOvertaking, Ids
<1> QED
  BY <1>4, <1>5, <1>6

\* What a delivery of the next row of the batch does, recorded or not.
LEMMA DeliveryInOrder ==
    ASSUME IInv, NEW i \in Ids, IsNext(i), rows' = rows,
           delivered' = Bump(delivered, i)
    PROVE  /\ delivered' \in [Ids -> Nat]
           /\ NoOvertaking'
           /\ \A j \in 1..(i - 1) : delivered[j] > 0
           /\ \A j \in Ids : delivered[j] > 0 => delivered'[j] > 0
<1> USE DEF IInv, TypeOK
<1>1. delivered' = [delivered EXCEPT ![i] = delivered[i] + 1]
  BY DEF Bump
<1>2. \A j \in 1..(i - 1) : delivered[j] > 0
  BY DEF Holds, IsNext, Ids
<1>3. delivered' \in [Ids -> Nat]
  BY <1>1
<1>4. \A j \in Ids : delivered[j] > 0 => delivered'[j] > 0
  BY <1>1
<1>5. NoOvertaking'
  BY <1>1, <1>2, <1>4 DEF NoOvertaking, Ids
<1> QED
  BY <1>2, <1>3, <1>4, <1>5

LEMMA AcceptedKeeps ==
    ASSUME IInv, NEW i \in Ids, SendAccepted(i) PROVE IInv'
<1> USE DEF IInv, SendAccepted
<1>1. /\ delivered' \in [Ids -> Nat]
      /\ NoOvertaking'
      /\ \A j \in Ids : delivered[j] > 0 => delivered'[j] > 0
  BY DeliveryInOrder
<1>2. TypeOK'
  BY <1>1 DEF TypeOK, Ids
<1>3. i \in batch /\ i \notin sent /\ current = 0 /\ i # 0
  BY DEF Holds, IsNext, Ids, TypeOK
<1>4. \A j \in batch \ {i} : \A l \in 1..(j - 1) : l \in batch \ {i} \/ delivered'[l] > 0
  <2>1. delivered'[i] > 0
    BY DEF Bump, TypeOK
  <2> QED
    BY <1>1, <2>1 DEF Holds, Ids, TypeOK
<1>5. Holds'
  BY <1>3, <1>4 DEF Holds, Ids, TypeOK
<1>6. DuplicatesHaveACause'
  BY <1>3 DEF DuplicatesHaveACause, Bump, TypeOK, Ids
<1> QED
  BY <1>1, <1>2, <1>5, <1>6

LEMMA AnswerLostKeeps ==
    ASSUME IInv, NEW i \in Ids, SendAnswerLost(i) PROVE IInv'
<1> USE DEF IInv, SendAnswerLost
<1>1. /\ delivered' \in [Ids -> Nat]
      /\ NoOvertaking'
  BY DeliveryInOrder
<1>2. mishaps' \in [Ids -> 0..MaxMishaps]
  BY BoundsAssumption DEF Bump, TypeOK
<1>3. TypeOK'
  BY <1>1, <1>2 DEF TypeOK, Ids
<1>4. i \notin sent /\ current = 0 /\ i # 0
  BY DEF Holds, IsNext, Ids, TypeOK
<1>5. Holds'
  BY <1>4 DEF Holds, Ids, TypeOK
<1>6. DuplicatesHaveACause'
  BY <1>4 DEF DuplicatesHaveACause, Bump, TypeOK, Ids
<1> QED
  BY <1>1, <1>3, <1>5, <1>6

LEMMA MarkKeeps == IInv /\ (Mark \/ MarkFails) => IInv'
<1> SUFFICES ASSUME IInv, Mark \/ MarkFails PROVE IInv'
  OBVIOUS
<1> USE DEF IInv
<1>1. current \in Ids /\ current \notin sent \cup batch /\ current # 0
  BY DEF Holds, TypeOK, Mark, MarkFails
<1>2. NoOvertaking'
  BY DEF NoOvertaking, Mark, MarkFails, Ids
<1>3. CASE Mark
  <2>1. TypeOK' /\ Holds'
    BY <1>1, <1>3 DEF Mark, TypeOK, Holds, Ids
  <2>2. DuplicatesHaveACause'
    BY <1>1, <1>3 DEF Mark, TypeOK, DuplicatesHaveACause, Ids
  <2> QED
    BY <1>2, <2>1, <2>2
<1>4. CASE MarkFails
  <2>1. mishaps' \in [Ids -> 0..MaxMishaps]
    BY <1>1, <1>4, BoundsAssumption DEF MarkFails, Bump, TypeOK
  <2>2. TypeOK' /\ Holds'
    BY <1>1, <1>4, <2>1 DEF MarkFails, TypeOK, Holds, Ids
  <2>3. DuplicatesHaveACause'
    BY <1>1, <1>4 DEF MarkFails, Bump, TypeOK, DuplicatesHaveACause, Ids
  <2> QED
    BY <1>2, <2>2, <2>3
<1> QED
  BY <1>3, <1>4

LEMMA VanishKeeps == IInv /\ Vanish => IInv'
<1> SUFFICES ASSUME IInv, Vanish PROVE IInv'
  OBVIOUS
<1> USE DEF IInv, Vanish
<1>1. mishaps' \in [Ids -> 0..MaxMishaps]
  BY BoundsAssumption DEF Bump, TypeOK
<1>2. TypeOK' /\ Holds' /\ NoOvertaking'
  BY <1>1 DEF TypeOK, Holds, NoOvertaking, Ids
<1>3. DuplicatesHaveACause'
  <2>1. CASE current = 0
    BY <2>1 DEF TypeOK, DuplicatesHaveACause, Ids
  <2>2. CASE current # 0
    BY <2>2 DEF TypeOK, Holds, Bump, DuplicatesHaveACause, Ids
  <2> QED
    BY <2>1, <2>2
<1> QED
  BY <1>2, <1>3

LEMMA NextKeeps == IInv /\ [Next]_vars => IInv'
<1> SUFFICES ASSUME IInv, [Next]_vars PROVE IInv'
  OBVIOUS
<1> USE DEF IInv
<1>1. CASE Insert
  BY <1>1, InsertKeeps
<1>2. CASE Scan
  BY <1>2, ScanKeeps
<1>3. CASE Accepted
  BY <1>3, AcceptedKeeps DEF Accepted
<1>4. ASSUME NEW i \in Ids, SendRefused(i) PROVE IInv'
  BY <1>4 DEF SendRefused, TypeOK, Holds, DuplicatesHaveACause, NoOvertaking, Ids
<1>5. ASSUME NEW i \in Ids, SendAnswerLost(i) PROVE IInv'
  BY <1>5, AnswerLostKeeps
<1>6. CASE Mark \/ MarkFails
  BY <1>6, MarkKeeps
<1>7. CASE EndProcess \/ Crash
  BY <1>7, VanishKeeps DEF EndProcess, Crash
<1>8. CASE \/ ObserveStop \/ Connect \/ ScanFails \/ EndBatch \/ Stop \/ CloseEvent
           \/ Restart
  BY <1>8 DEF ObserveStop, Connect, ScanFails, EndBatch, Stop, CloseEvent, Restart,
              TypeOK, Holds, DuplicatesHaveACause, NoOvertaking, Ids
<1>9. CASE UNCHANGED vars
  BY <1>9 DEF vars, TypeOK, Holds, DuplicatesHaveACause, NoOvertaking, Ids
<1> QED
  BY <1>1, <1>2, <1>3, <1>4, <1>5, <1>6, <1>7, <1>8, <1>9 DEF Next, Failed

-----------------------------------------------------------------------------
\* The inductive invariant holds: types, what the thread holds, the account of
\* the duplicates and the order of first deliveries (lines 843-904).
THEOREM InductiveInvariant == Spec => []IInv
<1>1. Init => IInv
  BY InitInvariant
<1>2. IInv /\ [Next]_vars => IInv'
  BY NextKeeps
<1> QED
  BY <1>1, <1>2, PTL DEF Spec

\* A row reaches its chatroom once, plus once for every delivery whose record
\* was lost, whatever fails and whenever (lines 864, 877-881).
THEOREM DuplicatesAreAccountedFor == Spec => []DuplicatesHaveACause
<1>1. IInv => DuplicatesHaveACause
  BY DEF IInv
<1> QED
  BY <1>1, InductiveInvariant, PTL

\* First deliveries happen in the order of the ids (lines 864, 884).
THEOREM FirstDeliveriesInOrder == Spec => []NoOvertaking
<1>1. IInv => NoOvertaking
  BY DEF IInv
<1> QED
  BY <1>1, InductiveInvariant, PTL

-----------------------------------------------------------------------------
LEMMA InitPromised == Init => Promise!AInit
BY DEF Init, Promise!AInit, Ids

LEMMA StepPromised == IInv /\ [Next]_vars => [Promise!ANext]_(Promise!avars)
<1> SUFFICES ASSUME IInv, [Next]_vars
             PROVE  Promise!ANext \/ UNCHANGED <<rows, delivered, sent>>
  BY DEF Promise!avars
<1> USE DEF IInv
<1>1. CASE Insert
  BY <1>1 DEF Insert, Promise!ANext, Promise!Accept
<1>2. ASSUME NEW i \in Ids, SendAccepted(i) \/ SendAnswerLost(i)
      PROVE  Promise!ANext
  <2>1. \A j \in 1..(i - 1) : delivered[j] > 0
    BY <1>2, DeliveryInOrder DEF SendAccepted, SendAnswerLost
  <2>2. Promise!Deliver(i)
    BY <1>2, <2>1 DEF SendAccepted, SendAnswerLost, Promise!Deliver, Bump
  <2> QED
    BY <2>2 DEF Promise!ANext, Ids
<1>3. CASE Mark
  <2>1. current \in Ids /\ delivered[current] > 0
    BY <1>3 DEF Mark, Holds, TypeOK, DuplicatesHaveACause
  <2>2. Promise!Acknowledge(current)
    BY <1>3, <2>1 DEF Mark, Promise!Acknowledge
  <2> QED
    BY <2>1, <2>2 DEF Promise!ANext, Ids
<1>4. CASE \/ ObserveStop \/ Connect \/ Scan \/ ScanFails \/ MarkFails \/ EndBatch
           \/ Stop \/ CloseEvent \/ EndProcess \/ Crash \/ Restart \/ UNCHANGED vars
  BY <1>4 DEF ObserveStop, Connect, Scan, ScanFails, MarkFails, EndBatch,
              Stop, CloseEvent, EndProcess, Crash, Vanish, Restart, vars
<1>5. ASSUME NEW i \in Ids, SendRefused(i)
      PROVE  UNCHANGED <<rows, delivered, sent>>
  BY <1>5 DEF SendRefused
<1> QED
  BY <1>1, <1>2, <1>3, <1>4, <1>5 DEF Next, Accepted, Failed

\* The push thread implements OrderedDelivery: every step of it is a step of
\* the promise or changes nothing the promise speaks of.
THEOREM PromiseIsKept == Spec => Implements
<1>1. Init => Promise!AInit
  BY InitPromised
<1>2. IInv /\ [Next]_vars => [Promise!ANext]_(Promise!avars)
  BY StepPromised
<1> QED
  BY <1>1, <1>2, InductiveInvariant, PTL DEF Spec, Implements, Promise!ASpec
=============================================================================
