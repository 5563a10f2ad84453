-------------------------- MODULE OrderedDelivery ---------------------------
(***************************************************************************)
(* What the table decoded_sms and the push thread of sms2wechat-v7.c are   *)
(* there to promise: rows are delivered to the chatrooms in the order of   *)
(* their ids, a row may be delivered again until it is acknowledged, and   *)
(* no acknowledged row was never delivered.  Outbox implements it.         *)
(***************************************************************************)
EXTENDS Naturals

VARIABLES
    rows,      \* how many rows the table has
    delivered, \* how often each row reached its chatroom
    acked      \* rows whose delivery is recorded

avars == <<rows, delivered, acked>>

AInit ==
    /\ rows = 0
    /\ delivered = [i \in {} |-> 0]
    /\ acked = {}

Accept ==
    /\ rows' = rows + 1
    /\ delivered' = [i \in 1..(rows + 1) |-> IF i = rows + 1 THEN 0 ELSE delivered[i]]
    /\ UNCHANGED acked

\* No row overtakes one that was never delivered.
Deliver(i) ==
    /\ \A j \in 1..(i - 1) : delivered[j] > 0
    /\ delivered' = [delivered EXCEPT ![i] = @ + 1]
    /\ UNCHANGED <<rows, acked>>

Acknowledge(i) ==
    /\ delivered[i] > 0
    /\ acked' = acked \cup {i}
    /\ UNCHANGED <<rows, delivered>>

ANext == Accept \/ \E i \in 1..rows : Deliver(i) \/ Acknowledge(i)

ASpec == AInit /\ [][ANext]_avars
=============================================================================
