---------------------------- MODULE MCReassembly ----------------------------
(***************************************************************************)
(* Small instances of Reassembly.  In the clean one m1 is a message of one *)
(* part, m2 comes in two, m3 does not parse, and m4, concatenated but of   *)
(* one part, does not decode.  In the other m2 and m3 share a sender and a *)
(* reference, m2 has a part numbered 0, and m1 does not decode and never   *)
(* comes completely.                                                       *)
(***************************************************************************)
EXTENDS Reassembly

CONSTANTS m1, m2, m3, m4, k1, k2

\* m2 and m3 have the same sender and reference.
KeyShared == [m \in Concat |-> IF m \in {m2, m3} THEN k1 ELSE k2]

TotalClean   == [m \in Concat |-> IF m = m2 THEN 2 ELSE 1]
NumbersClean == [m \in Concat |-> 1..TotalClean[m]]
CopiesClean  == [m \in Msgs |-> IF m = m2 THEN 2 ELSE 1]

TotalMixed   == [m \in Concat |-> IF m = m3 THEN 3 ELSE 2]
NumbersMixed ==
    [m \in Concat |-> CASE m = m1 -> {1} [] m = m2 -> {0, 1} [] m = m3 -> {2}]
CopiesMixed  == [m \in Msgs |-> 1]
=============================================================================
