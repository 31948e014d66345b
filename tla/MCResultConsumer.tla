-------------------------- MODULE MCResultConsumer --------------------------
(* Instances of ResultConsumer for TLC: task t1 with items a1 and a2, the   *)
(* first of which has a workspace; task t2 with item b1.                    *)
EXTENDS ResultConsumer, TLC

CONSTANTS t1, t2, a1, a2, b1, c1, c2

MCTaskOf == [i \in Items |-> IF i = b1 THEN t2 ELSE t1]
=============================================================================
