---------------------------- MODULE MCTaskRunner ----------------------------
(* Instances of TaskRunner for TLC: items a1 and a2 of target g1, b1 of g2.  *)
EXTENDS TaskRunner, TLC

CONSTANTS a1, a2, b1, r1, r2, q1, q2, s1

MCGroupOf == [i \in Items |-> IF i = b1 THEN "g2" ELSE "g1"]
=============================================================================
