--------------------------- MODULE MCStagingCleanup ---------------------------
(* Instances of StagingCleanup for TLC: task t1 with item a1, task t2 with    *)
(* item b1.                                                                   *)
EXTENDS StagingCleanup, TLC

CONSTANTS t1, t2, a1, b1, r1, j1, j2

MCTaskOf == [i \in Items |-> IF i = b1 THEN t2 ELSE t1]
=============================================================================
