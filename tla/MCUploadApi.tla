----------------------------- MODULE MCUploadApi -----------------------------
(* Instances of UploadApi for TLC: task t1 with items a1, a2; task t2 with   *)
(* item b1.                                                                  *)
EXTENDS UploadApi, TLC

CONSTANTS t1, t2, a1, a2, b1, r1, r2

MCTaskOf == [i \in Items |-> IF i = b1 THEN t2 ELSE t1]
=============================================================================
