---------------------------- MODULE MCKafkaWorker ----------------------------
(* Instances of KafkaWorker for TLC: task t1 with items a1, a2; task t2 with *)
(* item b1, or without items when Items leaves b1 out.                       *)
EXTENDS KafkaWorker, TLC

CONSTANTS t1, t2, a1, a2, b1

MCTaskOf == [i \in Items |-> IF i = b1 THEN t2 ELSE t1]
=============================================================================
