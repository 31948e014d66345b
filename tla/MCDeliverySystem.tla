-------------------------- MODULE MCDeliverySystem --------------------------
(* Instances of DeliverySystem for TLC: task t1 with items a1, a2, of which *)
(* a1 has a workspace; task t2 with item b1.                                *)
EXTENDS DeliverySystem, TLC

CONSTANTS t1, t2, a1, a2, b1, r1, r2, c1, c2

MCTaskOf == [i \in Items |-> IF i = b1 THEN t2 ELSE t1]

\* The request slots are alike; used where no liveness is checked.
Slots == Permutations({r1, r2})
=============================================================================
