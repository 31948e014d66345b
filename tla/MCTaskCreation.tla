---------------------------- MODULE MCTaskCreation ----------------------------
(* Instances of TaskCreation for TLC: clients c1, c2 use key k1, client c3    *)
(* uses key k2.                                                               *)
EXTENDS TaskCreation, TLC

CONSTANTS c1, c2, c3, k1, k2, n1, n2

MCKeyOf == [c \in Callers |-> IF c = c3 THEN k2 ELSE k1]
MCClaimOf == [k \in Keys |-> IF k = k2 THEN n2 ELSE n1]
=============================================================================
