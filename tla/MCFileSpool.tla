----------------------------- MODULE MCFileSpool -----------------------------
\* A task of two items, one of them without a workspace.
EXTENDS FileSpool

CONSTANTS i1, i2

MCTaskOf == [i \in Items |-> 1]
=============================================================================
