--------------------------- MODULE DeliveryLedger ---------------------------
(***************************************************************************)
(* What the delivery path promises to the reader of a workspace, without   *)
(* topics, sessions, offsets or restarts: bytes arrive in the sink and      *)
(* stay; an item is shown as uploaded, and a workspace lists it, only when  *)
(* its bytes are there; a listed object is never withdrawn, and an item     *)
(* that has a workspace is never shown as uploaded without being listed.    *)
(***************************************************************************)
CONSTANTS Items, Mapped

VARIABLES
  delivered,  \* items whose bytes are in the sink
  recorded,   \* items listed in a workspace
  shown       \* items whose status reads "uploaded"

ledgerVars == <<delivered, recorded, shown>>

LInit == delivered = {} /\ recorded = {} /\ shown = {}

\* Bytes of some items arrive, for the first time or again.
Deliver ==
  /\ \E S \in SUBSET Items : delivered' = delivered \cup S
  /\ UNCHANGED <<recorded, shown>>

\* Outcomes are settled: in one step, items are listed and statuses change.
Settle ==
  /\ \E S \in SUBSET delivered : recorded' = recorded \cup S
  /\ shown' \in SUBSET delivered
  /\ shown' \cap Mapped \subseteq recorded'
  /\ UNCHANGED delivered

LedgerSpec == LInit /\ [][Deliver \/ Settle]_ledgerVars
=============================================================================
