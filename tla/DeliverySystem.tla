--------------------------- MODULE DeliverySystem ---------------------------
(***************************************************************************)
(* The delivery path as a whole: the task endpoints publish to the task     *)
(* topic, the Go worker turns task messages into bytes in the sink and      *)
(* results in the result topic, the control plane's consumers apply the     *)
(* results to the rows that the endpoints read.  The three components share *)
(* the state of DeliveryStore and take their steps in any order; each keeps *)
(* its own faults (crashes, lost replies, rebalances, expired leases).      *)
(***************************************************************************)
EXTENDS UploadApi, KafkaWorker, ResultConsumer

systemVars == <<storeVars, uploadVars, workerVars, consumerVars>>

SystemInit == StoreInit /\ UInit /\ WInit /\ CInit

ApiAct(r)      == (UCall(r) \/ UStep(r)) /\ UNCHANGED <<workerVars, consumerVars>>
ApiFault       == UFault /\ UNCHANGED <<workerVars, consumerVars>>
WorkerAct      == WStep /\ UNCHANGED <<uploadVars, consumerVars>>
WorkerFault    == WCrash /\ UNCHANGED <<uploadVars, consumerVars>>
ConsumerAct(c) == CStep(c) /\ UNCHANGED <<uploadVars, workerVars>>
ConsumerFault  == CFault /\ UNCHANGED <<uploadVars, workerVars>>

SystemNext ==
  \/ \E r \in Reqs : ApiAct(r)
  \/ \E c \in Consumers : ConsumerAct(c)
  \/ WorkerAct
  \/ ApiFault \/ WorkerFault \/ ConsumerFault

SystemSafety == SystemInit /\ [][SystemNext]_systemVars

\* The worker's loop and the caller of the consumer go on; no client is
\* obliged to call, and no handler to come to its end.
SystemSpec ==
  /\ SystemSafety
  /\ WF_systemVars(WorkerAct)
  /\ \A c \in Consumers : WF_systemVars(ConsumerAct(c))
-----------------------------------------------------------------------------
(***************************************************************************)
(* Properties                                                              *)
(***************************************************************************)

Shown == {i \in Items : itemStatus[i] = "uploaded"}

\* The rows never run ahead of the bytes: an item that reads "uploaded", or
\* that a workspace lists, is in the sink, through every fault.
RowsBackedByBytes == Shown \cup objects \subseteq sink

\* No request has died or lost a reply, no task message has come twice, and
\* the result partition has not moved (a move and a move back may let a
\* session apply a result that another one has committed long ago).
Calm == apiFaults = 0 /\ wcrashes = 0 /\ moves = 0

\* While calm, an item that travels in a message still to be processed is not
\* published again, whatever requests overlap, as long as none of them acts on
\* what another has changed since it loaded it (raced): a retry leads to a new
\* message only after the outcome. Two uploads that have both read "confirmed"
\* do publish twice, since the status is not read again after the claim.
NoItemTwiceWhenCalm == [][Calm => PublishesAfresh]_systemVars

\* While calm, the archive of a published message stays in the staging bucket
\* until the message is answered: compensation deletes under a key that all
\* uploads of a task share, but takes it from no message in the topic, unless
\* the task is raced (a second upload decided on a stale "confirmed", or ran
\* beside the first, and failed after it).
ArchiveKeptWhenCalm ==
  ObjectMode /\ Calm =>
    \A k \in DOMAIN taskLog :
      InFlight(k) /\ taskLog[k].items # {} =>
        taskLog[k].task \in staged \cup raced

\* While calm, a task reads "uploaded" only when every one of its items does,
\* through partial failures, retries, second uploads, results that arrive late
\* and sessions that are rolled back. Excepted are raced tasks: a second
\* message of theirs may be answered after the first one's outcome.
UploadedMeansAllOnce ==
  Calm => \A t \in Tasks \ raced : status[t] = "uploaded" => ItemsOf(t) \subseteq Shown

\* What has been published is settled: every item of a message that has no
\* result yet comes to read "uploaded" or "failed", although the worker may
\* exit, requests may die and archives may be gone on the way. Only a consumer
\* that fails after the ack may lose the result (lost).
PublishedItemsSettle ==
  \A k \in 1 .. MaxTaskMsgs : \A i \in Items :
    (k <= Len(taskLog) /\ ~Answered(k) /\ i \in taskLog[k].items)
      ~> \/ itemStatus[i] \in {"uploaded", "failed"}
         \/ \E n \in lost : resultLog[n].cause = k

\* The system implements the ledger: the sink is what is delivered, the
\* workspace objects are what is recorded, the item rows are what is shown.
Ledger == INSTANCE DeliveryLedger
            WITH delivered <- sink, recorded <- objects, shown <- Shown

ImplementsLedger == Ledger!LedgerSpec
=============================================================================
