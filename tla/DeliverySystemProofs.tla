------------------------ MODULE DeliverySystemProofs ------------------------
(***************************************************************************)
(* Theorems about the delivery path as a whole, for any number of requests, *)
(* consumers, tasks, items, messages and faults of every kind: the rows are *)
(* backed by bytes, the path implements the ledger, and what was proved of  *)
(* the worker and of the consumer alone holds with the others at work.      *)
(* Then, what holds while the system is calm, of tasks for which no request *)
(* has overtaken another: no item travels twice, the archive stays as long  *)
(* as it is needed, and "uploaded" means every item of the task.            *)
(***************************************************************************)
EXTENDS DeliverySystem, UploadApiProofs, BrokerProofs

(***************************************************************************)
(* The invariant: the types of all parts, the results as the worker leaves  *)
(* them, the offsets and objects as the consumers leave them, and the item  *)
(* rows, stored or about to be.                                             *)
(***************************************************************************)

SystemTypes == UploadTypeOK /\ WTypeInv /\ CShape

\* "uploaded" is in a row, or in the writes of a session, only for bytes that
\* have arrived.
ItemsBacked ==
  /\ Shown \subseteq sink
  /\ \A c \in Consumers : {i \in Items : wItem[c][i] = "uploaded"} \subseteq sink

SystemInv == SystemTypes /\ ResultInv /\ OInv /\ OffsetInv /\ ItemsBacked

\* What a component leaves alone for the consumers.
LEMMA ConsumersUntouched ==
  ASSUME UNCHANGED consumerVars
  PROVE  /\ UNCHANGED <<cphase, cbatch, view, wStatus, wItem, wObj, pending, leases>>
         /\ UNCHANGED <<owner, faults, moves, applied, skipped, lost>>
BY DEF consumerVars, sessionVars, groupVars, historyVars

\* The results of the worker are records that the consumer can meet.
LEMMA ResultsAreConsumed ==
  ASSUME resultLog \in Seq(ResultMsg)
  PROVE  resultLog \in Seq(ConsumerMsg)
<1>1. ResultMsg \subseteq ConsumerMsg
  BY DEF ResultMsg, ConsumerMsg
<1>2. QED BY <1>1, SeqMonotonic

\* The system starts in the invariant.
LEMMA SystemInitInv == SystemInit => SystemInv
<1> SUFFICES ASSUME SystemInit PROVE SystemInv
  OBVIOUS
<1> USE StoreAssumption, ConsumerAssumption
<1>1. StoreInit /\ UInit /\ WInit /\ CInit
  BY DEF SystemInit
<1>2. UploadTypeOK /\ WTypeInv
  BY <1>1, UploadInitTypes, InitTypes DEF UploadInit, WorkerInit
<1>3. /\ resultLog = <<>> /\ resultOffset = 0 /\ objects = {} /\ sink = {}
      /\ \A i \in Items : itemStatus[i] = "none"
      /\ rowLock = [t \in Tasks |-> Nobody]
  BY <1>1 DEF StoreInit
<1>4. RowTypes
  BY <1>2, ResultsAreConsumed DEF RowTypes, UploadTypeOK, StoreTypeOK
<1>5. /\ cphase = [c \in Consumers |-> "idle"] /\ cbatch = [c \in Consumers |-> <<>>]
      /\ view = [c \in Consumers |-> [status |-> status, item |-> itemStatus,
                                      objects |-> objects]]
      /\ wStatus = [c \in Consumers |-> NoStatus] /\ wItem = [c \in Consumers |-> NoItem]
      /\ wObj = [c \in Consumers |-> {}] /\ pending = [c \in Consumers |-> {}]
      /\ leases = [t \in Tasks |-> Nobody] /\ owner \in Consumers /\ moves = 0
      /\ applied = {} /\ skipped = {} /\ lost = {}
  BY <1>1 DEF CInit
<1>6. SessionTypes
  BY <1>3, <1>4, <1>5 DEF SessionTypes, RowTypes, CPhases, Snapshot, NoStatus, NoItem
<1>7. ASSUME NEW c \in Consumers PROVE BatchShape(c) /\ SessionShape(c)
  <2>1. Len(<<>>) = 0 /\ cbatch[c] = <<>> /\ cphase[c] = "idle"
    BY <1>5
  <2>2. QED BY <1>5, <2>1 DEF BatchShape, SessionShape, ReadableRun
<1>8. CShape
  BY <1>4, <1>6, <1>7 DEF CShape
<1>9. ResultInv
  BY <1>1, <1>2, <1>3 DEF ResultInv, WInit, MarkedInSink, InState, CausesInRange,
                          ResultsComplete
<1>10. \A c \in Consumers, i \in Items : wItem[c][i] # "uploaded"
  BY <1>5 DEF NoItem, Keep
<1>11. OInv
  BY <1>3, <1>5, <1>8, <1>10 DEF OInv, ObjectInv, ObjectsMatchResults
<1>12. OffsetInv
  BY <1>3, <1>5 DEF OffsetInv
<1>13. ItemsBacked
  BY <1>3, <1>10 DEF ItemsBacked, Shown
<1>14. QED BY <1>2, <1>8, <1>9, <1>11, <1>12, <1>13 DEF SystemInv, SystemTypes

(***************************************************************************)
(* The task endpoints.                                                      *)
(***************************************************************************)

ApiStep == (\E r \in Reqs : UCall(r) \/ UStep(r)) \/ UFault

\* An endpoint writes rows and publishes; it never touches the results, the
\* sink or the objects, and no row starts or ceases to read "uploaded".
LEMMA ApiLeavesOutcome ==
  ASSUME UploadTypeOK, ApiStep
  PROVE  /\ UNCHANGED <<rowLock, objects, taskOffset, resultLog, resultOffset, sink>>
         /\ taskLog' = taskLog \/ \E m \in TaskMsg : taskLog' = Append(taskLog, m)
         /\ \A i \in Items : (itemStatus'[i] = "uploaded") <=> (itemStatus[i] = "uploaded")
<1> USE DEF storeVars, dbVars, brokerVars
<1> DEFINE Goal == /\ UNCHANGED <<rowLock, objects, taskOffset, resultLog, resultOffset, sink>>
                   /\ taskLog' = taskLog \/ \E m \in TaskMsg : taskLog' = Append(taskLog, m)
                   /\ \A i \in Items :
                        (itemStatus'[i] = "uploaded") <=> (itemStatus[i] = "uploaded")
<1>1. ASSUME NEW r \in Reqs, UCall(r) PROVE Goal
  BY <1>1 DEF UCall, ClassifyRead, ConfirmRead, RetryRead, UploadRead, Begin
<1>2. ASSUME NEW r \in Reqs, AppendTask(r) PROVE Goal
  <2>1. [task |-> rtask[r], items |-> ritems[r], skip |-> {}, valid |-> TRUE] \in TaskMsg
    BY DEF UploadTypeOK, UTypeOK, TaskMsg
  <2>2. QED BY <1>2, <2>1 DEF AppendTask
<1>3. ASSUME NEW r \in Reqs, ClassifyCommit(r) PROVE Goal
  BY <1>3 DEF ClassifyCommit, ItemsOf
<1>4. ASSUME NEW r \in Reqs, RetryCommit(r) PROVE Goal
  BY <1>4 DEF RetryCommit
<1>5. ASSUME NEW r \in Reqs,
             \/ ClassifyConflict(r) \/ ConfirmCommit(r) \/ UploadClaim(r) \/ UploadBusy(r)
             \/ UploadStage(r) \/ UploadStageFails(r) \/ UploadPublishFails(r)
             \/ UploadCompensate(r) \/ UploadMark(r) \/ UploadRelease(r)
             \/ UploadMarkFails(r) \/ ApiCrash(r)
      PROVE Goal
  BY <1>5 DEF ClassifyConflict, ConfirmCommit, UploadClaim, UploadBusy, UploadStage,
     UploadStageFails, UploadPublishFails, UploadCompensate, UploadMark, UploadRelease,
     UploadMarkFails, ApiCrash
<1>6. ASSUME NEW t \in Tasks, ClaimExpires(t) PROVE Goal
  BY <1>6 DEF ClaimExpires
<1>7. ASSUME NEW r \in Reqs, UStep(r) PROVE Goal
  BY <1>2, <1>3, <1>4, <1>5, <1>7 DEF UStep, UploadPublish
<1>8. CASE UFault
  BY <1>2, <1>5, <1>6, <1>8 DEF UFault, UploadPublishLost
<1>9. QED BY <1>1, <1>7, <1>8 DEF ApiStep

\* A step of the endpoints keeps the invariant.
LEMMA ApiKeepsInv ==
  ASSUME SystemInv, ApiStep, UNCHANGED <<workerVars, consumerVars>>
  PROVE  SystemInv'
<1>t. UploadTypeOK /\ WTypeInv /\ CShape /\ ResultInv /\ OInv /\ OffsetInv /\ ItemsBacked
  BY DEF SystemInv, SystemTypes
<1>1. UploadTypeOK'
  BY <1>t, CallKeepsTypes, StepKeepsTypes, OthersKeepTypes DEF ApiStep
<1>2. /\ UNCHANGED <<rowLock, objects, taskOffset, resultLog, resultOffset, sink>>
      /\ taskLog' = taskLog \/ \E m \in TaskMsg : taskLog' = Append(taskLog, m)
      /\ \A i \in Items : (itemStatus'[i] = "uploaded") <=> (itemStatus[i] = "uploaded")
  BY <1>t, ApiLeavesOutcome
<1>3. /\ taskLog \in Seq(TaskMsg) /\ Len(taskLog) \in Nat /\ DOMAIN taskLog = 1 .. Len(taskLog)
      /\ Len(taskLog') \in Nat /\ Len(taskLog) <= Len(taskLog')
      /\ DOMAIN taskLog \subseteq DOMAIN taskLog'
      /\ \A k \in DOMAIN taskLog : taskLog'[k] = taskLog[k]
  <2>1. taskLog \in Seq(TaskMsg)
    BY <1>t DEF UploadTypeOK, StoreTypeOK
  <2>2. QED BY <1>2, <2>1, AppendProperties, LenProperties
<1>4. WTypeInv'
  <2>1. WTypeOK'
    BY <1>t, <1>3, GrowTypes DEF WTypeInv, WorkerTypeOK
  <2>2. WShape'
    BY <1>t DEF WTypeInv, WShape, workerVars
  <2>3. QED BY <1>1, <2>1, <2>2 DEF WTypeInv, WorkerTypeOK, UploadTypeOK
<1>5. ResultInv'
  <2>1. CausesInRange' /\ ResultsComplete'
    BY <1>t, <1>2, <1>3, AccountsKept DEF ResultInv
  <2>2. MarkedInSink'
    BY <1>t, <1>2 DEF ResultInv, MarkedInSink, InState, workerVars
  <2>3. QED BY <1>4, <2>1, <2>2 DEF ResultInv
<1>6. CShape'
  <2>1. RowTypes'
    BY <1>1, ResultsAreConsumed, <1>2, <1>t DEF RowTypes, UploadTypeOK, StoreTypeOK, CShape
  <2>2. QED BY <1>t, <1>2, <2>1, ConsumersUntouched, QuietKeepsShape DEF CShape, SessionTypes
<1>7. OffsetInv'
  BY <1>t, <1>2, ConsumersUntouched, QuietKeepsOffsets
<1>8. OInv'
  <2>1. /\ UNCHANGED <<objects, applied, resultLog, view, wItem, wObj, pending>>
    BY <1>2, ConsumersUntouched
  <2>2. ObjectInv'
    BY <1>t, <1>2, <2>1, StoreAssumption DEF OInv, ObjectInv, ObjectsMatchResults
  <2>3. QED BY <1>t, <1>6, <2>1, <2>2 DEF OInv
<1>9. ItemsBacked'
  BY <1>t, <1>2, ConsumersUntouched DEF ItemsBacked, Shown
<1>10. QED
  BY <1>1, <1>4, <1>5, <1>6, <1>7, <1>8, <1>9 DEF SystemInv, SystemTypes

(***************************************************************************)
(* The worker.                                                              *)
(***************************************************************************)

\* The worker writes bytes and results; the rows are none of its business.
LEMMA WorkerLeavesRows ==
  ASSUME WTypeInv, WStep \/ WCrash
  PROVE  /\ UNCHANGED <<status, itemStatus, objects, rowLock, taskLog, resultOffset, staged>>
         /\ \E S \in SUBSET Items : sink' = sink \cup S
         /\ DOMAIN resultLog \subseteq DOMAIN resultLog'
         /\ \A k \in DOMAIN resultLog : resultLog'[k] = resultLog[k]
<1> USE DEF storeVars, dbVars
<1>t. resultLog \in Seq(ResultMsg)
  BY DEF WTypeInv, WorkerTypeOK, StoreTypeOK
<1>1. CASE WFetch \/ WDeadLetter \/ WBatchReady \/ WStart \/ WAckDeadLetter \/ WAck
  <2>1. UNCHANGED <<status, itemStatus, objects, rowLock, taskLog, resultOffset, staged,
                    resultLog, sink>>
    BY <1>1 DEF WFetch, WDeadLetter, WBatchReady, WStart, WAckDeadLetter, WAck
  <2>2. sink' = sink \cup {}
    BY <2>1
  <2>3. QED BY <2>1, <2>2
<1>2. CASE WProduce
  <2>1. PICK m : /\ resultLog' = Append(resultLog, m)
                 /\ UNCHANGED <<status, itemStatus, objects, rowLock, taskLog, resultOffset,
                                staged, sink>>
    BY <1>2 DEF WProduce
  <2>2. DOMAIN resultLog \subseteq DOMAIN resultLog'
        /\ \A k \in DOMAIN resultLog : resultLog'[k] = resultLog[k]
    BY <1>t, <2>1
  <2>3. sink' = sink \cup {}
    BY <2>1
  <2>4. QED BY <2>1, <2>2, <2>3
<1>3. ASSUME NEW i \in Items, WAcquireSlot(i) \/ WResolve(i) \/ WResolveFails(i)
      PROVE  /\ UNCHANGED <<status, itemStatus, objects, rowLock, taskLog, resultOffset, staged>>
             /\ UNCHANGED <<resultLog, sink>>
  BY <1>3 DEF WAcquireSlot, WResolve, WResolveFails
<1>4. ASSUME NEW i \in Items, WUpload(i) \/ WUploadFails(i)
      PROVE  /\ UNCHANGED <<status, itemStatus, objects, rowLock, taskLog, resultOffset, staged>>
             /\ UNCHANGED resultLog
             /\ sink' = sink \/ sink' = sink \cup {i}
  BY <1>4 DEF WUpload, WUploadFails
<1>5. CASE WCrash
  BY <1>5 DEF WCrash, InState
<1>6. CASE \E i \in Items : WAcquireSlot(i) \/ WResolve(i) \/ WResolveFails(i)
  <2>1. sink' = sink \cup {}
    BY <1>3, <1>6
  <2>2. QED BY <1>3, <1>6, <2>1
<1>7. CASE \E i \in Items : WUpload(i) \/ WUploadFails(i)
  <2>1. PICK i \in Items : WUpload(i) \/ WUploadFails(i)
    BY <1>7
  <2>2. sink' = sink \cup {} \/ sink' = sink \cup {i}
    BY <1>4, <2>1
  <2>3. QED BY <1>4, <2>1, <2>2
<1>8. QED BY <1>1, <1>2, <1>5, <1>6, <1>7 DEF WStep

\* A step of the worker, or its exit, keeps the invariant.
LEMMA WorkerKeepsInv ==
  ASSUME SystemInv, WStep \/ WCrash, UNCHANGED <<uploadVars, consumerVars>>
  PROVE  SystemInv'
<1>t. UploadTypeOK /\ WTypeInv /\ CShape /\ ResultInv /\ OInv /\ OffsetInv /\ ItemsBacked
  BY DEF SystemInv, SystemTypes
<1>1. ResultInv' /\ WTypeInv' /\ StoreTypeOK'
  BY <1>t, WorkerKeepsResults DEF ResultInv, WTypeInv, WorkerTypeOK
<1>2. UploadTypeOK'
  BY <1>1, <1>t DEF UploadTypeOK, UTypeOK, uploadVars
<1>3. /\ UNCHANGED <<status, itemStatus, objects, rowLock, taskLog, resultOffset, staged>>
      /\ sink \subseteq sink'
      /\ DOMAIN resultLog \subseteq DOMAIN resultLog'
      /\ \A k \in DOMAIN resultLog : resultLog'[k] = resultLog[k]
  BY <1>t, WorkerLeavesRows
<1>4. CShape'
  <2>1. RowTypes'
    <3>1. resultLog' \in Seq(ResultMsg)
      BY <1>1 DEF StoreTypeOK
    <3>2. resultLog' \in Seq(ConsumerMsg)
      <4>1. ResultMsg \subseteq ConsumerMsg
        BY DEF ResultMsg, ConsumerMsg
      <4>2. QED BY <3>1, <4>1, SeqMonotonic
    <3>3. QED BY <1>t, <1>3, <3>2 DEF RowTypes, CShape
  <2>2. QED BY <1>t, <1>3, <2>1, ConsumersUntouched, QuietKeepsShape DEF CShape, SessionTypes
<1>5. OffsetInv'
  BY <1>t, <1>3, ConsumersUntouched, QuietKeepsOffsets
<1>6. OInv'
  <2>1. ObjectInv'
    BY <1>t, <1>3, ConsumersUntouched, QuietKeepsObjects DEF OInv
  <2>2. QED BY <1>t, <1>3, <1>4, <2>1, ConsumersUntouched DEF OInv
<1>7. ItemsBacked'
  BY <1>t, <1>3, ConsumersUntouched DEF ItemsBacked, Shown
<1>8. QED BY <1>1, <1>2, <1>4, <1>5, <1>6, <1>7 DEF SystemInv, SystemTypes
(***************************************************************************)
(* The consumers.                                                           *)
(***************************************************************************)

\* A consumer leaves topics, staging and sink alone; the rows change only when
\* a session commits.
LEMMA ConsumerLeavesStore ==
  ASSUME (\E c \in Consumers : CStep(c)) \/ CFault
  PROVE  /\ UNCHANGED <<taskLog, taskOffset, resultLog, sink, staged>>
         /\ (\E c \in Consumers : CCommit(c)) \/ UNCHANGED <<status, itemStatus, objects>>
<1> USE DEF storeVars, topicVars, dbVars, rowVars
<1>1. ASSUME NEW c \in Consumers, Unwind(c)
      PROVE  UNCHANGED <<taskLog, taskOffset, resultLog, sink, staged, status, itemStatus, objects>>
  BY <1>1 DEF Unwind
<1>2. ASSUME NEW c \in Consumers, CStep(c), ~CCommit(c)
      PROVE  UNCHANGED <<taskLog, taskOffset, resultLog, sink, staged, status, itemStatus, objects>>
  BY <1>1, <1>2 DEF CStep, CPoll, CLease, CSkip, CApply, CAck, CRelease, CReturn, CConflict,
     CDeadlock, CAckRejected
<1>3. ASSUME NEW c \in Consumers, CCommit(c)
      PROVE  UNCHANGED <<taskLog, taskOffset, resultLog, sink, staged>>
  BY <1>3 DEF CCommit
<1>4. CASE CFault
  BY <1>1, <1>4 DEF CFault, CError, CCrash, Rebalance, LeaseExpires
<1>5. QED BY <1>2, <1>3, <1>4

\* The offset that a consumer commits is one of the topic.
LEMMA OffsetInTopic ==
  ASSUME CShape, resultOffset \in 0 .. Len(resultLog),
         (\E c \in Consumers : CStep(c)) \/ CFault
  PROVE  resultOffset' \in 0 .. Len(resultLog)
<1>t. Len(resultLog) \in Nat /\ DOMAIN resultLog = 1 .. Len(resultLog)
  BY DEF CShape, RowTypes
<1>1. ASSUME NEW c \in Consumers, CAck(c) PROVE resultOffset' \in 0 .. Len(resultLog)
  <2>1. cbatch[c] # <<>> /\ resultOffset' = Head(cbatch[c])
    BY <1>1 DEF CAck, CShape, BatchShape
  <2>2. Head(cbatch[c]) \in DOMAIN resultLog
    BY <2>1, RecordAtHand
  <2>3. QED BY <1>t, <2>1, <2>2
<1>2. ASSUME NEW c \in Consumers, CStep(c), ~CAck(c) PROVE resultOffset' = resultOffset
  BY <1>2 DEF CStep, CPoll, CLease, CSkip, CApply, CRelease, CReturn, CCommit, CConflict,
     CDeadlock, CAckRejected, Unwind, storeVars
<1>3. CASE CFault
  BY <1>3 DEF CFault, CError, CCrash, Rebalance, LeaseExpires, Unwind, storeVars
<1>4. QED BY <1>1, <1>2, <1>3

\* A session marks items uploaded only as a result says, and a result says so
\* only of items whose bytes have arrived.
LEMMA ConsumerKeepsBacked ==
  ASSUME CShape, ResultsComplete, ItemsBacked, (\E c \in Consumers : CStep(c)) \/ CFault
  PROVE  ItemsBacked'
<1> USE DEF ItemsBacked, Shown
<1>t. SessionTypes /\ sink' = sink
  BY ConsumerLeavesStore DEF CShape
<1>1. ASSUME NEW c \in Consumers, EndSession(c)
      PROVE  \A d \in Consumers : {i \in Items : wItem'[d][i] = "uploaded"} \subseteq sink
  <2>1. \A i \in Items : NoItem[i] # "uploaded"
    BY DEF NoItem, Keep
  <2>2. QED BY <1>t, <1>1, <2>1 DEF EndSession, SessionTypes
<1>2. ASSUME NEW c \in Consumers, CApply(c) PROVE ItemsBacked'
  <2>1. cbatch[c] # <<>> /\ wItem' = [wItem EXCEPT ![c] = ItemWrites(c)]
        /\ itemStatus' = itemStatus
    BY <1>2 DEF CApply, CShape, BatchShape, rowVars
  <2>2. Head(cbatch[c]) \in DOMAIN resultLog
    BY <2>1, RecordAtHand
  <2>3. Record(c).uploaded \subseteq sink
    BY <2>2 DEF ResultsComplete, Record
  <2>4. ASSUME NEW i \in Items, ItemWrites(c)[i] = "uploaded" PROVE i \in sink
    <3>1. i \in Record(c).uploaded \/ wItem[c][i] = "uploaded"
      BY <2>4 DEF ItemWrites
    <3>2. QED BY <2>3, <3>1
  <2>5. \A d \in Consumers : wItem'[d] = IF d = c THEN ItemWrites(c) ELSE wItem[d]
    BY <1>t, <2>1 DEF SessionTypes
  <2>6. QED BY <1>t, <2>1, <2>4, <2>5
<1>3. ASSUME NEW c \in Consumers, CCommit(c) PROVE ItemsBacked'
  <2>1. /\ EndSession(c)
        /\ itemStatus' = [i \in Items |->
                            IF wItem[c][i] = Keep THEN itemStatus[i] ELSE wItem[c][i]]
    BY <1>3 DEF CCommit
  <2>2. QED BY <1>t, <1>1, <2>1
<1>4. ASSUME NEW c \in Consumers, CConflict(c) \/ CDeadlock(c) \/ CAckRejected(c)
                                  \/ CError(c) \/ CCrash(c)
      PROVE  ItemsBacked'
  <2>1. EndSession(c) /\ itemStatus' = itemStatus
    BY <1>4 DEF CConflict, CDeadlock, CAckRejected, CError, CCrash, Unwind, rowVars
  <2>2. QED BY <1>t, <1>1, <2>1
<1>5. ASSUME NEW c \in Consumers,
             CPoll(c) \/ CLease(c) \/ CSkip(c) \/ CAck(c) \/ CRelease(c) \/ CReturn(c)
             \/ Rebalance(c)
      PROVE  ItemsBacked'
  <2>1. UNCHANGED <<itemStatus, wItem>>
    BY <1>5 DEF CPoll, CLease, CSkip, CAck, CRelease, CReturn, Rebalance, sessionVars,
       storeVars, dbVars
  <2>2. QED BY <1>t, <2>1
<1>6. ASSUME NEW t \in Tasks, LeaseExpires(t) PROVE ItemsBacked'
  <2>1. UNCHANGED <<itemStatus, wItem>>
    BY <1>6 DEF LeaseExpires, sessionVars, storeVars
  <2>2. QED BY <1>t, <2>1
<1>7. QED BY <1>2, <1>3, <1>4, <1>5, <1>6 DEF CStep, CFault

\* A step of a consumer, or a fault of one, keeps the invariant.
LEMMA ConsumerKeepsInv ==
  ASSUME SystemInv, (\E c \in Consumers : CStep(c)) \/ CFault,
         UNCHANGED <<uploadVars, workerVars>>
  PROVE  SystemInv'
<1>t. UploadTypeOK /\ WTypeInv /\ CShape /\ ResultInv /\ OInv /\ OffsetInv /\ ItemsBacked
      /\ StoreTypeOK /\ ResultsComplete
  BY DEF SystemInv, SystemTypes, UploadTypeOK, ResultInv
<1>1. CShape'
  BY <1>t, CallKeepsShape, FaultKeepsShape
<1>2. UNCHANGED <<taskLog, taskOffset, resultLog, sink, staged>>
  BY ConsumerLeavesStore
<1>3. StoreTypeOK'
  <2>1. resultOffset' \in 0 .. Len(resultLog')
    BY <1>t, <1>2, OffsetInTopic DEF StoreTypeOK
  <2>2. QED BY <1>t, <1>1, <1>2, <2>1 DEF StoreTypeOK, CShape, RowTypes, SessionTypes
<1>4. UploadTypeOK'
  BY <1>t, <1>3 DEF UploadTypeOK, UTypeOK, uploadVars
<1>5. WTypeInv'
  BY <1>t, <1>2, <1>3 DEF WTypeInv, WorkerTypeOK, WTypeOK, WShape, workerVars
<1>6. ResultInv'
  <2>1. CausesInRange' /\ ResultsComplete'
    BY <1>t, <1>2, AccountsKept DEF ResultInv
  <2>2. MarkedInSink'
    BY <1>t, <1>2 DEF ResultInv, MarkedInSink, InState, workerVars
  <2>3. QED BY <1>5, <2>1, <2>2 DEF ResultInv
<1>7. OffsetInv'
  BY <1>t, CallKeepsOffsets, FaultKeepsOffsets DEF AInv
<1>8. OInv'
  BY <1>t, <1>1, CallKeepsObjects, FaultKeepsObjects, AppliedInTopic DEF OInv
<1>9. ItemsBacked'
  BY <1>t, ConsumerKeepsBacked
<1>10. QED BY <1>1, <1>4, <1>5, <1>6, <1>7, <1>8, <1>9 DEF SystemInv, SystemTypes

(***************************************************************************)
(* The system.                                                              *)
(***************************************************************************)

\* A step of the system is one of a component, or nothing.
LEMMA WhoMoves ==
  ASSUME [SystemNext]_systemVars
  PROVE  \/ ApiStep /\ UNCHANGED <<workerVars, consumerVars>>
         \/ (WStep \/ WCrash) /\ UNCHANGED <<uploadVars, consumerVars>>
         \/ ((\E c \in Consumers : CStep(c)) \/ CFault) /\ UNCHANGED <<uploadVars, workerVars>>
         \/ UNCHANGED systemVars
BY DEF SystemNext, ApiAct, ApiFault, WorkerAct, WorkerFault, ConsumerAct, ConsumerFault, ApiStep

\* Nothing changes when nothing happens.
LEMMA StutterKeepsInv ==
  ASSUME SystemInv, UNCHANGED systemVars
  PROVE  SystemInv'
<1>t. UploadTypeOK /\ WTypeInv /\ CShape /\ ResultInv /\ OInv /\ OffsetInv /\ ItemsBacked
  BY DEF SystemInv, SystemTypes
<1>0. UNCHANGED <<storeVars, uploadVars, workerVars, consumerVars>>
  BY DEF systemVars
<1>1. /\ UNCHANGED <<status, itemStatus, objects, rowLock, taskLog, taskOffset, resultLog>>
      /\ UNCHANGED <<resultOffset, sink, staged>>
  BY <1>0 DEF storeVars
<1>2. UploadTypeOK'
  BY <1>t, <1>0, <1>1 DEF UploadTypeOK, StoreTypeOK, UTypeOK, uploadVars
<1>3. WTypeInv'
  BY <1>t, <1>0, StutterKeepsTypes DEF workerSpecVars
<1>4. CShape'
  BY <1>t, <1>0, StutterKeepsShape DEF consumerSpecVars
<1>5. ResultInv'
  <2>1. CausesInRange' /\ ResultsComplete'
    BY <1>t, <1>1, AccountsKept DEF ResultInv
  <2>2. MarkedInSink'
    BY <1>t, <1>0, <1>1 DEF ResultInv, MarkedInSink, InState, workerVars
  <2>3. QED BY <1>3, <2>1, <2>2 DEF ResultInv
<1>6. OffsetInv'
  BY <1>t, <1>0, <1>1, ConsumersUntouched, QuietKeepsOffsets
<1>7. ObjectInv'
  BY <1>t, <1>0, <1>1, ConsumersUntouched, QuietKeepsObjects DEF OInv
<1>8. OInv'
  BY <1>t, <1>0, <1>1, <1>4, <1>7, ConsumersUntouched DEF OInv
<1>9. ItemsBacked'
  BY <1>t, <1>0, <1>1, ConsumersUntouched DEF ItemsBacked, Shown
<1>10. QED BY <1>2, <1>3, <1>4, <1>5, <1>6, <1>8, <1>9 DEF SystemInv, SystemTypes

\* Every step of the system keeps the invariant.
LEMMA SystemKeepsInv ==
  ASSUME SystemInv, [SystemNext]_systemVars
  PROVE  SystemInv'
BY WhoMoves, ApiKeepsInv, WorkerKeepsInv, ConsumerKeepsInv, StutterKeepsInv

\* The invariant holds throughout.
LEMMA SystemInvariant == SystemSafety => []SystemInv
<1>1. SystemInv /\ [SystemNext]_systemVars => SystemInv'
  BY SystemKeepsInv
<1>2. QED BY <1>1, SystemInitInv, PTL DEF SystemSafety

\* In the invariant, what is listed or about to be listed is in the sink.
LEMMA ListedArrived ==
  ASSUME SystemInv
  PROVE  objects \subseteq sink /\ \A c \in Consumers : wObj[c] \subseteq sink
<1>t. CShape /\ ObjectInv /\ applied \subseteq DOMAIN resultLog /\ ResultsComplete
  BY DEF SystemInv, OInv, ResultInv
<1>1. \A k \in DOMAIN resultLog : resultLog[k].uploaded \subseteq sink
  BY <1>t DEF ResultsComplete
<1>2. objects \subseteq sink
  BY <1>t, <1>1 DEF ObjectInv, ObjectsMatchResults
<1>3. \A c \in Consumers : pending[c] \subseteq DOMAIN resultLog
  BY <1>t DEF CShape, SessionShape
<1>4. QED BY <1>1, <1>2, <1>3, <1>t DEF ObjectInv

\* The rows never run ahead of the bytes: an item that reads "uploaded", or
\* that a workspace lists, is in the sink, whatever requests, redeliveries,
\* crashes, rebalances and rollbacks happen on the way.
THEOREM RowsAreBacked == SystemSafety => []RowsBackedByBytes
<1>1. SystemInv => RowsBackedByBytes
  BY ListedArrived DEF SystemInv, ItemsBacked, RowsBackedByBytes
<1>2. QED BY <1>1, SystemInvariant, PTL

\* The delivery path implements the ledger: the upload of an item is its
\* Deliver, the commit of a consumer's session is its Settle, and every other
\* step of endpoints, worker, consumers and faults stutters.
THEOREM SystemIsLedger == SystemSafety => ImplementsLedger
<1>1. SystemInit => Ledger!LInit
  <2> SUFFICES ASSUME SystemInit PROVE sink = {} /\ objects = {} /\ Shown = {}
    BY DEF Ledger!LInit
  <2>1. QED BY DEF SystemInit, StoreInit, Shown
<1>2. SystemInv /\ SystemInv' /\ [SystemNext]_systemVars
        => [Ledger!Deliver \/ Ledger!Settle]_Ledger!ledgerVars
  <2> SUFFICES ASSUME SystemInv, SystemInv', [SystemNext]_systemVars
               PROVE  Ledger!Deliver \/ Ledger!Settle \/ UNCHANGED <<sink, objects, Shown>>
    BY DEF Ledger!ledgerVars
  <2>t. UploadTypeOK /\ WTypeInv
    BY DEF SystemInv, SystemTypes
  <2>1. CASE ApiStep
    <3>1. UNCHANGED <<sink, objects>> /\ \A i \in Items :
            (itemStatus'[i] = "uploaded") <=> (itemStatus[i] = "uploaded")
      BY <2>t, <2>1, ApiLeavesOutcome
    <3>2. QED BY <3>1 DEF Shown
  <2>2. CASE WStep \/ WCrash
    <3>1. UNCHANGED <<itemStatus, objects>> /\ \E S \in SUBSET Items : sink' = sink \cup S
      BY <2>t, <2>2, WorkerLeavesRows
    <3>2. Shown' = Shown
      BY <3>1 DEF Shown
    <3>3. QED BY <3>1, <3>2 DEF Ledger!Deliver
  <2>3. CASE (\E c \in Consumers : CStep(c)) \/ CFault
    <3>1. sink' = sink
      BY <2>3, ConsumerLeavesStore
    <3>2. CASE UNCHANGED <<status, itemStatus, objects>>
      BY <3>1, <3>2 DEF Shown
    <3>3. ASSUME NEW c \in Consumers, CCommit(c) PROVE Ledger!Settle
      <4>1. objects' = objects \cup wObj[c] /\ wObj[c] \in SUBSET sink
        BY <3>3, ListedArrived DEF CCommit
      <4>2. Shown' \in SUBSET sink
        BY <3>1 DEF SystemInv, ItemsBacked
      <4>3. Shown' \cap Mapped \subseteq objects'
        BY DEF SystemInv, OInv, ObjectInv, ObjectsMatchResults, Shown
      <4>4. QED BY <3>1, <4>1, <4>2, <4>3 DEF Ledger!Settle
    <3>4. QED BY <2>3, <3>2, <3>3, ConsumerLeavesStore
  <2>4. CASE UNCHANGED systemVars
    BY <2>4 DEF systemVars, storeVars, Shown
  <2>5. QED BY <2>1, <2>2, <2>3, <2>4, WhoMoves
<1>3. QED
  BY <1>1, <1>2, SystemInvariant, PTL DEF SystemSafety, ImplementsLedger, Ledger!LedgerSpec

\* What was proved of the consumer alone holds with endpoints and worker at
\* work: acked results are accounted for, the objects are those of applied
\* results; and the worker's results are complete whatever the others do.
THEOREM PartsHoldTogether ==
  SystemSafety => [](AckedResultsAccounted /\ ObjectsMatchResults /\ ResultsComplete)
<1>1. SystemInv => AckedResultsAccounted /\ ObjectsMatchResults /\ ResultsComplete
  BY DEF SystemInv, OffsetInv, Accounted, AckedResultsAccounted, Held, OInv, ObjectInv, ResultInv
<1>2. QED BY <1>1, SystemInvariant, PTL

(***************************************************************************)
(* What the endpoints alone keep, with the consumers at work: a session     *)
(* writes a row only because one of its results says so.                    *)
(***************************************************************************)
WritesOf(c) ==
  /\ \A t \in Tasks : wStatus[c][t] # Keep =>
       \E j \in pending[c] : resultLog[j].task = t /\ resultLog[j].status = wStatus[c][t]
  /\ \A i \in Items : wItem[c][i] # Keep =>
       /\ wItem[c][i] \in {"uploaded", "failed"}
       /\ \E j \in pending[c] : i \in resultLog[j].uploaded \cup resultLog[j].failed

WritesAreResults == \A c \in Consumers : WritesOf(c)

\* A session that is left alone, or has ended, keeps it.
LEMMA QuietKeepsWrites ==
  ASSUME CShape, NEW c \in Consumers, WritesOf(c), UNCHANGED <<wStatus[c], wItem[c], pending[c]>>,
         \A k \in DOMAIN resultLog : resultLog'[k] = resultLog[k]
  PROVE  WritesOf(c)'
<1>1. pending[c] \subseteq DOMAIN resultLog
  BY DEF CShape, SessionShape
<1>2. QED BY <1>1 DEF WritesOf

LEMMA EndKeepsWrites ==
  ASSUME CShape, WritesAreResults, NEW c \in Consumers, EndSession(c), UNCHANGED resultLog
  PROVE  WritesAreResults'
<1> SUFFICES ASSUME NEW d \in Consumers PROVE WritesOf(d)'
  BY DEF WritesAreResults
<1>1. CASE d = c
  <2>1. wStatus'[d] = NoStatus /\ wItem'[d] = NoItem
    BY <1>1 DEF EndSession, CShape, SessionTypes
  <2>2. \A t \in Tasks : wStatus'[d][t] = Keep
    BY <2>1 DEF NoStatus
  <2>3. \A i \in Items : wItem'[d][i] = Keep
    BY <2>1 DEF NoItem
  <2>4. QED BY <2>2, <2>3 DEF WritesOf
<1>2. CASE d # c
  <2>1. UNCHANGED <<wStatus[d], wItem[d], pending[d]>>
    BY <1>2 DEF EndSession, CShape, SessionTypes
  <2>2. QED BY <2>1, QuietKeepsWrites DEF WritesAreResults
<1>3. QED BY <1>1, <1>2

\* Applying a result adds its writes, and the result to what is pending.
LEMMA ApplyKeepsWrites ==
  ASSUME CShape, WritesAreResults, NEW c \in Consumers, CApply(c)
  PROVE  WritesAreResults'
<1> SUFFICES ASSUME NEW d \in Consumers PROVE WritesOf(d)'
  BY DEF WritesAreResults
<1>0. PICK h, m : h = Head(cbatch[c]) /\ m = Record(c)
  OBVIOUS
<1>1. /\ cbatch[c] # <<>> /\ resultLog' = resultLog
      /\ wItem' = [wItem EXCEPT ![c] = ItemWrites(c)]
      /\ wStatus' = IF SeenStatus(c, m.task) # m.status
                      THEN [wStatus EXCEPT ![c][m.task] = m.status] ELSE wStatus
      /\ pending' = [pending EXCEPT ![c] = @ \cup {h}]
  BY <1>0 DEF CApply, CShape, BatchShape, topicVars
<1>2. m \in ConsumerMsg /\ m = resultLog[h]
  BY <1>0, <1>1, RecordAtHand DEF Record
<1>3. CASE d # c
  <2>1. UNCHANGED <<wStatus[d], wItem[d], pending[d]>>
    BY <1>1, <1>3 DEF CShape, SessionTypes
  <2>2. QED BY <1>1, <2>1, QuietKeepsWrites DEF WritesAreResults
<1>4. CASE d = c
  <2>1. /\ wItem'[c] = ItemWrites(c) /\ pending'[c] = pending[c] \cup {h}
        /\ \A t \in Tasks : wStatus'[c][t] = wStatus[c][t]
                            \/ (t = m.task /\ wStatus'[c][t] = m.status)
    BY <1>1 DEF CShape, SessionTypes
  <2>2. \A i \in Items : ItemWrites(c)[i] # Keep =>
          \/ wItem[c][i] # Keep /\ ItemWrites(c)[i] = wItem[c][i]
          \/ i \in m.uploaded \cup m.failed /\ ItemWrites(c)[i] \in {"uploaded", "failed"}
    BY <1>0 DEF ItemWrites
  <2>3. WritesOf(c)
    BY DEF WritesAreResults
  <2>4. ASSUME NEW t \in Tasks, wStatus'[c][t] # Keep
        PROVE  \E j \in pending'[c] : resultLog'[j].task = t /\ resultLog'[j].status = wStatus'[c][t]
    BY <1>1, <1>2, <2>1, <2>3, <2>4 DEF WritesOf
  <2>5. ASSUME NEW i \in Items, wItem'[c][i] # Keep
        PROVE  /\ wItem'[c][i] \in {"uploaded", "failed"}
               /\ \E j \in pending'[c] : i \in resultLog'[j].uploaded \cup resultLog'[j].failed
    BY <1>1, <1>2, <2>1, <2>2, <2>3, <2>5 DEF WritesOf
  <2>6. QED BY <1>4, <2>4, <2>5 DEF WritesOf
<1>5. QED BY <1>3, <1>4

\* A step of the consumers keeps it.
LEMMA ConsumerKeepsWrites ==
  ASSUME CShape, WritesAreResults, (\E c \in Consumers : CStep(c)) \/ CFault
  PROVE  WritesAreResults'
<1>1. ASSUME NEW c \in Consumers, CCommit(c) \/ CConflict(c) \/ CDeadlock(c) \/ CAckRejected(c)
                                  \/ CError(c) \/ CCrash(c)
      PROVE  WritesAreResults'
  <2>1. EndSession(c) /\ resultLog' = resultLog
    BY <1>1 DEF CCommit, CConflict, CDeadlock, CAckRejected, CError, CCrash, Unwind, topicVars
  <2>2. QED BY <2>1, EndKeepsWrites
<1>2. CASE \/ \E c \in Consumers : \/ CPoll(c) \/ CLease(c) \/ CSkip(c) \/ CAck(c) \/ CRelease(c)
                                   \/ CReturn(c) \/ Rebalance(c)
           \/ \E t \in Tasks : LeaseExpires(t)
  <2>1. UNCHANGED <<wStatus, wItem, pending, resultLog>>
    BY <1>2 DEF CPoll, CLease, CSkip, CAck, CRelease, CReturn, Rebalance, LeaseExpires, sessionVars,
       storeVars, topicVars
  <2>2. QED BY <2>1, QuietKeepsWrites DEF WritesAreResults
<1>3. QED BY <1>1, <1>2, ApplyKeepsWrites DEF CStep, CFault

\* Every step of the system keeps it.
LEMMA SystemKeepsWrites ==
  ASSUME SystemInv, WritesAreResults, [SystemNext]_systemVars
  PROVE  WritesAreResults'
<1>1. CShape /\ UploadTypeOK /\ WTypeInv
  BY DEF SystemInv, SystemTypes
<1>2. CASE ApiStep /\ UNCHANGED <<workerVars, consumerVars>>
  <2>1. resultLog' = resultLog /\ UNCHANGED <<wStatus, wItem, pending>>
    BY <1>1, <1>2, ApiLeavesOutcome, ConsumersUntouched
  <2>2. QED BY <1>1, <2>1, QuietKeepsWrites DEF WritesAreResults
<1>3. CASE (WStep \/ WCrash) /\ UNCHANGED <<uploadVars, consumerVars>>
  <2>1. /\ \A k \in DOMAIN resultLog : resultLog'[k] = resultLog[k]
        /\ UNCHANGED <<wStatus, wItem, pending>>
    BY <1>1, <1>3, WorkerLeavesRows, ConsumersUntouched
  <2>2. QED BY <1>1, <2>1, QuietKeepsWrites DEF WritesAreResults
<1>4. CASE UNCHANGED systemVars
  <2>1. resultLog' = resultLog /\ UNCHANGED <<wStatus, wItem, pending>>
    BY <1>4, ConsumersUntouched DEF systemVars, storeVars
  <2>2. QED BY <1>1, <2>1, QuietKeepsWrites DEF WritesAreResults
<1>5. QED BY <1>1, <1>2, <1>3, <1>4, ConsumerKeepsWrites, WhoMoves

LEMMA WritesInvariant == SystemSafety => []WritesAreResults
<1>1. SystemInit => WritesAreResults
  <2> SUFFICES ASSUME SystemInit, NEW c \in Consumers PROVE WritesOf(c)
    BY DEF WritesAreResults
  <2>1. wStatus[c] = NoStatus /\ wItem[c] = NoItem
    BY DEF SystemInit, CInit
  <2>2. (\A t \in Tasks : wStatus[c][t] = Keep) /\ (\A i \in Items : wItem[c][i] = Keep)
    BY <2>1 DEF NoStatus, NoItem
  <2>3. QED BY <2>2 DEF WritesOf
<1>2. SystemInv /\ WritesAreResults /\ [SystemNext]_systemVars => WritesAreResults'
  BY SystemKeepsWrites
<1>3. QED BY <1>1, <1>2, SystemInvariant, PTL DEF SystemSafety

\* A consumer changes the status of a task only to that of a result, and so
\* only for a task that has been published.
LEMMA StatusFromResult ==
  ASSUME SystemInv, WritesAreResults, (\E c \in Consumers : CStep(c)) \/ CFault,
         NEW t \in Tasks, status'[t] # status[t]
  PROVE  Published(t) /\ status'[t] \in {"uploaded", "partial_failed"}
<1>1. PICK c \in Consumers : CCommit(c)
  BY ConsumerLeavesStore
<1>2. status'[t] = wStatus[c][t] /\ wStatus[c][t] # Keep
  BY <1>1 DEF CCommit
<1>3. PICK j \in pending[c] : resultLog[j].task = t /\ resultLog[j].status = wStatus[c][t]
  BY <1>2 DEF WritesAreResults, WritesOf
<1>4. /\ j \in DOMAIN resultLog /\ resultLog \in Seq(ResultMsg)
      /\ CausesInRange /\ ResultsComplete
  <2>1. CShape /\ UploadTypeOK /\ CausesInRange /\ ResultsComplete
    BY DEF SystemInv, SystemTypes, ResultInv
  <2>2. j \in DOMAIN resultLog
    BY <2>1 DEF CShape, SessionShape
  <2>3. QED BY <2>1, <2>2 DEF UploadTypeOK, StoreTypeOK
<1>5. resultLog[j].status \in {"uploaded", "partial_failed"}
  <2>1. resultLog[j] \in ResultMsg
    BY <1>4
  <2>2. QED BY <2>1 DEF ResultMsg
<1>6. Published(t)
  BY <1>3, <1>4 DEF CausesInRange, ResultsComplete, Published
<1>7. QED BY <1>2, <1>3, <1>5, <1>6

\* What the endpoints rely on, with the others at work.
LEMMA SystemKeepsClean ==
  ASSUME SystemInv, WritesAreResults, CleanInv, [SystemNext]_systemVars
  PROVE  CleanInv'
<1>1. UploadTypeOK /\ WTypeInv /\ CInv
  BY DEF SystemInv, SystemTypes, CInv
<1>2. CASE ApiStep
  BY <1>1, <1>2, CallKeepsClean, StepKeepsClean, OthersKeepClean DEF ApiStep
<1>3. ASSUME UNCHANGED <<taskLog, uploadVars>>,
             \A t \in Tasks : status'[t] = status[t] \/ Clean(t)
      PROVE  CleanInv'
  BY <1>3 DEF CleanInv, OnlyCleanTasksPublished, uploadVars, Clean
<1>4. CASE (WStep \/ WCrash) /\ UNCHANGED uploadVars
  BY <1>1, <1>3, <1>4, WorkerLeavesRows
<1>5. CASE ((\E c \in Consumers : CStep(c)) \/ CFault) /\ UNCHANGED uploadVars
  <2>1. \A t \in Tasks : status'[t] = status[t] \/ Published(t)
    BY <1>5, StatusFromResult
  <2>2. \A t \in Tasks : Published(t) => Clean(t)
    BY DEF CleanInv, OnlyCleanTasksPublished, Published, Clean
  <2>3. taskLog' = taskLog
    BY <1>5, ConsumerLeavesStore
  <2>4. QED BY <1>3, <1>5, <2>1, <2>2, <2>3
<1>6. CASE UNCHANGED systemVars
  BY <1>3, <1>6 DEF systemVars, storeVars
<1>7. QED BY <1>2, <1>4, <1>5, <1>6, WhoMoves

LEMMA SystemKeepsQueued ==
  ASSUME SystemInv, WritesAreResults, QueuedInv, [SystemNext]_systemVars
  PROVE  QueuedInv'
<1>1. UploadTypeOK /\ WTypeInv /\ QInv
  BY DEF SystemInv, SystemTypes, QInv
<1>2. CASE ApiStep
  BY <1>1, <1>2, CallKeepsQueued, StepKeepsQueued, OthersKeepQueued DEF ApiStep
<1>3. ASSUME UNCHANGED <<taskLog, uploadVars>>,
             \A t \in Tasks : status'[t] = "queued" => status[t] = "queued"
      PROVE  QueuedInv'
  BY <1>3 DEF QueuedInv, Published, uploadVars
<1>4. CASE (WStep \/ WCrash) /\ UNCHANGED uploadVars
  BY <1>1, <1>3, <1>4, WorkerLeavesRows
<1>5. CASE ((\E c \in Consumers : CStep(c)) \/ CFault) /\ UNCHANGED uploadVars
  <2>1. \A t \in Tasks : status'[t] = status[t] \/ status'[t] # "queued"
    BY <1>5, StatusFromResult
  <2>2. taskLog' = taskLog
    BY <1>5, ConsumerLeavesStore
  <2>3. QED BY <1>3, <1>5, <2>1, <2>2
<1>6. CASE UNCHANGED systemVars
  BY <1>3, <1>6 DEF systemVars, storeVars
<1>7. QED BY <1>2, <1>4, <1>5, <1>6, WhoMoves

LEMMA PromisesKept == SystemSafety => [](CleanInv /\ QueuedInv)
<1>1. SystemInit => CleanInv /\ QueuedInv
  BY DEF SystemInit, UInit, StoreInit, CleanInv, QueuedInv, OnlyCleanTasksPublished
<1>2. SystemInv /\ WritesAreResults /\ CleanInv /\ QueuedInv /\ [SystemNext]_systemVars
        => CleanInv' /\ QueuedInv'
  BY SystemKeepsClean, SystemKeepsQueued
<1>3. QED BY <1>1, <1>2, SystemInvariant, WritesInvariant, PTL DEF SystemSafety

\* With the worker and the consumers at work, whose results arrive at any time
\* and are written over any status, nothing unclean is ever published, and a
\* task that reads "queued" has a message in the topic.
THEOREM PromisesHold == SystemSafety => [](OnlyCleanTasksPublished /\ QueuedMeansPublished)
<1>1. CleanInv /\ QueuedInv => OnlyCleanTasksPublished /\ QueuedMeansPublished
  BY DEF CleanInv, QueuedInv, QueuedMeansPublished, Published
<1>2. QED BY <1>1, PromisesKept, PTL

(***************************************************************************)
(* A worker that has not exited reads every message once, and answers it    *)
(* once.                                                                    *)
(***************************************************************************)
FreshBatch ==
  /\ \A n \in DOMAIN wbatch : wbatch[n] <= wpos
  /\ \A n \in DOMAIN wbatch : Answered(wbatch[n]) => n = 1 /\ wphase = "ack"
  /\ \A m, n \in DOMAIN wbatch : wbatch[m] = wbatch[n] => m = n

AnsweredOnce ==
  /\ \A j \in DOMAIN resultLog : resultLog[j].cause <= wpos
  /\ \A j, k \in DOMAIN resultLog : resultLog[j].cause = resultLog[k].cause => j = k

ReadOnce == FreshBatch /\ AnsweredOnce

\* Steps that leave batch and results alone.
LEMMA SameReading ==
  ASSUME ReadOnce, UNCHANGED <<wbatch, wpos, resultLog>>, wphase # "ack" \/ wphase' = "ack"
  PROVE  ReadOnce'
BY DEF ReadOnce, FreshBatch, AnsweredOnce, Answered

LEMMA WorkerReadsOnce ==
  ASSUME WTypeInv, ReadOnce, WStep
  PROVE  ReadOnce'
<1>t. /\ wbatch \in Seq(1 .. Len(taskLog)) /\ wbatch \in Seq(Nat) /\ wpos \in Nat
      /\ resultLog \in Seq(ResultMsg) /\ DOMAIN wbatch = 1 .. Len(wbatch) /\ Len(wbatch) \in Nat
      /\ DOMAIN resultLog = 1 .. Len(resultLog) /\ Len(resultLog) \in Nat
  <2>1. /\ wbatch \in Seq(1 .. Len(taskLog)) /\ wpos \in Nat /\ resultLog \in Seq(ResultMsg)
    BY DEF WTypeInv, WorkerTypeOK, WTypeOK, StoreTypeOK
  <2>2. 1 .. Len(taskLog) \subseteq Nat
    OBVIOUS
  <2>3. wbatch \in Seq(Nat)
    BY <2>1, <2>2, SeqMonotonic
  <2>4. QED BY <2>1, <2>3, LenProperties
<1>u. \A n \in DOMAIN wbatch : wbatch[n] \in Nat
  BY <1>t
<1>1. CASE WFetch
  <2>1. /\ wpos' = wpos + 1 /\ resultLog' = resultLog /\ wphase = "fetch"
        /\ wbatch' = wbatch \/ wbatch' = Append(wbatch, wpos + 1)
    BY <1>1 DEF WFetch, storeVars
  <2>2. AnsweredOnce'
    <3>0. \A j \in DOMAIN resultLog : resultLog[j] \in ResultMsg
      BY <1>t
    <3>1. \A j \in DOMAIN resultLog : resultLog[j].cause \in Nat
      BY <3>0 DEF ResultMsg
    <3>2. QED BY <1>t, <2>1, <3>1 DEF ReadOnce, AnsweredOnce
  <2>3. ~Answered(wpos + 1)
    BY <1>t DEF ReadOnce, AnsweredOnce, Answered
  <2>4. \A k : Answered(k)' <=> Answered(k)
    BY <2>1 DEF Answered
  <2>5. \A n \in DOMAIN wbatch : wbatch[n] <= wpos /\ ~Answered(wbatch[n])
    BY <2>1 DEF ReadOnce, FreshBatch
  <2>6. ASSUME wbatch' = wbatch PROVE FreshBatch'
    <3>1. \A n \in DOMAIN wbatch' : wbatch'[n] <= wpos + 1 /\ ~Answered(wbatch'[n])
      BY <1>t, <1>u, <2>5, <2>6
    <3>2. \A m, n \in DOMAIN wbatch' : wbatch'[m] = wbatch'[n] => m = n
      BY <2>6 DEF ReadOnce, FreshBatch
    <3>3. QED BY <2>1, <2>4, <3>1, <3>2 DEF FreshBatch
  <2>7. ASSUME wbatch' = Append(wbatch, wpos + 1) PROVE FreshBatch'
    <3>1. /\ \A n \in DOMAIN wbatch' : n = Len(wbatch) + 1 \/ (n \in DOMAIN wbatch /\ wbatch'[n] = wbatch[n])
          /\ wbatch'[Len(wbatch) + 1] = wpos + 1
      BY <1>t, <2>7, AppendProperties
    <3>2. \A n \in DOMAIN wbatch' : wbatch'[n] <= wpos + 1 /\ ~Answered(wbatch'[n])
      BY <1>t, <1>u, <2>3, <2>5, <3>1
    <3>3. \A m, n \in DOMAIN wbatch' : wbatch'[m] = wbatch'[n] => m = n
      BY <1>t, <1>u, <2>5, <3>1 DEF ReadOnce, FreshBatch
    <3>4. QED BY <2>1, <2>4, <3>2, <3>3 DEF FreshBatch
  <2>8. QED BY <2>1, <2>2, <2>6, <2>7 DEF ReadOnce
<1>2. CASE WProduce
  <2>1. wbatch # <<>> /\ wphase = "process"
    BY <1>2 DEF WProduce, WTypeInv, WShape
  <2>2. PICK m : /\ m.cause = Head(wbatch) /\ resultLog' = Append(resultLog, m)
                 /\ wphase' = "ack" /\ UNCHANGED <<wbatch, wpos>>
    BY <1>2 DEF WProduce
  <2>3. /\ \A j \in DOMAIN resultLog' : j = Len(resultLog) + 1
                                        \/ (j \in DOMAIN resultLog /\ resultLog'[j] = resultLog[j])
        /\ resultLog'[Len(resultLog) + 1] = m
    <3>1. resultLog \in Seq(ResultMsg \cup {m}) /\ m \in ResultMsg \cup {m}
      BY <1>t, SeqMonotonic
    <3>2. QED BY <1>t, <2>2, <3>1, AppendProperties
  <2>4. Head(wbatch) = wbatch[1] /\ 1 \in DOMAIN wbatch
    BY <1>t, <2>1
  <2>5. ~Answered(wbatch[1])
    BY <2>1, <2>4 DEF ReadOnce, FreshBatch
  <2>6. AnsweredOnce'
    BY <2>2, <2>3, <2>4, <2>5 DEF ReadOnce, FreshBatch, AnsweredOnce, Answered
  <2>7. \A k : Answered(k)' => Answered(k) \/ k = wbatch[1]
    BY <2>2, <2>3, <2>4 DEF Answered
  <2>8. FreshBatch'
    BY <2>1, <2>2, <2>4, <2>7 DEF ReadOnce, FreshBatch
  <2>9. QED BY <2>6, <2>8 DEF ReadOnce
<1>3. CASE WAck
  <2>1. /\ wbatch # <<>> /\ wbatch' = Tail(wbatch) /\ UNCHANGED <<wpos, resultLog>>
    BY <1>3 DEF WAck, WTypeInv, WShape
  <2>2. \A n \in DOMAIN wbatch' : n \in Nat /\ n + 1 \in DOMAIN wbatch /\ wbatch'[n] = wbatch[n + 1] /\ n + 1 # 1
    <3>1. /\ Tail(wbatch) \in Seq(Nat) /\ Len(Tail(wbatch)) = Len(wbatch) - 1
          /\ \A n \in 1 .. Len(Tail(wbatch)) : Tail(wbatch)[n] = wbatch[n + 1]
      BY <1>t, <2>1, HeadTailProperties
    <3>2. DOMAIN wbatch' = 1 .. Len(wbatch) - 1
      BY <2>1, <3>1, LenProperties
    <3>3. QED BY <1>t, <2>1, <3>1, <3>2
  <2>3. \A n \in DOMAIN wbatch' : wbatch'[n] <= wpos /\ ~Answered(wbatch'[n])
    BY <2>2 DEF ReadOnce, FreshBatch
  <2>4. \A m, n \in DOMAIN wbatch' : wbatch'[m] = wbatch'[n] => m = n
    BY <2>2 DEF ReadOnce, FreshBatch
  <2>5. \A k : Answered(k)' <=> Answered(k)
    BY <2>1 DEF Answered
  <2>6. FreshBatch'
    BY <2>1, <2>3, <2>4, <2>5 DEF FreshBatch
  <2>7. QED BY <2>1, <2>6 DEF ReadOnce, AnsweredOnce
<1>4. CASE \/ WDeadLetter \/ WBatchReady \/ WStart \/ WAckDeadLetter
           \/ \E i \in Items : \/ WAcquireSlot(i) \/ WResolve(i) \/ WResolveFails(i)
                               \/ WUpload(i) \/ WUploadFails(i)
  <2>1. UNCHANGED <<wbatch, wpos, resultLog>> /\ wphase # "ack"
    BY <1>4 DEF WDeadLetter, WBatchReady, WStart, WAckDeadLetter, WAcquireSlot, WResolve,
       WResolveFails, WUpload, WUploadFails, storeVars
  <2>2. QED BY <2>1, SameReading
<1>5. QED BY <1>1, <1>2, <1>3, <1>4 DEF WStep

\* A worker that has not exited takes every task message into its batch once and
\* answers it once, whatever is published meanwhile.
THEOREM ReadsOnce == SystemSafety => [](wcrashes = 0 => ReadOnce)
<1>1. SystemInit => ReadOnce
  BY DEF SystemInit, StoreInit, WInit, ReadOnce, FreshBatch, AnsweredOnce
<1>2. SystemInv /\ (wcrashes = 0 => ReadOnce) /\ [SystemNext]_systemVars => (wcrashes = 0 => ReadOnce)'
  <2> SUFFICES ASSUME SystemInv, wcrashes = 0 => ReadOnce, [SystemNext]_systemVars, wcrashes' = 0
               PROVE  ReadOnce'
    OBVIOUS
  <2>1. CASE UNCHANGED <<workerVars, resultLog>>
    BY <2>1, SameReading DEF workerVars
  <2>2. CASE WStep
    <3>1. wcrashes = 0
      BY <2>2 DEF WStep, WFetch, WDeadLetter, WBatchReady, WStart, WProduce, WAck, WAckDeadLetter,
         WAcquireSlot, WResolve, WResolveFails, WUpload, WUploadFails
    <3>2. QED BY <2>2, <3>1, WorkerReadsOnce DEF SystemInv, SystemTypes
  <2>3. CASE WCrash
    BY <2>3 DEF WCrash, SystemInv, SystemTypes, WTypeInv, WorkerTypeOK, WTypeOK
  <2>4. ApiStep => resultLog' = resultLog
    BY ApiLeavesOutcome DEF SystemInv, SystemTypes
  <2>5. (\E c \in Consumers : CStep(c)) \/ CFault => resultLog' = resultLog
    BY ConsumerLeavesStore
  <2>6. UNCHANGED systemVars => UNCHANGED <<workerVars, resultLog>>
    BY DEF systemVars, storeVars
  <2>7. QED BY <2>1, <2>2, <2>3, <2>4, <2>5, <2>6, WhoMoves
<1>3. QED BY <1>1, <1>2, SystemInvariant, PTL DEF SystemSafety

(***************************************************************************)
(* Until the partition moves, one consumer reads it, from the committed     *)
(* offset on, and what its session has applied lies behind that offset.     *)
(***************************************************************************)
Reading(c) ==
  /\ c # owner => cphase[c] = "idle"
  /\ cbatch[c] # <<>> => IF cphase[c] = "release" THEN Head(cbatch[c]) = resultOffset
                                                  ELSE Head(cbatch[c]) > resultOffset
  /\ pending[c] \ Unacked(c) \subseteq 1 .. resultOffset

OneCaller == \A c \in Consumers : Reading(c)

\* A session that has ended reads nothing.
LEMMA EndedReads ==
  ASSUME NEW c \in Consumers, cphase[c] = "idle", cbatch[c] = <<>>, pending[c] = {}
  PROVE  Reading(c)
BY DEF Reading

\* A call that has begun is the owner's.
LEMMA CallerOwns ==
  ASSUME OneCaller, NEW c \in Consumers, CStep(c)
  PROVE  c = owner
<1>1. cphase[c] # "idle" \/ c = owner
  BY DEF CStep, CPoll, CLease, CSkip, CApply, CAck, CRelease, CReturn, CCommit, CConflict,
     CDeadlock, CAckRejected
<1>2. QED BY <1>1 DEF OneCaller, Reading

\* The end of a session.
LEMMA EndKeepsReading ==
  ASSUME CShape, OneCaller, NEW c \in Consumers, EndSession(c), UNCHANGED <<owner, resultOffset>>
  PROVE  OneCaller'
<1> SUFFICES ASSUME NEW d \in Consumers PROVE Reading(d)'
  BY DEF OneCaller
<1>1. CASE d = c
  <2>1. cphase'[d] = "idle" /\ cbatch'[d] = <<>> /\ pending'[d] = {}
    BY <1>1 DEF EndSession, CShape, SessionTypes
  <2>2. QED BY <2>1 DEF Reading
<1>2. CASE d # c
  <2>1. UNCHANGED <<cphase[d], cbatch[d], pending[d]>>
    BY <1>2 DEF EndSession, CShape, SessionTypes
  <2>2. QED BY <2>1 DEF OneCaller, Reading, Unacked
<1>3. QED BY <1>1, <1>2

\* A step of the owner's call: the others are idle, and stay so.
LEMMA OwnerMoves ==
  ASSUME CShape, CShape', OneCaller, NEW c \in Consumers, c = owner, owner' = owner,
         \A d \in Consumers : d # c => UNCHANGED <<cphase[d], pending[d]>>,
         Reading(c)'
  PROVE  OneCaller'
<1> SUFFICES ASSUME NEW d \in Consumers, d # c PROVE Reading(d)'
  BY DEF OneCaller
<1>1. cphase[d] = "idle"
  BY DEF OneCaller, Reading
<1>2. pending[d] = {} /\ cbatch'[d] = <<>>
  BY <1>1 DEF CShape, SessionShape, BatchShape
<1>3. QED BY <1>1, <1>2 DEF Reading

\* Every step of a call keeps it.
LEMMA CallKeepsReading ==
  ASSUME CShape, CShape', OneCaller, NEW c \in Consumers, CStep(c)
  PROVE  OneCaller'
<1>t. /\ SessionTypes /\ BatchShape(c) /\ SessionShape(c) /\ Reading(c)
      /\ cbatch[c] \in Seq(Nat) /\ resultOffset \in Nat /\ c = owner
  BY CallerOwns DEF CShape, SessionTypes, OneCaller
<1>f. owner' = owner
  BY DEF CStep, CPoll, CLease, CSkip, CApply, CAck, CRelease, CReturn, CCommit, CConflict,
     CDeadlock, CAckRejected, Unwind, groupVars
<1>1. CASE CPoll(c)
  <2>1. PICK n \in 1 .. MaxRecords : cbatch' = [cbatch EXCEPT ![c] = [k \in 1 .. n |-> resultOffset + k]]
    BY <1>1 DEF CPoll
  <2> DEFINE b == [k \in 1 .. n |-> resultOffset + k]
  <2>2. b # <<>> /\ Head(b) = resultOffset + 1
    BY <1>t
  <2>3. cbatch'[c] = b
    BY <1>t, <2>1 DEF SessionTypes
  <2> HIDE DEF b
  <2>4. /\ cphase[c] = "idle" /\ cphase' = [cphase EXCEPT ![c] = "first"]
        /\ UNCHANGED <<pending, resultOffset>>
    BY <1>1 DEF CPoll, sessionVars, storeVars
  <2>5. pending[c] = {} /\ cphase'[c] = "first"
    BY <1>t, <2>4 DEF SessionShape, SessionTypes
  <2>6. Reading(c)'
    BY <1>t, <1>f, <2>2, <2>3, <2>4, <2>5 DEF Reading
  <2>7. \A d \in Consumers : d # c => UNCHANGED <<cphase[d], pending[d]>>
    BY <1>t, <2>4 DEF SessionTypes
  <2>8. QED BY <1>t, <1>f, <2>6, <2>7, OwnerMoves
<1>2. CASE CLease(c) \/ CReturn(c)
  <2>1. /\ cphase[c] \in {"first", "lease"} /\ UNCHANGED <<cbatch, pending, resultOffset>>
        /\ \E q \in {"apply", "commit"} : cphase' = [cphase EXCEPT ![c] = q]
    BY <1>2 DEF CLease, CReturn, sessionVars, storeVars
  <2>2. cphase'[c] \in {"apply", "commit"}
        /\ \A d \in Consumers : d # c => UNCHANGED <<cphase[d], pending[d]>>
    BY <1>t, <2>1 DEF SessionTypes
  <2>3. Reading(c)'
    BY <1>t, <1>f, <2>1, <2>2 DEF Reading, Unacked
  <2>4. QED BY <1>t, <1>f, <2>2, <2>3, OwnerMoves
<1>3. CASE CSkip(c)
  <2>1. /\ cphase[c] \in {"first", "lease"} /\ UNCHANGED <<cphase, pending, resultOffset>>
        /\ cbatch[c] # <<>> /\ cbatch'[c] = Tail(cbatch[c])
    BY <1>3, <1>t DEF CSkip, SessionTypes, sessionVars, storeVars
  <2>2. /\ Tail(cbatch[c]) # <<>> => Head(Tail(cbatch[c])) = Head(cbatch[c]) + 1
        /\ Head(cbatch[c]) \in Nat
    BY <2>1, RecordAtHand
  <2>3. Reading(c)'
    BY <1>t, <1>f, <2>1, <2>2 DEF Reading, Unacked
  <2>4. \A d \in Consumers : d # c => UNCHANGED <<cphase[d], pending[d]>>
    BY <2>1
  <2>5. QED BY <1>t, <1>f, <2>3, <2>4, OwnerMoves
<1>4. CASE CApply(c)
  <2>1. /\ cphase[c] = "apply" /\ cphase' = [cphase EXCEPT ![c] = "ack"]
        /\ UNCHANGED <<cbatch, resultOffset>>
        /\ pending' = [pending EXCEPT ![c] = @ \cup {Head(cbatch[c])}]
    BY <1>4 DEF CApply
  <2>2. /\ cphase'[c] = "ack" /\ pending'[c] = pending[c] \cup {Head(cbatch[c])}
        /\ \A d \in Consumers : d # c => UNCHANGED <<cphase[d], pending[d]>>
    BY <1>t, <2>1 DEF SessionTypes
  <2>3. Reading(c)'
    BY <1>t, <1>f, <2>1, <2>2 DEF Reading, Unacked
  <2>4. QED BY <1>t, <1>f, <2>2, <2>3, OwnerMoves
<1>5. CASE CAck(c)
  <2>1. /\ cphase[c] = "ack" /\ cphase' = [cphase EXCEPT ![c] = "release"]
        /\ UNCHANGED <<cbatch, pending>> /\ resultOffset' = Head(cbatch[c])
    BY <1>5 DEF CAck, sessionVars
  <2>2. /\ cphase'[c] = "release" /\ cbatch[c] # <<>>
        /\ \A d \in Consumers : d # c => UNCHANGED <<cphase[d], pending[d]>>
    BY <1>t, <2>1 DEF SessionTypes, BatchShape
  <2>3. Head(cbatch[c]) \in Nat \ {0} /\ Head(cbatch[c]) > resultOffset
    BY <1>t, <2>1, <2>2, RecordAtHand DEF Reading
  <2>4. pending[c] \subseteq 1 .. Head(cbatch[c])
    BY <1>t, <2>1, <2>3 DEF Reading, Unacked
  <2>5. Reading(c)'
    BY <1>t, <1>f, <2>1, <2>2, <2>4 DEF Reading, Unacked
  <2>6. QED BY <1>t, <1>f, <2>2, <2>5, OwnerMoves
<1>6. CASE CRelease(c)
  <2>1. /\ cphase[c] = "release" /\ cphase' = [cphase EXCEPT ![c] = "lease"]
        /\ UNCHANGED <<pending, resultOffset>>
        /\ cbatch' = [cbatch EXCEPT ![c] = Tail(@)]
    BY <1>6 DEF CRelease, sessionVars, storeVars
  <2>2. /\ cphase'[c] = "lease" /\ cbatch[c] # <<>> /\ cbatch'[c] = Tail(cbatch[c])
        /\ \A d \in Consumers : d # c => UNCHANGED <<cphase[d], pending[d]>>
    BY <1>t, <2>1 DEF SessionTypes, BatchShape
  <2>3. /\ Tail(cbatch[c]) # <<>> => Head(Tail(cbatch[c])) = Head(cbatch[c]) + 1
        /\ Head(cbatch[c]) \in Nat
    BY <2>2, RecordAtHand
  <2>4. Head(cbatch[c]) = resultOffset
    BY <1>t, <2>1, <2>2 DEF Reading
  <2>5. Tail(cbatch[c]) # <<>> => Head(Tail(cbatch[c])) > resultOffset
    BY <1>t, <2>3, <2>4
  <2>6. Unacked(c) = {} /\ Unacked(c)' = {} /\ pending' = pending
    BY <2>1, <2>2 DEF Unacked
  <2>7. Reading(c)'
    BY <1>t, <1>f, <2>1, <2>2, <2>5, <2>6 DEF Reading
  <2>8. QED BY <1>t, <1>f, <2>2, <2>7, OwnerMoves
<1>7. CASE CCommit(c) \/ CConflict(c) \/ CDeadlock(c) \/ CAckRejected(c)
  <2>1. EndSession(c) /\ resultOffset' = resultOffset
    BY <1>7 DEF CCommit, CConflict, CDeadlock, CAckRejected, Unwind
  <2>2. QED BY <1>f, <2>1, EndKeepsReading
<1>8. QED BY <1>1, <1>2, <1>3, <1>4, <1>5, <1>6, <1>7 DEF CStep

\* So does every step of the system, until the partition moves.
LEMMA SystemKeepsReading ==
  ASSUME SystemInv, SystemInv', moves = 0 => OneCaller, [SystemNext]_systemVars, moves' = 0
  PROVE  OneCaller'
<1>1. CShape /\ CShape' /\ UploadTypeOK /\ WTypeInv /\ moves \in Nat
  BY DEF SystemInv, SystemTypes, CShape, SessionTypes
<1>2. CASE UNCHANGED <<consumerVars, resultOffset>>
  <2>1. UNCHANGED <<cphase, cbatch, pending, owner, moves, resultOffset>>
    BY <1>2, ConsumersUntouched
  <2>2. QED BY <2>1 DEF OneCaller, Reading, Unacked
<1>3. ASSUME NEW c \in Consumers, CStep(c) PROVE OneCaller'
  <2>1. moves = 0
    BY <1>3 DEF CStep, CPoll, CLease, CSkip, CApply, CAck, CRelease, CReturn, CCommit, CConflict,
     CDeadlock, CAckRejected, Unwind, groupVars
  <2>2. QED BY <1>1, <1>3, <2>1, CallKeepsReading
<1>4. ASSUME NEW c \in Consumers, CError(c) \/ CCrash(c) PROVE OneCaller'
  <2>1. EndSession(c) /\ UNCHANGED <<resultOffset, owner, moves>>
    BY <1>4 DEF CError, CCrash, Unwind
  <2>2. QED BY <1>1, <2>1, EndKeepsReading
<1>5. ASSUME NEW c \in Consumers, Rebalance(c) PROVE FALSE
  BY <1>1, <1>5 DEF Rebalance
<1>6. ASSUME NEW t \in Tasks, LeaseExpires(t) PROVE OneCaller'
  <2>1. UNCHANGED <<cphase, cbatch, pending, owner, moves, resultOffset>>
    BY <1>6 DEF LeaseExpires, sessionVars, groupVars, storeVars
  <2>2. QED BY <2>1 DEF OneCaller, Reading, Unacked
<1>7. (ApiStep \/ WStep \/ WCrash \/ UNCHANGED systemVars) => resultOffset' = resultOffset
  BY <1>1, ApiLeavesOutcome, WorkerLeavesRows DEF systemVars, storeVars
<1>8. UNCHANGED systemVars => UNCHANGED consumerVars
  BY DEF systemVars
<1>9. QED BY <1>2, <1>3, <1>4, <1>5, <1>6, <1>7, <1>8, WhoMoves DEF CFault

LEMMA ReadsAhead == SystemSafety => [](moves = 0 => OneCaller)
<1>1. SystemInit => OneCaller
  <2> SUFFICES ASSUME SystemInit, NEW c \in Consumers PROVE Reading(c)
    BY DEF OneCaller
  <2>1. cphase[c] = "idle" /\ cbatch[c] = <<>> /\ pending[c] = {}
    BY DEF SystemInit, CInit
  <2>2. QED BY <2>1, EndedReads
<1>2. SystemInv /\ SystemInv' /\ (moves = 0 => OneCaller) /\ [SystemNext]_systemVars
        => (moves = 0 => OneCaller)'
  BY SystemKeepsReading
<1>3. QED BY <1>1, <1>2, SystemInvariant, PTL DEF SystemSafety

(***************************************************************************)
(* A calm day. No request has died, the worker has not exited, the          *)
(* partition has not moved; errors and crashes of consumers there may be.   *)
(***************************************************************************)

\* A step of which only claims and leases can tell.
Unseen == UNCHANGED <<storeVars, rphase, requestVars, apiFaults, workerVars,
                      cphase, cbatch, sessionVars, groupVars, historyVars>>

\* What was not calm stays so; and the steps of a calm day are these.
LEMMA CalmSteps ==
  ASSUME SystemInv, [SystemNext]_systemVars, Calm'
  PROVE  /\ Calm
         /\ \/ /\ \E r \in Reqs : UCall(r) \/ UStep(r)
               /\ UNCHANGED <<workerVars, consumerVars>>
            \/ WStep /\ UNCHANGED <<uploadVars, consumerVars>>
            \/ /\ \E c \in Consumers : CStep(c) \/ CError(c) \/ CCrash(c)
               /\ UNCHANGED <<uploadVars, workerVars>>
            \/ Unseen
<1>t. apiFaults \in Nat /\ wcrashes \in Nat /\ moves \in Nat
  BY DEF SystemInv, SystemTypes, UploadTypeOK, UTypeOK, WTypeInv, WorkerTypeOK, WTypeOK, CShape,
     SessionTypes
<1>0. apiFaults' = 0 /\ wcrashes' = 0 /\ moves' = 0
  BY DEF Calm
<1>1. UFault => Unseen \/ ~UNCHANGED <<workerVars, consumerVars>>
  <2>1. ASSUME NEW r \in Reqs, UploadPublishLost(r) \/ UploadMarkFails(r) \/ ApiCrash(r) PROVE FALSE
    BY <1>t, <1>0, <2>1 DEF UploadPublishLost, UploadMarkFails, ApiCrash
  <2>2. ASSUME NEW t \in Tasks, ClaimExpires(t), UNCHANGED <<workerVars, consumerVars>> PROVE Unseen
    BY <2>2 DEF ClaimExpires, Unseen, consumerVars
  <2>3. QED BY <2>1, <2>2 DEF UFault
<1>2. ~WCrash
  BY <1>t, <1>0 DEF WCrash
<1>3. CFault => \/ \E c \in Consumers : CError(c) \/ CCrash(c)
                \/ Unseen \/ ~UNCHANGED <<uploadVars, workerVars>>
  <2>1. \A c \in Consumers : ~Rebalance(c)
    BY <1>t, <1>0 DEF Rebalance
  <2>2. ASSUME NEW t \in Tasks, LeaseExpires(t), UNCHANGED <<uploadVars, workerVars>> PROVE Unseen
    BY <2>2 DEF LeaseExpires, Unseen, uploadVars, requestVars, loadedVars
  <2>3. QED BY <2>1, <2>2 DEF CFault
<1>4. UNCHANGED systemVars => Unseen
  BY DEF systemVars, Unseen, uploadVars, requestVars, loadedVars, consumerVars
<1>5. QED
  <2>1. \/ /\ \E r \in Reqs : UCall(r) \/ UStep(r)
           /\ UNCHANGED <<workerVars, consumerVars>>
        \/ WStep /\ UNCHANGED <<uploadVars, consumerVars>>
        \/ /\ \E c \in Consumers : CStep(c) \/ CError(c) \/ CCrash(c)
           /\ UNCHANGED <<uploadVars, workerVars>>
        \/ Unseen
    BY <1>1, <1>2, <1>3, <1>4, WhoMoves DEF ApiStep
  <2>2. ASSUME NEW r \in Reqs, UCall(r) \/ UStep(r) PROVE apiFaults' = apiFaults
    BY <2>2 DEF UCall, UStep, ClassifyRead, ConfirmRead, RetryRead, UploadRead, Begin,
       ClassifyCommit, ClassifyConflict, ConfirmCommit, RetryCommit, UploadClaim, UploadBusy,
       UploadStage, UploadStageFails, UploadPublish, UploadPublishFails, UploadCompensate,
       UploadMark, UploadRelease
  <2>3. WStep => wcrashes' = wcrashes
    BY DEF WStep, WFetch, WDeadLetter, WBatchReady, WStart, WProduce, WAck, WAckDeadLetter,
       WAcquireSlot, WResolve, WResolveFails, WUpload, WUploadFails
  <2>4. ASSUME NEW c \in Consumers, CStep(c) \/ CError(c) \/ CCrash(c) PROVE moves' = moves
    BY <2>4 DEF CStep, CPoll, CLease, CSkip, CApply, CAck, CRelease, CReturn, CCommit, CConflict,
       CDeadlock, CAckRejected, CError, CCrash, Unwind, groupVars
  <2>5. CASE (\E r \in Reqs : UCall(r) \/ UStep(r)) /\ UNCHANGED <<workerVars, consumerVars>>
    <3>1. apiFaults = 0 /\ wcrashes = 0 /\ moves = 0
      BY <1>0, <2>2, <2>5, ConsumersUntouched DEF workerVars
    <3>2. QED BY <2>5, <3>1 DEF Calm
  <2>6. CASE WStep /\ UNCHANGED <<uploadVars, consumerVars>>
    <3>1. apiFaults = 0 /\ wcrashes = 0 /\ moves = 0
      BY <1>0, <2>3, <2>6, ConsumersUntouched DEF uploadVars
    <3>2. QED BY <2>6, <3>1 DEF Calm
  <2>7. CASE /\ \E c \in Consumers : CStep(c) \/ CError(c) \/ CCrash(c)
             /\ UNCHANGED <<uploadVars, workerVars>>
    <3>1. apiFaults = 0 /\ wcrashes = 0 /\ moves = 0
      BY <1>0, <2>4, <2>7 DEF uploadVars, workerVars
    <3>2. QED BY <2>7, <3>1 DEF Calm
  <2>8. CASE Unseen
    <3>1. apiFaults = 0 /\ wcrashes = 0 /\ moves = 0
      BY <1>0, <2>8 DEF Unseen, workerVars, groupVars
    <3>2. QED BY <2>8, <3>1 DEF Calm
  <2>9. QED BY <2>1, <2>5, <2>6, <2>7, <2>8

(***************************************************************************)
(* A message is open until its result is committed, or passed over: while   *)
(* it is, its outcome may still be written.                                 *)
(***************************************************************************)
OpenResult(j) == j > resultOffset \/ \E c \in Consumers : j \in pending[c]

Open == {k \in DOMAIN taskLog :
           \A j \in DOMAIN resultLog : resultLog[j].cause = k => OpenResult(j)}

\* A message with no result is open.
LEMMA UnansweredIsOpen ==
  ASSUME NEW k \in DOMAIN taskLog, ~Answered(k)
  PROVE  k \in Open
BY DEF Open, Answered

\* What a session has applied answers an open message, of the same task.
LEMMA PendingIsOpen ==
  ASSUME SystemInv, ReadOnce, NEW c \in Consumers, NEW j \in pending[c]
  PROVE  /\ j \in DOMAIN resultLog
         /\ resultLog[j].cause \in Open
         /\ resultLog[j].task = taskLog[resultLog[j].cause].task
<1>1. j \in DOMAIN resultLog /\ CausesInRange /\ ResultsComplete
  BY DEF SystemInv, SystemTypes, CShape, SessionShape, ResultInv
<1>2. resultLog[j].cause \in DOMAIN taskLog
  BY <1>1 DEF CausesInRange
<1>3. \A n \in DOMAIN resultLog : resultLog[n].cause = resultLog[j].cause => n = j
  BY <1>1 DEF ReadOnce, AnsweredOnce
<1>4. OpenResult(j)
  BY DEF OpenResult
<1>5. resultLog[j].cause \in Open
  BY <1>2, <1>3, <1>4 DEF Open
<1>6. QED BY <1>1, <1>5 DEF ResultsComplete

\* An end of a session opens nothing.
LEMMA EndOpensNone ==
  ASSUME CShape, NEW c \in Consumers, EndSession(c), UNCHANGED resultOffset
  PROVE  \A j : OpenResult(j)' => OpenResult(j)
<1>1. pending' = [pending EXCEPT ![c] = {}] /\ pending \in [Consumers -> SUBSET Nat]
  BY DEF EndSession, CShape, SessionTypes
<1>2. QED BY <1>1 DEF OpenResult

\* Nor does a step of a call.
LEMMA CallOpensNone ==
  ASSUME CShape, OneCaller, NEW c \in Consumers, CStep(c) \/ CError(c) \/ CCrash(c)
  PROVE  \A j \in DOMAIN resultLog : OpenResult(j)' => OpenResult(j)
<1>t. SessionTypes /\ BatchShape(c) /\ Reading(c) /\ DOMAIN resultLog \subseteq Nat
      /\ pending \in [Consumers -> SUBSET Nat] /\ resultOffset \in Nat
  BY DEF CShape, SessionTypes, RowTypes, OneCaller
<1>1. CASE CPoll(c) \/ CLease(c) \/ CSkip(c) \/ CRelease(c) \/ CReturn(c)
  <2>1. UNCHANGED <<pending, resultOffset>>
    BY <1>1 DEF CPoll, CLease, CSkip, CRelease, CReturn, sessionVars, storeVars
  <2>2. QED BY <2>1 DEF OpenResult
<1>2. CASE CApply(c)
  <2>1. /\ cphase[c] = "apply" /\ resultOffset' = resultOffset /\ cbatch[c] # <<>>
        /\ pending' = [pending EXCEPT ![c] = @ \cup {Head(cbatch[c])}]
    BY <1>2, <1>t DEF CApply, BatchShape
  <2>2. Head(cbatch[c]) > resultOffset
    BY <1>t, <2>1 DEF Reading
  <2>3. QED BY <1>t, <2>1, <2>2 DEF OpenResult
<1>3. CASE CAck(c)
  <2>1. cphase[c] = "ack" /\ resultOffset' = Head(cbatch[c]) /\ pending' = pending /\ cbatch[c] # <<>>
    BY <1>3, <1>t DEF CAck, sessionVars, BatchShape
  <2>2. Head(cbatch[c]) > resultOffset /\ Head(cbatch[c]) \in Nat
    BY <1>t, <2>1, RecordAtHand DEF Reading
  <2>3. QED BY <1>t, <2>1, <2>2 DEF OpenResult
<1>4. CASE CCommit(c) \/ CConflict(c) \/ CDeadlock(c) \/ CAckRejected(c) \/ CError(c) \/ CCrash(c)
  <2>1. EndSession(c) /\ resultOffset' = resultOffset
    BY <1>4 DEF CCommit, CConflict, CDeadlock, CAckRejected, CError, CCrash, Unwind
  <2>2. QED BY <2>1, EndOpensNone
<1>5. QED BY <1>1, <1>2, <1>3, <1>4 DEF CStep

\* A commit closes what its session has applied.
LEMMA CommitCloses ==
  ASSUME CShape, OneCaller, NEW c \in Consumers, CCommit(c)
  PROVE  \A j \in pending[c] : ~OpenResult(j)'
<1>1. /\ cphase[c] = "commit" /\ resultOffset' = resultOffset
      /\ pending' = [pending EXCEPT ![c] = {}]
  BY DEF CCommit, EndSession
<1>2. c = owner
  BY <1>1 DEF OneCaller, Reading
<1>3. \A d \in Consumers : d # c => pending[d] = {}
  BY <1>2 DEF OneCaller, Reading, CShape, SessionShape
<1>4. pending[c] \subseteq 1 .. resultOffset
  BY <1>1 DEF OneCaller, Reading, Unacked
<1>5. pending \in [Consumers -> SUBSET Nat] /\ resultOffset \in Nat
  BY DEF CShape, SessionTypes
<1>6. \A d \in Consumers : pending'[d] = {}
  BY <1>1, <1>3, <1>5
<1>7. QED BY <1>1, <1>4, <1>5, <1>6 DEF OpenResult

\* Of a task that no requests have raced for, one message at most is open, and
\* its status says so.
Due(t) == {k \in Open : taskLog[k].task = t}

CalmFlights == KnownOnce /\ \A t \in Tasks : Fair(t) => InTurn(t, Due(t))

\* Two open messages of such a task are the same.
LEMMA OneDue ==
  ASSUME CalmFlights, NEW j \in Open, NEW k \in Open, taskLog[j].task = taskLog[k].task,
         taskLog[k].task \in Tasks, Fair(taskLog[k].task)
  PROVE  j = k
<1>1. InTurn(taskLog[k].task, Due(taskLog[k].task))
  BY DEF CalmFlights
<1>2. j \in Due(taskLog[k].task) /\ k \in Due(taskLog[k].task)
  BY DEF Due
<1>3. QED BY <1>1, <1>2 DEF InTurn

\* Steps of a request,
LEMMA ApiKeepsFlights ==
  ASSUME SystemInv, CalmFlights, NEW r \in Reqs, UCall(r) \/ UStep(r), UNCHANGED consumerVars
  PROVE  CalmFlights'
<1>t. UploadTypeOK
  BY DEF SystemInv, SystemTypes
<1>1. KnownOnce' /\ KnownOnce
  BY <1>t, CallKeepsKnown, StepKeepsKnown DEF CalmFlights
<1>2. /\ UNCHANGED <<resultLog, resultOffset, pending>>
      /\ \A k \in DOMAIN taskLog : k \in DOMAIN taskLog' /\ taskLog'[k] = taskLog[k]
      /\ \A k \in DOMAIN taskLog' : k \notin DOMAIN taskLog =>
           k = Len(taskLog) + 1 /\ UploadPublish(r) /\ taskLog'[k].task = rtask[r]
  BY <1>t, RequestsPublish, ApiLeavesOutcome, ConsumersUntouched DEF ApiStep
<1>3. \A k \in Open' : k \in DOMAIN taskLog' /\ (k \in DOMAIN taskLog => k \in Open)
  BY <1>2 DEF Open, OpenResult
<1>4. ASSUME NEW t \in Tasks, Fair(t)' PROVE InTurn(t, Due(t))'
  <2>1. Fair(t)
    BY <1>4, RacedGrows DEF Fair, ItemsOf
  <2>2. PICK D, E : D = Due(t) /\ E = Due(t)'
    OBVIOUS
  <2>3. InTurn(t, D)
    BY <2>1, <2>2 DEF CalmFlights
  <2>4. D # {} => Known(t)
    BY <1>1, <2>2 DEF Due, KnownOnce, Open
  <2>5. PICK n : n = Len(taskLog) + 1
    OBVIOUS
  <2>6. \A k \in E : k \in D \/ (k = n /\ UploadPublish(r) /\ rtask[r] = t)
    BY <1>2, <1>3, <2>2, <2>5 DEF Due
  <2>7. E \subseteq D \cup {n} /\ (n \in E \ D => UploadPublish(r) /\ rtask[r] = t)
    BY <2>6
  <2>8. InTurn(t, E)'
    BY <1>t, <1>1, <1>4, <2>3, <2>4, <2>7, RequestKeepsTurn
  <2>9. QED BY <2>2, <2>8 DEF InTurn
<1>5. QED BY <1>1, <1>4 DEF CalmFlights

\* of the worker and of the consumers, and unseen ones.
LEMMA OthersKeepFlights ==
  ASSUME SystemInv, CalmFlights, WritesAreResults, ReadOnce, OneCaller,
         \/ WStep /\ UNCHANGED consumerVars
         \/ \E c \in Consumers : CStep(c) \/ CError(c) \/ CCrash(c)
         \/ Unseen,
         UNCHANGED <<rphase, rtask, rseen, raced>>
  PROVE  CalmFlights'
<1>t. UploadTypeOK /\ CShape /\ WTypeInv
  BY DEF SystemInv, SystemTypes
<1>1. /\ taskLog' = taskLog /\ DOMAIN resultLog \subseteq DOMAIN resultLog'
      /\ \A j \in DOMAIN resultLog : resultLog'[j] = resultLog[j]
      /\ \A j \in DOMAIN resultLog : OpenResult(j)' => OpenResult(j)
      /\ (\E c \in Consumers : CCommit(c)) \/ UNCHANGED <<status, itemStatus>>
  <2>1. CASE WStep /\ UNCHANGED consumerVars
    <3>1. UNCHANGED <<resultOffset, pending, taskLog, status, itemStatus>>
      BY <1>t, <2>1, WorkerLeavesRows, ConsumersUntouched
    <3>2. QED BY <1>t, <2>1, <3>1, WorkerLeavesRows DEF OpenResult
  <2>2. ASSUME NEW c \in Consumers, CStep(c) \/ CError(c) \/ CCrash(c)
        PROVE  /\ taskLog' = taskLog /\ resultLog' = resultLog
               /\ \A j \in DOMAIN resultLog : OpenResult(j)' => OpenResult(j)
               /\ (\E d \in Consumers : CCommit(d)) \/ UNCHANGED <<status, itemStatus>>
    BY <1>t, <2>2, CallOpensNone, ConsumerLeavesStore DEF CFault
  <2>3. CASE Unseen
    BY <2>3 DEF Unseen, storeVars, sessionVars, OpenResult
  <2>4. QED BY <2>1, <2>2, <2>3
<1>2. Open' \subseteq Open
  BY <1>1 DEF Open
<1>3. ASSUME NEW c \in Consumers, CCommit(c)
      PROVE  /\ \A i \in Items : itemStatus'[i] = "none" => itemStatus[i] = "none"
             /\ \A t \in Tasks : \/ status'[t] = status[t]
                                 \/ \E k \in Open : taskLog[k].task = t /\ k \notin Open'
  <2>1. /\ status' = [t \in Tasks |-> IF wStatus[c][t] = Keep THEN status[t] ELSE wStatus[c][t]]
        /\ itemStatus' = [i \in Items |-> IF wItem[c][i] = Keep THEN itemStatus[i] ELSE wItem[c][i]]
    BY <1>3 DEF CCommit
  <2>2. \A i \in Items : wItem[c][i] = Keep \/ wItem[c][i] \in {"uploaded", "failed"}
    BY DEF WritesAreResults, WritesOf
  <2>3. ASSUME NEW t \in Tasks, status'[t] # status[t]
        PROVE  \E k \in Open : taskLog[k].task = t /\ k \notin Open'
    <3>1. wStatus[c][t] # Keep
      BY <2>1, <2>3
    <3>2. PICK j \in pending[c] : resultLog[j].task = t
      BY <3>1 DEF WritesAreResults, WritesOf
    <3>3. PICK k : k = resultLog[j].cause
      OBVIOUS
    <3>4. j \in DOMAIN resultLog /\ k \in Open /\ taskLog[k].task = t
      BY <3>2, <3>3, PendingIsOpen
    <3>5. k \notin Open'
      BY <1>t, <1>1, <1>3, <3>3, <3>4, CommitCloses DEF Open
    <3>6. QED BY <3>4, <3>5
  <2>4. QED BY <2>1, <2>2, <2>3
<1>4. /\ \A i \in Items : itemStatus'[i] = "none" => itemStatus[i] = "none"
      /\ \A t \in Tasks : \/ status'[t] = status[t]
                          \/ \E k \in Open : taskLog[k].task = t /\ k \notin Open'
  BY <1>1, <1>3
<1>5. KnownOnce'
  BY <1>t, <1>1, <1>4, OutcomeKeepsKnown DEF CalmFlights, Open
<1>6. ASSUME NEW t \in Tasks, Fair(t)' PROVE InTurn(t, Due(t))'
  <2>1. PICK D, E : D = Due(t) /\ E = Due(t)'
    OBVIOUS
  <2>2. InTurn(t, D)
    BY <1>6, <2>1 DEF CalmFlights, Fair, ItemsOf
  <2>3. E \subseteq D
    BY <1>1, <1>2, <2>1 DEF Due
  <2>4. status'[t] = status[t] \/ \E k \in D : k \notin E
    BY <1>4, <2>1 DEF Due
  <2>5. status'[t] = status[t] \/ (D # {} /\ E = {})
    BY <2>2, <2>3, <2>4 DEF InTurn
  <2>6. InTurn(t, E)'
    BY <2>2, <2>3, <2>5, OutcomeKeepsTurn
  <2>7. QED BY <2>1, <2>6 DEF InTurn
<1>7. QED BY <1>5, <1>6 DEF CalmFlights

\* Every step of a calm day keeps it.
LEMMA SystemKeepsFlights ==
  ASSUME SystemInv, CalmFlights, WritesAreResults, ReadOnce, OneCaller,
         [SystemNext]_systemVars, Calm'
  PROVE  CalmFlights'
<1>1. CASE (\E r \in Reqs : UCall(r) \/ UStep(r)) /\ UNCHANGED <<workerVars, consumerVars>>
  BY <1>1, ApiKeepsFlights
<1>2. CASE \/ WStep /\ UNCHANGED <<uploadVars, consumerVars>>
           \/ /\ \E c \in Consumers : CStep(c) \/ CError(c) \/ CCrash(c)
              /\ UNCHANGED <<uploadVars, workerVars>>
  BY <1>2, OthersKeepFlights DEF uploadVars
<1>3. CASE Unseen
  BY <1>3, OthersKeepFlights DEF Unseen, requestVars, loadedVars
<1>4. QED BY <1>1, <1>2, <1>3, CalmSteps

\* While calm, a task without races has one open message at most.
LEMMA OneFlight == SystemSafety => [](Calm => CalmFlights)
<1>1. SystemInit => CalmFlights
  <2> SUFFICES ASSUME SystemInit PROVE CalmFlights
    OBVIOUS
  <2>1. /\ taskLog = <<>> /\ \A t \in Tasks : status[t] = "draft"
        /\ \A r \in Reqs : rphase[r] = "idle" /\ rseen[r] = "draft"
    BY DEF SystemInit, StoreInit, UInit
  <2>2. \A t : Due(t) = {}
    <3>1. DOMAIN taskLog = {}
      BY <2>1
    <3>2. QED BY <3>1 DEF Open, Due
  <2>3. QED BY <2>1, <2>2 DEF CalmFlights, KnownOnce, InTurn, Sending
<1>2. /\ SystemInv /\ WritesAreResults /\ (wcrashes = 0 => ReadOnce)
      /\ (moves = 0 => OneCaller) /\ (Calm => CalmFlights) /\ [SystemNext]_systemVars
      => (Calm => CalmFlights)'
  <2> SUFFICES ASSUME SystemInv, WritesAreResults, wcrashes = 0 => ReadOnce,
                      moves = 0 => OneCaller, Calm => CalmFlights,
                      [SystemNext]_systemVars, Calm'
               PROVE  CalmFlights'
    OBVIOUS
  <2>1. Calm
    BY CalmSteps
  <2>2. QED BY <2>1, SystemKeepsFlights DEF Calm
<1>3. QED
  BY <1>1, <1>2, SystemInvariant, WritesInvariant, ReadsOnce, ReadsAhead, PTL DEF SystemSafety

(***************************************************************************)
(* What an upload publishes, and its archive.                               *)
(***************************************************************************)

LEMMA PlainMessages == SystemSafety => []Plain
<1>1. SystemInit => Plain
  BY DEF SystemInit, StoreInit, UInit, Plain
<1>2. SystemInv /\ Plain /\ [SystemNext]_systemVars => Plain'
  <2> SUFFICES ASSUME SystemInv, Plain, [SystemNext]_systemVars PROVE Plain'
    OBVIOUS
  <2>1. ASSUME UNCHANGED <<taskLog, uploadVars>> PROVE Plain'
    BY <2>1 DEF Plain, uploadVars
  <2>2. UploadTypeOK /\ WTypeInv
    BY DEF SystemInv, SystemTypes
  <2>3. WStep \/ WCrash \/ (\E c \in Consumers : CStep(c)) \/ CFault => taskLog' = taskLog
    BY <2>2, WorkerLeavesRows, ConsumerLeavesStore
  <2>4. QED
    BY <2>1, <2>2, <2>3, RequestsKeepPlain, WhoMoves DEF systemVars, storeVars, ApiStep
<1>3. QED BY <1>1, <1>2, SystemInvariant, PTL DEF SystemSafety

\* While calm, no request publishes items that travel already, unless it has
\* overtaken another: its task has no open message.
LEMMA PublishesFresh ==
  ASSUME SystemInv, CalmFlights, Plain, [SystemNext]_systemVars
  PROVE  PublishesAfresh
<1>t. /\ UploadTypeOK /\ WTypeInv /\ taskLog \in Seq(TaskMsg) /\ Len(taskLog) \in Nat
      /\ DOMAIN taskLog = 1 .. Len(taskLog) /\ rtask \in [Reqs -> Tasks]
  BY DEF SystemInv, SystemTypes, UploadTypeOK, StoreTypeOK, UTypeOK
<1>1. ASSUME Len(taskLog') = Len(taskLog) PROVE PublishesAfresh
  BY <1>t, <1>1 DEF PublishesAfresh
<1>2. ASSUME NEW r \in Reqs, rphase[r] = "publish", AppendTask(r) PROVE PublishesAfresh
  <2> DEFINE m == [task |-> rtask[r], items |-> ritems[r], skip |-> {}, valid |-> TRUE]
  <2>1. m \in TaskMsg /\ m.items = ritems[r] /\ ritems[r] \subseteq ItemsOf(rtask[r])
    BY <1>t DEF UploadTypeOK, UTypeOK, TaskMsg, Plain
  <2>2. taskLog' = Append(taskLog, m) /\ rphase[r] = "publish"
    BY <1>2 DEF AppendTask
  <2> HIDE DEF m
  <2>3. Len(taskLog') = Len(taskLog) + 1 /\ taskLog'[Len(taskLog) + 1] = m
    BY <1>t, <2>1, <2>2, AppendProperties
  <2>4. ASSUME NEW k \in DOMAIN taskLog, InFlight(k), taskLog[k].task \notin raced
        PROVE  taskLog[k].items \cap m.items = {}
    <3>1. SUFFICES ASSUME NEW i \in taskLog[k].items, i \in m.items PROVE FALSE
      OBVIOUS
    <3>2. i \in ItemsOf(taskLog[k].task) /\ i \in ItemsOf(rtask[r])
      BY <2>1, <3>1 DEF Plain
    <3>3. taskLog[k].task = rtask[r] /\ Fair(rtask[r])
      BY <2>4, <3>2 DEF ItemsOf, Fair
    <3>4. k \in Due(rtask[r])
      BY <2>4, <3>3, UnansweredIsOpen DEF InFlight, Due
    <3>5. Due(rtask[r]) = {}
      BY <1>t, <2>2, <3>3 DEF CalmFlights, InTurn
    <3>6. QED BY <3>4, <3>5
  <2>5. \A n \in Len(taskLog) + 1 .. Len(taskLog') : taskLog'[n] = m
    BY <1>t, <2>3
  <2>6. QED BY <2>4, <2>5 DEF PublishesAfresh
<1>3. ASSUME NEW r \in Reqs, UCall(r) \/ (UStep(r) /\ ~UploadPublish(r)) \/ UploadMarkFails(r)
                             \/ ApiCrash(r)
      PROVE  taskLog' = taskLog
  BY <1>3 DEF UCall, UStep, ClassifyRead, ConfirmRead, RetryRead, UploadRead, Begin,
     ClassifyCommit, ClassifyConflict, ConfirmCommit, RetryCommit, UploadClaim, UploadBusy,
     UploadStage, UploadStageFails, UploadPublishFails, UploadCompensate, UploadMark,
     UploadRelease, UploadMarkFails, ApiCrash, storeVars, brokerVars
<1>4. ASSUME NEW t \in Tasks, ClaimExpires(t) PROVE taskLog' = taskLog
  BY <1>4 DEF ClaimExpires, storeVars
<1>5. WStep \/ WCrash \/ (\E c \in Consumers : CStep(c)) \/ CFault \/ UNCHANGED systemVars
        => taskLog' = taskLog
  BY <1>t, WorkerLeavesRows, ConsumerLeavesStore DEF systemVars, storeVars
<1>6. CASE ApiStep
  BY <1>1, <1>2, <1>3, <1>4, <1>6 DEF ApiStep, UFault, UploadPublish, UploadPublishLost, Goto
<1>7. QED BY <1>1, <1>5, <1>6, WhoMoves

\* One trigger, one delivery: while no request has died, no message has come
\* twice and the partition has not moved, no item that is still on its way is
\* published again, however many requests run side by side, as long as none of
\* them acts on a task that another one has changed since it was loaded
\* (upload_task and retry_task, app/api/tasks.py).
THEOREM NoItemTwice == SystemSafety => NoItemTwiceWhenCalm
<1>1. SystemInv /\ Plain /\ (Calm => CalmFlights) /\ [SystemNext]_systemVars
        => (Calm => PublishesAfresh)
  BY PublishesFresh
<1>2. QED
  BY <1>1, SystemInvariant, PlainMessages, OneFlight, PTL DEF SystemSafety, NoItemTwiceWhenCalm

(***************************************************************************)
(* The archive of an unanswered message is staged. The danger is the        *)
(* compensation, which deletes under the key of the task; without races it  *)
(* runs for the only upload of the task, when no message of it is open.     *)
(***************************************************************************)
ArchiveInv ==
  ObjectMode =>
    /\ \A r \in Reqs : rphase[r] = "publish" /\ Fair(rtask[r]) => rtask[r] \in staged
    /\ \A k \in DOMAIN taskLog :
         ~Answered(k) /\ Fair(taskLog[k].task) => taskLog[k].task \in staged

LEMMA ApiKeepsArchives ==
  ASSUME SystemInv, CalmFlights, ArchiveInv, NEW r \in Reqs, UCall(r) \/ UStep(r)
  PROVE  ArchiveInv'
<1> SUFFICES ASSUME ObjectMode PROVE ArchiveInv'
  BY DEF ArchiveInv
<1>t. /\ UploadTypeOK /\ taskLog \in Seq(TaskMsg) /\ rphase \in [Reqs -> RPhase]
      /\ rtask \in [Reqs -> Tasks] /\ staged \subseteq Tasks
  BY DEF SystemInv, SystemTypes, UploadTypeOK, StoreTypeOK, UTypeOK
<1>0. /\ \A k : Answered(k)' <=> Answered(k)
      /\ \A t : Fair(t)' => Fair(t)
  BY <1>t, ApiLeavesOutcome, RacedGrows DEF ApiStep, Answered, Fair, ItemsOf
<1>1. ASSUME \A p \in Reqs : rphase'[p] = "publish" => rphase[p] = "publish" /\ rtask'[p] = rtask[p],
             taskLog' = taskLog, staged \subseteq staged'
      PROVE  ArchiveInv'
  BY <1>0, <1>1 DEF ArchiveInv
<1>2. CASE UCall(r)
  <2>1. /\ UNCHANGED <<taskLog, staged>> /\ \E t \in Tasks : rtask' = [rtask EXCEPT ![r] = t]
        /\ \E q \in {"classify", "confirm", "retry", "claim"} : rphase' = [rphase EXCEPT ![r] = q]
    BY <1>2 DEF UCall, ClassifyRead, ConfirmRead, RetryRead, UploadRead, Begin, Goto, storeVars
  <2>2. QED BY <1>1, <1>t, <2>1
<1>3. CASE \/ ClassifyCommit(r) \/ ClassifyConflict(r) \/ ConfirmCommit(r) \/ RetryCommit(r)
           \/ UploadClaim(r) \/ UploadBusy(r) \/ UploadStageFails(r) \/ UploadPublishFails(r)
           \/ UploadMark(r) \/ UploadRelease(r)
  <2>1. /\ UNCHANGED <<taskLog, rtask>> /\ staged \subseteq staged'
        /\ \E q \in {"idle", "stage", "compensate", "release"} : rphase' = [rphase EXCEPT ![r] = q]
    BY <1>3 DEF ClassifyCommit, ClassifyConflict, ConfirmCommit, RetryCommit, UploadClaim,
       UploadBusy, UploadStageFails, UploadPublishFails, AfterFailure, UploadMark, UploadRelease,
       Goto, storeVars, requestVars, loadedVars, brokerVars
  <2>2. QED BY <1>1, <1>t, <2>1
<1>4. CASE UploadStage(r)
  <2>1. /\ staged' = staged \cup {rtask[r]} /\ UNCHANGED <<taskLog, rtask>>
        /\ rphase' = [rphase EXCEPT ![r] = "publish"]
    BY <1>4 DEF UploadStage, Goto, requestVars, loadedVars, brokerVars
  <2>2. \A p \in Reqs : p # r => rphase'[p] = rphase[p]
    BY <1>t, <2>1
  <2>3. QED BY <1>0, <2>1, <2>2 DEF ArchiveInv
<1>5. CASE UploadPublish(r)
  <2>1. /\ \A k \in DOMAIN taskLog : k \in DOMAIN taskLog' /\ taskLog'[k] = taskLog[k]
        /\ \A k \in DOMAIN taskLog' : k \notin DOMAIN taskLog => taskLog'[k].task = rtask[r]
    BY <1>t, RequestsPublish
  <2>2. /\ UNCHANGED <<rtask, staged>>
        /\ rphase[r] = "publish" /\ rphase' = [rphase EXCEPT ![r] = "mark"]
    BY <1>5 DEF UploadPublish, AppendTask, Goto, requestVars, loadedVars
  <2>3. \A p \in Reqs : rphase'[p] = "publish" => rphase[p] = "publish"
    BY <1>t, <2>2
  <2>4. Fair(rtask[r]) => rtask[r] \in staged
    BY <2>2 DEF ArchiveInv
  <2>5. \A k \in DOMAIN taskLog' : (~Answered(k) /\ Fair(taskLog[k].task))' =>
          taskLog'[k].task \in staged'
    BY <1>0, <2>1, <2>2, <2>4 DEF ArchiveInv, Fair, ItemsOf
  <2>6. QED BY <1>0, <2>2, <2>3, <2>5 DEF ArchiveInv
<1>6. CASE UploadCompensate(r)
  <2>1. /\ rphase[r] = "compensate" /\ rphase' = [rphase EXCEPT ![r] = "release"]
        /\ staged' \in {staged, staged \ {rtask[r]}} /\ UNCHANGED <<taskLog, rtask>>
    BY <1>6 DEF UploadCompensate, Goto, requestVars, loadedVars, brokerVars
  <2>2. \A p \in Reqs : rphase'[p] = "publish" => rphase[p] = "publish" /\ p # r
    BY <1>t, <2>1
  <2>3. ASSUME Fair(rtask[r])
        PROVE  /\ \A p \in Reqs : rphase'[p] = "publish" => rtask[p] # rtask[r]
               /\ \A k \in DOMAIN taskLog : ~Answered(k) => taskLog[k].task # rtask[r]
    <3>1. InTurn(rtask[r], Due(rtask[r])) /\ rtask[r] \in Tasks
      BY <1>t, <2>3 DEF CalmFlights
    <3>2. Due(rtask[r]) = {}
      BY <2>1, <3>1 DEF InTurn
    <3>3. \A k \in DOMAIN taskLog : ~Answered(k) => taskLog[k].task # rtask[r]
      BY <3>2, UnansweredIsOpen DEF Due
    <3>4. \A p \in Reqs : rphase'[p] = "publish" => rtask[p] # rtask[r]
      BY <2>1, <2>2, <3>1 DEF InTurn, Sending
    <3>5. QED BY <3>3, <3>4
  <2>4. QED BY <1>0, <2>1, <2>2, <2>3 DEF ArchiveInv
<1>7. QED BY <1>2, <1>3, <1>4, <1>5, <1>6 DEF UStep

LEMMA SystemKeepsArchives ==
  ASSUME SystemInv, CalmFlights, ArchiveInv, [SystemNext]_systemVars, Calm'
  PROVE  ArchiveInv'
<1>t. UploadTypeOK /\ WTypeInv
  BY DEF SystemInv, SystemTypes
<1>1. ASSUME UNCHANGED <<rphase, rtask, raced, staged, taskLog>>,
             DOMAIN resultLog \subseteq DOMAIN resultLog',
             \A j \in DOMAIN resultLog : resultLog'[j] = resultLog[j]
      PROVE  ArchiveInv'
  <2>1. \A k : Answered(k) => Answered(k)'
    BY <1>1 DEF Answered
  <2>2. QED BY <1>1, <2>1 DEF ArchiveInv, Fair, ItemsOf
<1>2. CASE WStep /\ UNCHANGED uploadVars
  BY <1>t, <1>1, <1>2, WorkerLeavesRows DEF uploadVars
<1>3. CASE (\E c \in Consumers : CStep(c) \/ CError(c) \/ CCrash(c)) /\ UNCHANGED uploadVars
  BY <1>1, <1>3, ConsumerLeavesStore DEF uploadVars, CFault
<1>4. CASE Unseen
  BY <1>1, <1>4 DEF Unseen, storeVars, requestVars, loadedVars
<1>5. QED BY <1>2, <1>3, <1>4, ApiKeepsArchives, CalmSteps

\* While calm, the archive of a published message stays in the staging bucket
\* until the message is answered: no compensation takes it away, unless its
\* upload has overtaken another one of the task (upload_task and
\* delivery_staging.py).
THEOREM ArchiveStays == SystemSafety => []ArchiveKeptWhenCalm
<1>1. SystemInit => ArchiveInv
  <2> SUFFICES ASSUME SystemInit PROVE ArchiveInv
    OBVIOUS
  <2>1. taskLog = <<>> /\ \A r \in Reqs : rphase[r] = "idle"
    BY DEF SystemInit, StoreInit, UInit
  <2>2. DOMAIN taskLog = {}
    BY <2>1
  <2>3. QED BY <2>1, <2>2 DEF ArchiveInv
<1>2. SystemInv /\ (Calm => CalmFlights) /\ (Calm => ArchiveInv) /\ [SystemNext]_systemVars
        => (Calm => ArchiveInv)'
  <2> SUFFICES ASSUME SystemInv, Calm => CalmFlights, Calm => ArchiveInv,
                      [SystemNext]_systemVars, Calm'
               PROVE  ArchiveInv'
    OBVIOUS
  <2>1. Calm
    BY CalmSteps
  <2>2. QED BY <2>1, SystemKeepsArchives
<1>3. Plain /\ (Calm => ArchiveInv) => ArchiveKeptWhenCalm
  BY DEF ArchiveInv, ArchiveKeptWhenCalm, InFlight, Plain, Fair
<1>4. QED
  BY <1>1, <1>2, <1>3, SystemInvariant, OneFlight, PlainMessages, PTL DEF SystemSafety

(***************************************************************************)
(* The rows of a calm day, task by task. A message divides the items of its *)
(* task: those it carries are pending, the others uploaded before; and so   *)
(* it stays until its outcome is committed, which thus decides about all of *)
(* them.                                                                    *)
(***************************************************************************)

\* Of the items of t, those in S are still to be delivered, the others are.
Divides(S, t) ==
  \A i \in ItemsOf(t) : itemStatus[i] = IF i \in S THEN "pending" ELSE "uploaded"

NothingFailed(t) == \A i \in ItemsOf(t) : itemStatus[i] \in {"pending", "uploaded"}

\* What the status of t says of its rows, what an upload past its claim has
\* loaded of them, and what the open messages D of t say.
RowsFit(t, D) ==
  /\ status[t] = "classified" => \A i \in ItemsOf(t) : itemStatus[i] = "pending"
  /\ status[t] = "confirmed" /\ ~Marking(t) => NothingFailed(t)
  /\ status[t] = "uploaded" => \A i \in ItemsOf(t) : itemStatus[i] = "uploaded"
  /\ \A r \in Reqs : rtask[r] = t /\ rphase[r] \in {"stage", "publish"} => Divides(ritems[r], t)
  /\ \A k \in D : Divides(taskLog[k].items, t)

CalmRows == \A t \in Tasks : Fair(t) => RowsFit(t, Due(t))

\* Steps that leave the rows of t alone.
LEMMA SameRows ==
  ASSUME NEW t \in Tasks, NEW D, RowsFit(t, D), NEW E, E \subseteq D, status'[t] = status[t],
         \A i \in ItemsOf(t) : itemStatus'[i] = itemStatus[i], Marking(t) => Marking(t)',
         \A k \in D : taskLog'[k].items = taskLog[k].items,
         \A r \in Reqs : rtask'[r] = t /\ rphase'[r] \in {"stage", "publish"} => Divides(ritems[r], t)'
  PROVE  RowsFit(t, E)'
BY DEF RowsFit, NothingFailed, Divides, ItemsOf

\* A request keeps the rows of tasks for which no request has been overtaken.
LEMMA RequestKeepsRows ==
  ASSUME UploadTypeOK, KnownOnce, CleanInv, NEW r \in Reqs, UCall(r) \/ UStep(r),
         NEW t \in Tasks, Fair(t)', NEW D, InTurn(t, D), RowsFit(t, D),
         NEW n, NEW E, E \subseteq D \cup {n},
         n \in E \ D => UploadPublish(r) /\ rtask[r] = t /\ taskLog'[n].items = ritems[r],
         \A k \in D : taskLog'[k].items = taskLog[k].items
  PROVE  RowsFit(t, E)'
<1> USE DEF Goto
<1>f. t \notin raced' /\ ItemsOf(t) # {} /\ \A i \in ItemsOf(t) : i \in Items /\ TaskOf[i] = t
  BY DEF Fair, ItemsOf
<1>t. /\ rphase \in [Reqs -> RPhase] /\ rtask \in [Reqs -> Tasks] /\ status \in [Tasks -> TaskStatus]
      /\ itemStatus \in [Items -> ItemStatus] /\ ritems \in [Reqs -> SUBSET Items]
  BY DEF UploadTypeOK, UTypeOK, StoreTypeOK
<1>n. ~UploadPublish(r) \/ rtask[r] # t => E \subseteq D
  OBVIOUS
\* An upload between claim and publication, or another request.
<1>s. ASSUME \A p \in Reqs : rtask'[p] = t /\ rphase'[p] \in {"stage", "publish"} =>
               /\ rphase[p] \in {"stage", "publish"} /\ rtask[p] = t /\ ritems'[p] = ritems[p],
             \A i \in ItemsOf(t) : itemStatus'[i] = itemStatus[i]
      PROVE  \A p \in Reqs : rtask'[p] = t /\ rphase'[p] \in {"stage", "publish"} =>
               Divides(ritems[p], t)'
  <2>1. \A p \in Reqs : rtask[p] = t /\ rphase[p] \in {"stage", "publish"} =>
          \A i \in ItemsOf(t) : itemStatus[i] = IF i \in ritems[p] THEN "pending" ELSE "uploaded"
    BY DEF RowsFit, Divides
  <2>2. \A p \in Reqs : rtask'[p] = t /\ rphase'[p] \in {"stage", "publish"} =>
          \A i \in ItemsOf(t) : itemStatus'[i] = IF i \in ritems'[p] THEN "pending" ELSE "uploaded"
    BY <1>s, <2>1
  <2>3. QED BY <2>2 DEF Divides, ItemsOf
<1>1. CASE UCall(r)
  <2>1. PICK u \in Tasks : \E items \in SUBSET Items :
          /\ rphase[r] = "idle" /\ rtask' = [rtask EXCEPT ![r] = u]
          /\ ritems' = [ritems EXCEPT ![r] = items] /\ UNCHANGED <<status, itemStatus>>
          /\ \E q \in {"classify", "confirm", "retry", "claim"} : rphase' = [rphase EXCEPT ![r] = q]
    BY <1>1 DEF UCall, ClassifyRead, ConfirmRead, RetryRead, UploadRead, Begin, UploadItems, ItemsOf,
       storeVars
  <2>2. \A p \in Reqs : rphase'[p] \in {"stage", "publish"} =>
          rphase[p] = rphase'[p] /\ rtask'[p] = rtask[p] /\ ritems'[p] = ritems[p]
    BY <1>t, <2>1
  <2>3. Marking(t) => Marking(t)'
    BY <1>t, <2>1 DEF Marking
  <2>4. ~UploadPublish(r)
    BY <2>1 DEF UploadPublish
  <2>5. QED BY <1>n, <1>s, <2>1, <2>2, <2>3, <2>4, SameRows
\* Of another task.
<1>2. ASSUME UStep(r), rtask[r] # t PROVE RowsFit(t, E)'
  <2>1. /\ UNCHANGED <<rtask, ritems>> /\ status'[t] = status[t]
        /\ \A i \in ItemsOf(t) : itemStatus'[i] = itemStatus[i]
        /\ \E q \in RPhase : rphase' = [rphase EXCEPT ![r] = q]
    BY <1>2, <1>f DEF UStep, ClassifyCommit, ClassifyConflict, ConfirmCommit, RetryCommit,
       UploadClaim, UploadBusy, UploadStage, UploadStageFails, UploadPublish, UploadPublishFails,
       AfterFailure, UploadCompensate, UploadMark, UploadRelease, AppendTask, requestVars,
       loadedVars, storeVars, dbVars, RPhase, ItemsOf, UploadTypeOK, StoreTypeOK
  <2>2. Marking(t) => Marking(t)'
    BY <1>2, <1>t, <2>1 DEF Marking
  <2>3. \A p \in Reqs : rtask'[p] = t => rphase'[p] = rphase[p]
    BY <1>2, <1>t, <2>1
  <2>4. QED BY <1>2, <1>n, <1>s, <2>1, <2>2, <2>3, SameRows
<1>3. ASSUME ClassifyCommit(r), rtask[r] = t PROVE RowsFit(t, E)'
  <2>1. /\ \A i \in ItemsOf(t) : itemStatus[i] = "none" /\ itemStatus'[i] = "pending"
        /\ status'[t] \in {"classified", status[t]} /\ rtask' = rtask
        /\ rphase[r] = "classify" /\ rphase' = [rphase EXCEPT ![r] = "idle"]
    BY <1>3, <1>f, <1>t DEF ClassifyCommit, requestVars, loadedVars
  <2>2. status[t] = "draft"
    BY <1>f, <2>1 DEF KnownOnce, Known
  <2>3. E = {} /\ \A p \in Reqs : rtask[p] = t => rphase'[p] \notin {"stage", "publish"}
    BY <1>n, <1>t, <2>1, <2>2 DEF InTurn, UploadPublish
  <2>4. QED BY <2>1, <2>2, <2>3 DEF RowsFit, ItemsOf
<1>4. ASSUME ConfirmCommit(r), rtask[r] = t PROVE RowsFit(t, E)'
  <2>1. /\ rphase[r] = "confirm" /\ rphase' = [rphase EXCEPT ![r] = "idle"]
        /\ UNCHANGED <<rtask, itemStatus>> /\ status[t] = rseen[r] /\ status'[t] = "confirmed"
    BY <1>4, <1>f, <1>t DEF ConfirmCommit, RaceIf, Stale, loadedVars
  <2>2. status[t] = "classified"
    BY <2>1 DEF KnownOnce
  <2>3. E = {} /\ \A p \in Reqs : rtask[p] = t => rphase'[p] \notin {"stage", "publish"}
    BY <1>n, <1>t, <2>1, <2>2 DEF InTurn, UploadPublish
  <2>4. \A i \in ItemsOf(t) : itemStatus'[i] = "pending"
    BY <2>1, <2>2 DEF RowsFit
  <2>5. QED BY <2>1, <2>3, <2>4 DEF RowsFit, NothingFailed, ItemsOf
<1>5. ASSUME RetryCommit(r), rtask[r] = t PROVE RowsFit(t, E)'
  <2>1. /\ rphase[r] = "retry" /\ rphase' = [rphase EXCEPT ![r] = "idle"]
        /\ UNCHANGED <<rtask, ritems, taskLog>>
        /\ \A i \in ItemsOf(t) : itemStatus'[i] = IF itemStatus[i] = "failed" THEN "pending"
                                                  ELSE itemStatus[i]
        /\ \/ status'[t] = status[t]
           \/ status[t] \in {"failed", "partial_failed"} /\ status'[t] = "confirmed"
    BY <1>5, <1>f, <1>t DEF RetryCommit, RaceIf, Stale, loadedVars, brokerVars
  <2>2. E \subseteq D /\ (Marking(t) => Marking(t)')
    BY <1>n, <1>t, <2>1 DEF UploadPublish, Marking
  <2>3. \A p \in Reqs : rphase'[p] \in {"stage", "publish"} => rphase[p] = rphase'[p]
    BY <1>t, <2>1
  <2>4. CASE status'[t] = status[t]
    <3>1. /\ status[t] = "confirmed" /\ ~Marking(t)' =>
               \A i \in ItemsOf(t) : itemStatus'[i] \in {"pending", "uploaded"}
          /\ status[t] = "classified" => \A i \in ItemsOf(t) : itemStatus'[i] = "pending"
          /\ status[t] = "uploaded" => \A i \in ItemsOf(t) : itemStatus'[i] = "uploaded"
      BY <2>1, <2>2 DEF RowsFit, NothingFailed
    <3>2. \A S : Divides(S, t) => \A i \in ItemsOf(t) : itemStatus'[i] = itemStatus[i]
      BY <2>1 DEF Divides
    <3>3. \A S : Divides(S, t) => Divides(S, t)'
      BY <3>2 DEF Divides, ItemsOf
    <3>4. \A k \in E : Divides(taskLog[k].items, t)'
      BY <2>1, <2>2, <3>3 DEF RowsFit, Divides, ItemsOf
    <3>5. \A p \in Reqs : rtask[p] = t /\ rphase'[p] \in {"stage", "publish"} => Divides(ritems[p], t)'
      BY <2>1, <2>3, <3>3 DEF RowsFit, Divides, ItemsOf
    <3>6. QED BY <2>1, <2>4, <3>1, <3>4, <3>5 DEF RowsFit, NothingFailed, ItemsOf
  <2>5. CASE status[t] \in {"failed", "partial_failed"} /\ status'[t] = "confirmed"
    <3>1. E = {} /\ \A p \in Reqs : rtask[p] = t => rphase'[p] \notin {"stage", "publish"}
      BY <2>2, <2>3, <2>5 DEF InTurn
    <3>2. \A i \in ItemsOf(t) : itemStatus[i] \in {"pending", "uploaded", "failed"}
      BY <1>f, <1>t, <2>5 DEF KnownOnce, Known, ItemStatus
    <3>3. \A i \in ItemsOf(t) : itemStatus'[i] \in {"pending", "uploaded"}
      BY <2>1, <3>2
    <3>4. QED BY <2>1, <2>5, <3>1, <3>3 DEF RowsFit, NothingFailed, ItemsOf
  <2>6. QED BY <2>1, <2>4, <2>5
<1>6. ASSUME UploadClaim(r), rtask[r] = t PROVE RowsFit(t, E)'
  <2>1. /\ rphase[r] = "claim" /\ UNCHANGED <<status, itemStatus, taskLog, rtask, ritems>>
        /\ \E q \in {"stage", "publish"} : rphase' = [rphase EXCEPT ![r] = q]
        /\ status[t] = rseen[r] /\ ritems[r] = UploadItems(t) /\ ~Rivalled(r)
    BY <1>6, <1>f, ClaimIsFair
  <2>2. status[t] = "confirmed"
    BY <2>1 DEF KnownOnce
  <2>3. ~Marking(t) /\ \A p \in Reqs \ {r} : rtask[p] = t => rphase[p] \notin {"stage", "publish"}
    BY <1>6, <2>1 DEF Rivalled, Marking, Sending
  <2>4. NothingFailed(t) /\ Clean(t)
    BY <2>2, <2>3 DEF RowsFit, CleanInv
  <2>5. Divides(ritems[r], t)
    BY <1>f, <2>1, <2>4 DEF NothingFailed, Clean, Divides, UploadItems
  <2>6. \A p \in Reqs : rtask'[p] = t /\ rphase'[p] \in {"stage", "publish"} => Divides(ritems[p], t)'
    BY <1>t, <2>1, <2>3, <2>5 DEF Divides, ItemsOf
  <2>7. E \subseteq D
    BY <1>n, <2>1 DEF UploadPublish
  <2>8. QED BY <2>1, <2>3, <2>6, <2>7, SameRows
<1>7. ASSUME UploadPublish(r), rtask[r] = t PROVE RowsFit(t, E)'
  <2>1. /\ rphase[r] = "publish" /\ rphase' = [rphase EXCEPT ![r] = "mark"]
        /\ UNCHANGED <<status, itemStatus, rtask, ritems>>
    BY <1>7 DEF UploadPublish, AppendTask, requestVars, loadedVars, dbVars
  <2>2. D = {} /\ status[t] = "confirmed" /\ Divides(ritems[r], t)
    BY <1>7, <2>1 DEF InTurn, RowsFit
  <2>3. \A k \in E : k = n /\ taskLog'[k].items = ritems[r]
    BY <2>2
  <2>4. \A k \in E : Divides(taskLog[k].items, t)'
    BY <2>1, <2>2, <2>3 DEF Divides, ItemsOf
  <2>5. \A p \in Reqs : rtask[p] = t => rphase'[p] \notin {"stage", "publish"}
    BY <1>7, <1>t, <2>1 DEF InTurn, Sending
  <2>6. Marking(t)'
    BY <1>7, <1>t, <2>1 DEF Marking
  <2>7. QED BY <2>1, <2>2, <2>4, <2>5, <2>6 DEF RowsFit
<1>8. ASSUME UploadMark(r), rtask[r] = t PROVE RowsFit(t, E)'
  <2>1. /\ rphase[r] = "mark" /\ rphase' = [rphase EXCEPT ![r] = "release"]
        /\ status'[t] = "queued" /\ UNCHANGED <<rtask, itemStatus, taskLog>>
    BY <1>8, <1>t DEF UploadMark, requestVars, loadedVars, brokerVars
  <2>2. \A p \in Reqs : rtask[p] = t => rphase'[p] \notin {"stage", "publish"}
    BY <1>8, <1>t, <2>1 DEF InTurn, Sending
  <2>3. \A k \in E : Divides(taskLog[k].items, t)'
    BY <1>n, <2>1 DEF RowsFit, Divides, UploadPublish, ItemsOf
  <2>4. QED BY <2>1, <2>2, <2>3 DEF RowsFit
<1>9. ASSUME \/ ClassifyConflict(r) \/ UploadBusy(r) \/ UploadStage(r) \/ UploadStageFails(r)
             \/ UploadPublishFails(r) \/ UploadCompensate(r) \/ UploadRelease(r),
             rtask[r] = t
      PROVE  RowsFit(t, E)'
  <2>1. UploadGoesOn(r) /\ rphase[r] # "mark"
    BY <1>9, StepsGoOn
  <2>2. UNCHANGED <<status, itemStatus, taskLog, rtask, ritems>>
    BY <2>1 DEF UploadGoesOn
  <2>3. \A p \in Reqs : p # r => rphase'[p] = rphase[p]
    BY <1>t, <2>1 DEF UploadGoesOn
  <2>4. rphase'[r] \in {"stage", "publish"} => rphase[r] \in {"stage", "publish"}
    BY <1>t, <2>1 DEF UploadGoesOn
  <2>5. Marking(t) => Marking(t)'
    BY <2>1, <2>2, <2>3 DEF Marking
  <2>6. ~UploadPublish(r)
    BY <1>t, <2>1 DEF UploadGoesOn, UploadPublish
  <2>7. \A p \in Reqs : rphase'[p] \in {"stage", "publish"} => rphase[p] \in {"stage", "publish"}
    BY <2>3, <2>4
  <2>8. QED BY <1>n, <1>s, <2>2, <2>5, <2>6, <2>7, SameRows
<1>10. QED
  BY <1>1, <1>2, <1>3, <1>4, <1>5, <1>6, <1>7, <1>8, <1>9 DEF UStep

LEMMA ApiKeepsRows ==
  ASSUME SystemInv, CalmFlights, CleanInv, CalmRows, NEW r \in Reqs, UCall(r) \/ UStep(r),
         UNCHANGED consumerVars
  PROVE  CalmRows'
<1>t. UploadTypeOK
  BY DEF SystemInv, SystemTypes
<1>1. KnownOnce
  BY DEF CalmFlights
<1>2. /\ UNCHANGED <<resultLog, resultOffset, pending>>
      /\ \A k \in DOMAIN taskLog : k \in DOMAIN taskLog' /\ taskLog'[k] = taskLog[k]
      /\ \A k \in DOMAIN taskLog' : k \notin DOMAIN taskLog =>
           /\ k = Len(taskLog) + 1 /\ UploadPublish(r)
           /\ taskLog'[k].task = rtask[r] /\ taskLog'[k].items = ritems[r]
  BY <1>t, RequestsPublish, ApiLeavesOutcome, ConsumersUntouched DEF ApiStep
<1>3. \A k \in Open' : k \in DOMAIN taskLog' /\ (k \in DOMAIN taskLog => k \in Open)
  BY <1>2 DEF Open, OpenResult
<1>4. ASSUME NEW t \in Tasks, Fair(t)' PROVE RowsFit(t, Due(t))'
  <2>1. Fair(t)
    BY <1>4, RacedGrows DEF Fair, ItemsOf
  <2>2. PICK D, E : D = Due(t) /\ E = Due(t)'
    OBVIOUS
  <2>3. InTurn(t, D) /\ RowsFit(t, D)
    BY <2>1, <2>2 DEF CalmFlights, CalmRows
  <2>4. \A k \in D : taskLog'[k].items = taskLog[k].items
    BY <1>2, <2>2 DEF Due, Open
  <2>5. PICK n : n = Len(taskLog) + 1
    OBVIOUS
  <2>6. \A k \in E : \/ k \in D
                     \/ /\ k = n /\ UploadPublish(r) /\ rtask[r] = t
                        /\ taskLog'[k].items = ritems[r]
    BY <1>2, <1>3, <2>2, <2>5 DEF Due
  <2>7. /\ E \subseteq D \cup {n}
        /\ n \in E \ D => UploadPublish(r) /\ rtask[r] = t /\ taskLog'[n].items = ritems[r]
    BY <2>6
  <2>8. RowsFit(t, E)'
    BY <1>t, <1>1, <1>4, <2>3, <2>4, <2>7, RequestKeepsRows
  <2>9. QED BY <2>2, <2>8 DEF RowsFit
<1>5. QED BY <1>4 DEF CalmRows

WholeResults == \A j \in DOMAIN resultLog :
  resultLog[j].status = "uploaded" => resultLog[j].failed = {}

LEMMA ResultsSayWhole == SystemSafety => []WholeResults
<1>1. SystemInit => WholeResults
  BY DEF SystemInit, StoreInit, WholeResults
<1>2. SystemInv /\ WholeResults /\ [SystemNext]_systemVars => WholeResults'
  <2> SUFFICES ASSUME SystemInv, WholeResults, [SystemNext]_systemVars PROVE WholeResults'
    OBVIOUS
  <2>t. UploadTypeOK /\ WTypeInv /\ resultLog \in Seq(ResultMsg)
    BY DEF SystemInv, SystemTypes, UploadTypeOK, StoreTypeOK
  <2>1. ASSUME resultLog' = resultLog PROVE WholeResults'
    BY <2>1 DEF WholeResults
  <2>2. CASE WProduce
    <3>1. PICK m : /\ resultLog' = Append(resultLog, m)
                   /\ m.status = "uploaded" => m.failed = {}
      BY <2>2 DEF WProduce
    <3>2. resultLog \in Seq(ResultMsg \cup {m}) /\ m \in ResultMsg \cup {m}
      BY <2>t, SeqMonotonic
    <3>3. \A j \in DOMAIN resultLog' :
            (j \in DOMAIN resultLog /\ resultLog'[j] = resultLog[j]) \/ resultLog'[j] = m
      BY <3>1, <3>2, AppendProperties
    <3>4. QED BY <3>1, <3>3 DEF WholeResults
  <2>3. (WStep /\ ~WProduce) \/ WCrash => resultLog' = resultLog
    BY DEF WStep, WFetch, WDeadLetter, WBatchReady, WStart, WAck, WAckDeadLetter, WAcquireSlot,
       WResolve, WResolveFails, WUpload, WUploadFails, WCrash, storeVars
  <2>4. ApiStep => resultLog' = resultLog
    BY <2>t, ApiLeavesOutcome
  <2>5. (\E c \in Consumers : CStep(c)) \/ CFault \/ UNCHANGED systemVars => resultLog' = resultLog
    BY ConsumerLeavesStore DEF systemVars, storeVars
  <2>6. QED BY <2>1, <2>2, <2>3, <2>4, <2>5, WhoMoves
<1>3. QED BY <1>1, <1>2, SystemInvariant, PTL DEF SystemSafety

\* A session that commits will write the verdict of what it has applied, for
\* tasks without races.
Verdicts(c) == \A j \in pending[c] : Fair(resultLog[j].task) =>
  /\ \A i \in resultLog[j].uploaded : wItem[c][i] = "uploaded"
  /\ \A i \in resultLog[j].failed : wItem[c][i] = "failed"

\* A snapshot shows as pending what the rest of its batch will decide about.
Fresh(c) ==
  cphase[c] \in {"lease", "apply", "ack", "release"} =>
    \A n \in DOMAIN cbatch[c] :
      /\ cbatch[c][n] > resultOffset /\ cbatch[c][n] \notin pending[c]
      /\ Fair(resultLog[cbatch[c][n]].task)
      => \A i \in taskLog[resultLog[cbatch[c][n]].cause].items : view[c].item[i] = "pending"

SessionRows == \A c \in Consumers : Verdicts(c) /\ Fresh(c)

\* A session left alone, while topics grow.
LEMMA SameSession ==
  ASSUME SystemInv, NEW c \in Consumers, Verdicts(c), Fresh(c),
         UNCHANGED <<cphase[c], cbatch[c], pending[c], wItem[c], view[c], resultOffset>>,
         raced \subseteq raced', DOMAIN taskLog \subseteq DOMAIN taskLog',
         \A k \in DOMAIN taskLog : taskLog'[k] = taskLog[k],
         \A j \in DOMAIN resultLog : resultLog'[j] = resultLog[j]
  PROVE  Verdicts(c)' /\ Fresh(c)'
<1>1. /\ pending[c] \subseteq DOMAIN resultLog /\ CausesInRange
      /\ \A n \in DOMAIN cbatch[c] : cbatch[c][n] \in DOMAIN resultLog
  <2>1. CShape /\ CausesInRange
    BY DEF SystemInv, SystemTypes, ResultInv
  <2>2. cbatch[c] \in Seq(Nat) /\ SessionShape(c) /\ ReadableRun(cbatch[c])
    BY <2>1 DEF CShape, SessionTypes, BatchShape
  <2>3. DOMAIN cbatch[c] = 1 .. Len(cbatch[c])
    BY <2>2
  <2>4. QED BY <2>1, <2>2, <2>3 DEF SessionShape, ReadableRun
<1>2. Verdicts(c)'
  BY <1>1 DEF Verdicts, Fair, ItemsOf
<1>3. Fresh(c)'
  BY <1>1 DEF Fresh, CausesInRange, Fair, ItemsOf
<1>4. QED BY <1>2, <1>3

\* A session that has ended.
LEMMA EndedSession ==
  ASSUME NEW c \in Consumers, pending'[c] = {}, cphase'[c] = "idle"
  PROVE  Verdicts(c)' /\ Fresh(c)'
BY DEF Verdicts, Fresh

\* What a batch has still to decide about is open.
LEMMA AheadIsOpen ==
  ASSUME SystemInv, ReadOnce, NEW j \in DOMAIN resultLog, j > resultOffset
  PROVE  /\ resultLog[j].cause \in Open
         /\ resultLog[j].task = taskLog[resultLog[j].cause].task
<1>1. CausesInRange /\ ResultsComplete
  BY DEF SystemInv, ResultInv
<1>2. \A n \in DOMAIN resultLog : resultLog[n].cause = resultLog[j].cause => n = j
  BY DEF ReadOnce, AnsweredOnce
<1>3. QED BY <1>1, <1>2 DEF CausesInRange, ResultsComplete, Open, OpenResult

\* The items of a result are those of its message, and of its task.
LEMMA ResultItems ==
  ASSUME SystemInv, Plain, NEW j \in DOMAIN resultLog
  PROVE  /\ resultLog[j].uploaded \cup resultLog[j].failed = taskLog[resultLog[j].cause].items
         /\ resultLog[j].uploaded \cap resultLog[j].failed = {}
         /\ taskLog[resultLog[j].cause].items \subseteq ItemsOf(resultLog[j].task)
<1>1. CausesInRange /\ ResultsComplete
  BY DEF SystemInv, ResultInv
<1>2. resultLog[j].cause \in DOMAIN taskLog
  BY <1>1 DEF CausesInRange
<1>3. QED BY <1>1, <1>2 DEF ResultsComplete, Plain, Selected

\* Applying a result writes its verdict on every item it names: the session
\* sees them pending.
LEMMA ApplyKeepsVerdicts ==
  ASSUME SystemInv, ReadOnce, OneCaller, CalmFlights, Plain, NEW c \in Consumers, Verdicts(c),
         Fresh(c), CApply(c), raced' = raced
  PROVE  Verdicts(c)'
<1>0. PICK h, m : h = Head(cbatch[c]) /\ m = Record(c)
  OBVIOUS
<1>t. /\ CShape /\ BatchShape(c) /\ SessionShape(c) /\ Reading(c) /\ SessionTypes
      /\ resultLog \in Seq(ResultMsg)
  BY DEF SystemInv, SystemTypes, CShape, OneCaller, UploadTypeOK, StoreTypeOK
<1>1. /\ cphase[c] = "apply" /\ cbatch[c] # <<>> /\ resultLog' = resultLog
      /\ wItem' = [wItem EXCEPT ![c] = ItemWrites(c)]
      /\ pending' = [pending EXCEPT ![c] = @ \cup {h}]
  BY <1>0, <1>t DEF CApply, BatchShape, topicVars
<1>2. wItem'[c] = ItemWrites(c) /\ pending'[c] = pending[c] \cup {h}
  BY <1>1, <1>t DEF SessionTypes
<1>3. h \in DOMAIN resultLog /\ m = resultLog[h] /\ h > resultOffset /\ h \notin pending[c]
  <2>1. h \in DOMAIN resultLog /\ h \in Nat
    BY <1>0, <1>1, <1>t, RecordAtHand
  <2>2. QED BY <1>0, <1>1, <1>t, <2>1 DEF Record, Reading, SessionShape
<1>4. /\ m.uploaded \cup m.failed = taskLog[m.cause].items
      /\ m.uploaded \cap m.failed = {}
      /\ m.uploaded \cup m.failed \subseteq ItemsOf(m.task)
      /\ m.cause \in Open /\ taskLog[m.cause].task = m.task
  BY <1>3, ResultItems, AheadIsOpen
<1>5. Fair(m.task) => \A i \in m.uploaded \cup m.failed : view[c].item[i] = "pending"
  <2>1. 1 \in DOMAIN cbatch[c] /\ cbatch[c][1] = h
    BY <1>0, <1>1, <1>t DEF SessionTypes
  <2>2. QED BY <1>1, <1>3, <1>4, <2>1 DEF Fresh
<1>6. ASSUME Fair(m.task)
      PROVE  /\ \A i \in m.uploaded : ItemWrites(c)[i] = "uploaded"
             /\ \A i \in m.failed : ItemWrites(c)[i] = "failed"
  <2>1. \A i \in m.uploaded \cup m.failed :
          i \in Items /\ ItemWrites(c)[i] = IF SeenItem(c, i) # (IF i \in m.uploaded THEN "uploaded" ELSE "failed")
                                THEN IF i \in m.uploaded THEN "uploaded" ELSE "failed"
                                ELSE wItem[c][i]
    BY <1>0, <1>4 DEF ItemWrites, ItemsOf
  <2>2. \A i \in m.uploaded \cup m.failed : SeenItem(c, i) = wItem[c][i] \/ SeenItem(c, i) = "pending"
    BY <1>5, <1>6 DEF SeenItem
  <2>3. QED BY <1>4, <2>1, <2>2
<1>7. ASSUME NEW j \in pending[c], Fair(resultLog[j].task)
      PROVE  \A i \in resultLog[j].uploaded \cup resultLog[j].failed :
               i \in Items /\ ItemWrites(c)[i] = wItem[c][i]
  <2>1. /\ j \in DOMAIN resultLog /\ resultLog[j].cause \in Open
        /\ resultLog[j].task = taskLog[resultLog[j].cause].task
    BY PendingIsOpen
  <2>2. resultLog[j].uploaded \cup resultLog[j].failed \subseteq ItemsOf(resultLog[j].task)
    BY <2>1, ResultItems
  <2>3. resultLog[j].task # m.task
    <3>1. resultLog[j].cause # m.cause
      BY <1>3, <2>1 DEF ReadOnce, AnsweredOnce
    <3>2. resultLog[j] \in ResultMsg
      BY <1>t, <2>1
    <3>3. resultLog[j].task \in Tasks
      BY <3>2 DEF ResultMsg
    <3>4. QED BY <1>4, <1>7, <2>1, <3>1, <3>3, OneDue
  <2>4. \A i \in ItemsOf(resultLog[j].task) : i \in Items /\ i \notin m.uploaded \cup m.failed
    BY <1>4, <2>3 DEF ItemsOf
  <2>5. QED BY <1>0, <2>2, <2>4 DEF ItemWrites
<1>8. ASSUME NEW j \in pending'[c], Fair(resultLog[j].task)
      PROVE  /\ \A i \in resultLog[j].uploaded : wItem'[c][i] = "uploaded"
             /\ \A i \in resultLog[j].failed : wItem'[c][i] = "failed"
  <2>1. CASE j = h
    BY <1>2, <1>3, <1>6, <1>8, <2>1
  <2>2. CASE j \in pending[c]
    BY <1>2, <1>7, <1>8, <2>2 DEF Verdicts
  <2>3. QED BY <1>2, <2>1, <2>2
<1>9. QED BY <1>1, <1>8 DEF Verdicts, Fair, ItemsOf

\* What is left of a batch was in it before.
LEMMA TailWithin ==
  ASSUME NEW b \in Seq(Nat), b # <<>>, NEW n \in DOMAIN Tail(b)
  PROVE  n + 1 \in DOMAIN b /\ Tail(b)[n] = b[n + 1]
<1>1. /\ Tail(b) \in Seq(Nat) /\ Len(Tail(b)) = Len(b) - 1
      /\ \A k \in 1 .. Len(Tail(b)) : Tail(b)[k] = b[k + 1]
  BY HeadTailProperties
<1>2. DOMAIN Tail(b) = 1 .. Len(b) - 1 /\ DOMAIN b = 1 .. Len(b) /\ Len(b) \in Nat
  BY <1>1
<1>3. QED BY <1>1, <1>2

\* A step of a call keeps what its session will write and what it sees.
LEMMA CallKeepsOwn ==
  ASSUME SystemInv, ReadOnce, OneCaller, CalmFlights, Plain, CalmRows,
         NEW c \in Consumers, Verdicts(c), Fresh(c), CStep(c) \/ CError(c) \/ CCrash(c),
         raced' = raced
  PROVE  Verdicts(c)' /\ Fresh(c)' /\ \A d \in Consumers : d # c => UNCHANGED <<cphase[d], pending[d]>>
<1> DEFINE Goal == /\ Verdicts(c)' /\ Fresh(c)'
                   /\ \A d \in Consumers : d # c => UNCHANGED <<cphase[d], pending[d]>>
<1>t. /\ SessionTypes /\ BatchShape(c) /\ SessionShape(c) /\ Reading(c)
      /\ cbatch[c] \in Seq(Nat) /\ resultOffset \in Nat
      /\ \A n \in DOMAIN cbatch[c] : cbatch[c][n] \in Nat /\ cbatch[c][n] \in DOMAIN resultLog
  <2>1. CShape /\ SessionTypes /\ BatchShape(c) /\ SessionShape(c) /\ Reading(c)
    BY DEF SystemInv, SystemTypes, CShape, OneCaller
  <2>2. cbatch[c] \in Seq(Nat)
    BY <2>1 DEF SessionTypes
  <2>3. DOMAIN cbatch[c] = 1 .. Len(cbatch[c])
    BY <2>2
  <2>4. QED BY <2>1, <2>2, <2>3 DEF SessionTypes, BatchShape, ReadableRun
<1>r. resultLog \in Seq(ResultMsg)
  BY DEF SystemInv, SystemTypes, UploadTypeOK, StoreTypeOK
<1>0. taskLog' = taskLog /\ resultLog' = resultLog
  BY ConsumerLeavesStore DEF CFault
<1>1. ASSUME CPoll(c) \/ CReturn(c) PROVE Goal
  <2>1. /\ UNCHANGED <<wItem, pending>>
        /\ \E q \in {"first", "commit"} : cphase' = [cphase EXCEPT ![c] = q]
    BY <1>1 DEF CPoll, CReturn, sessionVars
  <2>2. QED BY <1>t, <1>0, <2>1 DEF Verdicts, Fresh, Fair, ItemsOf, SessionTypes
<1>2. ASSUME CLease(c) PROVE Goal
  <2>1. /\ UNCHANGED <<wItem, pending, cbatch, resultOffset>>
        /\ cphase' = [cphase EXCEPT ![c] = "apply"] /\ cphase[c] \in {"first", "lease"}
        /\ \/ cphase[c] = "lease" /\ view' = view
           \/ view' = [view EXCEPT ![c] = [status |-> status, item |-> itemStatus,
                                           objects |-> objects]]
    BY <1>2 DEF CLease, storeVars
  <2>2. Verdicts(c)' /\ \A d \in Consumers : d # c => UNCHANGED <<cphase[d], pending[d]>>
    BY <1>t, <1>0, <2>1 DEF Verdicts, Fair, ItemsOf, SessionTypes
  <2>3. CASE cphase[c] = "lease" /\ view' = view
    BY <1>0, <2>1, <2>2, <2>3 DEF Fresh, Fair, ItemsOf
  <2>4. CASE view' = [view EXCEPT ![c] = [status |-> status, item |-> itemStatus, objects |-> objects]]
    <3>1. view'[c].item = itemStatus
      BY <1>t, <2>4 DEF SessionTypes
    <3>2. ASSUME NEW j \in DOMAIN resultLog, j > resultOffset, Fair(resultLog[j].task)
          PROVE  \A i \in taskLog[resultLog[j].cause].items : itemStatus[i] = "pending"
      <4>1. /\ resultLog[j].cause \in Open
            /\ resultLog[j].task = taskLog[resultLog[j].cause].task
            /\ taskLog[resultLog[j].cause].items \subseteq ItemsOf(resultLog[j].task)
        BY <3>2, AheadIsOpen, ResultItems
      <4>2. resultLog[j].task \in Tasks
        <5>1. resultLog[j] \in ResultMsg
          BY <1>r
        <5>2. QED BY <5>1 DEF ResultMsg
      <4>3. RowsFit(resultLog[j].task, Due(resultLog[j].task))
        BY <3>2, <4>2 DEF CalmRows
      <4>4. Divides(taskLog[resultLog[j].cause].items, resultLog[j].task)
        BY <4>1, <4>3 DEF RowsFit, Due
      <4>5. QED BY <4>1, <4>4 DEF Divides
    <3>3. Fresh(c)'
      BY <1>t, <1>0, <2>1, <3>1, <3>2 DEF Fresh, Fair, ItemsOf
    <3>4. QED BY <2>2, <3>3
  <2>5. QED BY <2>1, <2>3, <2>4
<1>3. ASSUME CSkip(c) \/ CRelease(c) PROVE Goal
  <2>1. /\ UNCHANGED <<wItem, pending, view, resultOffset>> /\ cbatch[c] # <<>>
        /\ cbatch' = [cbatch EXCEPT ![c] = Tail(@)]
        /\ \/ cphase' = cphase /\ cphase[c] \in {"first", "lease"}
           \/ cphase' = [cphase EXCEPT ![c] = "lease"] /\ cphase[c] = "release"
    BY <1>3, <1>t DEF CSkip, CRelease, sessionVars, storeVars, BatchShape
  <2>2. /\ Verdicts(c)' /\ cbatch'[c] = Tail(cbatch[c])
        /\ \A d \in Consumers : d # c => UNCHANGED <<cphase[d], pending[d]>>
    BY <1>t, <1>0, <2>1 DEF Verdicts, Fair, ItemsOf, SessionTypes
  <2>3. \A n \in DOMAIN cbatch'[c] : n + 1 \in DOMAIN cbatch[c] /\ cbatch'[c][n] = cbatch[c][n + 1]
    BY <1>t, <2>1, <2>2, TailWithin
  <2>4. cphase'[c] \in {"lease", "apply", "ack", "release"}
          => cphase[c] \in {"lease", "apply", "ack", "release"}
    BY <1>t, <2>1 DEF SessionTypes
  <2>5. Fresh(c)'
    <3>1. SUFFICES ASSUME cphase'[c] \in {"lease", "apply", "ack", "release"},
                          NEW n \in DOMAIN cbatch'[c],
                          cbatch'[c][n] > resultOffset', cbatch'[c][n] \notin pending'[c],
                          Fair(resultLog[cbatch[c][n + 1]].task)
                   PROVE  \A i \in taskLog[resultLog[cbatch[c][n + 1]].cause].items :
                            view'[c].item[i] = "pending"
      BY <1>0, <2>3 DEF Fresh, Fair, ItemsOf
    <3>2. n + 1 \in DOMAIN cbatch[c] /\ cbatch'[c][n] = cbatch[c][n + 1]
      BY <2>3
    <3>3. QED BY <2>1, <2>4, <3>1, <3>2 DEF Fresh
  <2>6. QED BY <2>2, <2>5
<1>4. ASSUME CApply(c) PROVE Goal
  <2>1. /\ UNCHANGED <<view, cbatch, resultOffset>> /\ cphase[c] = "apply"
        /\ cphase' = [cphase EXCEPT ![c] = "ack"]
        /\ pending' = [pending EXCEPT ![c] = @ \cup {Head(cbatch[c])}]
    BY <1>4 DEF CApply
  <2>2. /\ pending[c] \subseteq pending'[c]
        /\ \A d \in Consumers : d # c => UNCHANGED <<cphase[d], pending[d]>>
    BY <1>t, <2>1 DEF SessionTypes
  <2>3. Fresh(c)'
    BY <1>0, <2>1, <2>2 DEF Fresh, Fair, ItemsOf
  <2>4. QED BY <1>4, <2>2, <2>3, ApplyKeepsVerdicts
<1>5. ASSUME CAck(c) PROVE Goal
  <2>1. /\ UNCHANGED <<view, cbatch, wItem, pending>> /\ cphase[c] = "ack" /\ cbatch[c] # <<>>
        /\ cphase' = [cphase EXCEPT ![c] = "release"] /\ resultOffset' = Head(cbatch[c])
    BY <1>5, <1>t DEF CAck, sessionVars, BatchShape
  <2>2. Head(cbatch[c]) > resultOffset /\ Head(cbatch[c]) \in Nat
    BY <1>t, <2>1 DEF Reading
  <2>3. \A n \in DOMAIN cbatch[c] : cbatch[c][n] > resultOffset' => cbatch[c][n] > resultOffset
    BY <1>t, <2>1, <2>2
  <2>4. /\ Verdicts(c)' /\ \A d \in Consumers : d # c => UNCHANGED <<cphase[d], pending[d]>>
    BY <1>t, <1>0, <2>1 DEF Verdicts, Fair, ItemsOf, SessionTypes
  <2>5. Fresh(c)'
    BY <1>0, <2>1, <2>3 DEF Fresh, Fair, ItemsOf
  <2>6. QED BY <2>4, <2>5
<1>6. ASSUME \/ CCommit(c) \/ CConflict(c) \/ CDeadlock(c) \/ CAckRejected(c) \/ CError(c)
             \/ CCrash(c)
      PROVE Goal
  <2>1. EndSession(c)
    BY <1>6 DEF CCommit, CConflict, CDeadlock, CAckRejected, CError, CCrash, Unwind
  <2>2. /\ pending'[c] = {} /\ cphase'[c] = "idle"
        /\ \A d \in Consumers : d # c => UNCHANGED <<cphase[d], pending[d]>>
    BY <1>t, <2>1 DEF EndSession, SessionTypes
  <2>3. QED BY <2>2, EndedSession
<1>7. QED BY <1>1, <1>2, <1>3, <1>4, <1>5, <1>6 DEF CStep

\* The others are idle, and stay so.
LEMMA CallKeepsSessions ==
  ASSUME SystemInv, ReadOnce, OneCaller, CalmFlights, Plain, CalmRows, SessionRows,
         NEW c \in Consumers, CStep(c) \/ CError(c) \/ CCrash(c), raced' = raced
  PROVE  SessionRows'
<1>1. c = owner
  <2>1. CError(c) \/ CCrash(c) => cphase[c] # "idle"
    BY DEF CError, CCrash
  <2>2. QED BY <2>1, CallerOwns DEF OneCaller, Reading
<1>2. \A d \in Consumers : d # c => cphase[d] = "idle" /\ pending[d] = {}
  BY <1>1 DEF OneCaller, Reading, SystemInv, SystemTypes, CShape, SessionShape
<1>3. Verdicts(c)' /\ Fresh(c)' /\ \A d \in Consumers : d # c => UNCHANGED <<cphase[d], pending[d]>>
  BY CallKeepsOwn DEF SessionRows
<1>4. ASSUME NEW d \in Consumers, d # c PROVE Verdicts(d)' /\ Fresh(d)'
  BY <1>2, <1>3, <1>4, EndedSession
<1>5. QED BY <1>3, <1>4 DEF SessionRows

\* A commit decides about every item of the tasks it has results of.
LEMMA CommitKeepsRows ==
  ASSUME SystemInv, WritesAreResults, ReadOnce, OneCaller, CalmFlights, Plain, WholeResults,
         CalmRows, NEW c \in Consumers, Verdicts(c), CCommit(c), UNCHANGED uploadVars
  PROVE  CalmRows'
<1>t. /\ CShape /\ WritesOf(c) /\ taskLog \in Seq(TaskMsg) /\ resultLog \in Seq(ResultMsg)
  BY DEF SystemInv, SystemTypes, WritesAreResults, UploadTypeOK, StoreTypeOK
<1>u. /\ UNCHANGED <<rphase, rtask, ritems, raced, taskLog, resultLog>>
      /\ \A t : Marking(t)' <=> Marking(t)
  <2>1. UNCHANGED <<rphase, rtask, ritems, raced, taskLog, resultLog>>
    BY ConsumerLeavesStore DEF uploadVars, CStep
  <2>2. QED BY <2>1 DEF Marking
<1>1. /\ status' = [t \in Tasks |-> IF wStatus[c][t] = Keep THEN status[t] ELSE wStatus[c][t]]
      /\ itemStatus' = [i \in Items |-> IF wItem[c][i] = Keep THEN itemStatus[i] ELSE wItem[c][i]]
  BY DEF CCommit
<1>2. \A j \in pending[c] :
        /\ j \in DOMAIN resultLog /\ resultLog[j].cause \in Open
        /\ taskLog[resultLog[j].cause].task = resultLog[j].task
        /\ resultLog[j].uploaded \cup resultLog[j].failed = taskLog[resultLog[j].cause].items
        /\ resultLog[j].uploaded \cup resultLog[j].failed \subseteq ItemsOf(resultLog[j].task)
  BY PendingIsOpen, ResultItems
<1>3. Open' \subseteq Open
  <2>1. \A j \in DOMAIN resultLog : OpenResult(j)' => OpenResult(j)
    BY <1>t, CallOpensNone DEF CStep
  <2>2. QED BY <1>u, <2>1 DEF Open
<1>4. ASSUME NEW t \in Tasks, Fair(t), NEW D, D = Due(t), NEW E, E = Due(t)'
      PROVE  RowsFit(t, E)'
  <2>1. E \subseteq D
    BY <1>3, <1>4, <1>u DEF Due
  <2>2. RowsFit(t, D) /\ InTurn(t, D)
    BY <1>4 DEF CalmRows, CalmFlights
  <2>3. \A i \in ItemsOf(t) : i \in Items /\ TaskOf[i] = t
    BY DEF ItemsOf
\* The session has no result of the task,
  <2>4. ASSUME \A j \in pending[c] : resultLog[j].task # t PROVE RowsFit(t, E)'
    <3>1. wStatus[c][t] = Keep
      BY <1>t, <2>4 DEF WritesOf
    <3>2. \A i \in ItemsOf(t) : wItem[c][i] = Keep
      BY <1>t, <1>2, <2>3, <2>4 DEF WritesOf, ItemsOf
    <3>3. status'[t] = status[t] /\ \A i \in ItemsOf(t) : itemStatus'[i] = itemStatus[i]
      BY <1>1, <2>3, <3>1, <3>2
    <3>4. \A r \in Reqs : rtask'[r] = t /\ rphase'[r] \in {"stage", "publish"} =>
            Divides(ritems[r], t)'
      BY <1>u, <2>2, <3>3 DEF RowsFit, Divides, ItemsOf
    <3>5. QED BY <1>u, <2>1, <2>2, <3>3, <3>4, SameRows
\* or it has the one that answers its open message.
  <2>5. ASSUME NEW j \in pending[c], resultLog[j].task = t PROVE RowsFit(t, E)'
    <3>1. PICK k : k = resultLog[j].cause
      OBVIOUS
    <3>2. /\ k \in D /\ resultLog[j] \in ResultMsg /\ j \in DOMAIN resultLog
          /\ taskLog[k].items = resultLog[j].uploaded \cup resultLog[j].failed
      BY <1>t, <1>2, <1>4, <2>5, <3>1 DEF Due
    <3>3. k \notin E
      BY <1>t, <1>u, <1>4, <3>1, <3>2, CommitCloses DEF Open, Due
    <3>4. E = {}
      BY <2>1, <2>2, <3>2, <3>3 DEF InTurn
    <3>5. /\ status[t] = "queued" \/ (status[t] = "confirmed" /\ Marking(t))
          /\ \A r \in Reqs : rtask[r] = t => rphase[r] \notin {"stage", "publish"}
      BY <2>2, <3>2 DEF InTurn
    <3>6. \A n \in pending[c] : resultLog[n].task = t => n = j
      <4>1. ASSUME NEW n \in pending[c], resultLog[n].task = t PROVE n = j
        <5>1. resultLog[n].cause \in D /\ n \in DOMAIN resultLog
          BY <1>2, <1>4, <4>1 DEF Due
        <5>2. resultLog[n].cause = resultLog[j].cause
          BY <2>2, <3>1, <3>2, <5>1 DEF InTurn
        <5>3. QED BY <3>2, <5>1, <5>2 DEF ReadOnce, AnsweredOnce
      <4>2. QED BY <4>1
    <3>7. wStatus[c][t] # Keep => wStatus[c][t] = resultLog[j].status
      BY <1>t, <3>6 DEF WritesOf
    <3>8. status'[t] = status[t] \/ status'[t] \in {"uploaded", "partial_failed"}
      BY <1>1, <3>2, <3>7 DEF ResultMsg
    <3>9. ASSUME status'[t] = "uploaded", NEW i \in ItemsOf(t) PROVE itemStatus'[i] = "uploaded"
      <4>1. resultLog[j].failed = {}
        BY <1>1, <3>2, <3>5, <3>7, <3>9 DEF WholeResults
      <4>2. CASE i \in taskLog[k].items
        <5>1. wItem[c][i] = "uploaded"
          BY <1>4, <2>5, <3>2, <4>1, <4>2 DEF Verdicts
        <5>2. QED BY <1>1, <2>3, <5>1 DEF Keep
      <4>3. CASE i \notin taskLog[k].items
        <5>1. itemStatus[i] = "uploaded"
          BY <2>2, <3>2, <4>3 DEF RowsFit, Divides
        <5>2. SUFFICES ASSUME wItem[c][i] # Keep PROVE FALSE
          BY <1>1, <2>3, <5>1
        <5>3. PICK n \in pending[c] : i \in resultLog[n].uploaded \cup resultLog[n].failed
          BY <1>t, <2>3, <5>2 DEF WritesOf
        <5>4. resultLog[n].task = t
          BY <1>2, <2>3, <5>3 DEF ItemsOf
        <5>5. QED BY <3>2, <3>6, <4>3, <5>3, <5>4
      <4>4. QED BY <4>2, <4>3
    <3>10. \A i \in ItemsOf(t) : status'[t] = "uploaded" => itemStatus'[i] = "uploaded"
      BY <3>9
    <3>11. QED BY <1>u, <3>4, <3>5, <3>8, <3>10 DEF RowsFit, ItemsOf
  <2>6. QED BY <2>4, <2>5
<1>5. ASSUME NEW t \in Tasks, Fair(t)' PROVE RowsFit(t, Due(t))'
  <2>1. PICK D, E : D = Due(t) /\ E = Due(t)'
    OBVIOUS
  <2>2. Fair(t)
    BY <1>5, <1>u DEF Fair, ItemsOf
  <2>3. RowsFit(t, E)'
    BY <1>4, <2>1, <2>2
  <2>4. QED BY <2>1, <2>3 DEF RowsFit
<1>6. QED BY <1>5 DEF CalmRows

\* Every step of a calm day keeps the rows.
RowsInv == CalmRows /\ SessionRows

LEMMA SystemKeepsRows ==
  ASSUME SystemInv, WritesAreResults, ReadOnce, OneCaller, CalmFlights, CleanInv, Plain,
         WholeResults, RowsInv, [SystemNext]_systemVars, Calm'
  PROVE  RowsInv'
<1>t. /\ UploadTypeOK /\ WTypeInv /\ CShape /\ CalmRows /\ SessionRows /\ taskLog \in Seq(TaskMsg)
  BY DEF SystemInv, SystemTypes, RowsInv, UploadTypeOK, StoreTypeOK
<1>1. ASSUME UNCHANGED <<cphase, cbatch, pending, wItem, view, resultOffset>>,
             raced \subseteq raced',
             \A k \in DOMAIN taskLog : k \in DOMAIN taskLog' /\ taskLog'[k] = taskLog[k],
             \A j \in DOMAIN resultLog : resultLog'[j] = resultLog[j]
      PROVE  SessionRows'
  BY <1>t, <1>1, SameSession DEF SessionRows
<1>2. ASSUME UNCHANGED <<status, itemStatus, taskLog, rphase, rtask, ritems, raced>>,
             DOMAIN resultLog \subseteq DOMAIN resultLog',
             \A j \in DOMAIN resultLog : resultLog'[j] = resultLog[j] /\ (OpenResult(j)' => OpenResult(j))
      PROVE  CalmRows'
  <2>1. Open' \subseteq Open
    BY <1>2 DEF Open
  <2>2. \A t \in Tasks : Marking(t)' <=> Marking(t)
    BY <1>2 DEF Marking
  <2>3. ASSUME NEW t \in Tasks, Fair(t)' PROVE RowsFit(t, Due(t))'
    <3>1. PICK D, E : D = Due(t) /\ E = Due(t)'
      OBVIOUS
    <3>2. E \subseteq D
      BY <1>2, <2>1, <3>1 DEF Due
    <3>3. RowsFit(t, D)
      BY <1>t, <1>2, <2>3, <3>1 DEF CalmRows, Fair, ItemsOf
    <3>4. \A r \in Reqs : rtask'[r] = t /\ rphase'[r] \in {"stage", "publish"} =>
            Divides(ritems[r], t)'
      BY <1>2, <3>3 DEF RowsFit, Divides, ItemsOf
    <3>5. RowsFit(t, E)'
      BY <1>2, <2>2, <3>2, <3>3, <3>4, SameRows
    <3>6. QED BY <3>1, <3>5 DEF RowsFit
  <2>4. QED BY <2>3 DEF CalmRows
<1>3. CASE (\E r \in Reqs : UCall(r) \/ UStep(r)) /\ UNCHANGED <<workerVars, consumerVars>>
  <2>1. CalmRows'
    BY <1>t, <1>3, ApiKeepsRows
  <2>2. /\ raced \subseteq raced' /\ UNCHANGED <<resultLog, resultOffset>>
        /\ \A k \in DOMAIN taskLog : k \in DOMAIN taskLog' /\ taskLog'[k] = taskLog[k]
    BY <1>t, <1>3, RacedGrows, RequestsPublish, ApiLeavesOutcome DEF ApiStep
  <2>3. SessionRows'
    BY <1>1, <1>3, <2>2, ConsumersUntouched
  <2>4. QED BY <2>1, <2>3 DEF RowsInv
<1>4. CASE WStep /\ UNCHANGED <<uploadVars, consumerVars>>
  <2>1. /\ UNCHANGED <<status, itemStatus, taskLog, resultOffset>>
        /\ DOMAIN resultLog \subseteq DOMAIN resultLog'
        /\ \A j \in DOMAIN resultLog : resultLog'[j] = resultLog[j]
    BY <1>t, <1>4, WorkerLeavesRows
  <2>2. /\ UNCHANGED <<cphase, cbatch, pending, wItem, view>>
        /\ UNCHANGED <<rphase, rtask, ritems, raced>>
    BY <1>4, ConsumersUntouched DEF uploadVars
  <2>3. \A j : OpenResult(j)' <=> OpenResult(j)
    BY <2>1, <2>2 DEF OpenResult
  <2>4. QED BY <1>1, <1>2, <2>1, <2>2, <2>3 DEF RowsInv
<1>5. ASSUME NEW c \in Consumers, CStep(c) \/ CError(c) \/ CCrash(c),
             UNCHANGED <<uploadVars, workerVars>>
      PROVE  RowsInv'
  <2>0. UNCHANGED <<rphase, rtask, ritems, raced>>
    BY <1>5 DEF uploadVars
  <2>1. SessionRows'
    BY <1>t, <1>5, <2>0, CallKeepsSessions
  <2>2. CASE CCommit(c)
    BY <1>t, <1>5, <2>1, <2>2, CommitKeepsRows DEF RowsInv, SessionRows
  <2>3. CASE ~CCommit(c)
    <3>1. UNCHANGED <<status, itemStatus>>
      BY <1>5, <2>3 DEF CStep, CPoll, CLease, CSkip, CApply, CAck, CRelease, CReturn, CConflict,
         CDeadlock, CAckRejected, CError, CCrash, Unwind, storeVars, dbVars, rowVars
    <3>2. UNCHANGED <<taskLog, resultLog>>
      BY <1>5, ConsumerLeavesStore DEF CFault
    <3>3. \A j \in DOMAIN resultLog : OpenResult(j)' => OpenResult(j)
      BY <1>t, <1>5, CallOpensNone
    <3>4. QED BY <1>2, <2>0, <2>1, <3>1, <3>2, <3>3 DEF RowsInv
  <2>4. QED BY <2>2, <2>3
<1>6. CASE Unseen
  <2>1. /\ UNCHANGED <<status, itemStatus, taskLog, resultLog, resultOffset>>
        /\ UNCHANGED <<cphase, cbatch, pending, wItem, view, rphase, rtask, ritems, raced>>
    BY <1>6 DEF Unseen, storeVars, sessionVars, requestVars, loadedVars
  <2>2. \A j : OpenResult(j)' <=> OpenResult(j)
    BY <2>1 DEF OpenResult
  <2>3. QED BY <1>1, <1>2, <2>1, <2>2 DEF RowsInv
<1>7. QED BY <1>3, <1>4, <1>5, <1>6, CalmSteps

\* While calm, a task reads "uploaded" only when every one of its items does:
\* through partial failures, retries, second uploads, late results, sessions
\* of the consumer that are rolled back after an ack, and any number of
\* requests side by side, unless one has acted on the task although another
\* had changed it since (apply_delivery_result, upload_task, retry_task).
THEOREM UploadedIsAll == SystemSafety => []UploadedMeansAllOnce
<1>1. SystemInit => RowsInv
  <2> SUFFICES ASSUME SystemInit PROVE RowsInv
    OBVIOUS
  <2>1. /\ taskLog = <<>> /\ status = [t \in Tasks |-> "draft"]
        /\ rphase = [r \in Reqs |-> "idle"] /\ pending = [c \in Consumers |-> {}]
        /\ cphase = [c \in Consumers |-> "idle"]
    BY DEF SystemInit, StoreInit, UInit, CInit
  <2>2. \A t : Due(t) = {}
    <3>1. DOMAIN taskLog = {}
      BY <2>1
    <3>2. QED BY <3>1 DEF Open, Due
  <2>3. QED
    BY <2>1, <2>2 DEF RowsInv, CalmRows, RowsFit, SessionRows, Verdicts, Fresh
<1>2. /\ SystemInv /\ WritesAreResults /\ (wcrashes = 0 => ReadOnce) /\ (moves = 0 => OneCaller)
      /\ (Calm => CalmFlights) /\ CleanInv /\ Plain /\ WholeResults
      /\ (Calm => RowsInv) /\ [SystemNext]_systemVars
      => (Calm => RowsInv)'
  <2> SUFFICES ASSUME SystemInv, WritesAreResults, wcrashes = 0 => ReadOnce,
                      moves = 0 => OneCaller, Calm => CalmFlights, CleanInv, Plain, WholeResults,
                      Calm => RowsInv, [SystemNext]_systemVars, Calm'
               PROVE  RowsInv'
    OBVIOUS
  <2>1. Calm
    BY CalmSteps
  <2>2. QED BY <2>1, SystemKeepsRows DEF Calm
<1>3. (Calm => RowsInv) => UploadedMeansAllOnce
  BY DEF RowsInv, CalmRows, RowsFit, Fair, UploadedMeansAllOnce, Shown, ItemsOf
<1>4. QED
  BY <1>1, <1>2, <1>3, SystemInvariant, WritesInvariant, ReadsOnce, ReadsAhead, OneFlight,
     PromisesKept, PlainMessages, ResultsSayWhole, PTL DEF SystemSafety
=============================================================================
