--------------------------- MODULE UploadApiProofs ---------------------------
(***************************************************************************)
(* Theorems about the task endpoints, for any number of requests, tasks,    *)
(* items and faults: types, that nothing of a task with a blocking          *)
(* classification error is published, that "queued" means published, and    *)
(* how claims move.  The last part is for the modules in which a worker, a  *)
(* consumer or a clean-up job runs beside the endpoints.                    *)
(***************************************************************************)
EXTENDS UploadApi, SequenceTheorems, TLAPS

(***************************************************************************)
(* Types.                                                                   *)
(***************************************************************************)

\* One more message keeps the types of the topic.
LEMMA AppendKeepsTypes ==
  ASSUME UploadTypeOK, NEW r \in Reqs, AppendTask(r)
  PROVE  StoreTypeOK' /\ UNCHANGED <<rtask, rseen, ritems, raced, claims>>
<1> DEFINE m == [task |-> rtask[r], items |-> ritems[r], skip |-> {}, valid |-> TRUE]
<1>1. m \in TaskMsg
  BY DEF UploadTypeOK, UTypeOK, TaskMsg
<1>2. taskLog' = Append(taskLog, m) /\ taskLog \in Seq(TaskMsg)
  BY DEF AppendTask, UploadTypeOK, StoreTypeOK
<1>3. taskLog' \in Seq(TaskMsg) /\ Len(taskLog') = Len(taskLog) + 1 /\ Len(taskLog) \in Nat
  BY <1>1, <1>2, AppendProperties
<1> HIDE DEF m
<1>4. QED
  BY <1>3 DEF AppendTask, UploadTypeOK, StoreTypeOK, dbVars, requestVars, loadedVars

\* A client's call keeps the types,
LEMMA CallKeepsTypes ==
  ASSUME UploadTypeOK, NEW r \in Reqs, UCall(r)
  PROVE  UploadTypeOK'
<1> USE StoreAssumption, UploadAssumption
<1>1. PICK t \in Tasks : \E q \in RPhase : \E items \in SUBSET Items : Begin(r, t, q, items)
  BY DEF UCall, ClassifyRead, ConfirmRead, RetryRead, UploadRead, RPhase, UploadItems, ItemsOf
<1>2. PICK q \in RPhase : \E items \in SUBSET Items : Begin(r, t, q, items)
  BY <1>1
<1>3. PICK items \in SUBSET Items : Begin(r, t, q, items)
  BY <1>2
<1>4. QED
  BY <1>3 DEF UploadTypeOK, StoreTypeOK, UTypeOK, Begin, Goto, storeVars

\* and so does a step of a handler,
LEMMA StepKeepsTypes ==
  ASSUME UploadTypeOK, NEW r \in Reqs, UStep(r)
  PROVE  UploadTypeOK'
<1> USE StoreAssumption, UploadAssumption
<1> USE DEF UploadTypeOK, StoreTypeOK, UTypeOK, RPhase, Goto, storeVars, dbVars, brokerVars,
            requestVars, loadedVars, RaceIf, TaskStatus, ItemStatus
<1>1. CASE ClassifyCommit(r)
  BY <1>1 DEF ClassifyCommit
<1>2. CASE ClassifyConflict(r)
  BY <1>2 DEF ClassifyConflict
<1>3. CASE ConfirmCommit(r)
  BY <1>3 DEF ConfirmCommit
<1>4. CASE RetryCommit(r)
  BY <1>4 DEF RetryCommit
<1>5. CASE UploadClaim(r)
  BY <1>5 DEF UploadClaim
<1>6. CASE UploadBusy(r)
  BY <1>6 DEF UploadBusy
<1>7. CASE UploadStage(r)
  BY <1>7 DEF UploadStage
<1>8. CASE UploadStageFails(r)
  BY <1>8 DEF UploadStageFails
<1>9. CASE UploadPublish(r)
  BY <1>9, AppendKeepsTypes DEF UploadPublish
<1>10. CASE UploadPublishFails(r)
  BY <1>10 DEF UploadPublishFails, AfterFailure
<1>11. CASE UploadCompensate(r)
  BY <1>11 DEF UploadCompensate
<1>12. CASE UploadMark(r)
  BY <1>12 DEF UploadMark
<1>13. CASE UploadRelease(r)
  BY <1>13 DEF UploadRelease
<1>14. QED
  BY <1>1, <1>2, <1>3, <1>4, <1>5, <1>6, <1>7, <1>8, <1>9, <1>10, <1>11, <1>12, <1>13
     DEF UStep

\* a fault, and an answer.
LEMMA OthersKeepTypes ==
  ASSUME UploadTypeOK, UFault \/ EnvAnswer
  PROVE  UploadTypeOK'
<1> USE StoreAssumption, UploadAssumption
<1> USE DEF UploadTypeOK, StoreTypeOK, UTypeOK, RPhase, Goto, storeVars, dbVars, brokerVars,
            requestVars, loadedVars, RaceIf, TaskStatus, ItemStatus
<1>1. ASSUME NEW r \in Reqs, UploadPublishLost(r)
      PROVE  UploadTypeOK'
  BY <1>1, AppendKeepsTypes DEF UploadPublishLost, AfterFailure
<1>2. ASSUME NEW r \in Reqs, UploadMarkFails(r)
      PROVE  UploadTypeOK'
  BY <1>2 DEF UploadMarkFails
<1>3. ASSUME NEW r \in Reqs, ApiCrash(r)
      PROVE  UploadTypeOK'
  BY <1>3 DEF ApiCrash
<1>4. ASSUME NEW t \in Tasks, ClaimExpires(t)
      PROVE  UploadTypeOK'
  BY <1>4 DEF ClaimExpires
<1>5. CASE EnvAnswer
  <2> DEFINE m == taskLog[taskOffset + 1]
  <2>1. taskOffset + 1 \in 1 .. Len(taskLog) /\ m \in TaskMsg
    BY <1>5, ElementOfSeq DEF EnvAnswer
  <2>2. PICK up \in SUBSET m.items :
          /\ sink' = sink \cup up
          /\ objects' = objects \cup (up \cap Mapped)
          /\ itemStatus' = [i \in Items |-> IF i \in up THEN "uploaded"
                                            ELSE IF i \in m.items THEN "failed"
                                            ELSE itemStatus[i]]
          /\ status' = [status EXCEPT ![m.task] =
                          IF up = m.items THEN "uploaded" ELSE "partial_failed"]
    BY <1>5 DEF EnvAnswer
  <2>3. m.items \subseteq Items /\ m.task \in Tasks
    BY <2>1 DEF TaskMsg
  <2>4. /\ taskOffset' = taskOffset + 1 /\ UNCHANGED uploadVars
        /\ UNCHANGED <<rowLock, taskLog, resultLog, resultOffset, staged>>
    BY <1>5 DEF EnvAnswer
  <2> HIDE DEF m
  <2>5. QED BY <2>1, <2>2, <2>3, <2>4 DEF uploadVars
<1>6. QED BY <1>1, <1>2, <1>3, <1>4, <1>5 DEF UFault

\* So does every step of the API.
LEMMA UploadKeepsTypes ==
  ASSUME UploadTypeOK, UploadNext
  PROVE  UploadTypeOK'
BY CallKeepsTypes, StepKeepsTypes, OthersKeepTypes DEF UploadNext

\* The initial state has its types.
LEMMA UploadInitTypes == UploadInit => UploadTypeOK
<1> USE StoreAssumption, UploadAssumption
<1>1. StoreInit => StoreTypeOK
  BY DEF StoreInit, StoreTypeOK, TaskStatus, ItemStatus
<1>2. (CHOOSE t \in Tasks : TRUE) \in Tasks
  OBVIOUS
<1>3. UInit => UTypeOK
  <2> DEFINE first == CHOOSE t \in Tasks : TRUE
  <2>1. UInit => rtask = [r \in Reqs |-> first]
    BY DEF UInit
  <2> HIDE DEF first
  <2>2. first \in Tasks
    BY <1>2 DEF first
  <2>3. UInit => rtask \in [Reqs -> Tasks]
    BY <2>1, <2>2
  <2>4. UInit => /\ rphase = [r \in Reqs |-> "idle"] /\ rseen = [r \in Reqs |-> "draft"]
                 /\ ritems = [r \in Reqs |-> {}]
                 /\ claims = [t \in Tasks |-> Nobody] /\ raced = {} /\ apiFaults = 0
    BY Zenon DEF UInit
  <2>5. QED BY <2>3, <2>4 DEF UTypeOK, RPhase, TaskStatus
<1>4. QED BY <1>1, <1>3 DEF UploadInit, UploadTypeOK

\* Every reachable state of the API and of what it shares is well-typed.
THEOREM UploadTypeCorrect == UploadSpec => []UploadTypeOK
<1>1. UploadTypeOK /\ UNCHANGED uploadSpecVars => UploadTypeOK'
  BY DEF uploadSpecVars, uploadVars, storeVars, UploadTypeOK, StoreTypeOK, UTypeOK
<1>2. UploadTypeOK /\ [UploadNext]_uploadSpecVars => UploadTypeOK'
  BY <1>1, UploadKeepsTypes
<1>3. QED BY <1>2, UploadInitTypes, PTL DEF UploadSpec

(***************************************************************************)
(* Only clean tasks are published.  A task leaves "classified" only through *)
(* a confirmation that has looked for blocking errors; so what is known of  *)
(* a task is known of every status behind that point, and of every request  *)
(* that decided on such a status, however old its view of it is by now.     *)
(***************************************************************************)
Clean(t) == ItemsOf(t) \cap Blocking = {}

CleanInv ==
  /\ \A t \in Tasks : status[t] \notin {"draft", "classified"} => Clean(t)
  /\ \A r \in Reqs :
       rphase[r] \in {"confirm", "claim", "stage", "publish", "compensate", "mark"}
         => Clean(rtask[r])
  /\ \A r \in Reqs :
       rphase[r] = "retry" /\ rseen[r] \in {"failed", "partial_failed"} => Clean(rtask[r])
  /\ OnlyCleanTasksPublished

CInv == UploadTypeOK /\ CleanInv

\* A message of a clean task is appended.
LEMMA AppendKeepsClean ==
  ASSUME CInv, NEW r \in Reqs, rphase[r] = "publish", AppendTask(r)
  PROVE  OnlyCleanTasksPublished'
<1> DEFINE m == [task |-> rtask[r], items |-> ritems[r], skip |-> {}, valid |-> TRUE]
<1>1. m \in TaskMsg /\ m.task = rtask[r] /\ Clean(m.task)
  BY DEF CInv, CleanInv, UploadTypeOK, UTypeOK, TaskMsg
<1>2. taskLog' = Append(taskLog, m) /\ taskLog \in Seq(TaskMsg)
  BY DEF AppendTask, CInv, UploadTypeOK, StoreTypeOK
<1> HIDE DEF m
<1>3. \A k \in DOMAIN taskLog' :
        (k \in DOMAIN taskLog /\ taskLog'[k] = taskLog[k]) \/ taskLog'[k] = m
  BY <1>1, <1>2, AppendProperties
<1>4. QED BY <1>1, <1>3 DEF OnlyCleanTasksPublished, CInv, CleanInv, Clean

\* A call decides on the status it reads,
LEMMA CallKeepsClean ==
  ASSUME CInv, NEW r \in Reqs, UCall(r)
  PROVE  CleanInv'
<1> USE DEF CInv, CleanInv, UploadTypeOK, UTypeOK, StoreTypeOK, RPhase, Begin, Goto, storeVars,
            OnlyCleanTasksPublished, TaskStatus
<1>1. ASSUME NEW t \in Tasks, ClassifyRead(r, t)
      PROVE  CleanInv'
  BY <1>1 DEF ClassifyRead
<1>2. ASSUME NEW t \in Tasks, ConfirmRead(r, t)
      PROVE  CleanInv'
  BY <1>2 DEF ConfirmRead, Clean
<1>3. ASSUME NEW t \in Tasks, RetryRead(r, t)
      PROVE  CleanInv'
  BY <1>3 DEF RetryRead
<1>4. ASSUME NEW t \in Tasks, UploadRead(r, t)
      PROVE  CleanInv'
  BY <1>4 DEF UploadRead
<1>5. QED BY <1>1, <1>2, <1>3, <1>4 DEF UCall

\* a handler goes on with what it has read,
LEMMA StepKeepsClean ==
  ASSUME CInv, NEW r \in Reqs, UStep(r)
  PROVE  CleanInv'
<1> USE DEF CInv, CleanInv, UploadTypeOK, UTypeOK, StoreTypeOK, RPhase, Goto, storeVars, dbVars,
            brokerVars, requestVars, loadedVars, RaceIf, TaskStatus
<1>1. CASE ClassifyCommit(r)
  BY <1>1 DEF ClassifyCommit, OnlyCleanTasksPublished
<1>2. CASE ClassifyConflict(r)
  BY <1>2 DEF ClassifyConflict, OnlyCleanTasksPublished
<1>3. CASE ConfirmCommit(r)
  BY <1>3 DEF ConfirmCommit, OnlyCleanTasksPublished
<1>4. CASE RetryCommit(r)
  BY <1>4 DEF RetryCommit, OnlyCleanTasksPublished
<1>5. CASE UploadClaim(r)
  BY <1>5 DEF UploadClaim, OnlyCleanTasksPublished
<1>6. CASE UploadBusy(r)
  BY <1>6 DEF UploadBusy, OnlyCleanTasksPublished
<1>7. CASE UploadStage(r)
  BY <1>7 DEF UploadStage, OnlyCleanTasksPublished
<1>8. CASE UploadStageFails(r)
  BY <1>8 DEF UploadStageFails, OnlyCleanTasksPublished
<1>9. CASE UploadPublish(r)
  BY <1>9, AppendKeepsClean, AppendKeepsTypes DEF UploadPublish, AppendTask
<1>10. CASE UploadPublishFails(r)
  BY <1>10 DEF UploadPublishFails, AfterFailure, OnlyCleanTasksPublished
<1>11. CASE UploadCompensate(r)
  BY <1>11 DEF UploadCompensate, OnlyCleanTasksPublished
<1>12. CASE UploadMark(r)
  BY <1>12 DEF UploadMark, OnlyCleanTasksPublished
<1>13. CASE UploadRelease(r)
  BY <1>13 DEF UploadRelease, OnlyCleanTasksPublished
<1>14. QED
  BY <1>1, <1>2, <1>3, <1>4, <1>5, <1>6, <1>7, <1>8, <1>9, <1>10, <1>11, <1>12, <1>13
     DEF UStep

\* and faults and answers concern tasks that were published.
LEMMA OthersKeepClean ==
  ASSUME CInv, UFault \/ EnvAnswer
  PROVE  CleanInv'
<1> USE DEF CInv, CleanInv, UploadTypeOK, UTypeOK, StoreTypeOK, RPhase, Goto, storeVars, dbVars,
            brokerVars, requestVars, loadedVars, RaceIf, TaskStatus
<1>1. ASSUME NEW r \in Reqs, UploadPublishLost(r)
      PROVE  CleanInv'
  BY <1>1, AppendKeepsClean, AppendKeepsTypes DEF UploadPublishLost, AfterFailure, AppendTask
<1>2. ASSUME NEW r \in Reqs, UploadMarkFails(r)
      PROVE  CleanInv'
  BY <1>2 DEF UploadMarkFails, OnlyCleanTasksPublished
<1>3. ASSUME NEW r \in Reqs, ApiCrash(r)
      PROVE  CleanInv'
  BY <1>3 DEF ApiCrash, OnlyCleanTasksPublished
<1>4. ASSUME NEW t \in Tasks, ClaimExpires(t)
      PROVE  CleanInv'
  BY <1>4 DEF ClaimExpires, OnlyCleanTasksPublished
<1>5. CASE EnvAnswer
  <2> DEFINE t == taskLog[taskOffset + 1].task
  <2>1. taskOffset + 1 \in DOMAIN taskLog
    BY <1>5 DEF EnvAnswer
  <2>2. Clean(t)
    BY <2>1 DEF OnlyCleanTasksPublished, Clean
  <2>3. \A u \in Tasks : u # t => status'[u] = status[u]
    BY <1>5 DEF EnvAnswer
  <2>4. UNCHANGED uploadVars /\ taskLog' = taskLog
    BY <1>5 DEF EnvAnswer
  <2> HIDE DEF t
  <2>5. QED BY <2>2, <2>3, <2>4 DEF uploadVars, OnlyCleanTasksPublished
<1>6. QED BY <1>1, <1>2, <1>3, <1>4, <1>5 DEF UFault

\* Nothing of a task with a blocking classification error is ever published,
\* whatever requests interleave, on whatever stale statuses they decide.
THEOREM BlockedTasksStay == UploadSpec => []OnlyCleanTasksPublished
<1>1. UploadInit => CInv
  BY UploadInitTypes DEF UploadInit, UInit, StoreInit, CInv, CleanInv, OnlyCleanTasksPublished
<1>2. CInv /\ UploadNext => CInv'
  BY UploadKeepsTypes, CallKeepsClean, StepKeepsClean, OthersKeepClean DEF UploadNext, CInv
<1>3. CInv /\ UNCHANGED uploadSpecVars => CInv'
  <2>1. UploadTypeOK /\ UNCHANGED uploadSpecVars => UploadTypeOK'
    BY DEF uploadSpecVars, uploadVars, storeVars, UploadTypeOK, StoreTypeOK, UTypeOK
  <2>2. QED
    BY <2>1 DEF CInv, CleanInv, OnlyCleanTasksPublished, uploadSpecVars, uploadVars, storeVars
<1>4. CInv => OnlyCleanTasksPublished
  BY DEF CInv, CleanInv
<1>5. QED BY <1>1, <1>2, <1>3, <1>4, PTL DEF UploadSpec

(***************************************************************************)
(* "queued" is true. The status is written in another step than the         *)
(* message, and by a request that may have been overtaken; what makes it    *)
(* true is that only a request whose own message is in the topic comes to   *)
(* that step, and that messages are never taken back.                       *)
(***************************************************************************)
Published(t) == \E k \in DOMAIN taskLog : taskLog[k].task = t

QueuedInv ==
  /\ \A t \in Tasks : status[t] = "queued" => Published(t)
  /\ \A r \in Reqs : rphase[r] = "mark" => Published(rtask[r])

QInv == UploadTypeOK /\ QueuedInv

\* A message more: what was published stays so, and r's task is published.
LEMMA AppendPublishes ==
  ASSUME UploadTypeOK, NEW r \in Reqs, AppendTask(r)
  PROVE  /\ \A t \in Tasks : Published(t) => Published(t)'
         /\ Published(rtask[r])'
         /\ rtask' = rtask /\ status' = status
<1> DEFINE m == [task |-> rtask[r], items |-> ritems[r], skip |-> {}, valid |-> TRUE]
<1>1. m \in TaskMsg /\ m.task = rtask[r]
  BY DEF UploadTypeOK, UTypeOK, TaskMsg
<1>2. taskLog' = Append(taskLog, m) /\ taskLog \in Seq(TaskMsg)
  BY DEF AppendTask, UploadTypeOK, StoreTypeOK
<1>3. rtask' = rtask /\ status' = status
  BY DEF AppendTask, requestVars, loadedVars, dbVars
<1> HIDE DEF m
<1>4. /\ \A k \in DOMAIN taskLog : k \in DOMAIN taskLog' /\ taskLog'[k] = taskLog[k]
      /\ Len(taskLog) + 1 \in DOMAIN taskLog' /\ taskLog'[Len(taskLog) + 1] = m
  BY <1>1, <1>2, AppendProperties
<1>5. QED BY <1>1, <1>3, <1>4 DEF Published

\* Steps that leave the topic alone.
LEMMA SameTopic ==
  ASSUME UNCHANGED taskLog
  PROVE  \A t \in Tasks : Published(t)' <=> Published(t)
BY DEF Published

\* A call reads,
LEMMA CallKeepsQueued ==
  ASSUME QInv, NEW r \in Reqs, UCall(r)
  PROVE  QueuedInv'
<1>1. PICK t \in Tasks : \E q \in RPhase \ {"mark"} : \E items \in SUBSET Items : Begin(r, t, q, items)
  BY DEF UCall, ClassifyRead, ConfirmRead, RetryRead, UploadRead, RPhase, UploadItems, ItemsOf
<1>2. PICK q \in RPhase \ {"mark"} : \E items \in SUBSET Items : Begin(r, t, q, items)
  BY <1>1
<1>3. PICK items \in SUBSET Items : Begin(r, t, q, items)
  BY <1>2
<1>4. QED
  BY <1>3 DEF QInv, QueuedInv, Published, UploadTypeOK, UTypeOK, Begin,
              Goto, storeVars

\* a handler goes on,
LEMMA StepKeepsQueued ==
  ASSUME QInv, NEW r \in Reqs, UStep(r)
  PROVE  QueuedInv'
<1> USE DEF QInv, QueuedInv, Published, UploadTypeOK, UTypeOK, StoreTypeOK,
            Goto, storeVars, dbVars, brokerVars, requestVars, loadedVars
<1>1. CASE ClassifyCommit(r)
  BY <1>1 DEF ClassifyCommit
<1>2. CASE ClassifyConflict(r)
  BY <1>2 DEF ClassifyConflict
<1>3. CASE ConfirmCommit(r)
  BY <1>3 DEF ConfirmCommit
<1>4. CASE RetryCommit(r)
  BY <1>4 DEF RetryCommit
<1>5. CASE UploadClaim(r)
  BY <1>5 DEF UploadClaim
<1>6. CASE UploadBusy(r)
  BY <1>6 DEF UploadBusy
<1>7. CASE UploadStage(r)
  BY <1>7 DEF UploadStage
<1>8. CASE UploadStageFails(r)
  BY <1>8 DEF UploadStageFails
<1>9. CASE UploadPublish(r)
  <2>1. \A q \in Reqs : rphase'[q] = "mark" => q = r \/ rphase[q] = "mark"
    BY <1>9 DEF UploadPublish
  <2> HIDE DEF Published
  <2>2. QED BY <1>9, <2>1, AppendPublishes DEF UploadPublish
<1>10. CASE UploadPublishFails(r)
  BY <1>10 DEF UploadPublishFails, AfterFailure
<1>11. CASE UploadCompensate(r)
  BY <1>11 DEF UploadCompensate
<1>12. CASE UploadMark(r)
  BY <1>12 DEF UploadMark
<1>13. CASE UploadRelease(r)
  BY <1>13 DEF UploadRelease
<1>14. QED
  BY <1>1, <1>2, <1>3, <1>4, <1>5, <1>6, <1>7, <1>8, <1>9, <1>10, <1>11, <1>12, <1>13
     DEF UStep

\* and faults and answers never write "queued".
LEMMA OthersKeepQueued ==
  ASSUME QInv, UFault \/ EnvAnswer
  PROVE  QueuedInv'
<1> USE DEF QInv, QueuedInv, UploadTypeOK, UTypeOK, StoreTypeOK, Goto,
            storeVars, requestVars, loadedVars
<1>1. ASSUME NEW r \in Reqs, UploadPublishLost(r)
      PROVE  QueuedInv'
  <2>1. \A q \in Reqs : rphase'[q] = "mark" => rphase[q] = "mark"
    BY <1>1 DEF UploadPublishLost, AfterFailure
  <2>2. QED BY <1>1, <2>1, AppendPublishes DEF UploadPublishLost
<1>2. ASSUME NEW r \in Reqs, UploadMarkFails(r)
      PROVE  QueuedInv'
  BY <1>2 DEF UploadMarkFails, Published
<1>3. ASSUME NEW r \in Reqs, ApiCrash(r)
      PROVE  QueuedInv'
  BY <1>3 DEF ApiCrash, Published
<1>4. ASSUME NEW t \in Tasks, ClaimExpires(t)
      PROVE  QueuedInv'
  BY <1>4 DEF ClaimExpires, Published
<1>5. CASE EnvAnswer
  <2>1. \A u \in Tasks : status'[u] = "queued" => status[u] = "queued"
    BY <1>5 DEF EnvAnswer
  <2>2. UNCHANGED uploadVars /\ taskLog' = taskLog
    BY <1>5 DEF EnvAnswer
  <2>3. QED BY <2>1, <2>2, SameTopic DEF uploadVars
<1>6. QED BY <1>1, <1>2, <1>3, <1>4, <1>5 DEF UFault

\* A task says "queued" only once a message of it is in the topic, whatever
\* requests interleave and wherever they stop (upload_task, app/api/tasks.py).
THEOREM QueuedIsPublished == UploadSpec => []QueuedMeansPublished
<1>1. UploadInit => QInv
  BY UploadInitTypes DEF UploadInit, UInit, StoreInit, QInv, QueuedInv
<1>2. QInv /\ UploadNext => QInv'
  BY UploadKeepsTypes, CallKeepsQueued, StepKeepsQueued, OthersKeepQueued DEF UploadNext, QInv
<1>3. QInv /\ UNCHANGED uploadSpecVars => QInv'
  <2>1. UploadTypeOK /\ UNCHANGED uploadSpecVars => UploadTypeOK'
    BY DEF uploadSpecVars, uploadVars, storeVars, UploadTypeOK, StoreTypeOK, UTypeOK
  <2>2. QED
    BY <2>1 DEF QInv, QueuedInv, Published, uploadSpecVars, uploadVars,
                storeVars
<1>4. QInv => QueuedMeansPublished
  BY DEF QInv, QueuedInv, Published, QueuedMeansPublished
<1>5. QED BY <1>1, <1>2, <1>3, <1>4, PTL DEF UploadSpec

\* A step of the endpoints moves claims as it should.
LEMMA StepsMoveClaims ==
  ASSUME UploadTypeOK, UploadNext
  PROVE  ClaimsMove
<1> USE UploadAssumption DEF UploadTypeOK, UTypeOK, Goto, Sending
<1>1. ASSUME NEW r \in Reqs, UCall(r) PROVE ClaimsMove
  BY <1>1 DEF UCall, ClassifyRead, ConfirmRead, RetryRead, UploadRead, Begin, ClaimsMove
<1>2. ASSUME NEW r \in Reqs, UploadClaim(r) PROVE ClaimsMove
  BY <1>2 DEF UploadClaim, ClaimsMove
<1>3. ASSUME NEW r \in Reqs, UploadRelease(r) PROVE ClaimsMove
  <2>1. /\ rphase[r] = "release" /\ rphase' = [rphase EXCEPT ![r] = "idle"]
        /\ claims' = IF claims[rtask[r]] = r THEN [claims EXCEPT ![rtask[r]] = Nobody] ELSE claims
    BY <1>3 DEF UploadRelease
  <2>2. \A p \in Reqs : p # r => rphase'[p] = rphase[p]
    BY <2>1
  <2>3. \A p \in Reqs, t \in Tasks : claims[t] = p /\ claims'[t] # p =>
          claims'[t] = Nobody /\ rphase[p] = "release"
    BY <2>1
  <2>4. \A t \in Tasks : rtask[r] = t => claims'[t] # r
    BY <2>1
  <2>5. QED BY <2>2, <2>3, <2>4 DEF ClaimsMove
<1>4. ASSUME NEW r \in Reqs,
             \/ ClassifyCommit(r) \/ ClassifyConflict(r) \/ ConfirmCommit(r) \/ RetryCommit(r)
             \/ UploadBusy(r) \/ UploadStage(r) \/ UploadStageFails(r) \/ UploadPublish(r)
             \/ UploadPublishFails(r) \/ UploadCompensate(r) \/ UploadMark(r)
      PROVE  ClaimsMove
  <2>1. /\ claims' = claims
        /\ \/ /\ rphase[r] \in {"classify", "confirm", "retry", "claim"}
              /\ rphase' = [rphase EXCEPT ![r] = "idle"]
           \/ \E q \in RPhase \ {"idle"} : rphase' = [rphase EXCEPT ![r] = q]
    BY <1>4 DEF ClassifyCommit, ClassifyConflict, ConfirmCommit, RetryCommit, UploadBusy,
       UploadStage, UploadStageFails, UploadPublish, UploadPublishFails, AfterFailure, AppendTask,
       UploadCompensate, UploadMark, RPhase
  <2>2. QED BY <2>1 DEF ClaimsMove
<1>5. ASSUME NEW r \in Reqs, UploadPublishLost(r) \/ UploadMarkFails(r) \/ ApiCrash(r)
      PROVE  ClaimsMove
  BY <1>5 DEF UploadPublishLost, UploadMarkFails, ApiCrash, AppendTask, ClaimsMove
<1>6. ASSUME NEW t \in Tasks, ClaimExpires(t) PROVE ClaimsMove
  BY <1>6 DEF ClaimExpires, ClaimsMove
<1>7. CASE EnvAnswer
  BY <1>7 DEF EnvAnswer, uploadVars, ClaimsMove
<1>8. QED
  BY <1>1, <1>2, <1>3, <1>4, <1>5, <1>6, <1>7 DEF UploadNext, UStep, UFault

\* A claim goes only with its holder's release or by its TTL, also when it has
\* passed to another request meanwhile, and no handler that ends leaves its
\* claim behind (upload_task and the release script of redis_coordination.py).
THEOREM ClaimsAreFollowed == UploadSpec => ClaimsFollowUploads
<1>1. UploadTypeOK /\ [UploadNext]_uploadSpecVars => [ClaimsMove]_uploadSpecVars
  BY StepsMoveClaims
<1>2. QED BY <1>1, UploadTypeCorrect, PTL DEF UploadSpec, ClaimsFollowUploads

(***************************************************************************)
(* Requests side by side.  These lemmas are for whoever runs beside the     *)
(* endpoints: what requests may do to the status of a task as long as none  *)
(* of them has overtaken another (raced), and that such a task has one      *)
(* upload and one message under way at most.                                *)
(***************************************************************************)

\* No request has acted on t after another had overtaken it, and t has items
\* to deliver: an empty archive can be classified again at any time.
Fair(t) == t \notin raced /\ ItemsOf(t) # {}

\* The items of task t have their rows: it cannot be classified again.
Known(t) == \A i \in ItemsOf(t) : itemStatus[i] # "none"

\* A task that has left "draft", that a request has seen so, or of which a
\* message exists, has rows for its items; and what a request has loaded
\* allows what it does.
KnownOnce ==
  /\ \A t \in Tasks : status[t] # "draft" => Known(t)
  /\ \A r \in Reqs : rseen[r] # "draft" => Known(rtask[r])
  /\ \A k \in DOMAIN taskLog : Known(taskLog[k].task)
  /\ \A r \in Reqs : rphase[r] = "confirm" => rseen[r] = "classified"
  /\ \A r \in Reqs : rphase[r] \in Sending \cup {"claim"} => rseen[r] = "confirmed"

\* A request has published a message of t and not yet said so.
Marking(t) == \E r \in Reqs : rphase[r] = "mark" /\ rtask[r] = t

\* Of t, one upload at most is past its claim. While it has not published, t
\* is confirmed and of the messages under way, D, there is none. Otherwise
\* there is one at most, and t says so, but for the upload that is about to.
InTurn(t, D) ==
  /\ \A p, r \in Reqs :
       rtask[p] = t /\ rtask[r] = t /\ rphase[p] \in Sending /\ rphase[r] \in Sending => p = r
  /\ \A r \in Reqs : rtask[r] = t /\ rphase[r] \in {"stage", "publish", "compensate"} =>
       status[t] = "confirmed" /\ D = {}
  /\ \A j, k \in D : j = k
  /\ D # {} => status[t] = "queued" \/ (status[t] = "confirmed" /\ Marking(t))

\* Races are not forgotten.
LEMMA RacedGrows ==
  ASSUME NEW r \in Reqs, UCall(r) \/ UStep(r)
  PROVE  raced \subseteq raced'
BY DEF UCall, ClassifyRead, ConfirmRead, RetryRead, UploadRead, Begin, UStep, ClassifyCommit,
   ClassifyConflict, ConfirmCommit, RetryCommit, UploadClaim, UploadBusy, UploadStage,
   UploadStageFails, UploadPublish, UploadPublishFails, UploadCompensate, UploadMark,
   UploadRelease, AppendTask, RaceIf, requestVars

\* What a call does: it loads the row of its task.
LEMMA CallLoads ==
  ASSUME NEW r \in Reqs, UCall(r)
  PROVE  \E t \in Tasks :
           /\ rphase[r] = "idle" /\ rtask' = [rtask EXCEPT ![r] = t]
           /\ rseen' = [rseen EXCEPT ![r] = status[t]]
           /\ UNCHANGED <<status, itemStatus, taskLog, raced>>
           /\ \/ rphase' = [rphase EXCEPT ![r] = "classify"]
              \/ rphase' = [rphase EXCEPT ![r] = "confirm"] /\ status[t] = "classified"
              \/ rphase' = [rphase EXCEPT ![r] = "retry"]
              \/ rphase' = [rphase EXCEPT ![r] = "claim"] /\ status[t] = "confirmed"
BY DEF UCall, ClassifyRead, ConfirmRead, RetryRead, UploadRead, Begin, Goto, storeVars

\* The steps of an upload that leave the rows and the topic alone.
UploadGoesOn(r) ==
  /\ UNCHANGED <<status, itemStatus, taskLog, rtask, rseen, ritems>>
  /\ \/ \E q \in {"idle", "release"} : rphase' = [rphase EXCEPT ![r] = q]
     \/ /\ rphase[r] \in {"stage", "publish"}
        /\ \E q \in {"publish", "compensate"} : rphase' = [rphase EXCEPT ![r] = q]

LEMMA StepsGoOn ==
  ASSUME NEW r \in Reqs,
         \/ ClassifyConflict(r) \/ UploadBusy(r) \/ UploadStage(r) \/ UploadStageFails(r)
         \/ UploadPublishFails(r) \/ UploadCompensate(r) \/ UploadRelease(r)
  PROVE  UploadGoesOn(r) /\ rphase[r] # "mark" /\ raced' = raced
BY DEF ClassifyConflict, UploadBusy, UploadStage, UploadStageFails, UploadPublishFails,
   AfterFailure, UploadCompensate, UploadRelease, UploadGoesOn, Goto, requestVars, loadedVars,
   brokerVars, dbVars, storeVars

\* The claim, if nobody has overtaken the upload.
LEMMA ClaimIsFair ==
  ASSUME NEW r \in Reqs, UploadClaim(r)
  PROVE  /\ rphase[r] = "claim" /\ UNCHANGED <<status, itemStatus, taskLog, rtask, rseen, ritems>>
         /\ \E q \in {"stage", "publish"} : rphase' = [rphase EXCEPT ![r] = q]
         /\ rtask[r] \notin raced' => /\ status[rtask[r]] = rseen[r]
                                      /\ ritems[r] = UploadItems(rtask[r])
                                      /\ ~Rivalled(r)
BY DEF UploadClaim, RaceIf, Stale, Goto, loadedVars, storeVars

\* Calls keep what is known,
LEMMA CallKeepsKnown ==
  ASSUME UploadTypeOK, KnownOnce, NEW r \in Reqs, UCall(r)
  PROVE  KnownOnce'
<1> USE DEF UploadTypeOK, UTypeOK
<1>1. PICK t \in Tasks :
        /\ rphase[r] = "idle" /\ rtask' = [rtask EXCEPT ![r] = t]
        /\ rseen' = [rseen EXCEPT ![r] = status[t]]
        /\ UNCHANGED <<status, itemStatus, taskLog, raced>>
        /\ \/ rphase' = [rphase EXCEPT ![r] = "classify"]
           \/ rphase' = [rphase EXCEPT ![r] = "confirm"] /\ status[t] = "classified"
           \/ rphase' = [rphase EXCEPT ![r] = "retry"]
           \/ rphase' = [rphase EXCEPT ![r] = "claim"] /\ status[t] = "confirmed"
  BY CallLoads
<1>2. \A u : Known(u)' <=> Known(u)
  BY <1>1 DEF Known, ItemsOf
<1>3. \A p \in Reqs : /\ rphase'[p] = "confirm" => rseen'[p] = "classified"
                      /\ rphase'[p] \in Sending \cup {"claim"} => rseen'[p] = "confirmed"
  BY <1>1 DEF KnownOnce, Sending
<1>4. \A p \in Reqs : rseen'[p] # "draft" => Known(rtask'[p])
  BY <1>1 DEF KnownOnce
<1>5. QED BY <1>1, <1>2, <1>3, <1>4 DEF KnownOnce

\* and so do the later steps.
LEMMA StepKeepsKnown ==
  ASSUME UploadTypeOK, KnownOnce, NEW r \in Reqs, UStep(r)
  PROVE  KnownOnce'
<1> USE DEF UploadTypeOK, UTypeOK, StoreTypeOK, Goto
<1>t. /\ rtask[r] \in Tasks /\ taskLog \in Seq(TaskMsg)
      /\ \A t \in Tasks : \A i \in ItemsOf(t) : i \in Items /\ TaskOf[i] = t
  BY DEF ItemsOf
<1>1. ASSUME UNCHANGED <<rtask, rseen, taskLog>>,
             \A i \in Items : itemStatus'[i] = "none" => itemStatus[i] = "none",
             \A t \in Tasks : status'[t] # "draft" => status[t] # "draft" \/ Known(t)',
             NEW q \in RPhase, rphase' = [rphase EXCEPT ![r] = q],
             q # "confirm", q \in Sending \cup {"claim"} => rseen[r] = "confirmed"
      PROVE  KnownOnce'
  <2>1. \A u : Known(u) => Known(u)'
    BY <1>1 DEF Known, ItemsOf
  <2>2. \A p \in Reqs : /\ rphase'[p] = "confirm" => rseen'[p] = "classified"
                        /\ rphase'[p] \in Sending \cup {"claim"} => rseen'[p] = "confirmed"
    BY <1>1 DEF KnownOnce
  <2>3. QED BY <1>1, <2>1, <2>2 DEF KnownOnce
<1>2. CASE ClassifyCommit(r)
  <2>1. /\ rphase' = [rphase EXCEPT ![r] = "idle"]
        /\ itemStatus' = [i \in Items |-> IF TaskOf[i] = rtask[r] THEN "pending" ELSE itemStatus[i]]
        /\ UNCHANGED <<rtask, rseen, taskLog>>
        /\ \A t \in Tasks : status'[t] = status[t] \/ t = rtask[r]
    BY <1>2 DEF ClassifyCommit, requestVars, loadedVars, brokerVars
  <2>2. Known(rtask[r])'
    BY <1>t, <2>1 DEF Known
  <2>3. QED BY <1>1, <2>1, <2>2 DEF RPhase, Sending
<1>3. CASE ConfirmCommit(r)
  <2>1. /\ rphase' = [rphase EXCEPT ![r] = "idle"] /\ rphase[r] = "confirm"
        /\ UNCHANGED <<itemStatus, rtask, rseen, taskLog>>
        /\ \A t \in Tasks : status'[t] = status[t] \/ t = rtask[r]
    BY <1>3 DEF ConfirmCommit, loadedVars, brokerVars
  <2>2. Known(rtask[r]) /\ Known(rtask[r])'
    BY <2>1 DEF KnownOnce, Known, ItemsOf
  <2>3. QED BY <1>1, <2>1, <2>2 DEF RPhase, Sending
<1>4. CASE RetryCommit(r)
  <2>1. /\ rphase' = [rphase EXCEPT ![r] = "idle"]
        /\ UNCHANGED <<rtask, rseen, taskLog>>
        /\ \A i \in Items : itemStatus'[i] = "none" => itemStatus[i] = "none"
        /\ \A t \in Tasks : status'[t] = status[t] \/ (t = rtask[r] /\ rseen[r] # "draft")
    BY <1>4 DEF RetryCommit, loadedVars, brokerVars
  <2>2. rseen[r] # "draft" => Known(rtask[r])'
    BY <1>t, <2>1 DEF KnownOnce, Known, ItemsOf
  <2>3. QED BY <1>1, <2>1, <2>2 DEF RPhase, Sending
<1>5. CASE UploadClaim(r)
  <2>1. /\ rphase[r] = "claim" /\ UNCHANGED <<status, itemStatus, taskLog, rtask, rseen>>
        /\ \E q \in {"stage", "publish"} : rphase' = [rphase EXCEPT ![r] = q]
    BY <1>5, ClaimIsFair
  <2>2. rseen[r] = "confirmed"
    BY <2>1 DEF KnownOnce
  <2>3. QED BY <1>1, <2>1, <2>2 DEF RPhase
<1>6. CASE UploadPublish(r)
  <2> DEFINE m == [task |-> rtask[r], items |-> ritems[r], skip |-> {}, valid |-> TRUE]
  <2>1. /\ rphase' = [rphase EXCEPT ![r] = "mark"] /\ rphase[r] = "publish"
        /\ UNCHANGED <<status, itemStatus, rtask, rseen>> /\ taskLog' = Append(taskLog, m)
    BY <1>6 DEF UploadPublish, AppendTask, requestVars, loadedVars, dbVars
  <2>2. m \in TaskMsg /\ m.task = rtask[r]
    BY DEF TaskMsg
  <2> HIDE DEF m
  <2>3. \A k \in DOMAIN taskLog' :
          (k \in DOMAIN taskLog /\ taskLog'[k] = taskLog[k]) \/ taskLog'[k] = m
    BY <1>t, <2>1, <2>2, AppendProperties
  <2>4. rseen[r] = "confirmed" /\ Known(rtask[r])
    BY <2>1 DEF KnownOnce, Sending
  <2>5. \A u : Known(u)' <=> Known(u)
    BY <2>1 DEF Known, ItemsOf
  <2>6. \A k \in DOMAIN taskLog' : Known(taskLog'[k].task)
    BY <2>2, <2>3, <2>4 DEF KnownOnce
  <2>7. \A p \in Reqs : /\ rphase'[p] = "confirm" => rseen'[p] = "classified"
                        /\ rphase'[p] \in Sending \cup {"claim"} => rseen'[p] = "confirmed"
    BY <2>1, <2>4 DEF KnownOnce
  <2>8. QED BY <2>1, <2>5, <2>6, <2>7 DEF KnownOnce
<1>7. CASE UploadMark(r)
  <2>1. /\ rphase' = [rphase EXCEPT ![r] = "release"] /\ rphase[r] = "mark"
        /\ UNCHANGED <<itemStatus, rtask, rseen, taskLog>>
        /\ \A t \in Tasks : status'[t] = status[t] \/ t = rtask[r]
    BY <1>7 DEF UploadMark, requestVars, loadedVars, brokerVars
  <2>2. Known(rtask[r]) /\ Known(rtask[r])'
    BY <2>1 DEF KnownOnce, Known, ItemsOf, Sending
  <2>3. QED BY <1>1, <2>1, <2>2 DEF RPhase, Sending
<1>8. CASE \/ ClassifyConflict(r) \/ UploadBusy(r) \/ UploadStage(r) \/ UploadStageFails(r)
           \/ UploadPublishFails(r) \/ UploadCompensate(r) \/ UploadRelease(r)
  <2>1. UploadGoesOn(r)
    BY <1>8, StepsGoOn
  <2>2. rphase[r] \in {"stage", "publish"} => rseen[r] = "confirmed"
    BY DEF KnownOnce, Sending
  <2>3. QED BY <1>1, <2>1, <2>2 DEF UploadGoesOn, RPhase, Sending
<1>9. QED
  BY <1>2, <1>3, <1>4, <1>5, <1>6, <1>7, <1>8 DEF UStep

\* A request keeps the tasks in turn for which no request has been overtaken:
\* of the messages E under way after its step, only the one that it publishes
\* itself, n, is not among D, those before it.
LEMMA RequestKeepsTurn ==
  ASSUME UploadTypeOK, KnownOnce, NEW r \in Reqs, UCall(r) \/ UStep(r),
         NEW t \in Tasks, Fair(t)', NEW D, InTurn(t, D), D # {} => Known(t),
         NEW n, NEW E, E \subseteq D \cup {n},
         n \in E \ D => UploadPublish(r) /\ rtask[r] = t
  PROVE  InTurn(t, E)'
<1> USE DEF UploadTypeOK, UTypeOK, StoreTypeOK, Goto, Sending
<1>f. t \notin raced' /\ ItemsOf(t) # {}
  BY DEF Fair, ItemsOf
<1>1. CASE UCall(r)
  <2>1. PICK u \in Tasks :
          /\ rphase[r] = "idle" /\ rtask' = [rtask EXCEPT ![r] = u]
          /\ UNCHANGED <<status, itemStatus, taskLog, raced>>
          /\ \E q \in {"classify", "confirm", "retry", "claim"} : rphase' = [rphase EXCEPT ![r] = q]
    BY <1>1, CallLoads
  <2>2. ~UploadPublish(r)
    BY <2>1 DEF UploadPublish
  <2>3. E \subseteq D
    BY <2>2
  <2>4. \A p \in Reqs : rphase'[p] \in Sending => rphase[p] = rphase'[p] /\ rtask'[p] = rtask[p]
    BY <2>1
  <2>5. Marking(t) => Marking(t)'
    BY <2>1 DEF Marking
  <2>6. QED BY <2>1, <2>3, <2>4, <2>5 DEF InTurn
\* Of another task.
<1>2. ASSUME UStep(r), rtask[r] # t PROVE InTurn(t, E)'
  <2>1. /\ rtask' = rtask /\ status'[t] = status[t]
        /\ \E q \in RPhase : rphase' = [rphase EXCEPT ![r] = q]
    BY <1>2 DEF UStep, ClassifyCommit, ClassifyConflict, ConfirmCommit, RetryCommit, UploadClaim,
       UploadBusy, UploadStage, UploadStageFails, UploadPublish, UploadPublishFails, AfterFailure,
       UploadCompensate, UploadMark, UploadRelease, AppendTask, requestVars, loadedVars, storeVars,
       dbVars, RPhase
  <2>2. E \subseteq D
    BY <1>2
  <2>3. Marking(t)' <=> Marking(t)
    BY <1>2, <2>1 DEF Marking
  <2>4. QED BY <1>2, <2>1, <2>2, <2>3 DEF InTurn
\* Steps that end before a claim, or after the mark.
<1>3. ASSUME rtask[r] = t, rtask' = rtask, NEW q \in {"idle", "release"},
             rphase' = [rphase EXCEPT ![r] = q], rphase[r] # "mark" \/ status'[t] = "queued",
             \A p \in Reqs \ {r} : rtask[p] = t /\ rphase[p] \in {"stage", "publish", "compensate"}
               => status'[t] = status[t],
             D # {} => status'[t] = status[t] \/ status'[t] = "queued", E \subseteq D
      PROVE  InTurn(t, E)'
  <2>1. Marking(t) /\ rphase[r] # "mark" => Marking(t)'
    BY <1>3 DEF Marking
  <2>2. QED BY <1>3, <2>1 DEF InTurn
<1>4. ASSUME ClassifyCommit(r), rtask[r] = t PROVE InTurn(t, E)'
  <2>1. ~Known(t)
    BY <1>4, <1>f DEF ClassifyCommit, Known
  <2>2. status[t] = "draft" /\ D = {}
    BY <2>1 DEF KnownOnce
  <2>3. E \subseteq D /\ rtask' = rtask /\ rphase' = [rphase EXCEPT ![r] = "idle"] /\ rphase[r] # "mark"
    BY <1>4 DEF ClassifyCommit, UploadPublish, requestVars, loadedVars
  <2>4. QED BY <1>3, <1>4, <2>2, <2>3 DEF InTurn
<1>5. ASSUME ConfirmCommit(r), rtask[r] = t PROVE InTurn(t, E)'
  <2>1. /\ rphase[r] = "confirm" /\ rphase' = [rphase EXCEPT ![r] = "idle"] /\ rtask' = rtask
        /\ status[t] = rseen[r]
    BY <1>5, <1>f DEF ConfirmCommit, RaceIf, Stale, loadedVars
  <2>2. status[t] = "classified"
    BY <2>1 DEF KnownOnce
  <2>3. E \subseteq D
    BY <2>1 DEF UploadPublish
  <2>4. QED BY <1>3, <1>5, <2>1, <2>2, <2>3 DEF InTurn
<1>6. ASSUME RetryCommit(r), rtask[r] = t PROVE InTurn(t, E)'
  <2>1. /\ rphase[r] = "retry" /\ rphase' = [rphase EXCEPT ![r] = "idle"] /\ rtask' = rtask
        /\ status' = status \/ status[t] \in {"failed", "partial_failed"}
    BY <1>6, <1>f DEF RetryCommit, RaceIf, Stale, loadedVars
  <2>2. E \subseteq D
    BY <2>1 DEF UploadPublish
  <2>3. QED BY <1>3, <1>6, <2>1, <2>2 DEF InTurn
<1>7. ASSUME UploadClaim(r), rtask[r] = t PROVE InTurn(t, E)'
  <2>1. /\ rphase[r] = "claim" /\ UNCHANGED <<status, taskLog, rtask>>
        /\ \E q \in {"stage", "publish"} : rphase' = [rphase EXCEPT ![r] = q]
        /\ status[t] = rseen[r] /\ ~Rivalled(r)
    BY <1>7, <1>f, ClaimIsFair
  <2>2. status[t] = "confirmed"
    BY <2>1 DEF KnownOnce
  <2>3. \A p \in Reqs \ {r} : rtask[p] = t => rphase[p] \notin Sending
    BY <1>7, <2>1 DEF Rivalled
  <2>4. ~Marking(t)
    BY <2>1, <2>3 DEF Marking
  <2>5. E \subseteq D /\ D = {}
    BY <2>1, <2>2, <2>4 DEF InTurn, UploadPublish
  <2>6. QED BY <2>1, <2>2, <2>3, <2>5 DEF InTurn
<1>8. ASSUME UploadPublish(r), rtask[r] = t PROVE InTurn(t, E)'
  <2>1. /\ rphase[r] = "publish" /\ rphase' = [rphase EXCEPT ![r] = "mark"]
        /\ UNCHANGED <<status, rtask>>
    BY <1>8 DEF UploadPublish, AppendTask, requestVars, loadedVars, dbVars
  <2>2. status[t] = "confirmed" /\ D = {}
    BY <1>8, <2>1 DEF InTurn
  <2>3. Marking(t)'
    BY <1>8, <2>1 DEF Marking
  <2>4. \A p \in Reqs \ {r} : rtask[p] = t => rphase[p] \notin Sending
    BY <1>8, <2>1 DEF InTurn
  <2>5. QED BY <2>1, <2>2, <2>3, <2>4 DEF InTurn
<1>9. ASSUME UploadMark(r), rtask[r] = t PROVE InTurn(t, E)'
  <2>1. /\ rphase[r] = "mark" /\ rphase' = [rphase EXCEPT ![r] = "release"]
        /\ status'[t] = "queued" /\ rtask' = rtask
    BY <1>9 DEF UploadMark, requestVars, loadedVars
  <2>2. E \subseteq D
    BY <2>1 DEF UploadPublish
  <2>3. \A p \in Reqs \ {r} : rtask[p] = t => rphase[p] \notin Sending
    BY <1>9, <2>1 DEF InTurn
  <2>4. QED BY <1>3, <1>9, <2>1, <2>2, <2>3
<1>10. ASSUME \/ ClassifyConflict(r) \/ UploadBusy(r) \/ UploadStage(r) \/ UploadStageFails(r)
              \/ UploadPublishFails(r) \/ UploadCompensate(r) \/ UploadRelease(r),
              rtask[r] = t
       PROVE  InTurn(t, E)'
  <2>1. UploadGoesOn(r) /\ rphase[r] # "mark"
    BY <1>10, StepsGoOn
  <2>2. E \subseteq D
    <3>1. ~UploadPublish(r)
      BY <1>10, <2>1 DEF UploadGoesOn, UploadPublish, ClassifyConflict, UploadBusy, UploadStage,
         UploadStageFails, UploadPublishFails, AfterFailure, UploadCompensate, UploadRelease
    <3>2. QED BY <3>1
  <2>3. CASE \E q \in {"idle", "release"} : rphase' = [rphase EXCEPT ![r] = q]
    BY <1>3, <1>10, <2>1, <2>2, <2>3 DEF UploadGoesOn
  <2>4. CASE /\ rphase[r] \in {"stage", "publish"}
             /\ \E q \in {"publish", "compensate"} : rphase' = [rphase EXCEPT ![r] = q]
    <3>1. UNCHANGED <<status, rtask>>
      BY <2>1 DEF UploadGoesOn
    <3>2. status[t] = "confirmed" /\ D = {}
      BY <1>10, <2>4 DEF InTurn
    <3>3. QED BY <1>10, <2>2, <2>4, <3>1, <3>2 DEF InTurn
  <2>5. QED BY <2>1, <2>3, <2>4 DEF UploadGoesOn
<1>11. QED
  BY <1>1, <1>2, <1>4, <1>5, <1>6, <1>7, <1>8, <1>9, <1>10 DEF UStep

\* An outcome is written for a task with a message under way, which thereby
\* ends; no upload of the task is about to publish.
LEMMA OutcomeKeepsTurn ==
  ASSUME NEW t \in Tasks, NEW D, InTurn(t, D), NEW E, E \subseteq D,
         UNCHANGED <<rphase, rtask>>, status'[t] = status[t] \/ (D # {} /\ E = {})
  PROVE  InTurn(t, E)'
<1>1. Marking(t)' <=> Marking(t)
  BY DEF Marking
<1>2. QED BY <1>1 DEF InTurn

\* It is written for tasks of which there are messages.
LEMMA OutcomeKeepsKnown ==
  ASSUME UploadTypeOK, KnownOnce, UNCHANGED <<taskLog, rphase, rtask, rseen>>,
         \A i \in Items : itemStatus'[i] = "none" => itemStatus[i] = "none",
         \A t \in Tasks : status'[t] = status[t] \/ \E k \in DOMAIN taskLog : taskLog[k].task = t
  PROVE  KnownOnce'
<1>1. \A u : Known(u) => Known(u)'
  BY DEF Known, ItemsOf
<1>2. \A t \in Tasks : status'[t] # "draft" => Known(t)
  BY DEF KnownOnce
<1>3. QED BY <1>1, <1>2 DEF KnownOnce

\* What a request does to the topic: it leaves it, or publishes a message of
\* its own task.
LEMMA RequestsPublish ==
  ASSUME UploadTypeOK, NEW r \in Reqs, UCall(r) \/ UStep(r)
  PROVE  /\ UNCHANGED <<taskOffset, resultLog>>
         /\ \A k \in DOMAIN taskLog : k \in DOMAIN taskLog' /\ taskLog'[k] = taskLog[k]
         /\ \A k \in DOMAIN taskLog' : k \notin DOMAIN taskLog =>
              /\ k = Len(taskLog) + 1 /\ UploadPublish(r)
              /\ taskLog'[k].task = rtask[r] /\ taskLog'[k].items = ritems[r]
<1>t. taskLog \in Seq(TaskMsg) /\ rtask[r] \in Tasks /\ ritems[r] \in SUBSET Items
  BY DEF UploadTypeOK, StoreTypeOK, UTypeOK
<1>1. CASE UploadPublish(r)
  <2> DEFINE m == [task |-> rtask[r], items |-> ritems[r], skip |-> {}, valid |-> TRUE]
  <2>1. taskLog' = Append(taskLog, m) /\ UNCHANGED <<taskOffset, resultLog>>
    BY <1>1 DEF UploadPublish, AppendTask
  <2>2. m \in TaskMsg /\ m.task = rtask[r] /\ m.items = ritems[r]
    BY <1>t DEF TaskMsg
  <2> HIDE DEF m
  <2>3. /\ Len(taskLog') = Len(taskLog) + 1 /\ taskLog' \in Seq(TaskMsg)
        /\ taskLog'[Len(taskLog) + 1] = m
        /\ \A k \in 1 .. Len(taskLog) : taskLog'[k] = taskLog[k]
    BY <1>t, <2>1, <2>2, AppendProperties
  <2>4. DOMAIN taskLog = 1 .. Len(taskLog) /\ DOMAIN taskLog' = 1 .. Len(taskLog) + 1
        /\ Len(taskLog) \in Nat
    BY <1>t, <2>3
  <2>5. QED BY <1>1, <2>1, <2>2, <2>3, <2>4
<1>2. CASE ~UploadPublish(r)
  <2>1. UNCHANGED <<taskLog, taskOffset, resultLog>>
    BY <1>2 DEF UCall, ClassifyRead, ConfirmRead, RetryRead, UploadRead, Begin, UStep,
      ClassifyCommit, ClassifyConflict, ConfirmCommit, RetryCommit, UploadClaim, UploadBusy,
      UploadStage, UploadStageFails, UploadPublishFails, UploadCompensate, UploadMark,
      UploadRelease, storeVars, brokerVars
  <2>2. QED BY <2>1
<1>3. QED BY <1>1, <1>2

(***************************************************************************)
(* What an upload publishes.                                                *)
(***************************************************************************)

\* A message of the upload handler is valid, names items of its task only and
\* has nothing for the worker to filter out.
Plain ==
  /\ \A r \in Reqs : ritems[r] \subseteq ItemsOf(rtask[r])
  /\ \A k \in DOMAIN taskLog :
       taskLog[k].valid /\ taskLog[k].skip = {} /\ taskLog[k].items \subseteq ItemsOf(taskLog[k].task)

LEMMA AppendKeepsPlain ==
  ASSUME UploadTypeOK, Plain, NEW r \in Reqs, AppendTask(r)
  PROVE  Plain'
<1> DEFINE m == [task |-> rtask[r], items |-> ritems[r], skip |-> {}, valid |-> TRUE]
<1>1. m \in TaskMsg /\ m.valid /\ m.skip = {} /\ m.items \subseteq ItemsOf(m.task)
  BY DEF UploadTypeOK, UTypeOK, TaskMsg, Plain
<1>2. taskLog' = Append(taskLog, m) /\ taskLog \in Seq(TaskMsg) /\ UNCHANGED <<ritems, rtask>>
  BY DEF AppendTask, UploadTypeOK, StoreTypeOK, requestVars, loadedVars
<1> HIDE DEF m
<1>3. \A k \in DOMAIN taskLog' :
        (k \in DOMAIN taskLog /\ taskLog'[k] = taskLog[k]) \/ taskLog'[k] = m
  BY <1>1, <1>2, AppendProperties
<1>4. QED BY <1>1, <1>2, <1>3 DEF Plain

LEMMA RequestsKeepPlain ==
  ASSUME UploadTypeOK, Plain, (\E r \in Reqs : UCall(r) \/ UStep(r)) \/ UFault
  PROVE  Plain'
<1> USE DEF storeVars, dbVars, brokerVars, requestVars, loadedVars
<1>1. ASSUME NEW r \in Reqs, UCall(r) PROVE Plain'
  <2>1. PICK t \in Tasks : \E items \in SUBSET ItemsOf(t) :
          /\ rtask' = [rtask EXCEPT ![r] = t] /\ ritems' = [ritems EXCEPT ![r] = items]
          /\ taskLog' = taskLog
    BY <1>1 DEF UCall, ClassifyRead, ConfirmRead, RetryRead, UploadRead, Begin, UploadItems
  <2>2. QED BY <2>1 DEF Plain, UploadTypeOK, UTypeOK
<1>2. ASSUME NEW r \in Reqs,
             \/ ClassifyCommit(r) \/ RetryCommit(r) \/ ClassifyConflict(r) \/ ConfirmCommit(r)
             \/ UploadClaim(r) \/ UploadBusy(r) \/ UploadStage(r) \/ UploadStageFails(r)
             \/ UploadPublishFails(r) \/ UploadCompensate(r) \/ UploadMark(r)
             \/ UploadRelease(r) \/ UploadMarkFails(r) \/ ApiCrash(r)
      PROVE  Plain'
  <2>1. UNCHANGED <<rtask, ritems, taskLog>>
    BY <1>2 DEF ClassifyCommit, RetryCommit, ClassifyConflict, ConfirmCommit, UploadClaim,
       UploadBusy, UploadStage, UploadStageFails, UploadPublishFails, UploadCompensate, UploadMark,
       UploadRelease, UploadMarkFails, ApiCrash
  <2>2. QED BY <2>1 DEF Plain
<1>3. ASSUME NEW t \in Tasks, ClaimExpires(t) PROVE Plain'
  BY <1>3 DEF ClaimExpires, Plain
<1>4. QED
  BY <1>1, <1>2, <1>3, AppendKeepsPlain
     DEF UStep, UFault, UploadPublish, UploadPublishLost
=============================================================================
