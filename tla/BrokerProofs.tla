----------------------------- MODULE BrokerProofs -----------------------------
(***************************************************************************)
(* Theorems about the two processes on the broker, each in its environment. *)
(*                                                                         *)
(* The worker, for any number of tasks, items, messages and exits: its      *)
(* types, that results are complete, and that no unanswered message is      *)
(* passed over.                                                             *)
(*                                                                         *)
(* The consumer, for any number of consumers, tasks, items, results, errors *)
(* and rebalances: no acked result is passed over unaccounted, the          *)
(* workspace objects are those of the applied results, and, until the       *)
(* partition moves, the rows of a task show one result whole.               *)
(***************************************************************************)
EXTENDS KafkaWorker, ResultConsumer, SequenceTheorems, TLAPS

(***************************************************************************)
(* THE WORKER                                                               *)
(***************************************************************************)
\* Where Run is says whether it holds a task and whether it has fetched one.
WShape ==
  /\ wphase \in {"start", "process", "ack"} => wbatch # <<>>
  /\ wphase \in {"dlq", "dlqack"} => wpos # 0

WTypeInv == WorkerTypeOK /\ WShape

\* The message at hand, while Run holds one, is a message of the topic.
LEMMA CurrentType ==
  ASSUME WTypeInv, wbatch # <<>>
  PROVE  /\ Head(wbatch) \in 1 .. Len(taskLog)
         /\ Tail(wbatch) \in Seq(1 .. Len(taskLog))
         /\ Current \in TaskMsg
         /\ Selected(Current) \subseteq Items
<1>1. wbatch \in Seq(1 .. Len(taskLog)) /\ taskLog \in Seq(TaskMsg)
  BY DEF WTypeInv, WorkerTypeOK, StoreTypeOK, WTypeOK
<1>2. Head(wbatch) \in 1 .. Len(taskLog) /\ Tail(wbatch) \in Seq(1 .. Len(taskLog))
  BY <1>1, HeadTailProperties
<1>3. Current \in TaskMsg
  BY <1>1, <1>2, ElementOfSeq DEF Current
<1>4. QED BY <1>2, <1>3 DEF Selected, TaskMsg

\* A topic that grows keeps the offsets that were in range.
LEMMA GrowTypes ==
  ASSUME WTypeOK, Len(taskLog) \in Nat, Len(taskLog') \in Nat,
         Len(taskLog) <= Len(taskLog'), UNCHANGED workerVars
  PROVE  WTypeOK'
<1>1. 1 .. Len(taskLog) \subseteq 1 .. Len(taskLog')
  OBVIOUS
<1>2. wbatch \in Seq(1 .. Len(taskLog'))
  BY <1>1, SeqMonotonic DEF WTypeOK
<1>3. QED BY <1>1, <1>2 DEF WTypeOK, workerVars

(***************************************************************************)
(* Type correctness.                                                        *)
(***************************************************************************)

\* A step of the worker, or its exit, keeps the types.
LEMMA WorkerKeepsTypes ==
  ASSUME WTypeInv, WStep \/ WCrash
  PROVE  WTypeInv'
<1> USE StoreAssumption, WorkerAssumption
<1> USE DEF WTypeInv, WorkerTypeOK, WShape, WTypeOK, WPhase, ItemState
<1>t. /\ taskLog \in Seq(TaskMsg) /\ Len(taskLog) \in Nat
      /\ resultLog \in Seq(ResultMsg) /\ Len(resultLog) \in Nat
  BY DEF StoreTypeOK
<1>1. CASE WFetch
  <2>1. wpos + 1 \in 1 .. Len(taskLog)
    BY <1>1, <1>t DEF WFetch
  <2>2. Append(wbatch, wpos + 1) \in Seq(1 .. Len(taskLog))
    BY <2>1, AppendProperties
  <2>3. StoreTypeOK' /\ UNCHANGED <<taskLog, itemState, dlq, cached, wcrashes>>
    BY <1>1 DEF WFetch, StoreTypeOK, storeVars
  <2>4. wpos' \in 1 .. Len(taskLog) /\ fetched' \in Nat
    BY <1>1, <2>1 DEF WFetch
  <2>5. wbatch' \in Seq(1 .. Len(taskLog)) /\ wphase' \in {"fetch", "dlq"}
    BY <1>1, <2>2 DEF WFetch
  <2>6. QED BY <2>3, <2>4, <2>5
<1>2. CASE WDeadLetter
  BY <1>2, <1>t DEF WDeadLetter, StoreTypeOK, storeVars
<1>3. CASE WAckDeadLetter
  BY <1>3, <1>t DEF WAckDeadLetter, StoreTypeOK, dbVars
<1>4. CASE WBatchReady
  BY <1>4, <1>t DEF WBatchReady, StoreTypeOK, storeVars
<1>5. CASE WStart
  BY <1>5, <1>t DEF WStart, StoreTypeOK, storeVars
<1>6. ASSUME NEW i \in Items, WAcquireSlot(i)
      PROVE  WTypeInv'
  BY <1>6, <1>t DEF WAcquireSlot, StoreTypeOK, storeVars
<1>7. ASSUME NEW i \in Items, WResolve(i)
      PROVE  WTypeInv'
  <2>1. wbatch # <<>>
    BY <1>7 DEF WResolve
  <2>2. Current.task \in Tasks
    BY <2>1, CurrentType DEF TaskMsg
  <2>3. QED BY <1>7, <1>t, <2>2 DEF WResolve, StoreTypeOK, storeVars
<1>8. ASSUME NEW i \in Items, WResolveFails(i)
      PROVE  WTypeInv'
  BY <1>8, <1>t DEF WResolveFails, StoreTypeOK, storeVars
<1>9. ASSUME NEW i \in Items, WUpload(i)
      PROVE  WTypeInv'
  BY <1>9, <1>t DEF WUpload, StoreTypeOK, dbVars
<1>10. ASSUME NEW i \in Items, WUploadFails(i)
       PROVE  WTypeInv'
  BY <1>10, <1>t DEF WUploadFails, StoreTypeOK, dbVars
<1>11. CASE WProduce
  <2> DEFINE up   == Selected(Current) \cap InState("uploaded")
             down == Selected(Current) \cap InState("failed")
             res  == [task |-> Current.task, cause |-> Head(wbatch),
                      status |-> IF down = {} THEN "uploaded" ELSE "partial_failed",
                      uploaded |-> up, failed |-> down]
  <2>1. wbatch # <<>>
    BY <1>11 DEF WProduce
  <2>2. res \in ResultMsg
    BY <2>1, CurrentType, <1>t DEF ResultMsg, TaskMsg, InState
  <2>3. resultLog' = Append(resultLog, res)
    BY <1>11 DEF WProduce
  <2>4. resultLog' \in Seq(ResultMsg) /\ Len(resultLog') = Len(resultLog) + 1
    BY <2>2, <2>3, <1>t, AppendProperties
  <2> HIDE DEF res, up, down
  <2>5. StoreTypeOK'
    BY <1>11, <1>t, <2>4 DEF WProduce, StoreTypeOK, dbVars
  <2>6. wphase' = "ack" /\ UNCHANGED <<taskLog, wpos, fetched, wbatch, itemState, dlq, cached, wcrashes>>
    BY <1>11 DEF WProduce
  <2>7. WTypeOK' BY <2>6
  <2>8. WShape' BY <2>1, <2>6
  <2>9. QED BY <2>5, <2>7, <2>8
<1>12. CASE WAck
  <2>1. wbatch # <<>>
    BY <1>12 DEF WAck
  <2>2. Head(wbatch) \in 1 .. Len(taskLog) /\ Tail(wbatch) \in Seq(1 .. Len(taskLog))
    BY <2>1, CurrentType
  <2>3. taskOffset' = Head(wbatch) /\ wbatch' = Tail(wbatch)
        /\ wphase' = (IF Tail(wbatch) = <<>> THEN "fetch" ELSE "start")
        /\ itemState' = [i \in Items |-> "idle"]
        /\ UNCHANGED <<wpos, fetched, dlq, cached, wcrashes, dbVars, taskLog, resultLog,
                       resultOffset, sink, staged>>
    BY <1>12 DEF WAck
  <2>4. StoreTypeOK' BY <1>t, <2>2, <2>3, SMTT(30) DEF StoreTypeOK, dbVars
  <2>5. WTypeOK' BY <2>2, <2>3
  <2>6. WShape' BY <2>3
  <2>7. QED BY <2>4, <2>5, <2>6
<1>13. CASE WCrash
  <2>1. <<>> \in Seq(1 .. Len(taskLog))
    BY EmptySeq
  <2>2. sink' \subseteq Items
    BY <1>13 DEF WCrash, StoreTypeOK, InState
  <2>3. QED BY <1>13, <1>t, <2>1, <2>2 DEF WCrash, StoreTypeOK, dbVars
<1>14. QED
  BY <1>1, <1>2, <1>3, <1>4, <1>5, <1>6, <1>7, <1>8, <1>9, <1>10, <1>11, <1>12, <1>13
  DEF WStep

\* So does a step of its environment.
LEMMA EnvKeepsTypes ==
  ASSUME WTypeInv, EnvPublish \/ EnvStaging
  PROVE  WTypeInv'
<1> USE StoreAssumption
<1>t. taskLog \in Seq(TaskMsg) /\ Len(taskLog) \in Nat
  BY DEF WTypeInv, WorkerTypeOK, StoreTypeOK
<1>1. CASE EnvPublish
  <2>1. PICK m \in TaskMsg : taskLog' = Append(taskLog, m)
    BY <1>1 DEF EnvPublish
  <2>2. taskLog' \in Seq(TaskMsg) /\ Len(taskLog') = Len(taskLog) + 1
    BY <1>t, <2>1, AppendProperties
  <2>3. WTypeOK'
    BY <1>1, <1>t, <2>2, GrowTypes DEF EnvPublish, WTypeInv, WorkerTypeOK
  <2>4. StoreTypeOK'
    BY <1>1, <1>t, <2>2 DEF EnvPublish, WTypeInv, WorkerTypeOK, StoreTypeOK, dbVars
  <2>5. WShape'
    BY <1>1 DEF EnvPublish, WTypeInv, WShape, workerVars
  <2>6. QED BY <2>3, <2>4, <2>5 DEF WTypeInv, WorkerTypeOK
<1>2. CASE EnvStaging
  <2>1. WTypeOK'
    BY <1>2, <1>t, GrowTypes DEF EnvStaging, WTypeInv, WorkerTypeOK
  <2>2. StoreTypeOK'
    BY <1>2 DEF EnvStaging, WTypeInv, WorkerTypeOK, StoreTypeOK, dbVars
  <2>3. WShape'
    BY <1>2 DEF EnvStaging, WTypeInv, WShape, workerVars
  <2>4. QED BY <2>1, <2>2, <2>3 DEF WTypeInv, WorkerTypeOK
<1>3. QED BY <1>1, <1>2

LEMMA StutterKeepsTypes ==
  ASSUME WTypeInv, UNCHANGED workerSpecVars
  PROVE  WTypeInv'
BY DEF WTypeInv, WorkerTypeOK, WTypeOK, WShape, StoreTypeOK,
       workerSpecVars, workerVars, storeVars, dbVars

LEMMA InitTypes == WorkerInit => WTypeInv
<1> USE StoreAssumption
<1>1. <<>> \in Seq(TaskMsg) /\ <<>> \in Seq(ResultMsg) /\ Len(<<>>) = 0
  BY EmptySeq
<1>2. <<>> \in Seq(1 .. 0)
  BY EmptySeq
<1>3. ASSUME WorkerInit PROVE StoreTypeOK
  BY <1>1, <1>3 DEF WorkerInit, StoreInit, StoreTypeOK, TaskStatus, ItemStatus
<1>4. ASSUME WorkerInit PROVE WTypeOK /\ WShape
  BY <1>1, <1>2, <1>4
  DEF WorkerInit, StoreInit, WInit, WTypeOK, WShape, WPhase, ItemState
<1>5. QED BY <1>3, <1>4 DEF WTypeInv, WorkerTypeOK

\* The worker's state always has its types: offsets stay within the topics,
\* the batch holds offsets of messages that exist, results are well formed.
THEOREM WorkerTypeCorrect == WorkerSpec => []WorkerTypeOK
<1>1. WorkerInit => WTypeInv
  BY InitTypes
<1>2. WTypeInv /\ [WorkerNext]_workerSpecVars => WTypeInv'
  BY WorkerKeepsTypes, EnvKeepsTypes, StutterKeepsTypes DEF WorkerNext
<1>3. WTypeInv => WorkerTypeOK
  BY DEF WTypeInv
<1>4. QED BY <1>1, <1>2, <1>3, PTL DEF WorkerSpec

(***************************************************************************)
(* The results.  While a message is processed, an item is marked uploaded   *)
(* only after the sink has acknowledged it, and the sink forgets nothing.   *)
(***************************************************************************)
MarkedInSink == InState("uploaded") \subseteq sink

CausesInRange == \A r \in DOMAIN resultLog : resultLog[r].cause \in DOMAIN taskLog

ResultInv == WTypeInv /\ MarkedInSink /\ CausesInRange /\ ResultsComplete

\* What ResultInv asks of one result, against a topic and a sink.
Accounts(res, log, stored) ==
  /\ res.cause \in DOMAIN log
  /\ res.task = log[res.cause].task
  /\ res.uploaded \cup res.failed = Selected(log[res.cause])
  /\ res.uploaded \cap res.failed = {}
  /\ res.uploaded \subseteq stored
  /\ (res.status = "uploaded") <=> (res.failed = {})

LEMMA ResultsAsAccounts ==
  (CausesInRange /\ ResultsComplete)
    <=> \A r \in DOMAIN resultLog : Accounts(resultLog[r], taskLog, sink)
BY DEF CausesInRange, ResultsComplete, Accounts

\* Results stay accounted for while the topic and the sink only grow.
LEMMA AccountsKept ==
  ASSUME CausesInRange, ResultsComplete, resultLog' = resultLog,
         DOMAIN taskLog \subseteq DOMAIN taskLog',
         \A k \in DOMAIN taskLog : taskLog'[k] = taskLog[k],
         sink \subseteq sink'
  PROVE  CausesInRange' /\ ResultsComplete'
BY DEF CausesInRange, ResultsComplete, Selected

LEMMA WorkerKeepsResults ==
  ASSUME ResultInv, WStep \/ WCrash
  PROVE  ResultInv'
<1> USE DEF ResultInv
<1>t. /\ resultLog \in Seq(ResultMsg) /\ Len(resultLog) \in Nat
      /\ DOMAIN resultLog = 1 .. Len(resultLog)
      /\ itemState \in [Items -> ItemState]
      /\ taskLog \in Seq(TaskMsg) /\ DOMAIN taskLog = 1 .. Len(taskLog)
  BY LenProperties DEF WTypeInv, WorkerTypeOK, StoreTypeOK, WTypeOK
<1>y. WTypeInv'
  BY WorkerKeepsTypes
<1>1. ASSUME ~WProduce
      PROVE  /\ UNCHANGED <<taskLog, resultLog>>
             /\ sink \subseteq sink'
             /\ MarkedInSink'
  <2> USE <1>1, <1>t DEF MarkedInSink, InState
  <2>1. CASE WFetch \/ WDeadLetter \/ WBatchReady
    BY <2>1 DEF WFetch, WDeadLetter, WBatchReady, storeVars
  <2>2. CASE WAckDeadLetter
    BY <2>2 DEF WAckDeadLetter
  <2>3. CASE WStart
    BY <2>3 DEF WStart, storeVars
  <2>4. ASSUME NEW i \in Items, WAcquireSlot(i) \/ WResolve(i) \/ WResolveFails(i)
        PROVE  /\ UNCHANGED <<taskLog, resultLog>>
               /\ sink \subseteq sink' /\ MarkedInSink'
    BY <2>4 DEF WAcquireSlot, WResolve, WResolveFails, storeVars
  <2>5. ASSUME NEW i \in Items, WUpload(i) \/ WUploadFails(i)
        PROVE  /\ UNCHANGED <<taskLog, resultLog>>
               /\ sink \subseteq sink' /\ MarkedInSink'
    BY <2>5 DEF WUpload, WUploadFails
  <2>6. CASE WAck
    BY <2>6 DEF WAck
  <2>7. CASE WCrash
    BY <2>7 DEF WCrash
  <2>8. QED BY <2>1, <2>2, <2>3, <2>4, <2>5, <2>6, <2>7 DEF WStep
<1>2. CASE ~WProduce
  BY <1>y, <1>1, <1>2, AccountsKept
<1>3. CASE WProduce
  <2> DEFINE up   == Selected(Current) \cap InState("uploaded")
             down == Selected(Current) \cap InState("failed")
             res  == [task |-> Current.task, cause |-> Head(wbatch),
                      status |-> IF down = {} THEN "uploaded" ELSE "partial_failed",
                      uploaded |-> up, failed |-> down]
  <2>1. wbatch # <<>>
    BY <1>3 DEF WProduce, WTypeInv, WShape
  <2>2. Head(wbatch) \in DOMAIN taskLog /\ Current \in TaskMsg
    BY <1>t, <2>1, CurrentType
  <2>3. res \in ResultMsg
    BY <2>2, <2>1, CurrentType, <1>t DEF ResultMsg, TaskMsg
  <2>4. /\ resultLog' = Append(resultLog, res)
        /\ Selected(Current) = up \cup down
        /\ UNCHANGED <<taskLog, sink, itemState>>
    BY <1>3 DEF WProduce
  <2>5. Accounts(res, taskLog, sink)
    BY <2>2, <2>4 DEF Accounts, Current, MarkedInSink, InState
  <2> HIDE DEF res, up, down
  <2>6. /\ DOMAIN resultLog' = 1 .. Len(resultLog) + 1
        /\ \A r \in DOMAIN resultLog : resultLog'[r] = resultLog[r]
        /\ resultLog'[Len(resultLog) + 1] = res
    BY <2>3, <2>4, <1>t, AppendProperties, LenProperties
  <2>7. \A r \in DOMAIN resultLog' : Accounts(resultLog'[r], taskLog, sink)
    <3>1. \A r \in DOMAIN resultLog : Accounts(resultLog[r], taskLog, sink)
      BY ResultsAsAccounts
    <3>2. TAKE r \in DOMAIN resultLog'
    <3>3. CASE r \in DOMAIN resultLog
      BY <2>6, <3>1, <3>3
    <3>4. CASE r = Len(resultLog) + 1
      BY <2>5, <2>6, <3>4
    <3>5. QED BY <2>6, <1>t, <3>3, <3>4
  <2>8. CausesInRange' /\ ResultsComplete'
    BY <2>4, <2>7 DEF CausesInRange, ResultsComplete, Accounts, Selected
  <2>9. MarkedInSink'
    BY <2>4 DEF MarkedInSink, InState
  <2>10. QED BY <1>y, <2>8, <2>9
<1>4. QED BY <1>2, <1>3

LEMMA EnvKeepsResults ==
  ASSUME ResultInv, EnvPublish \/ EnvStaging
  PROVE  ResultInv'
<1>t. taskLog \in Seq(TaskMsg) /\ DOMAIN taskLog = 1 .. Len(taskLog)
  BY LenProperties DEF ResultInv, WTypeInv, WorkerTypeOK, StoreTypeOK
<1>1. UNCHANGED <<resultLog, sink, itemState>>
  BY DEF EnvPublish, EnvStaging, workerVars
<1>2. DOMAIN taskLog \subseteq DOMAIN taskLog'
      /\ \A k \in DOMAIN taskLog : taskLog'[k] = taskLog[k]
  <2>1. CASE EnvPublish
    <3>1. PICK m \in TaskMsg : taskLog' = Append(taskLog, m)
      BY <2>1 DEF EnvPublish
    <3>2. QED BY <1>t, <3>1, AppendProperties, LenProperties
  <2>2. CASE EnvStaging
    BY <2>2 DEF EnvStaging
  <2>3. QED BY <2>1, <2>2
<1>3. WTypeInv' /\ MarkedInSink'
  BY <1>1, EnvKeepsTypes DEF ResultInv, MarkedInSink, InState
<1>4. CausesInRange' /\ ResultsComplete'
  BY <1>1, <1>2, AccountsKept DEF ResultInv
<1>5. QED BY <1>3, <1>4 DEF ResultInv

\* Every result in the topic accounts for the whole of its message and claims
\* an upload only for bytes that are in the sink, however often the process
\* exits and a message is processed again.
THEOREM ResultsAlwaysComplete == WorkerSpec => []ResultsComplete
<1>1. WorkerInit => ResultInv
  <2>1. ASSUME WorkerInit
        PROVE  MarkedInSink /\ CausesInRange /\ ResultsComplete
    BY <2>1 DEF WorkerInit, StoreInit, WInit, MarkedInSink, InState, CausesInRange,
                ResultsComplete
  <2>2. QED BY <2>1, InitTypes DEF ResultInv
<1>2. ResultInv /\ [WorkerNext]_workerSpecVars => ResultInv'
  <2>1. ASSUME ResultInv, UNCHANGED workerSpecVars
        PROVE  ResultInv'
    BY <2>1, StutterKeepsTypes
    DEF ResultInv, MarkedInSink, InState, CausesInRange, ResultsComplete, Selected,
        workerSpecVars, workerVars, storeVars
  <2>2. QED BY <2>1, WorkerKeepsResults, EnvKeepsResults DEF WorkerNext
<1>3. ResultInv => ResultsComplete
  BY DEF ResultInv
<1>4. QED BY <1>1, <1>2, <1>3, PTL DEF WorkerSpec

(***************************************************************************)
(* At-least-once hand-over, for the default batch of one message.           *)
(***************************************************************************)

\* With one message per Consume the reader is at most one message ahead of
\* the committed offset, and that message is the one at hand.
OneAhead ==
  /\ wbatch # <<>> =>
       /\ Tail(wbatch) = <<>>
       /\ Head(wbatch) = wpos
       /\ wpos = taskOffset + 1
       /\ taskLog[wpos].valid
       /\ wphase = "fetch" => fetched # 0
  /\ wbatch = <<>> /\ wphase = "fetch" => wpos = taskOffset
  /\ wphase \in {"dlq", "dlqack"} =>
       /\ wbatch = <<>>
       /\ wpos = taskOffset + 1
       /\ ~taskLog[wpos].valid
  /\ wphase = "dlqack" => wpos \in dlq
  /\ wphase = "ack" => Answered(Head(wbatch))

HandOverInv == WTypeInv /\ OneAhead /\ AckedTasksAnswered

LEMMA WorkerKeepsHandOver ==
  ASSUME HandOverInv, BatchSize = 1, WStep \/ WCrash
  PROVE  HandOverInv'
<1> USE DEF HandOverInv
<1>t. /\ taskLog \in Seq(TaskMsg) /\ Len(taskLog) \in Nat
      /\ resultLog \in Seq(ResultMsg) /\ Len(resultLog) \in Nat
      /\ DOMAIN resultLog = 1 .. Len(resultLog)
      /\ wpos \in 0 .. Len(taskLog) /\ taskOffset \in 0 .. Len(taskLog)
      /\ fetched \in Nat
      /\ wphase \in {"start", "process", "ack"} => wbatch # <<>>
      /\ wphase \in WPhase
      /\ wbatch \in Seq(1 .. Len(taskLog))
  BY LenProperties DEF WTypeInv, WorkerTypeOK, StoreTypeOK, WTypeOK, WShape
<1>y. WTypeInv'
  BY WorkerKeepsTypes
<1>1. CASE WFetch
  <2>1. wbatch = <<>> /\ wpos = taskOffset /\ wpos' = wpos + 1 /\ fetched' = fetched + 1
    BY <1>1, <1>t DEF WFetch, OneAhead
  <2>2. UNCHANGED <<taskLog, taskOffset, resultLog, dlq>>
    BY <1>1 DEF WFetch, storeVars
  <2>3. CASE taskLog[wpos + 1].valid
    <3>1. wbatch' = Append(<<>>, wpos + 1) /\ wphase' = "fetch"
      BY <1>1, <2>1, <2>3 DEF WFetch
    <3>2. wbatch' # <<>> /\ Head(wbatch') = wpos + 1 /\ Tail(wbatch') = <<>>
      BY <3>1
    <3>3. OneAhead'
      BY <2>1, <2>2, <2>3, <3>1, <3>2, <1>t DEF OneAhead
    <3>4. QED BY <1>y, <2>2, <3>3 DEF AckedTasksAnswered, Answered
  <2>4. CASE ~taskLog[wpos + 1].valid
    <3>1. wbatch' = <<>> /\ wphase' = "dlq"
      BY <1>1, <2>1, <2>4 DEF WFetch
    <3>2. OneAhead'
      BY <2>1, <2>2, <2>4, <3>1, <1>t DEF OneAhead
    <3>3. QED BY <1>y, <2>2, <3>2 DEF AckedTasksAnswered, Answered
  <2>5. QED BY <2>3, <2>4
<1>2. CASE WDeadLetter
  <2>1. OneAhead'
    BY <1>2, <1>t DEF WDeadLetter, OneAhead, storeVars
  <2>2. AckedTasksAnswered'
    BY <1>2 DEF WDeadLetter, AckedTasksAnswered, Answered, storeVars
  <2>3. QED BY <1>y, <2>1, <2>2
<1>3. CASE WAckDeadLetter
  <2>1. /\ wbatch = <<>> /\ wpos = taskOffset + 1 /\ ~taskLog[wpos].valid /\ wpos \in dlq
        /\ taskOffset' = wpos /\ wphase' = "fetch"
        /\ UNCHANGED <<wpos, wbatch, dlq, taskLog, resultLog>>
    BY <1>3 DEF WAckDeadLetter, OneAhead
  <2>2. OneAhead'
    BY <2>1, <1>t DEF OneAhead
  <2>3. AckedTasksAnswered'
    BY <2>1, <1>t DEF AckedTasksAnswered, Answered
  <2>4. QED BY <1>y, <2>2, <2>3
<1>4. CASE WBatchReady
  <2>1. OneAhead'
    BY <1>4, <1>t DEF WBatchReady, OneAhead, storeVars
  <2>2. AckedTasksAnswered'
    BY <1>4 DEF WBatchReady, AckedTasksAnswered, Answered, storeVars
  <2>3. QED BY <1>y, <2>1, <2>2
<1>5. CASE \/ WStart
           \/ \E i \in Items : WAcquireSlot(i) \/ WResolve(i) \/ WResolveFails(i)
                               \/ WUpload(i) \/ WUploadFails(i)
  <2>1. /\ UNCHANGED <<wpos, wbatch, dlq, taskLog, taskOffset, resultLog>>
        /\ wphase' = "process" /\ wbatch # <<>>
    BY <1>5, <1>t
    DEF WStart, WAcquireSlot, WResolve, WResolveFails, WUpload, WUploadFails, storeVars
  <2>2. OneAhead'
    BY <2>1, <1>t DEF OneAhead
  <2>3. AckedTasksAnswered'
    BY <2>1 DEF AckedTasksAnswered, Answered
  <2>4. QED BY <1>y, <2>2, <2>3
<1>6. CASE WProduce
  <2>1. PICK res : resultLog' = Append(resultLog, res) /\ res.cause = Head(wbatch)
    BY <1>6 DEF WProduce
  <2>2. /\ wphase' = "ack" /\ wbatch # <<>>
        /\ UNCHANGED <<wpos, wbatch, dlq, taskLog, taskOffset>>
    BY <1>6, <1>t DEF WProduce
  <2>3. resultLog' \in Seq(ResultMsg)
    BY <1>y DEF WTypeInv, WorkerTypeOK, StoreTypeOK
  <2>4. /\ DOMAIN resultLog' = 1 .. Len(resultLog) + 1
        /\ \A r \in 1 .. Len(resultLog) : resultLog'[r] = resultLog[r]
        /\ resultLog'[Len(resultLog) + 1] = res
    BY <2>1, <2>3, <1>t
  <2>5. Answered(Head(wbatch))'
    <3>1. Len(resultLog) \in Nat
      BY <1>y DEF WTypeInv, WorkerTypeOK, StoreTypeOK
    <3>2. Len(resultLog) + 1 \in DOMAIN resultLog'
      BY <2>4, <3>1
    <3>3. Head(wbatch)' = Head(wbatch) /\ resultLog'[Len(resultLog) + 1].cause = Head(wbatch)
      BY <2>1, <2>2, <2>4
    <3>4. QED BY <3>2, <3>3 DEF Answered
  <2>6. OneAhead'
    BY <2>2, <2>5, <1>t DEF OneAhead
  <2>7. \A k : Answered(k) => Answered(k)'
    BY <2>4, <1>t DEF Answered
  <2>8. AckedTasksAnswered'
    BY <2>2, <2>7 DEF AckedTasksAnswered
  <2>9. QED BY <1>y, <2>6, <2>8
<1>7. CASE WAck
  <2>1. /\ wbatch # <<>> /\ Tail(wbatch) = <<>>
        /\ Head(wbatch) = taskOffset + 1 /\ wpos = Head(wbatch)
        /\ Answered(Head(wbatch)) /\ taskLog[Head(wbatch)].valid
    BY <1>7, <1>t DEF WAck, OneAhead
  <2>2. /\ taskOffset' = Head(wbatch) /\ wbatch' = <<>> /\ wphase' = "fetch"
        /\ UNCHANGED <<wpos, dlq, taskLog, resultLog>>
    BY <1>7, <2>1 DEF WAck
  <2>3. OneAhead'
    BY <2>1, <2>2 DEF OneAhead
  <2>4. AckedTasksAnswered'
    <3>1. \A k \in 1 .. taskOffset :
            IF taskLog[k].valid THEN Answered(k) ELSE k \in dlq
      BY DEF AckedTasksAnswered
    <3>2. 1 .. taskOffset' = (1 .. taskOffset) \cup {Head(wbatch)}
      BY <2>1, <2>2, <1>t
    <3>3. \A k : Answered(k)' <=> Answered(k)
      BY <2>2 DEF Answered
    <3>4. QED BY <2>1, <2>2, <3>1, <3>2, <3>3 DEF AckedTasksAnswered
  <2>5. QED BY <1>y, <2>3, <2>4
<1>8. CASE WCrash
  <2>1. OneAhead'
    BY <1>8 DEF WCrash, OneAhead
  <2>2. AckedTasksAnswered'
    BY <1>8 DEF WCrash, AckedTasksAnswered, Answered
  <2>3. QED BY <1>y, <2>1, <2>2
<1>9. QED BY <1>1, <1>2, <1>3, <1>4, <1>5, <1>6, <1>7, <1>8 DEF WStep

LEMMA EnvKeepsHandOver ==
  ASSUME HandOverInv, EnvPublish \/ EnvStaging
  PROVE  HandOverInv'
<1>t. /\ taskLog \in Seq(TaskMsg) /\ Len(taskLog) \in Nat
      /\ taskOffset \in 0 .. Len(taskLog)
      /\ wpos \in 0 .. Len(taskLog)
  BY DEF HandOverInv, WTypeInv, WorkerTypeOK, StoreTypeOK, WTypeOK
<1>1. UNCHANGED <<wphase, wpos, fetched, wbatch, dlq, taskOffset, resultLog>>
  BY DEF EnvPublish, EnvStaging, workerVars
<1>2. \A k \in 1 .. Len(taskLog) : taskLog'[k] = taskLog[k]
  <2>1. CASE EnvPublish
    <3>1. PICK m \in TaskMsg : taskLog' = Append(taskLog, m)
      BY <2>1 DEF EnvPublish
    <3>2. QED BY <1>t, <3>1, AppendProperties
  <2>2. CASE EnvStaging
    BY <2>2 DEF EnvStaging
  <2>3. QED BY <2>1, <2>2
<1>3. WTypeInv'
  BY EnvKeepsTypes DEF HandOverInv
<1>4. wbatch # <<>> \/ wphase \in {"dlq", "dlqack"} => wpos \in 1 .. Len(taskLog)
  BY <1>t DEF HandOverInv, OneAhead
<1>5. OneAhead'
  BY <1>1, <1>2, <1>4 DEF HandOverInv, OneAhead, Answered
<1>6. AckedTasksAnswered'
  BY <1>1, <1>2, <1>t DEF HandOverInv, AckedTasksAnswered, Answered
<1>7. QED BY <1>3, <1>5, <1>6 DEF HandOverInv

\* With one message per Consume, no exit of the worker loses a task: whatever
\* the committed offset has passed was answered or dead-lettered first.
THEOREM HandOver ==
  ASSUME BatchSize = 1
  PROVE  WorkerSpec => []AckedTasksAnswered
<1>1. WorkerInit => HandOverInv
  <2>1. ASSUME WorkerInit
        PROVE  OneAhead /\ AckedTasksAnswered
    BY <2>1 DEF WorkerInit, StoreInit, WInit, OneAhead, AckedTasksAnswered
  <2>2. QED BY <2>1, InitTypes DEF HandOverInv
<1>2. HandOverInv /\ [WorkerNext]_workerSpecVars => HandOverInv'
  <2>1. ASSUME HandOverInv, UNCHANGED workerSpecVars
        PROVE  HandOverInv'
    BY <2>1, StutterKeepsTypes
    DEF HandOverInv, OneAhead, AckedTasksAnswered, Answered,
        workerSpecVars, workerVars, storeVars
  <2>2. QED BY <2>1, WorkerKeepsHandOver, EnvKeepsHandOver DEF WorkerNext
<1>3. HandOverInv => AckedTasksAnswered
  BY DEF HandOverInv
<1>4. QED BY <1>1, <1>2, <1>3, PTL DEF WorkerSpec

(***************************************************************************)
(* THE CONSUMER                                                             *)
(***************************************************************************)
CPhases == {"idle", "first", "lease", "apply", "ack", "release", "commit"}

\* What the control plane finds in the result topic.
ConsumerMsg == [task: Tasks, cause: Nat,
                status: {"uploaded", "partial_failed", "unreadable"},
                uploaded: SUBSET Items, failed: SUBSET Items]

Snapshot == [status: [Tasks -> TaskStatus], item: [Items -> ItemStatus],
             objects: SUBSET Items]

RowTypes ==
  /\ status \in [Tasks -> TaskStatus]
  /\ itemStatus \in [Items -> ItemStatus]
  /\ objects \subseteq Items
  /\ resultLog \in Seq(ConsumerMsg)

SessionTypes ==
  /\ cphase \in [Consumers -> CPhases]
  /\ cbatch \in [Consumers -> Seq(Nat)]
  /\ view \in [Consumers -> Snapshot]
  /\ wStatus \in [Consumers -> [Tasks -> TaskStatus \cup {Keep}]]
  /\ wItem \in [Consumers -> [Items -> ItemStatus \cup {Keep}]]
  /\ wObj \in [Consumers -> SUBSET Items]
  /\ pending \in [Consumers -> SUBSET Nat]
  /\ leases \in [Tasks -> Consumers \cup {Nobody}]
  /\ rowLock \in [Tasks -> Consumers \cup {Nobody}]
  /\ owner \in Consumers
  /\ moves \in Nat
  /\ resultOffset \in Nat

\* Offsets of consecutive readable records.
ReadableRun(b) ==
  \A j \in 1 .. Len(b) : b[j] \in DOMAIN resultLog /\ Readable(b[j]) /\ b[j] = b[1] + j - 1

\* The batch of a call is such a run, in the phases that handle one.
BatchShape(c) ==
  /\ ReadableRun(cbatch[c])
  /\ cphase[c] \in {"apply", "ack", "release"} => cbatch[c] # <<>>
  /\ cphase[c] \in {"idle", "commit"} => cbatch[c] = <<>>

\* What a session has applied lies before what is left of its batch.
SessionShape(c) ==
  /\ cphase[c] = "idle" =>
       wStatus[c] = NoStatus /\ wItem[c] = NoItem /\ wObj[c] = {} /\ pending[c] = {}
  /\ pending[c] \subseteq DOMAIN resultLog
  /\ cbatch[c] # <<>> => \A k \in pending[c] :
       k < Head(cbatch[c]) \/ (k = Head(cbatch[c]) /\ cphase[c] \in {"ack", "release"})
  /\ cphase[c] \in {"ack", "release"} => Head(cbatch[c]) \in pending[c]

CShape ==
  /\ RowTypes
  /\ SessionTypes
  /\ \A c \in Consumers : BatchShape(c) /\ SessionShape(c)

(***************************************************************************)
(* Accounting of the offsets.                                               *)
(***************************************************************************)

\* Offset k is in the database, given up, or acked in an open session.
Accounted(k) ==
  \/ k \in applied \cup skipped \cup lost
  \/ \E c \in Consumers : k \in pending[c] \ Unacked(c)

OffsetInv ==
  /\ \A k \in 1 .. resultOffset : Accounted(k)
  /\ \A c \in Consumers : cbatch[c] # <<>> =>
       \A k \in 1 .. Head(cbatch[c]) - 1 : Accounted(k)

AInv == CShape /\ OffsetInv

(***************************************************************************)
(* The objects.                                                             *)
(***************************************************************************)
ObjectInv ==
  /\ ObjectsMatchResults
  /\ \A c \in Consumers :
       /\ view[c].objects \subseteq objects
       /\ \A i \in wObj[c] : \E k \in pending[c] : i \in resultLog[k].uploaded
       /\ {i \in Mapped : wItem[c][i] = "uploaded"} \subseteq wObj[c] \cup objects

OInv == CShape /\ ObjectInv /\ applied \subseteq DOMAIN resultLog

(***************************************************************************)
(* The rows, until the partition moves.                                     *)
(***************************************************************************)

\* The rows as they will be once the session of c commits.
NextStatus(c, t) == IF wStatus[c][t] = Keep THEN status[t] ELSE wStatus[c][t]
NextItem(c, i) == IF wItem[c][i] = Keep THEN itemStatus[i] ELSE wItem[c][i]

\* A result names items of its own task, each with one outcome.
WellFormedResults ==
  \A k \in DOMAIN resultLog :
    /\ resultLog[k].uploaded \cup resultLog[k].failed \subseteq ItemsOf(resultLog[k].task)
    /\ resultLog[k].uploaded \cap resultLog[k].failed = {}

\* The rows of t that the session of c sees are those of record k.
SessionShows(c, t, k) ==
  /\ resultLog[k].task = t
  /\ resultLog[k].status = NextStatus(c, t)
  /\ \A i \in resultLog[k].uploaded : NextItem(c, i) = "uploaded"
  /\ \A i \in resultLog[k].failed : NextItem(c, i) = "failed"

\* The rows that the session of d would leave are those of one result.
Whole(d) ==
  \A t \in Tasks : NextStatus(d, t) \in Terminal =>
    \E k \in applied \cup pending[d] : SessionShows(d, t, k)

SoleSession ==
  \A c \in Consumers :
    /\ c # owner => cphase[c] = "idle"
    /\ cphase[c] \in {"lease", "apply", "ack", "release"} =>
         view[c] = [status |-> status, item |-> itemStatus, objects |-> objects]
    /\ Whole(c)

RowInv ==
  /\ WellFormedResults
  /\ applied \subseteq DOMAIN resultLog
  /\ StatusMatchesResult
  /\ moves = 0 => SoleSession

RInv == CShape /\ RowInv
(***************************************************************************)
(* Shape: types, batches and sessions.                                      *)
(***************************************************************************)

\* The head of a batch is a readable record; its tail is a run again, and
\* goes on one offset later.
LEMMA HeadOfRun ==
  ASSUME RowTypes, NEW b \in Seq(Nat), b # <<>>, ReadableRun(b)
  PROVE  /\ Head(b) \in DOMAIN resultLog
         /\ Head(b) \in Nat \ {0}
         /\ resultLog[Head(b)] \in ConsumerMsg
         /\ resultLog[Head(b)].status \in {"uploaded", "partial_failed"}
         /\ Tail(b) \in Seq(Nat)
         /\ ReadableRun(Tail(b))
         /\ Tail(b) # <<>> => Head(Tail(b)) = Head(b) + 1
<1>1. Len(b) \in Nat \ {0} /\ Head(b) = b[1]
  OBVIOUS
<1>2. /\ Head(b) \in DOMAIN resultLog
      /\ Readable(Head(b))
  BY <1>1 DEF ReadableRun
<1>3. resultLog[Head(b)] \in ConsumerMsg /\ Head(b) \in Nat \ {0}
  BY <1>2 DEF RowTypes
<1>4. resultLog[Head(b)].status \in {"uploaded", "partial_failed"}
  BY <1>2, <1>3 DEF Readable, ConsumerMsg
<1>5. /\ Tail(b) \in Seq(Nat)
      /\ Len(Tail(b)) = Len(b) - 1
      /\ \A j \in 1 .. Len(Tail(b)) : Tail(b)[j] = b[j + 1]
  BY HeadTailProperties
<1>6. ReadableRun(Tail(b))
  <2> SUFFICES ASSUME NEW j \in 1 .. Len(Tail(b))
               PROVE  /\ Tail(b)[j] \in DOMAIN resultLog /\ Readable(Tail(b)[j])
                      /\ Tail(b)[j] = Tail(b)[1] + j - 1
    BY DEF ReadableRun
  <2>1. j + 1 \in 1 .. Len(b) /\ 1 + 1 \in 1 .. Len(b) /\ 1 \in 1 .. Len(Tail(b))
    BY <1>1, <1>5
  <2>2. b[j + 1] = b[1] + (j + 1) - 1 /\ b[1 + 1] = b[1] + (1 + 1) - 1 /\ b[1] \in Nat
    BY <2>1, <1>1, <1>3 DEF ReadableRun
  <2>3. Tail(b)[j] = Tail(b)[1] + j - 1
    BY <2>1, <2>2, <1>5
  <2>4. QED BY <2>1, <2>3, <1>5 DEF ReadableRun
<1>7. Tail(b) # <<>> => Head(Tail(b)) = Head(b) + 1
  <2> SUFFICES ASSUME Tail(b) # <<>> PROVE Head(Tail(b)) = Head(b) + 1
    OBVIOUS
  <2>1. 1 \in 1 .. Len(Tail(b)) /\ 1 + 1 \in 1 .. Len(b) /\ Head(Tail(b)) = Tail(b)[1]
    BY <1>1, <1>5
  <2>2. b[1 + 1] = b[1] + (1 + 1) - 1 /\ b[1] \in Nat
    BY <2>1, <1>1, <1>3 DEF ReadableRun
  <2>3. QED BY <2>1, <2>2, <1>1, <1>5
<1>8. QED BY <1>2, <1>3, <1>4, <1>5, <1>6, <1>7

\* The record at hand, in a phase that has one.
LEMMA RecordAtHand ==
  ASSUME CShape, NEW c \in Consumers, cbatch[c] # <<>>
  PROVE  /\ cbatch[c] \in Seq(Nat)
         /\ Head(cbatch[c]) \in DOMAIN resultLog
         /\ Head(cbatch[c]) \in Nat \ {0}
         /\ Record(c) \in ConsumerMsg
         /\ Record(c).status \in {"uploaded", "partial_failed"}
         /\ Tail(cbatch[c]) \in Seq(Nat)
         /\ ReadableRun(Tail(cbatch[c]))
         /\ Tail(cbatch[c]) # <<>> => Head(Tail(cbatch[c])) = Head(cbatch[c]) + 1
<1>1. RowTypes /\ cbatch[c] \in Seq(Nat) /\ ReadableRun(cbatch[c])
  BY DEF CShape, SessionTypes, BatchShape
<1>2. QED BY <1>1, HeadOfRun DEF Record

\* A session that a step leaves alone keeps its shape.
LEMMA OtherSession ==
  ASSUME NEW d \in Consumers, BatchShape(d), SessionShape(d),
         UNCHANGED <<resultLog, cphase[d], cbatch[d], wStatus[d], wItem[d],
                     wObj[d], pending[d]>>
  PROVE  BatchShape(d)' /\ SessionShape(d)'
BY DEF BatchShape, SessionShape, ReadableRun, Readable

\* A session that has ended has the shape of an idle one, and the others keep
\* theirs.
LEMMA EndKeepsShape ==
  ASSUME CShape, NEW c \in Consumers, EndSession(c), RowTypes', UNCHANGED <<resultLog,
         resultOffset>>, leases' \in [Tasks -> Consumers \cup {Nobody}],
         owner' \in Consumers, moves' \in Nat
  PROVE  CShape'
<1>1. SessionTypes'
  BY DEF CShape, SessionTypes, EndSession, CPhases, NoStatus, NoItem
<1>2. ASSUME NEW d \in Consumers PROVE BatchShape(d)' /\ SessionShape(d)'
  <2>1. CASE d = c
    <3>1. /\ cphase'[c] = "idle" /\ cbatch'[c] = <<>> /\ pending'[c] = {}
          /\ wStatus'[c] = NoStatus /\ wItem'[c] = NoItem /\ wObj'[c] = {}
      BY DEF CShape, SessionTypes, EndSession
    <3>2. Len(cbatch'[c]) = 0
      BY <3>1
    <3>3. BatchShape(c)'
      BY <3>1, <3>2 DEF BatchShape, ReadableRun
    <3>4. NoStatus' = NoStatus /\ NoItem' = NoItem
      BY DEF NoStatus, NoItem
    <3>5. QED BY <2>1, <3>1, <3>3, <3>4 DEF SessionShape
  <2>2. CASE d # c
    <3>1. UNCHANGED <<cphase[d], cbatch[d], wStatus[d], wItem[d], wObj[d], pending[d]>>
      BY <2>2 DEF CShape, SessionTypes, EndSession
    <3>2. BatchShape(d) /\ SessionShape(d)
      BY DEF CShape
    <3>3. QED BY <3>1, <3>2, OtherSession
  <2>3. QED BY <2>1, <2>2
<1>3. QED BY <1>1, <1>2 DEF CShape
\* So does a session that is rolled back.
LEMMA UnwindKeepsShape ==
  ASSUME CShape, NEW c \in Consumers, Unwind(c)
  PROVE  CShape'
<1>1. /\ EndSession(c)
      /\ UNCHANGED <<resultLog, resultOffset, owner, moves, status, itemStatus, objects>>
      /\ leases' = LeasesWithout(c)
  BY DEF Unwind, rowVars, topicVars
<1>2. RowTypes' /\ owner' \in Consumers /\ moves' \in Nat
      /\ leases' \in [Tasks -> Consumers \cup {Nobody}]
  BY <1>1 DEF CShape, RowTypes, SessionTypes, LeasesWithout
<1>3. QED BY <1>1, <1>2, EndKeepsShape

\* A step outside the calls: the topic may have grown, the sessions are what
\* they were.
LEMMA QuietKeepsShape ==
  ASSUME CShape, RowTypes',
         UNCHANGED <<cphase, cbatch, view, wStatus, wItem, wObj, pending, resultOffset>>,
         DOMAIN resultLog \subseteq DOMAIN resultLog',
         \A k \in DOMAIN resultLog : resultLog'[k] = resultLog[k],
         leases' \in [Tasks -> Consumers \cup {Nobody}],
         rowLock' \in [Tasks -> Consumers \cup {Nobody}],
         owner' \in Consumers, moves' \in Nat
  PROVE  CShape'
<1>1. SessionTypes'
  BY DEF CShape, SessionTypes
<1>2. ASSUME NEW d \in Consumers PROVE BatchShape(d)' /\ SessionShape(d)'
  <2>1. BatchShape(d) /\ SessionShape(d)
    BY DEF CShape
  <2>2. BatchShape(d)'
    BY <2>1 DEF BatchShape, ReadableRun, Readable
  <2>3. NoStatus' = NoStatus /\ NoItem' = NoItem
    BY DEF NoStatus, NoItem
  <2>4. QED BY <2>1, <2>2, <2>3 DEF SessionShape
<1>3. QED BY <1>1, <1>2 DEF CShape

\* A step of one call: its own shape is all there is to show.
LEMMA OneCallMoves ==
  ASSUME CShape, NEW c \in Consumers, RowTypes', SessionTypes', UNCHANGED resultLog,
         \A d \in Consumers : d # c =>
           UNCHANGED <<cphase[d], cbatch[d], wStatus[d], wItem[d], wObj[d], pending[d]>>,
         BatchShape(c)', SessionShape(c)'
  PROVE  CShape'
<1>1. ASSUME NEW d \in Consumers, d # c PROVE BatchShape(d)' /\ SessionShape(d)'
  BY <1>1, OtherSession DEF CShape
<1>2. QED BY <1>1 DEF CShape

\* The writes of apply_delivery_result have their types.
LEMMA ApplyWrites ==
  ASSUME CShape, NEW c \in Consumers, cbatch[c] # <<>>
  PROVE  /\ ItemWrites(c) \in [Items -> ItemStatus \cup {Keep}]
         /\ NewObjects(c) \subseteq Items
<1>1. Record(c) \in ConsumerMsg
  BY RecordAtHand
<1>2. Record(c).uploaded \subseteq Items
  BY <1>1 DEF ConsumerMsg
<1>3. wItem[c] \in [Items -> ItemStatus \cup {Keep}]
  BY DEF CShape, SessionTypes
<1>4. QED BY <1>2, <1>3 DEF ItemWrites, NewObjects, ItemStatus

\* Every step of a call keeps the shape.
LEMMA CallKeepsShape ==
  ASSUME CShape, NEW c \in Consumers, CStep(c)
  PROVE  CShape'
<1> USE StoreAssumption, ConsumerAssumption
<1>t. /\ RowTypes /\ SessionTypes /\ BatchShape(c) /\ SessionShape(c)
      /\ cbatch[c] \in Seq(Nat) /\ resultOffset \in Nat
  BY DEF CShape, SessionTypes
<1>1. CASE CPoll(c)
  <2>1. PICK n \in 1 .. MaxRecords :
          /\ resultOffset + n <= Len(resultLog)
          /\ \A k \in 1 .. n : Readable(resultOffset + k)
          /\ cbatch' = [cbatch EXCEPT ![c] = [k \in 1 .. n |-> resultOffset + k]]
    BY <1>1 DEF CPoll
  <2> DEFINE b == [k \in 1 .. n |-> resultOffset + k]
  <2>2. n \in Nat \ {0} /\ b \in Seq(Nat) /\ Len(b) = n /\ b # <<>> /\ Head(b) = resultOffset + 1
    BY <1>t
  <2>3. UNCHANGED <<status, itemStatus, objects, resultLog, resultOffset, rowLock>>
    BY <1>1 DEF CPoll, storeVars
  <2>4. RowTypes'
    BY <1>t, <2>3 DEF RowTypes
  <2>5. /\ cbatch'[c] = b /\ cphase'[c] = "first" /\ cphase[c] = "idle"
        /\ UNCHANGED <<view, wStatus, wItem, wObj, pending, leases, owner, moves>>
    BY <1>1, <1>t, <2>1 DEF CPoll, SessionTypes, sessionVars, groupVars
  <2>6. SessionTypes'
    BY <1>1, <1>t, <2>1, <2>2, <2>3, <2>5 DEF CPoll, SessionTypes, CPhases
  <2>7. ReadableRun(b)
    <3>1. Len(resultLog) \in Nat /\ DOMAIN resultLog = 1 .. Len(resultLog)
      BY <1>t DEF RowTypes
    <3>2. ASSUME NEW j \in 1 .. n
          PROVE b[j] \in DOMAIN resultLog /\ Readable(b[j]) /\ b[j] = b[1] + j - 1
      <4>1. b[j] = resultOffset + j /\ b[1] = resultOffset + 1
        BY <2>2
      <4>a. j \in Nat /\ 1 <= j /\ j <= n /\ n \in Nat /\ resultOffset \in Nat
        BY <1>t, <2>2
      <4>b. resultOffset + n <= Len(resultLog) /\ Len(resultLog) \in Nat
        BY <2>1, <3>1
      <4>2. resultOffset + j \in 1 .. Len(resultLog) /\ Readable(resultOffset + j)
        <5>1. resultOffset + j \in 1 .. Len(resultLog)
          BY <4>a, <4>b
        <5>2. QED BY <5>1, <2>1
      <4>3. resultOffset + j = (resultOffset + 1) + j - 1
        BY <1>t, <2>2
      <4> HIDE DEF b
      <4>4. QED BY <4>1, <4>2, <4>3, <3>1
    <3> HIDE DEF b
    <3>3. QED BY <2>2, <3>2 DEF ReadableRun
  <2>8. BatchShape(c)'
    BY <2>3, <2>5, <2>7 DEF BatchShape, ReadableRun, Readable
  <2>9. SessionShape(c)'
    BY <1>t, <2>3, <2>5, <2>2 DEF SessionShape
  <2>10. QED
    BY <1>1, <1>t, <2>3, <2>4, <2>5, <2>6, <2>8, <2>9, OneCallMoves DEF CPoll, SessionTypes
<1>2. CASE CLease(c)
  <2>1. /\ cphase[c] \in {"first", "lease"} /\ cphase'[c] = "apply" /\ cbatch[c] # <<>>
        /\ UNCHANGED <<cbatch, wStatus, wItem, wObj, pending, owner, moves>>
        /\ UNCHANGED <<status, itemStatus, objects, resultLog, resultOffset, rowLock>>
    BY <1>2, <1>t DEF CLease, SessionTypes, groupVars, storeVars
  <2>2. Record(c).task \in Tasks
    BY <2>1, RecordAtHand DEF ConsumerMsg
  <2>3. RowTypes'
    BY <1>t, <2>1 DEF RowTypes
  <2>4. [status |-> status, item |-> itemStatus, objects |-> objects] \in Snapshot
    BY <1>t DEF RowTypes, Snapshot
  <2>5. view' \in [Consumers -> Snapshot]
    BY <1>2, <1>t, <2>4 DEF CLease, SessionTypes
  <2>6. leases' \in [Tasks -> Consumers \cup {Nobody}]
    BY <1>2, <1>t DEF CLease, SessionTypes
  <2>7. SessionTypes'
    BY <1>2, <1>t, <2>1, <2>5, <2>6 DEF CLease, SessionTypes, CPhases
  <2>8. BatchShape(c)' /\ SessionShape(c)'
    BY <1>t, <2>1 DEF BatchShape, SessionShape, ReadableRun, Readable
  <2>9. QED
    BY <1>2, <1>t, <2>1, <2>3, <2>7, <2>8, OneCallMoves DEF CLease, SessionTypes
<1>3. CASE CSkip(c)
  <2>1. /\ cphase[c] \in {"first", "lease"} /\ cbatch[c] # <<>>
        /\ UNCHANGED <<cphase, view, wStatus, wItem, wObj, pending, owner, moves, leases>>
        /\ UNCHANGED <<status, itemStatus, objects, resultLog, resultOffset, rowLock>>
        /\ cbatch' = [cbatch EXCEPT ![c] = Tail(cbatch[c])]
        /\ cbatch'[c] = Tail(cbatch[c])
    BY <1>3, <1>t DEF CSkip, SessionTypes, groupVars, sessionVars, storeVars
  <2>2. /\ Tail(cbatch[c]) \in Seq(Nat) /\ ReadableRun(Tail(cbatch[c]))
        /\ Head(cbatch[c]) \in Nat
        /\ Tail(cbatch[c]) # <<>> => Head(Tail(cbatch[c])) = Head(cbatch[c]) + 1
    BY <2>1, RecordAtHand
  <2>3. RowTypes'
    BY <1>t, <2>1 DEF RowTypes
  <2>4. SessionTypes'
    BY <1>t, <2>1, <2>2 DEF SessionTypes
  <2>5. BatchShape(c)'
    BY <1>t, <2>1, <2>2 DEF BatchShape, ReadableRun, Readable
  <2>6. ASSUME NEW k \in pending[c], Tail(cbatch[c]) # <<>>
        PROVE  k < Head(Tail(cbatch[c]))
    <3>1. k \in Nat /\ k < Head(cbatch[c])
      BY <1>t, <2>1 DEF SessionShape, SessionTypes
    <3>2. QED BY <3>1, <2>2, <2>6
  <2>7. SessionShape(c)'
    BY <1>t, <2>1, <2>6 DEF SessionShape
  <2>8. QED
    BY <1>t, <2>1, <2>3, <2>4, <2>5, <2>7, OneCallMoves DEF SessionTypes
<1>4. CASE CApply(c)
  <2>1. /\ cphase[c] = "apply" /\ cphase'[c] = "ack" /\ cbatch[c] # <<>>
        /\ UNCHANGED <<cbatch, view, owner, moves, leases>>
        /\ UNCHANGED <<status, itemStatus, objects, resultLog, resultOffset>>
        /\ pending' = [pending EXCEPT ![c] = pending[c] \cup {Head(cbatch[c])}]
        /\ pending'[c] = pending[c] \cup {Head(cbatch[c])}
    BY <1>4, <1>t DEF CApply, SessionTypes, BatchShape, groupVars, rowVars, topicVars
  <2>2. /\ Record(c).task \in Tasks /\ Record(c).status \in TaskStatus
        /\ Head(cbatch[c]) \in Nat /\ Head(cbatch[c]) \in DOMAIN resultLog
    BY <2>1, RecordAtHand DEF ConsumerMsg, TaskStatus
  <2>3. RowTypes'
    BY <1>t, <2>1 DEF RowTypes
  <2>4. wItem' \in [Consumers -> [Items -> ItemStatus \cup {Keep}]]
    BY <1>4, <1>t, <2>1, ApplyWrites DEF CApply, SessionTypes
  <2>5. wObj' \in [Consumers -> SUBSET Items]
    BY <1>4, <1>t, <2>1, ApplyWrites DEF CApply, SessionTypes
  <2>6. wStatus' \in [Consumers -> [Tasks -> TaskStatus \cup {Keep}]]
    BY <1>4, <1>t, <2>2 DEF CApply, SessionTypes
  <2>7. rowLock' \in [Tasks -> Consumers \cup {Nobody}]
    BY <1>4, <1>t, <2>2 DEF CApply, SessionTypes
  <2>8. SessionTypes'
    BY <1>4, <1>t, <2>1, <2>2, <2>4, <2>5, <2>6, <2>7 DEF CApply, SessionTypes, CPhases
  <2>9. BatchShape(c)' /\ SessionShape(c)'
    BY <1>t, <2>1, <2>2 DEF BatchShape, SessionShape, ReadableRun, Readable
  <2>10. ASSUME NEW d \in Consumers, d # c
         PROVE  UNCHANGED <<cphase[d], cbatch[d], wStatus[d], wItem[d], wObj[d], pending[d]>>
    BY <1>4, <1>t, <2>1, <2>10 DEF CApply, SessionTypes
  <2>11. QED BY <2>1, <2>3, <2>8, <2>9, <2>10, OneCallMoves
<1>5. CASE CAck(c)
  <2>1. /\ cphase[c] = "ack" /\ cphase'[c] = "release" /\ cbatch[c] # <<>>
        /\ UNCHANGED <<cbatch, view, wStatus, wItem, wObj, pending, owner, moves, leases>>
        /\ UNCHANGED <<status, itemStatus, objects, resultLog, rowLock>>
        /\ resultOffset' = Head(cbatch[c])
    BY <1>5, <1>t DEF CAck, SessionTypes, BatchShape, groupVars, sessionVars, dbVars, topicVars
  <2>2. Head(cbatch[c]) \in Nat
    BY <2>1, RecordAtHand
  <2>3. RowTypes'
    BY <1>t, <2>1 DEF RowTypes
  <2>4. SessionTypes'
    BY <1>5, <1>t, <2>1, <2>2 DEF CAck, SessionTypes, CPhases
  <2>5. BatchShape(c)' /\ SessionShape(c)'
    BY <1>t, <2>1 DEF BatchShape, SessionShape, ReadableRun, Readable
  <2>6. QED
    BY <1>5, <1>t, <2>1, <2>3, <2>4, <2>5, OneCallMoves DEF CAck, SessionTypes
<1>6. CASE CRelease(c)
  <2>1. /\ cphase[c] = "release" /\ cphase'[c] = "lease" /\ cbatch[c] # <<>>
        /\ UNCHANGED <<view, wStatus, wItem, wObj, pending, owner, moves>>
        /\ UNCHANGED <<status, itemStatus, objects, resultLog, resultOffset, rowLock>>
        /\ cbatch' = [cbatch EXCEPT ![c] = Tail(cbatch[c])]
        /\ cbatch'[c] = Tail(cbatch[c])
    BY <1>6, <1>t DEF CRelease, SessionTypes, BatchShape, groupVars, sessionVars, storeVars
  <2>2. /\ Tail(cbatch[c]) \in Seq(Nat) /\ ReadableRun(Tail(cbatch[c]))
        /\ Head(cbatch[c]) \in Nat
        /\ Tail(cbatch[c]) # <<>> => Head(Tail(cbatch[c])) = Head(cbatch[c]) + 1
    BY <2>1, RecordAtHand
  <2>3. RowTypes'
    BY <1>t, <2>1 DEF RowTypes
  <2>4. leases' \in [Tasks -> Consumers \cup {Nobody}]
    BY <1>6, <1>t DEF CRelease, LeasesWithout, SessionTypes
  <2>5. SessionTypes'
    BY <1>6, <1>t, <2>1, <2>2, <2>4 DEF CRelease, SessionTypes, CPhases
  <2>6. BatchShape(c)'
    BY <1>t, <2>1, <2>2 DEF BatchShape, ReadableRun, Readable
  <2>7. ASSUME NEW k \in pending[c], Tail(cbatch[c]) # <<>>
        PROVE  k < Head(Tail(cbatch[c]))
    <3>1. k \in Nat
      BY <1>t DEF SessionTypes
    <3>2. k < Head(cbatch[c]) \/ k = Head(cbatch[c])
      BY <1>t, <2>1 DEF SessionShape
    <3>3. Head(cbatch[c]) \in Nat /\ Head(Tail(cbatch[c])) = Head(cbatch[c]) + 1
      BY <2>2, <2>7
    <3>4. ASSUME NEW h \in Nat, NEW u, u = h + 1, k < h \/ k = h PROVE k < u
      BY <3>1, <3>4
    <3>5. QED BY <3>2, <3>3, <3>4
  <2>8. SessionShape(c)'
    BY <1>t, <2>1, <2>7 DEF SessionShape
  <2>9. QED
    BY <1>6, <1>t, <2>1, <2>3, <2>5, <2>6, <2>8, OneCallMoves DEF CRelease, SessionTypes
<1>7. CASE CReturn(c)
  <2>1. /\ cphase[c] \in {"first", "lease"} /\ cphase'[c] = "commit" /\ cbatch[c] = <<>>
        /\ UNCHANGED <<cbatch, view, wStatus, wItem, wObj, pending, owner, moves, leases>>
        /\ UNCHANGED <<status, itemStatus, objects, resultLog, resultOffset, rowLock>>
    BY <1>7, <1>t DEF CReturn, SessionTypes, groupVars, sessionVars, storeVars
  <2>2. RowTypes' /\ SessionTypes'
    BY <1>7, <1>t, <2>1 DEF CReturn, RowTypes, SessionTypes, CPhases
  <2>3. BatchShape(c)' /\ SessionShape(c)'
    BY <1>t, <2>1 DEF BatchShape, SessionShape, ReadableRun, Readable
  <2>4. QED
    BY <1>7, <1>t, <2>1, <2>2, <2>3, OneCallMoves DEF CReturn, SessionTypes
<1>8. CASE CCommit(c)
  <2>1. UNCHANGED <<resultLog, resultOffset, leases, owner, moves>> /\ EndSession(c)
    BY <1>8 DEF CCommit, groupVars, topicVars
  <2>2. status' \in [Tasks -> TaskStatus]
    BY <1>8, <1>t DEF CCommit, RowTypes, SessionTypes
  <2>3. itemStatus' \in [Items -> ItemStatus]
    BY <1>8, <1>t DEF CCommit, RowTypes, SessionTypes
  <2>4. objects' \subseteq Items
    BY <1>8, <1>t DEF CCommit, RowTypes, SessionTypes
  <2>5. RowTypes'
    BY <1>t, <2>1, <2>2, <2>3, <2>4 DEF RowTypes
  <2>6. QED BY <1>t, <2>1, <2>5, EndKeepsShape DEF SessionTypes
<1>9. CASE CConflict(c) \/ CDeadlock(c) \/ CAckRejected(c)
  <2>1. Unwind(c)
    BY <1>9 DEF CConflict, CDeadlock, CAckRejected
  <2>2. QED BY <2>1, UnwindKeepsShape
<1>10. QED
  BY <1>1, <1>2, <1>3, <1>4, <1>5, <1>6, <1>7, <1>8, <1>9 DEF CStep

\* So does every fault around the calls.
LEMMA FaultKeepsShape ==
  ASSUME CShape, CFault
  PROVE  CShape'
<1> USE StoreAssumption, ConsumerAssumption
<1>t. RowTypes /\ SessionTypes
  BY DEF CShape
<1>1. ASSUME NEW c \in Consumers, CError(c) PROVE CShape'
  BY <1>1, UnwindKeepsShape DEF CError
<1>2. ASSUME NEW c \in Consumers, CCrash(c) PROVE CShape'
  <2>1. /\ EndSession(c)
        /\ UNCHANGED <<resultLog, resultOffset, leases, owner, moves, status, itemStatus, objects>>
    BY <1>2 DEF CCrash, rowVars, topicVars
  <2>2. QED BY <1>t, <2>1, EndKeepsShape DEF RowTypes, SessionTypes
<1>3. ASSUME NEW c \in Consumers, Rebalance(c) PROVE CShape'
  <2>1. /\ UNCHANGED <<cphase, cbatch, view, wStatus, wItem, wObj, pending, leases>>
        /\ UNCHANGED <<status, itemStatus, objects, resultLog, resultOffset, rowLock>>
        /\ owner' \in Consumers /\ moves' \in Nat
    BY <1>3, <1>t DEF Rebalance, sessionVars, storeVars, SessionTypes
  <2>2. RowTypes'
    BY <1>t, <2>1 DEF RowTypes
  <2>3. QED BY <2>1, <2>2, QuietKeepsShape, <1>t DEF SessionTypes
<1>4. ASSUME NEW t \in Tasks, LeaseExpires(t) PROVE CShape'
  <2>1. /\ UNCHANGED <<cphase, cbatch, view, wStatus, wItem, wObj, pending, owner, moves>>
        /\ UNCHANGED <<status, itemStatus, objects, resultLog, resultOffset, rowLock>>
        /\ leases' \in [Tasks -> Consumers \cup {Nobody}]
    BY <1>4, <1>t DEF LeaseExpires, sessionVars, groupVars, storeVars, SessionTypes
  <2>2. RowTypes'
    BY <1>t, <2>1 DEF RowTypes
  <2>3. QED BY <2>1, <2>2, QuietKeepsShape, <1>t DEF SessionTypes
<1>5. QED BY <1>1, <1>2, <1>3, <1>4 DEF CFault
\* Nor does anything change when nothing happens.
LEMMA StutterKeepsShape ==
  ASSUME CShape, UNCHANGED consumerSpecVars
  PROVE  CShape'
<1>1. /\ UNCHANGED <<status, itemStatus, objects, resultLog, resultOffset, rowLock>>
      /\ UNCHANGED <<cphase, cbatch, view, wStatus, wItem, wObj, pending, leases, owner, moves>>
  BY DEF consumerSpecVars, consumerVars, sessionVars, groupVars, storeVars
<1>2. RowTypes'
  BY <1>1 DEF CShape, RowTypes
<1>3. QED BY <1>1, <1>2, QuietKeepsShape DEF CShape, SessionTypes

\* The consumer's initial states have the shape.
LEMMA InitShape == ConsumerInit => CShape
<1> SUFFICES ASSUME ConsumerInit PROVE CShape
  OBVIOUS
<1> USE StoreAssumption, ConsumerAssumption DEF ConsumerInit, CInit
<1>1. RowTypes
  BY DEF RowTypes, TaskStatus, ItemStatus
<1>2. SessionTypes
  BY <1>1 DEF SessionTypes, RowTypes, CPhases, Snapshot, NoStatus, NoItem
<1>3. ASSUME NEW c \in Consumers PROVE BatchShape(c) /\ SessionShape(c)
  <2>1. Len(<<>>) = 0 /\ cbatch[c] = <<>> /\ cphase[c] = "idle"
    OBVIOUS
  <2>2. QED BY <2>1 DEF BatchShape, SessionShape, ReadableRun
<1>4. QED BY <1>1, <1>2, <1>3 DEF CShape

\* Results that arrive leave the calls where they are.
LEMMA ArrivalKeepsShape ==
  ASSUME CShape, EnvResult \/ EnvUnreadable
  PROVE  /\ CShape'
         /\ DOMAIN resultLog \subseteq DOMAIN resultLog'
         /\ \A k \in DOMAIN resultLog : resultLog'[k] = resultLog[k]
<1>1. PICK m \in ConsumerMsg : resultLog' = Append(resultLog, m)
  <2>1. CASE EnvUnreadable
    BY <2>1 DEF EnvUnreadable, ConsumerMsg
  <2>2. CASE EnvResult
    BY <2>2 DEF EnvResult, ConsumerMsg, ItemsOf
  <2>3. QED BY <2>1, <2>2
<1>2. resultLog \in Seq(ConsumerMsg)
  BY DEF CShape, RowTypes
<1>3. /\ resultLog' \in Seq(ConsumerMsg)
      /\ DOMAIN resultLog \subseteq DOMAIN resultLog'
      /\ \A k \in DOMAIN resultLog : resultLog'[k] = resultLog[k]
  BY <1>1, <1>2, AppendProperties
<1>4. /\ UNCHANGED <<status, itemStatus, objects, rowLock, resultOffset>>
      /\ UNCHANGED <<cphase, cbatch, view, wStatus, wItem, wObj, pending, leases, owner, moves>>
  BY DEF EnvResult, EnvUnreadable, consumerVars, sessionVars, groupVars, dbVars
<1>5. RowTypes'
  BY <1>3, <1>4 DEF CShape, RowTypes
<1>6. CShape'
  BY <1>3, <1>4, <1>5, QuietKeepsShape DEF CShape, SessionTypes
<1>7. QED BY <1>3, <1>6

(***************************************************************************)
(* No acked result is unaccounted.                                          *)
(***************************************************************************)

\* The offsets a session accounts for change only with its own call.
LEMMA OtherCounts ==
  ASSUME NEW d, UNCHANGED <<pending[d], cphase[d], cbatch[d]>>
  PROVE  (pending[d] \ Unacked(d))' = pending[d] \ Unacked(d)
BY DEF Unacked

\* What a step of c must show: what c accounted for is still accounted for,
\* and so is everything before the offsets that the step moves.
LEMMA OffsetsMove ==
  ASSUME OffsetInv, NEW c \in Consumers,
         applied \cup skipped \cup lost \subseteq (applied \cup skipped \cup lost)',
         \A d \in Consumers : d # c => UNCHANGED <<pending[d], cphase[d], cbatch[d]>>,
         \A k \in pending[c] \ Unacked(c) : Accounted(k)',
         cbatch'[c] # <<>> =>
           \A k \in 1 .. Head(cbatch'[c]) - 1 : Accounted(k) \/ Accounted(k)',
         \A k \in 1 .. resultOffset' : Accounted(k) \/ Accounted(k)'
  PROVE  OffsetInv'
<1>1. ASSUME NEW k, Accounted(k) PROVE Accounted(k)'
  <2>1. CASE k \in applied \cup skipped \cup lost
    BY <2>1 DEF Accounted
  <2>2. ASSUME NEW d \in Consumers, k \in pending[d] \ Unacked(d) PROVE Accounted(k)'
    <3>1. CASE d = c
      BY <2>2, <3>1
    <3>2. CASE d # c
      BY <2>2, <3>2, OtherCounts DEF Accounted
    <3>3. QED BY <3>1, <3>2
  <2>3. QED BY <1>1, <2>1, <2>2 DEF Accounted
<1>2. \A k \in 1 .. resultOffset' : Accounted(k)'
  BY <1>1
<1>3. ASSUME NEW d \in Consumers, cbatch'[d] # <<>>, NEW k \in 1 .. Head(cbatch'[d]) - 1
      PROVE Accounted(k)'
  <2>1. CASE d = c
    BY <1>1, <1>3, <2>1
  <2>2. CASE d # c
    <3>1. cbatch'[d] = cbatch[d]
      BY <2>2
    <3>2. Accounted(k)
      BY <1>3, <3>1 DEF OffsetInv
    <3>3. QED BY <1>1, <3>2
  <2>3. QED BY <2>1, <2>2
<1>4. QED BY <1>2, <1>3 DEF OffsetInv

\* A session that is rolled back forfeits exactly what it had acked.
LEMMA ForfeitKeepsOffsets ==
  ASSUME AInv, NEW c \in Consumers, EndSession(c), Forfeit(c),
         UNCHANGED <<applied, skipped, resultOffset>>
  PROVE  OffsetInv'
<1>1. \A d \in Consumers : d # c => UNCHANGED <<pending[d], cphase[d], cbatch[d]>>
  BY DEF AInv, CShape, SessionTypes, EndSession
<1>2. cbatch'[c] = <<>>
  BY DEF AInv, CShape, SessionTypes, EndSession
<1>3. \A k \in pending[c] \ Unacked(c) : Accounted(k)'
  BY DEF Forfeit, Accounted
<1>4. applied \cup skipped \cup lost \subseteq (applied \cup skipped \cup lost)'
  BY DEF Forfeit
<1>5. \A k \in 1 .. resultOffset' : Accounted(k)
  BY DEF AInv, OffsetInv
<1>6. QED BY <1>1, <1>2, <1>3, <1>4, <1>5, OffsetsMove DEF AInv

\* Every step of a call keeps the account of the offsets.
LEMMA CallKeepsOffsets ==
  ASSUME AInv, NEW c \in Consumers, CStep(c)
  PROVE  OffsetInv'
<1> USE StoreAssumption, ConsumerAssumption
<1>t. /\ CShape /\ SessionTypes /\ BatchShape(c) /\ SessionShape(c) /\ OffsetInv
      /\ cbatch[c] \in Seq(Nat) /\ resultOffset \in Nat
  BY DEF AInv, CShape, SessionTypes
<1>o. \A k \in 1 .. resultOffset : Accounted(k)
  BY <1>t DEF OffsetInv
<1>h. cbatch[c] # <<>> => \A k \in 1 .. Head(cbatch[c]) - 1 : Accounted(k)
  BY <1>t DEF OffsetInv
<1>1. CASE CPoll(c)
  <2>1. PICK n \in 1 .. MaxRecords :
          cbatch' = [cbatch EXCEPT ![c] = [k \in 1 .. n |-> resultOffset + k]]
    BY <1>1 DEF CPoll
  <2>2. Head(cbatch'[c]) = resultOffset + 1
    BY <2>1, <1>t DEF SessionTypes
  <2>3. /\ UNCHANGED <<pending, applied, skipped, lost, resultOffset>>
        /\ cphase[c] = "idle" /\ cphase'[c] = "first"
        /\ \A d \in Consumers : d # c => UNCHANGED <<pending[d], cphase[d], cbatch[d]>>
    BY <1>1, <1>t, <2>1 DEF CPoll, SessionTypes, sessionVars, historyVars, storeVars
  <2>4. \A k \in pending[c] \ Unacked(c) : Accounted(k)'
    BY <2>3 DEF Accounted, Unacked
  <2>5. \A k \in 1 .. Head(cbatch'[c]) - 1 : Accounted(k)
    BY <2>2, <1>o, <1>t
  <2>6. QED BY <1>o, <1>t, <2>3, <2>4, <2>5, OffsetsMove
<1>2. CASE CLease(c) \/ CReturn(c)
  <2>1. /\ UNCHANGED <<cbatch, pending, applied, skipped, lost, resultOffset>>
        /\ cphase[c] # "ack" /\ cphase'[c] # "ack"
        /\ \A d \in Consumers : d # c => UNCHANGED <<pending[d], cphase[d], cbatch[d]>>
    BY <1>2, <1>t DEF CLease, CReturn, SessionTypes, sessionVars, historyVars, storeVars
  <2>2. \A k \in pending[c] \ Unacked(c) : Accounted(k)'
    BY <2>1 DEF Accounted, Unacked
  <2>3. QED BY <1>o, <1>h, <1>t, <2>1, <2>2, OffsetsMove
<1>3. CASE CSkip(c)
  <2>1. /\ UNCHANGED <<cphase, pending, applied, lost, resultOffset>>
        /\ cphase[c] # "ack" /\ cbatch[c] # <<>>
        /\ skipped' = skipped \cup {Head(cbatch[c])}
        /\ cbatch'[c] = Tail(cbatch[c])
        /\ \A d \in Consumers : d # c => UNCHANGED <<pending[d], cphase[d], cbatch[d]>>
    BY <1>3, <1>t DEF CSkip, SessionTypes, sessionVars, storeVars
  <2>2. \A k \in pending[c] \ Unacked(c) : Accounted(k)'
    BY <2>1 DEF Accounted, Unacked
  <2>3. ASSUME cbatch'[c] # <<>>, NEW k \in 1 .. Head(cbatch'[c]) - 1
        PROVE  Accounted(k) \/ Accounted(k)'
    <3>1. Head(cbatch'[c]) = Head(cbatch[c]) + 1 /\ Head(cbatch[c]) \in Nat
      BY <1>t, <2>1, <2>3, RecordAtHand
    <3>2. k \in 1 .. Head(cbatch[c]) - 1 \/ k = Head(cbatch[c])
      BY <3>1
    <3>3. k = Head(cbatch[c]) => Accounted(k)'
      BY <2>1 DEF Accounted
    <3>4. QED BY <1>h, <2>1, <3>2, <3>3
  <2>4. QED BY <1>o, <1>t, <2>1, <2>2, <2>3, OffsetsMove
<1>4. CASE CApply(c)
  <2>1. /\ UNCHANGED <<cbatch, applied, skipped, lost, resultOffset>>
        /\ cphase[c] = "apply" /\ cphase'[c] = "ack" /\ cbatch[c] # <<>>
        /\ pending'[c] = pending[c] \cup {Head(cbatch[c])}
        /\ \A d \in Consumers : d # c => UNCHANGED <<pending[d], cphase[d], cbatch[d]>>
    BY <1>4, <1>t DEF CApply, BatchShape, SessionTypes, historyVars
  <2>2. Head(cbatch[c]) \in Nat
    BY <1>t, <2>1, RecordAtHand
  <2>3. Head(cbatch[c]) \notin pending[c]
    BY <1>t, <2>1, <2>2 DEF SessionShape
  <2>4. \A k \in pending[c] \ Unacked(c) : Accounted(k)'
    BY <2>1, <2>3 DEF Accounted, Unacked
  <2>5. QED BY <1>o, <1>h, <1>t, <2>1, <2>4, OffsetsMove
<1>5. CASE CAck(c)
  <2>1. /\ UNCHANGED <<cbatch, pending, applied, skipped, lost>>
        /\ cphase[c] = "ack" /\ cphase'[c] = "release" /\ cbatch[c] # <<>>
        /\ resultOffset' = Head(cbatch[c])
        /\ \A d \in Consumers : d # c => UNCHANGED <<pending[d], cphase[d], cbatch[d]>>
    BY <1>5, <1>t DEF CAck, BatchShape, SessionTypes, sessionVars, historyVars
  <2>2. Head(cbatch[c]) \in Nat /\ Head(cbatch[c]) \in pending[c]
    BY <1>t, <2>1, RecordAtHand DEF SessionShape
  <2>3. \A k \in pending'[c] : Accounted(k)'
    BY <2>1 DEF Accounted, Unacked
  <2>4. ASSUME NEW k \in 1 .. resultOffset' PROVE Accounted(k) \/ Accounted(k)'
    <3>1. k \in 1 .. Head(cbatch[c]) - 1 \/ k = Head(cbatch[c])
      BY <2>1, <2>2
    <3>2. QED BY <1>h, <2>1, <2>2, <2>3, <3>1
  <2>5. QED BY <1>h, <1>t, <2>1, <2>3, <2>4, OffsetsMove
<1>6. CASE CRelease(c)
  <2>1. /\ UNCHANGED <<pending, applied, skipped, lost, resultOffset>>
        /\ cphase[c] = "release" /\ cphase'[c] = "lease" /\ cbatch[c] # <<>>
        /\ cbatch'[c] = Tail(cbatch[c])
        /\ \A d \in Consumers : d # c => UNCHANGED <<pending[d], cphase[d], cbatch[d]>>
    BY <1>6, <1>t DEF CRelease, BatchShape, SessionTypes, sessionVars, historyVars, storeVars
  <2>2. \A k \in pending[c] : Accounted(k) /\ Accounted(k)'
    BY <2>1 DEF Accounted, Unacked
  <2>3. ASSUME cbatch'[c] # <<>>, NEW k \in 1 .. Head(cbatch'[c]) - 1
        PROVE  Accounted(k) \/ Accounted(k)'
    <3>1. Head(cbatch'[c]) = Head(cbatch[c]) + 1 /\ Head(cbatch[c]) \in Nat
      BY <1>t, <2>1, <2>3, RecordAtHand
    <3>2. k \in 1 .. Head(cbatch[c]) - 1 \/ k = Head(cbatch[c])
      BY <3>1
    <3>3. Head(cbatch[c]) \in pending[c]
      BY <1>t, <2>1 DEF SessionShape
    <3>4. QED BY <1>h, <2>1, <2>2, <3>2, <3>3
  <2>4. QED BY <1>o, <1>t, <2>1, <2>2, <2>3, OffsetsMove
<1>7. CASE CCommit(c)
  <2>1. /\ UNCHANGED <<skipped, lost, resultOffset>>
        /\ applied' = applied \cup pending[c] /\ cbatch'[c] = <<>>
        /\ \A d \in Consumers : d # c => UNCHANGED <<pending[d], cphase[d], cbatch[d]>>
    BY <1>7, <1>t DEF CCommit, EndSession, SessionTypes
  <2>2. \A k \in pending[c] \ Unacked(c) : Accounted(k)'
    BY <2>1 DEF Accounted
  <2>3. QED BY <1>o, <1>t, <2>1, <2>2, OffsetsMove
<1>8. CASE CConflict(c) \/ CDeadlock(c) \/ CAckRejected(c)
  <2>1. EndSession(c) /\ Forfeit(c) /\ UNCHANGED <<applied, skipped, resultOffset>>
    BY <1>8 DEF CConflict, CDeadlock, CAckRejected, Unwind
  <2>2. QED BY <2>1, ForfeitKeepsOffsets
<1>9. QED
  BY <1>1, <1>2, <1>3, <1>4, <1>5, <1>6, <1>7, <1>8 DEF CStep

\* So does a step that leaves the calls alone.
LEMMA QuietKeepsOffsets ==
  ASSUME OffsetInv,
         UNCHANGED <<cphase, cbatch, pending, resultOffset, applied, skipped, lost>>
  PROVE  OffsetInv'
BY DEF OffsetInv, Accounted, Unacked

\* So does every fault.
LEMMA FaultKeepsOffsets ==
  ASSUME AInv, CFault
  PROVE  OffsetInv'
<1>1. ASSUME NEW c \in Consumers, CError(c) \/ CCrash(c) PROVE OffsetInv'
  <2>1. EndSession(c) /\ Forfeit(c) /\ UNCHANGED <<applied, skipped, resultOffset>>
    BY <1>1 DEF CError, CCrash, Unwind
  <2>2. QED BY <2>1, ForfeitKeepsOffsets
<1>2. ASSUME NEW c \in Consumers, Rebalance(c) PROVE OffsetInv'
  BY <1>2, QuietKeepsOffsets DEF Rebalance, sessionVars, historyVars, storeVars, AInv
<1>3. ASSUME NEW t \in Tasks, LeaseExpires(t) PROVE OffsetInv'
  BY <1>3, QuietKeepsOffsets DEF LeaseExpires, sessionVars, historyVars, storeVars, AInv
<1>4. QED BY <1>1, <1>2, <1>3 DEF CFault

\* The committed offset leaves a record behind only when its lease was taken
\* or its session was rolled back after the ack: for every interleaving of
\* calls, refused acks, errors, crashes and rebalances (consume_delivery_results
\* acks each record before its caller commits the session).
THEOREM AckedAccountedFor == ConsumerSpec => []AckedResultsAccounted
<1>1. ConsumerInit => AInv
  <2> SUFFICES ASSUME ConsumerInit PROVE AInv
    OBVIOUS
  <2>1. resultOffset = 0 /\ \A c \in Consumers : cbatch[c] = <<>>
    BY DEF ConsumerInit, CInit
  <2>2. OffsetInv
    BY <2>1 DEF OffsetInv
  <2>3. QED BY <2>2, InitShape DEF AInv
<1>2. AInv /\ [ConsumerNext]_consumerSpecVars => AInv'
  <2> SUFFICES ASSUME AInv, [ConsumerNext]_consumerSpecVars PROVE AInv'
    OBVIOUS
  <2>1. ASSUME NEW c \in Consumers, CStep(c) PROVE AInv'
    BY <2>1, CallKeepsShape, CallKeepsOffsets DEF AInv
  <2>2. CASE CFault
    BY <2>2, FaultKeepsShape, FaultKeepsOffsets DEF AInv
  <2>3. CASE EnvResult \/ EnvUnreadable
    <3>1. UNCHANGED <<cphase, cbatch, pending, resultOffset, applied, skipped, lost>>
      BY <2>3 DEF EnvResult, EnvUnreadable, consumerVars, sessionVars, historyVars
    <3>2. QED BY <2>3, <3>1, QuietKeepsOffsets, ArrivalKeepsShape DEF AInv
  <2>4. CASE UNCHANGED consumerSpecVars
    <3>1. UNCHANGED <<cphase, cbatch, pending, resultOffset, applied, skipped, lost>>
      BY <2>4 DEF consumerSpecVars, consumerVars, sessionVars, historyVars, storeVars
    <3>2. QED BY <2>4, <3>1, StutterKeepsShape, QuietKeepsOffsets DEF AInv
  <2>5. QED BY <2>1, <2>2, <2>3, <2>4 DEF ConsumerNext
<1>3. AInv => AckedResultsAccounted
  BY DEF AInv, OffsetInv, Accounted, AckedResultsAccounted, Held
<1>4. QED BY <1>1, <1>2, <1>3, PTL DEF ConsumerSpec
(***************************************************************************)
(* The workspace objects are those of applied results.                      *)
(***************************************************************************)

\* Nothing of a session is left to break the account of the objects once it
\* has been rolled back.
LEMMA EndKeepsObjects ==
  ASSUME CShape, ObjectInv, NEW c \in Consumers, EndSession(c),
         UNCHANGED <<itemStatus, objects, applied, resultLog>>
  PROVE  ObjectInv'
<1>1. ObjectsMatchResults'
  BY DEF ObjectInv, ObjectsMatchResults
<1>2. ASSUME NEW d \in Consumers
      PROVE  /\ view'[d].objects \subseteq objects'
             /\ \A i \in wObj'[d] : \E k \in pending'[d] : i \in resultLog'[k].uploaded
             /\ {i \in Mapped : wItem'[d][i] = "uploaded"} \subseteq wObj'[d] \cup objects'
  <2>1. CASE d = c
    <3>1. wObj'[c] = {} /\ wItem'[c] = NoItem /\ view' = view
      BY DEF EndSession, CShape, SessionTypes
    <3>2. \A i \in Items : wItem'[c][i] # "uploaded"
      BY <3>1 DEF NoItem, Keep
    <3>3. QED BY <2>1, <3>1, <3>2, StoreAssumption DEF ObjectInv
  <2>2. CASE d # c
    <3>1. UNCHANGED <<wObj[d], wItem[d], pending[d], view>>
      BY <2>2 DEF EndSession, CShape, SessionTypes
    <3>2. QED BY <3>1 DEF ObjectInv
  <2>3. QED BY <2>1, <2>2
<1>3. QED BY <1>1, <1>2 DEF ObjectInv

\* A step that leaves rows and session writes alone.
LEMMA QuietKeepsObjects ==
  ASSUME CShape, ObjectInv,
         UNCHANGED <<itemStatus, objects, applied, view, wItem, wObj, pending>>,
         applied \subseteq DOMAIN resultLog,
         \A k \in DOMAIN resultLog : resultLog'[k] = resultLog[k]
  PROVE  ObjectInv'
<1>1. ASSUME NEW d \in Consumers PROVE pending[d] \subseteq DOMAIN resultLog
  BY DEF CShape, SessionShape
<1>2. ObjectsMatchResults'
  BY DEF ObjectInv, ObjectsMatchResults
<1>3. QED BY <1>1, <1>2 DEF ObjectInv

\* Every step of a call keeps the account of the objects.
LEMMA CallKeepsObjects ==
  ASSUME CShape, ObjectInv, applied \subseteq DOMAIN resultLog, NEW c \in Consumers, CStep(c)
  PROVE  ObjectInv'
<1> USE StoreAssumption
<1>t. /\ SessionTypes /\ RowTypes /\ BatchShape(c) /\ SessionShape(c)
      /\ ObjectsMatchResults
  BY DEF CShape, ObjectInv
<1>1. CASE CPoll(c) \/ CSkip(c) \/ CAck(c) \/ CRelease(c) \/ CReturn(c)
  <2>1. UNCHANGED <<itemStatus, objects, applied, view, wItem, wObj, pending, resultLog>>
    BY <1>1 DEF CPoll, CSkip, CAck, CRelease, CReturn, sessionVars, historyVars, storeVars,
                dbVars, topicVars
  <2>2. QED BY <2>1, QuietKeepsObjects
<1>2. CASE CLease(c)
  <2>1. /\ UNCHANGED <<itemStatus, objects, applied, wItem, wObj, pending, resultLog>>
        /\ \A d \in Consumers : view'[d].objects \subseteq objects
    BY <1>2, <1>t DEF CLease, historyVars, storeVars, SessionTypes, ObjectInv
  <2>2. ObjectsMatchResults'
    BY <2>1, <1>t DEF ObjectsMatchResults
  <2>3. QED BY <2>1, <2>2 DEF ObjectInv
<1>3. CASE CApply(c)
  <2>1. /\ UNCHANGED <<itemStatus, objects, applied, view, resultLog>>
        /\ wItem' = [wItem EXCEPT ![c] = ItemWrites(c)]
        /\ wObj' = [wObj EXCEPT ![c] = wObj[c] \cup NewObjects(c)]
        /\ pending' = [pending EXCEPT ![c] = pending[c] \cup {Head(cbatch[c])}]
    BY <1>3 DEF CApply, rowVars, topicVars, historyVars
  <2>2. ObjectsMatchResults'
    BY <2>1, <1>t DEF ObjectsMatchResults
  <2>3. ASSUME NEW d \in Consumers
        PROVE  /\ view'[d].objects \subseteq objects'
               /\ \A i \in wObj'[d] : \E k \in pending'[d] : i \in resultLog'[k].uploaded
               /\ {i \in Mapped : wItem'[d][i] = "uploaded"} \subseteq wObj'[d] \cup objects'
    <3>1. CASE d = c
      <4>1. /\ wObj'[c] = wObj[c] \cup NewObjects(c) /\ wItem'[c] = ItemWrites(c)
            /\ pending'[c] = pending[c] \cup {Head(cbatch[c])}
        BY <2>1, <1>t DEF SessionTypes
      <4>2. \A i \in NewObjects(c) : i \in resultLog[Head(cbatch[c])].uploaded
        BY DEF NewObjects, Record
      <4>3. ASSUME NEW i \in Mapped, ItemWrites(c)[i] = "uploaded"
            PROVE  i \in wObj[c] \cup NewObjects(c) \cup objects
        <5>1. CASE wItem[c][i] = "uploaded"
          BY <5>1 DEF ObjectInv
        <5>2. CASE wItem[c][i] # "uploaded"
          <6>1. i \in Record(c).uploaded
            BY <4>3, <5>2 DEF ItemWrites
          <6>2. view[c].objects \subseteq objects
            BY DEF ObjectInv
          <6>3. QED BY <6>1, <6>2 DEF NewObjects
        <5>3. QED BY <5>1, <5>2
      <4>4. QED BY <3>1, <2>1, <4>1, <4>2, <4>3 DEF ObjectInv
    <3>2. CASE d # c
      <4>1. UNCHANGED <<wObj[d], wItem[d], pending[d]>>
        BY <3>2, <2>1, <1>t DEF SessionTypes
      <4>2. QED BY <4>1, <2>1 DEF ObjectInv
    <3>3. QED BY <3>1, <3>2
  <2>4. QED BY <2>2, <2>3 DEF ObjectInv
<1>4. CASE CCommit(c)
  <2>1. /\ UNCHANGED <<resultLog, view>> /\ EndSession(c)
        /\ itemStatus' = [i \in Items |->
                            IF wItem[c][i] = Keep THEN itemStatus[i] ELSE wItem[c][i]]
        /\ objects' = objects \cup wObj[c]
        /\ applied' = applied \cup pending[c]
    BY <1>4 DEF CCommit, EndSession, topicVars
  <2>2. ObjectsMatchResults'
    <3>1. ASSUME NEW i \in Mapped, itemStatus'[i] = "uploaded" PROVE i \in objects'
      BY <3>1, <2>1 DEF ObjectInv, ObjectsMatchResults
    <3>2. ASSUME NEW i \in objects' PROVE \E k \in applied' : i \in resultLog'[k].uploaded
      BY <2>1 DEF ObjectInv, ObjectsMatchResults
    <3>3. QED BY <3>1, <3>2 DEF ObjectsMatchResults
  <2>3. ASSUME NEW d \in Consumers
        PROVE  /\ view'[d].objects \subseteq objects'
               /\ \A i \in wObj'[d] : \E k \in pending'[d] : i \in resultLog'[k].uploaded
               /\ {i \in Mapped : wItem'[d][i] = "uploaded"} \subseteq wObj'[d] \cup objects'
    <3>1. CASE d = c
      <4>1. wObj'[c] = {} /\ wItem'[c] = NoItem
        BY <2>1, <1>t DEF EndSession, SessionTypes
      <4>2. \A i \in Items : wItem'[c][i] # "uploaded"
        BY <4>1 DEF NoItem, Keep
      <4>3. QED BY <2>1, <3>1, <4>1, <4>2 DEF ObjectInv
    <3>2. CASE d # c
      <4>1. UNCHANGED <<wObj[d], wItem[d], pending[d]>>
        BY <2>1, <3>2, <1>t DEF EndSession, SessionTypes
      <4>2. QED BY <4>1, <2>1 DEF ObjectInv
    <3>3. QED BY <3>1, <3>2
  <2>4. QED BY <2>2, <2>3 DEF ObjectInv
<1>5. CASE CConflict(c) \/ CDeadlock(c) \/ CAckRejected(c)
  <2>1. EndSession(c) /\ UNCHANGED <<itemStatus, objects, applied, resultLog>>
    BY <1>5 DEF CConflict, CDeadlock, CAckRejected, Unwind, rowVars, topicVars
  <2>2. QED BY <2>1, EndKeepsObjects
<1>6. QED BY <1>1, <1>2, <1>3, <1>4, <1>5 DEF CStep

\* So does every fault.
LEMMA FaultKeepsObjects ==
  ASSUME CShape, ObjectInv, applied \subseteq DOMAIN resultLog, CFault
  PROVE  ObjectInv'
<1>1. ASSUME NEW c \in Consumers, CError(c) \/ CCrash(c) PROVE ObjectInv'
  <2>1. EndSession(c) /\ UNCHANGED <<itemStatus, objects, applied, resultLog>>
    BY <1>1 DEF CError, CCrash, Unwind, rowVars, topicVars
  <2>2. QED BY <2>1, EndKeepsObjects
<1>2. ASSUME NEW c \in Consumers, Rebalance(c) PROVE ObjectInv'
  BY <1>2, QuietKeepsObjects DEF Rebalance, sessionVars, historyVars, storeVars
<1>3. ASSUME NEW t \in Tasks, LeaseExpires(t) PROVE ObjectInv'
  BY <1>3, QuietKeepsObjects DEF LeaseExpires, sessionVars, historyVars, storeVars
<1>4. QED BY <1>1, <1>2, <1>3 DEF CFault

\* What has been applied is in the topic.
LEMMA AppliedInTopic ==
  ASSUME CShape, applied \subseteq DOMAIN resultLog,
         (\E c \in Consumers : CStep(c)) \/ CFault \/ UNCHANGED <<applied, resultLog>>
  PROVE  (applied \subseteq DOMAIN resultLog)'
<1>1. ASSUME NEW c \in Consumers, CStep(c) PROVE (applied \subseteq DOMAIN resultLog)'
  <2>1. pending[c] \subseteq DOMAIN resultLog
    BY DEF CShape, SessionShape
  <2>2. resultLog' = resultLog /\ applied' \subseteq applied \cup pending[c]
    <3>1. CASE CCommit(c)
      BY <3>1 DEF CCommit, topicVars
    <3>2. CASE ~CCommit(c)
      BY <1>1, <3>2 DEF CStep, CPoll, CLease, CSkip, CApply, CAck, CRelease, CReturn, CConflict,
         CDeadlock, CAckRejected, Unwind, historyVars, storeVars, topicVars
    <3>3. QED BY <3>1, <3>2
  <2>3. QED BY <2>1, <2>2
<1>2. CASE CFault
  BY <1>2 DEF CFault, CError, CCrash, Rebalance, LeaseExpires, Unwind, historyVars, storeVars,
     topicVars
<1>3. QED BY <1>1, <1>2

\* A workspace_object exists for every uploaded item that maps to a workspace,
\* and only for items that an applied result reported: neither a snapshot that
\* hides an object nor a rollback, a crash or a redelivered result breaks it
\* (apply_delivery_result inserts an object only when it sees none).
THEOREM ObjectsMatch == ConsumerSpec => []ObjectsMatchResults
<1> USE DEF OInv
<1>1. ConsumerInit => OInv
  <2> SUFFICES ASSUME ConsumerInit PROVE OInv
    OBVIOUS
  <2>1. /\ objects = {} /\ applied = {}
        /\ \A i \in Items : itemStatus[i] = "pending"
        /\ \A c \in Consumers : /\ view[c].objects = objects /\ wObj[c] = {}
                                /\ wItem[c] = NoItem
    BY DEF ConsumerInit, CInit
  <2>2. \A c \in Consumers, i \in Items : wItem[c][i] # "uploaded"
    BY <2>1 DEF NoItem, Keep
  <2>3. ObjectInv
    BY <2>1, <2>2, StoreAssumption DEF ObjectInv, ObjectsMatchResults
  <2>4. QED BY <2>1, <2>3, InitShape
<1>2. OInv /\ [ConsumerNext]_consumerSpecVars => OInv'
  <2> SUFFICES ASSUME OInv, [ConsumerNext]_consumerSpecVars PROVE OInv'
    OBVIOUS
  <2>1. ASSUME NEW c \in Consumers, CStep(c) PROVE OInv'
    BY <2>1, CallKeepsShape, CallKeepsObjects, AppliedInTopic
  <2>2. CASE CFault
    BY <2>2, FaultKeepsShape, FaultKeepsObjects, AppliedInTopic
  <2>3. CASE EnvResult \/ EnvUnreadable
    <3>1. UNCHANGED <<itemStatus, objects, applied, view, wItem, wObj, pending>>
      BY <2>3 DEF EnvResult, EnvUnreadable, consumerVars, sessionVars, historyVars, dbVars
    <3>2. /\ CShape'
          /\ DOMAIN resultLog \subseteq DOMAIN resultLog'
          /\ \A k \in DOMAIN resultLog : resultLog'[k] = resultLog[k]
      BY <2>3, ArrivalKeepsShape
    <3>3. QED BY <3>1, <3>2, QuietKeepsObjects
  <2>4. CASE UNCHANGED consumerSpecVars
    <3>1. CShape'
      BY <2>4, StutterKeepsShape
    <3>2. UNCHANGED <<itemStatus, objects, applied, view, wItem, wObj, pending, resultLog>>
      BY <2>4 DEF consumerSpecVars, consumerVars, sessionVars, historyVars, storeVars
    <3>3. QED BY <3>1, <3>2, QuietKeepsObjects
  <2>5. QED BY <2>1, <2>2, <2>3, <2>4 DEF ConsumerNext
<1>3. OInv => ObjectsMatchResults
  BY DEF ObjectInv
<1>4. QED BY <1>1, <1>2, <1>3, PTL DEF ConsumerSpec
(***************************************************************************)
(* One result whole, until the partition moves.                             *)
(***************************************************************************)

\* A session that has written nothing shows the stored rows.
LEMMA WholeWhenStored ==
  ASSUME StatusMatchesResult', WellFormedResults', (applied \subseteq DOMAIN resultLog)',
         moves' = 0, NEW d \in Consumers, wStatus'[d] = NoStatus, wItem'[d] = NoItem
  PROVE  Whole(d)'
<1>1. SUFFICES ASSUME NEW t \in Tasks, NextStatus(d, t)' \in Terminal
               PROVE  \E k \in (applied \cup pending[d])' : SessionShows(d, t, k)'
  BY DEF Whole, Terminal
<1>2. NextStatus(d, t)' = status'[t]
  BY DEF NextStatus, NoStatus
<1>3. \A i \in Items : NextItem(d, i)' = itemStatus'[i]
  BY DEF NextItem, NoItem
<1>4. PICK k \in applied' :
        /\ resultLog'[k].task = t
        /\ resultLog'[k].status = status'[t]
        /\ \A i \in resultLog'[k].uploaded : itemStatus'[i] = "uploaded"
        /\ \A i \in resultLog'[k].failed : itemStatus'[i] = "failed"
  BY <1>1, <1>2 DEF StatusMatchesResult, Terminal
<1>5. resultLog'[k].uploaded \subseteq Items /\ resultLog'[k].failed \subseteq Items
  BY <1>4 DEF WellFormedResults, ItemsOf
<1>6. SessionShows(d, t, k)'
  BY <1>2, <1>3, <1>4, <1>5 DEF SessionShows
<1>7. QED BY <1>4, <1>6

\* A session that a step leaves alone still shows one result whole.
LEMMA StillWhole ==
  ASSUME NEW d \in Consumers, Whole(d), CShape, applied \subseteq DOMAIN resultLog,
         UNCHANGED <<wStatus[d], wItem[d], pending[d], status, itemStatus, applied>>,
         \A k \in DOMAIN resultLog : resultLog'[k] = resultLog[k]
  PROVE  Whole(d)'
<1>1. pending[d] \subseteq DOMAIN resultLog
  BY DEF CShape, SessionShape
<1>2. /\ \A t : NextStatus(d, t)' = NextStatus(d, t)
      /\ \A i : NextItem(d, i)' = NextItem(d, i)
  BY DEF NextStatus, NextItem
<1>3. \A t, k : k \in DOMAIN resultLog => SessionShows(d, t, k)' = SessionShows(d, t, k)
  BY <1>2 DEF SessionShows
<1>4. QED BY <1>1, <1>2, <1>3 DEF Whole

\* While the partition has not moved, a call that takes a step is the owner's.
LEMMA OwnersCall ==
  ASSUME SoleSession, NEW c \in Consumers, CStep(c) \/ CError(c) \/ CCrash(c)
  PROVE  c = owner
<1>1. cphase[c] # "idle" \/ c = owner
  BY DEF CStep, CPoll, CLease, CSkip, CApply, CAck, CRelease, CReturn, CCommit, CConflict,
     CDeadlock, CAckRejected, CError, CCrash
<1>2. QED BY <1>1 DEF SoleSession

\* Applying a record makes the session show that record for its task, and what
\* it showed before for the others.
LEMMA ApplyShowsWhole ==
  ASSUME CShape, CShape', RowInv, SoleSession, NEW c \in Consumers, CApply(c)
  PROVE  Whole(c)'
<1> USE StoreAssumption
<1>0. PICK h, m : h = Head(cbatch[c]) /\ m = Record(c)
  OBVIOUS
<1>1. /\ cphase[c] = "apply" /\ cbatch[c] # <<>>
      /\ UNCHANGED <<status, itemStatus, applied, resultLog, cbatch>>
      /\ pending'[c] = pending[c] \cup {h}
      /\ wItem'[c] = ItemWrites(c)
      /\ wStatus'[c] = IF SeenStatus(c, m.task) # m.status
                         THEN [wStatus[c] EXCEPT ![m.task] = m.status] ELSE wStatus[c]
  BY <1>0 DEF CApply, CShape, BatchShape, SessionTypes, rowVars, topicVars, historyVars
<1>2. m \in ConsumerMsg /\ h \in DOMAIN resultLog /\ m = resultLog[h] /\ m.status # Keep
  BY <1>0, <1>1, RecordAtHand DEF Record, Keep
<1>3. /\ m.uploaded \cup m.failed \subseteq ItemsOf(m.task) /\ m.uploaded \cap m.failed = {}
      /\ m.task \in Tasks
  BY <1>2 DEF RowInv, WellFormedResults, ConsumerMsg
<1>4. view[c] = [status |-> status, item |-> itemStatus, objects |-> objects]
  BY <1>1 DEF SoleSession
<1>5. /\ \A t : SeenStatus(c, t) = NextStatus(c, t)
      /\ \A i : SeenItem(c, i) = NextItem(c, i)
  BY <1>4 DEF SeenStatus, SeenItem, NextStatus, NextItem
<1>6. wStatus[c] \in [Tasks -> TaskStatus \cup {Keep}]
  BY DEF CShape, SessionTypes
<1>7. NextStatus(c, m.task)' = m.status
  <2>1. CASE SeenStatus(c, m.task) # m.status
    <3>1. wStatus'[c][m.task] = m.status
      BY <1>1, <1>3, <1>6, <2>1
    <3>2. QED BY <3>1, <1>1, <1>2 DEF NextStatus
  <2>2. CASE SeenStatus(c, m.task) = m.status
    <3>1. NextStatus(c, m.task) = m.status /\ wStatus'[c] = wStatus[c]
      BY <1>1, <1>5, <2>2
    <3>2. NextStatus(c, m.task)' = NextStatus(c, m.task)
      BY <3>1, <1>1 DEF NextStatus
    <3>3. QED BY <3>1, <3>2
  <2>3. QED BY <2>1, <2>2
<1>8. ASSUME NEW t \in Tasks, t # m.task PROVE NextStatus(c, t)' = NextStatus(c, t)
  BY <1>1, <1>6, <1>8 DEF NextStatus
<1>9. ASSUME NEW i \in Items
      PROVE  NextItem(c, i)' = IF i \in m.uploaded THEN "uploaded"
                               ELSE IF i \in m.failed THEN "failed" ELSE NextItem(c, i)
  <2>1. ItemWrites(c)[i] =
          IF i \in (m.uploaded \cup m.failed) \cap ItemsOf(m.task)
             /\ NextItem(c, i) # IF i \in m.uploaded THEN "uploaded" ELSE "failed"
            THEN IF i \in m.uploaded THEN "uploaded" ELSE "failed"
            ELSE wItem[c][i]
    BY <1>0, <1>5 DEF ItemWrites
  <2>2. NextItem(c, i)' = IF ItemWrites(c)[i] = Keep THEN itemStatus[i] ELSE ItemWrites(c)[i]
    BY <1>1 DEF NextItem
  <2>3. "uploaded" # Keep /\ "failed" # Keep
    BY DEF Keep
  <2>4. QED BY <1>3, <2>1, <2>2, <2>3 DEF NextItem
<1>10. ASSUME NEW t \in Tasks, NextStatus(c, t)' \in Terminal
       PROVE  \E k \in (applied \cup pending[c])' : SessionShows(c, t, k)'
  <2>1. CASE t = m.task
    <3>1. \A i \in m.uploaded : NextItem(c, i)' = "uploaded"
      BY <1>2, <1>9 DEF ConsumerMsg
    <3>2. \A i \in m.failed : NextItem(c, i)' = "failed"
      BY <1>2, <1>3, <1>9 DEF ConsumerMsg
    <3>3. resultLog'[h] = m
      BY <1>1, <1>2
    <3>4. h \in (applied \cup pending[c])'
      BY <1>1
    <3>5. \A k : k = h => SessionShows(c, t, k)'
      BY <3>1, <3>2, <3>3, <1>7, <2>1 DEF SessionShows
    <3>6. QED BY <3>4, <3>5
  <2>2. CASE t # m.task
    <3>1. NextStatus(c, t) \in Terminal
      BY <1>8, <1>10, <2>2 DEF Terminal
    <3>2. PICK k \in applied \cup pending[c] : SessionShows(c, t, k)
      BY <3>1 DEF SoleSession, Whole
    <3>3. k \in DOMAIN resultLog
      BY DEF RowInv, CShape, SessionShape
    <3>4. resultLog[k].uploaded \cup resultLog[k].failed \subseteq ItemsOf(t)
      BY <3>2, <3>3 DEF SessionShows, RowInv, WellFormedResults
    <3>5. \A i \in ItemsOf(t) : i \in Items /\ i \notin m.uploaded /\ i \notin m.failed
      BY <1>3, <2>2 DEF ItemsOf
    <3>6. \A i \in ItemsOf(t) : NextItem(c, i)' = NextItem(c, i)
      BY <1>9, <3>5
    <3>7. SessionShows(c, t, k)'
      BY <1>1, <1>8, <2>2, <3>2, <3>4, <3>6 DEF SessionShows
    <3>8. k \in (applied \cup pending[c])'
      BY <1>1, <3>2
    <3>9. QED BY <3>7, <3>8
  <2>3. QED BY <2>1, <2>2
<1>11. QED BY <1>10 DEF Whole, Terminal
\* What a step must show to keep the rows whole: the results only grow, and,
\* while the partition stays, the stored rows and every session stay whole.
LEMMA RowsFrame ==
  ASSUME RowInv, moves \in Nat, moves' \in Nat, moves' = 0 => moves = 0,
         WellFormedResults', (applied \subseteq DOMAIN resultLog)',
         moves = 0 /\ moves' = 0 => StatusMatchesResult' /\ SoleSession'
  PROVE  RowInv'
BY DEF RowInv, StatusMatchesResult

\* The end of the owner's session, committed or not.
LEMMA EndKeepsWhole ==
  ASSUME CShape, CShape', RowInv, SoleSession, moves = 0, moves' = 0, StatusMatchesResult',
         WellFormedResults', (applied \subseteq DOMAIN resultLog)',
         NEW c \in Consumers, c = owner, EndSession(c), UNCHANGED owner
  PROVE  SoleSession'
<1>1. ASSUME NEW d \in Consumers
      PROVE  /\ cphase'[d] = "idle" /\ wStatus'[d] = NoStatus /\ wItem'[d] = NoItem
  <2>1. CASE d = c
    BY <2>1 DEF EndSession, CShape, SessionTypes
  <2>2. CASE d # c
    <3>1. UNCHANGED <<cphase[d], wStatus[d], wItem[d]>>
      BY <2>2 DEF EndSession, CShape, SessionTypes
    <3>2. cphase[d] = "idle" /\ SessionShape(d)
      BY <2>2 DEF SoleSession, CShape
    <3>3. QED BY <3>1, <3>2 DEF SessionShape
  <2>3. QED BY <2>1, <2>2
<1>2. ASSUME NEW d \in Consumers PROVE Whole(d)'
  BY <1>1, WholeWhenStored
<1>3. QED BY <1>1, <1>2 DEF SoleSession

\* Every step of a call keeps the rows whole.
LEMMA CallKeepsRows ==
  ASSUME CShape, CShape', RowInv, NEW c \in Consumers, CStep(c),
         (applied \subseteq DOMAIN resultLog)'
  PROVE  RowInv'
<1>1. UNCHANGED <<resultLog, owner, moves>> /\ moves \in Nat
  <2>1. resultLog' = resultLog /\ owner' = owner /\ moves' = moves
    BY DEF CStep, CPoll, CLease, CSkip, CApply, CAck, CRelease, CReturn, CCommit, CConflict,
       CDeadlock, CAckRejected, Unwind, groupVars, storeVars, topicVars
  <2>2. QED BY <2>1 DEF CShape, SessionTypes
<1>2. WellFormedResults'
  BY <1>1 DEF RowInv, WellFormedResults, ItemsOf
<1>3. ASSUME moves = 0 PROVE StatusMatchesResult' /\ SoleSession'
  <2>1. SoleSession /\ c = owner /\ applied \subseteq DOMAIN resultLog
    BY <1>3, OwnersCall DEF RowInv
  <2>2. /\ StatusMatchesResult /\ BatchShape(c) /\ SessionShape(c) /\ SessionTypes
    BY DEF RowInv, CShape
  <2>3. CASE CCommit(c)
    <3>1. /\ EndSession(c)
          /\ \A t \in Tasks : status'[t] = NextStatus(c, t)
          /\ \A i \in Items : itemStatus'[i] = NextItem(c, i)
          /\ applied' = applied \cup pending[c]
      BY <2>3 DEF CCommit, NextStatus, NextItem
    <3>2. StatusMatchesResult'
      <4>1. SUFFICES ASSUME NEW t \in Tasks, status'[t] \in Terminal
                     PROVE  \E k \in applied' :
                              /\ resultLog'[k].task = t
                              /\ resultLog'[k].status = status'[t]
                              /\ \A i \in resultLog'[k].uploaded : itemStatus'[i] = "uploaded"
                              /\ \A i \in resultLog'[k].failed : itemStatus'[i] = "failed"
        BY DEF StatusMatchesResult, Terminal
      <4>2. PICK k \in applied \cup pending[c] : SessionShows(c, t, k)
        BY <2>1, <3>1, <4>1 DEF SoleSession, Whole
      <4>3. k \in DOMAIN resultLog
        BY <2>1, <2>2 DEF SessionShape
      <4>4. resultLog[k].uploaded \subseteq Items /\ resultLog[k].failed \subseteq Items
        BY <4>3 DEF RowInv, WellFormedResults, ItemsOf
      <4>5. QED BY <1>1, <3>1, <4>2, <4>4 DEF SessionShows
    <3>3. QED BY <1>1, <1>2, <1>3, <2>1, <3>1, <3>2, EndKeepsWhole
  <2>4. CASE CConflict(c) \/ CDeadlock(c) \/ CAckRejected(c)
    <3>1. EndSession(c) /\ UNCHANGED <<status, itemStatus, applied>>
      BY <2>4 DEF CConflict, CDeadlock, CAckRejected, Unwind, rowVars
    <3>2. StatusMatchesResult'
      BY <1>1, <2>2, <3>1 DEF StatusMatchesResult, Terminal
    <3>3. QED BY <1>1, <1>2, <1>3, <2>1, <3>1, <3>2, EndKeepsWhole
  <2>5. CASE CPoll(c) \/ CLease(c) \/ CSkip(c) \/ CApply(c) \/ CAck(c) \/ CRelease(c) \/ CReturn(c)
    <3>1. /\ UNCHANGED <<status, itemStatus, objects, applied>>
          /\ \A d \in Consumers : d # c =>
               UNCHANGED <<cphase[d], view[d], wStatus[d], wItem[d], pending[d]>>
      BY <2>2, <2>5 DEF CPoll, CLease, CSkip, CApply, CAck, CRelease, CReturn, SessionTypes,
         historyVars, sessionVars, storeVars, dbVars, rowVars
    <3>2. StatusMatchesResult'
      BY <1>1, <2>2, <3>1 DEF StatusMatchesResult, Terminal
    <3>3. Whole(c)'
      <4>1. CASE CApply(c)
        BY <2>1, <4>1, ApplyShowsWhole
      <4>2. CASE CPoll(c) \/ CLease(c) \/ CSkip(c) \/ CAck(c) \/ CRelease(c) \/ CReturn(c)
        <5>1. UNCHANGED <<wStatus, wItem, pending>>
          BY <4>2 DEF CPoll, CLease, CSkip, CAck, CRelease, CReturn, sessionVars
        <5>2. Whole(c)
          BY <2>1 DEF SoleSession
        <5>3. QED BY <1>1, <2>1, <3>1, <5>1, <5>2, StillWhole
      <4>3. QED BY <2>5, <4>1, <4>2
    <3>4. cphase'[c] \in {"lease", "apply", "ack", "release"} =>
            view'[c] = [status |-> status, item |-> itemStatus, objects |-> objects]
      <4>1. CASE CLease(c)
        BY <2>1, <2>2, <4>1 DEF CLease, SessionTypes, SoleSession
      <4>2. CASE CPoll(c) \/ CSkip(c) \/ CApply(c) \/ CAck(c) \/ CRelease(c) \/ CReturn(c)
        BY <2>1, <2>2, <4>2 DEF CPoll, CSkip, CApply, CAck, CRelease, CReturn, SessionTypes,
           sessionVars, SoleSession
      <4>3. QED BY <2>5, <4>1, <4>2
    <3>5. ASSUME NEW d \in Consumers
          PROVE  /\ d # owner' => cphase'[d] = "idle"
                 /\ cphase'[d] \in {"lease", "apply", "ack", "release"} =>
                      view'[d] = [status |-> status, item |-> itemStatus, objects |-> objects]
                 /\ Whole(d)'
      <4>1. CASE d = c
        BY <1>1, <2>1, <3>3, <3>4, <4>1
      <4>2. CASE d # c
        <5>1. Whole(d) /\ cphase[d] = "idle"
          BY <2>1, <4>2 DEF SoleSession
        <5>2. UNCHANGED <<cphase[d], view[d], wStatus[d], wItem[d], pending[d]>>
          BY <3>1, <4>2
        <5>3. Whole(d)'
          BY <1>1, <2>1, <3>1, <5>1, <5>2, StillWhole
        <5>4. QED BY <5>1, <5>2, <5>3
      <4>3. QED BY <4>1, <4>2
    <3>6. SoleSession'
      BY <3>1, <3>5 DEF SoleSession
    <3>7. QED BY <3>2, <3>6
  <2>6. QED BY <2>3, <2>4, <2>5 DEF CStep
<1>4. QED BY <1>1, <1>2, <1>3, RowsFrame
\* So does a step that leaves the calls and the rows alone: results may arrive.
LEMMA QuietKeepsRows ==
  ASSUME CShape, RowInv, WellFormedResults', (applied \subseteq DOMAIN resultLog)',
         UNCHANGED <<status, itemStatus, objects, applied, moves, owner>>,
         UNCHANGED <<cphase, view, wStatus, wItem, pending>>,
         \A k \in DOMAIN resultLog : resultLog'[k] = resultLog[k]
  PROVE  RowInv'
<1>1. applied \subseteq DOMAIN resultLog /\ moves \in Nat
  BY DEF RowInv, CShape, SessionTypes
<1>2. ASSUME moves = 0 PROVE StatusMatchesResult' /\ SoleSession'
  <2>1. StatusMatchesResult'
    BY <1>1 DEF RowInv, StatusMatchesResult, Terminal
  <2>2. SoleSession
    BY <1>2 DEF RowInv
  <2>3. ASSUME NEW d \in Consumers PROVE Whole(d)'
    BY <1>1, <2>2, StillWhole DEF SoleSession
  <2>4. SoleSession'
    BY <2>2, <2>3 DEF SoleSession
  <2>5. QED BY <2>1, <2>4
<1>3. QED BY <1>1, <1>2, RowsFrame

\* So does every fault; a rebalance ends the claim.
LEMMA FaultKeepsRows ==
  ASSUME CShape, CShape', RowInv, CFault, (applied \subseteq DOMAIN resultLog)'
  PROVE  RowInv'
<1>1. ASSUME NEW c \in Consumers, CError(c) \/ CCrash(c) PROVE RowInv'
  <2>1. /\ EndSession(c)
        /\ UNCHANGED <<status, itemStatus, applied, resultLog, owner, moves>>
    BY <1>1 DEF CError, CCrash, Unwind, rowVars, topicVars
  <2>2. moves \in Nat /\ WellFormedResults'
    BY <2>1 DEF CShape, SessionTypes, RowInv, WellFormedResults, ItemsOf
  <2>3. ASSUME moves = 0 PROVE StatusMatchesResult' /\ SoleSession'
    <3>1. SoleSession /\ c = owner
      BY <1>1, <2>3, OwnersCall DEF RowInv
    <3>2. StatusMatchesResult'
      BY <2>1 DEF RowInv, StatusMatchesResult, Terminal
    <3>3. QED BY <2>1, <2>2, <2>3, <3>1, <3>2, EndKeepsWhole
  <2>4. QED BY <2>1, <2>2, <2>3, RowsFrame
<1>2. ASSUME NEW c \in Consumers, Rebalance(c) PROVE RowInv'
  <2>1. /\ resultLog' = resultLog /\ moves' = moves + 1 /\ moves \in Nat
    BY <1>2 DEF Rebalance, storeVars, CShape, SessionTypes
  <2>2. WellFormedResults' /\ moves' # 0
    BY <2>1 DEF RowInv, WellFormedResults, ItemsOf
  <2>3. QED BY <2>1, <2>2, RowsFrame
<1>3. ASSUME NEW t \in Tasks, LeaseExpires(t) PROVE RowInv'
  <2>1. /\ UNCHANGED <<status, itemStatus, objects, applied, moves, owner, resultLog>>
        /\ UNCHANGED <<cphase, view, wStatus, wItem, pending>>
    BY <1>3 DEF LeaseExpires, sessionVars, groupVars, historyVars, storeVars
  <2>2. WellFormedResults'
    BY <2>1 DEF RowInv, WellFormedResults, ItemsOf
  <2>3. QED BY <2>1, <2>2, QuietKeepsRows
<1>4. QED BY <1>1, <1>2, <1>3 DEF CFault

\* Until the partition moves, the stored outcome of a task is that of one
\* applied result, task row and item rows alike: a batch that applies several
\* results in one session, a rollback, a crash or a redelivery never leaves
\* half of one result mixed with half of another.
THEOREM OneResultWhole == ConsumerSpec => []StatusMatchesResult
<1> USE StoreAssumption
<1>1. ConsumerInit => RInv
  <2> SUFFICES ASSUME ConsumerInit PROVE RInv
    OBVIOUS
  <2>1. /\ \A t \in Tasks : status[t] = "queued"
        /\ resultLog = <<>> /\ applied = {} /\ DOMAIN resultLog = {}
        /\ \A c \in Consumers : /\ cphase[c] = "idle"
                                /\ wStatus[c] = NoStatus
    BY DEF ConsumerInit, CInit
  <2>2. StatusMatchesResult
    BY <2>1 DEF StatusMatchesResult, Terminal
  <2>3. ASSUME NEW c \in Consumers PROVE Whole(c)
    BY <2>1 DEF Whole, NextStatus, NoStatus, Terminal
  <2>4. SoleSession
    BY <2>1, <2>3 DEF SoleSession
  <2>5. WellFormedResults
    BY <2>1 DEF WellFormedResults
  <2>6. QED BY <2>1, <2>2, <2>4, <2>5, InitShape DEF RInv, RowInv
<1>2. RInv /\ [ConsumerNext]_consumerSpecVars => RInv'
  <2> SUFFICES ASSUME RInv, [ConsumerNext]_consumerSpecVars PROVE RInv'
    OBVIOUS
  <2>t. CShape /\ RowInv /\ applied \subseteq DOMAIN resultLog
    BY DEF RInv, RowInv
  <2>1. ASSUME NEW c \in Consumers, CStep(c) PROVE RInv'
    BY <2>t, <2>1, CallKeepsShape, CallKeepsRows, AppliedInTopic DEF RInv
  <2>2. CASE CFault
    BY <2>t, <2>2, FaultKeepsShape, FaultKeepsRows, AppliedInTopic DEF RInv
  <2>3. CASE EnvResult \/ EnvUnreadable
    <3>1. /\ UNCHANGED <<status, itemStatus, objects, applied, moves, owner>>
          /\ UNCHANGED <<cphase, view, wStatus, wItem, pending>>
      BY <2>3 DEF EnvResult, EnvUnreadable, consumerVars, sessionVars, groupVars, historyVars,
                  dbVars
    <3>2. /\ CShape'
          /\ DOMAIN resultLog \subseteq DOMAIN resultLog'
          /\ \A k \in DOMAIN resultLog : resultLog'[k] = resultLog[k]
      BY <2>t, <2>3, ArrivalKeepsShape
    <3>3. PICK m : /\ resultLog' = Append(resultLog, m)
                   /\ m.uploaded \cup m.failed \subseteq ItemsOf(m.task)
                   /\ m.uploaded \cap m.failed = {}
      <4>1. CASE EnvUnreadable
        <5>1. PICK t \in Tasks : resultLog' = Append(resultLog,
                [task |-> t, cause |-> 0, status |-> "unreadable", uploaded |-> {}, failed |-> {}])
          BY <4>1 DEF EnvUnreadable
        <5>2. QED BY <5>1
      <4>2. CASE EnvResult
        <5>1. PICK t \in Tasks : \E up \in SUBSET ItemsOf(t) : \E down \in SUBSET ItemsOf(t) :
                /\ up \cap down = {}
                /\ resultLog' = Append(resultLog,
                     [task |-> t, cause |-> 0,
                      status |-> IF down = {} THEN "uploaded" ELSE "partial_failed",
                      uploaded |-> up, failed |-> down])
          BY <4>2 DEF EnvResult
        <5>2. QED BY <5>1
      <4>3. QED BY <2>3, <4>1, <4>2
    <3>4. WellFormedResults'
      <4>1. resultLog \in Seq(ConsumerMsg)
        BY <2>t DEF CShape, RowTypes
      <4>2. ASSUME NEW k \in DOMAIN resultLog' PROVE k \in DOMAIN resultLog \/ resultLog'[k] = m
        BY <3>3, <4>1
      <4>3. QED BY <2>t, <3>2, <3>3, <4>2 DEF RowInv, WellFormedResults, ItemsOf
    <3>5. (applied \subseteq DOMAIN resultLog)'
      BY <2>t, <3>1, <3>2
    <3>6. QED BY <2>t, <3>1, <3>2, <3>4, <3>5, QuietKeepsRows DEF RInv
  <2>4. CASE UNCHANGED consumerSpecVars
    <3>1. /\ UNCHANGED <<status, itemStatus, objects, applied, moves, owner, resultLog>>
          /\ UNCHANGED <<cphase, view, wStatus, wItem, pending>>
      BY <2>4 DEF consumerSpecVars, consumerVars, sessionVars, groupVars, historyVars, storeVars
    <3>2. WellFormedResults' /\ (applied \subseteq DOMAIN resultLog)'
      BY <2>t, <3>1 DEF RowInv, WellFormedResults, ItemsOf
    <3>3. QED BY <2>t, <2>4, <3>1, <3>2, StutterKeepsShape, QuietKeepsRows DEF RInv
  <2>5. QED BY <2>1, <2>2, <2>3, <2>4 DEF ConsumerNext
<1>3. RInv => StatusMatchesResult
  BY DEF RInv, RowInv
<1>4. QED BY <1>1, <1>2, <1>3, PTL DEF ConsumerSpec
=============================================================================
