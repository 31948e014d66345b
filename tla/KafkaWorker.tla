----------------------------- MODULE KafkaWorker -----------------------------
(***************************************************************************)
(* The Go data-plane worker on the Kafka transport: the loop of            *)
(* Worker.Run, KafkaTransport.Consume with its dead-letter path, the       *)
(* bounded item pipeline, and the restart of the process.                  *)
(*                                                                         *)
(* Every error that Run returns ends the process, so an error of a fetch,  *)
(* a produce or a commit is WCrash at that point (before the effect when   *)
(* the broker refused it, after it when only the reply was lost).          *)
(***************************************************************************)
EXTENDS DeliveryStore, FiniteSets

CONSTANTS
  BatchSize,        \* -kafka-batch-size (default 1)
  MaxItemConc,      \* -max-item-concurrency
  MaxWorkerCrashes  \* bound on the exits of the worker process

ASSUME WorkerAssumption ==
  /\ BatchSize \in Nat \ {0}
  /\ MaxItemConc \in Nat \ {0}
  /\ MaxWorkerCrashes \in Nat

VARIABLES
  wphase,     \* where Run is
  wpos,       \* position of the Kafka reader (last offset fetched)
  fetched,    \* messages fetched by the current Consume call
  wbatch,     \* offsets of the decoded tasks still to process
  itemState,  \* pipeline state of the items of Head(wbatch)
  dlq,        \* task offsets written to delivery.tasks.dlq.v1
  cached,     \* tasks whose archive ZipArchiveResolver holds in memory
  wcrashes    \* exits so far

workerVars == <<wphase, wpos, fetched, wbatch, itemState, dlq, cached, wcrashes>>

WPhase == {"fetch", "dlq", "dlqack", "start", "process", "ack"}
ItemState == {"idle", "waiting", "running", "resolved", "uploaded", "failed"}

WTypeOK ==
  /\ wphase \in WPhase
  /\ wpos \in 0 .. Len(taskLog)
  /\ fetched \in Nat
  /\ wbatch \in Seq(1 .. Len(taskLog))
  /\ itemState \in [Items -> ItemState]
  /\ dlq \subseteq 1 .. Len(taskLog)
  /\ cached \subseteq Tasks
  /\ wcrashes \in Nat

WInit ==
  /\ wphase = "fetch"
  /\ wpos = 0
  /\ fetched = 0
  /\ wbatch = <<>>
  /\ itemState = [i \in Items |-> "idle"]
  /\ dlq = {}
  /\ cached = {}
  /\ wcrashes = 0

Current == taskLog[Head(wbatch)]
InState(s) == {i \in Items : itemState[i] = s}

(***************************************************************************)
(* KafkaTransport.Consume                                                  *)
(***************************************************************************)

\* Fetch the next message; a valid one joins the batch, an invalid one is
\* dead-lettered before anything else happens.
WFetch ==
  /\ wphase = "fetch"
  /\ fetched < BatchSize
  /\ wpos < Len(taskLog)
  /\ wpos' = wpos + 1
  /\ fetched' = fetched + 1
  /\ IF taskLog[wpos + 1].valid
       THEN /\ wbatch' = Append(wbatch, wpos + 1)
            /\ UNCHANGED wphase
       ELSE /\ wphase' = "dlq"
            /\ UNCHANGED wbatch
  /\ UNCHANGED <<itemState, dlq, cached, wcrashes>>
  /\ UNCHANGED storeVars

\* produceDLQ: the dead letter is written.
WDeadLetter ==
  /\ wphase = "dlq"
  /\ dlq' = dlq \cup {wpos}
  /\ wphase' = "dlqack"
  /\ UNCHANGED <<wpos, fetched, wbatch, itemState, cached, wcrashes>>
  /\ UNCHANGED storeVars

\* Mutant of WAckDeadLetter: the offset committed is one too high.
WAckDeadLetterPast ==
  /\ wphase = "dlqack"
  /\ taskOffset' = wpos + 1
  /\ wphase' = "fetch"
  /\ UNCHANGED <<wpos, fetched, wbatch, itemState, dlq, cached, wcrashes>>
  /\ UNCHANGED <<dbVars, taskLog, resultLog, resultOffset, sink, staged>>

\* ... and the offset of the invalid message committed, whatever the batch
\* already holds.
WAckDeadLetter ==
  /\ wphase = "dlqack"
  /\ taskOffset' = wpos
  /\ wphase' = "fetch"
  /\ UNCHANGED <<wpos, fetched, wbatch, itemState, dlq, cached, wcrashes>>
  /\ UNCHANGED <<dbVars, taskLog, resultLog, resultOffset, sink, staged>>

\* Mutant of WBatchReady: what was fetched is committed on the spot.
WBatchReadyAutoCommit ==
  /\ wphase = "fetch"
  /\ fetched > 0
  /\ wphase' = IF wbatch = <<>> THEN "fetch" ELSE "start"
  /\ fetched' = 0
  /\ taskOffset' = wpos
  /\ UNCHANGED <<wpos, wbatch, itemState, dlq, cached, wcrashes>>
  /\ UNCHANGED <<dbVars, taskLog, resultLog, resultOffset, sink, staged>>

\* Consume returns: the batch is full, or no further message arrived within
\* batchWait of the first one. Run loops at once on an empty batch.
WBatchReady ==
  /\ wphase = "fetch"
  /\ fetched > 0
  /\ wphase' = IF wbatch = <<>> THEN "fetch" ELSE "start"
  /\ fetched' = 0
  /\ UNCHANGED <<wpos, wbatch, itemState, dlq, cached, wcrashes>>
  /\ UNCHANGED storeVars

(***************************************************************************)
(* processTask: the pipeline over the items of one message.                *)
(***************************************************************************)

\* Filter the items and allocate a result slot for each.
WStart ==
  /\ wphase = "start"
  /\ itemState' = [i \in Items |-> IF i \in Selected(Current) THEN "waiting" ELSE "idle"]
  /\ wphase' = "process"
  /\ UNCHANGED <<wpos, fetched, wbatch, dlq, cached, wcrashes>>
  /\ UNCHANGED storeVars

\* A slot of the semaphore is free and a goroutine starts on item i.
WAcquireSlot(i) ==
  /\ wphase = "process"
  /\ itemState[i] = "waiting"
  /\ Cardinality(InState("running") \cup InState("resolved")) < MaxItemConc
  /\ itemState' = [itemState EXCEPT ![i] = "running"]
  /\ UNCHANGED <<wphase, wpos, fetched, wbatch, dlq, cached, wcrashes>>
  /\ UNCHANGED storeVars

\* resolver.Resolve: from the cached archive, or after fetching it from the
\* staging bucket. In file mode it only builds the path.
WResolve(i) ==
  LET t == Current.task IN
  /\ wphase = "process"
  /\ itemState[i] = "running"
  /\ ObjectMode => t \in staged \cup cached
  /\ itemState' = [itemState EXCEPT ![i] = "resolved"]
  /\ cached' = IF ObjectMode THEN cached \cup {t} ELSE cached
  /\ UNCHANGED <<wphase, wpos, fetched, wbatch, dlq, wcrashes>>
  /\ UNCHANGED storeVars

\* The archive is missing or cannot be read: a failed item result. An archive
\* that was fetched before its entry was found wanting stays in the cache.
WResolveFails(i) ==
  /\ wphase = "process"
  /\ itemState[i] = "running"
  /\ ObjectMode
  /\ itemState' = [itemState EXCEPT ![i] = "failed"]
  /\ \E got \in SUBSET ({Current.task} \cap staged) : cached' = cached \cup got
  /\ UNCHANGED <<wphase, wpos, fetched, wbatch, dlq, wcrashes>>
  /\ UNCHANGED storeVars

\* The limiter admits the item and the sink acknowledges the PUT.
WUpload(i) ==
  /\ wphase = "process"
  /\ itemState[i] = "resolved"
  /\ itemState' = [itemState EXCEPT ![i] = "uploaded"]
  /\ sink' = sink \cup {i}
  /\ UNCHANGED <<wphase, wpos, fetched, wbatch, dlq, cached, wcrashes>>
  /\ UNCHANGED <<dbVars, taskLog, taskOffset, resultLog, resultOffset, staged>>

\* Mutant of WUploadFails: the error of the PUT is dropped.
WUploadErrorDropped(i) ==
  /\ wphase = "process"
  /\ itemState[i] = "resolved"
  /\ itemState' = [itemState EXCEPT ![i] = "uploaded"]
  /\ sink' \in {sink, sink \cup {i}}
  /\ UNCHANGED <<wphase, wpos, fetched, wbatch, dlq, cached, wcrashes>>
  /\ UNCHANGED <<dbVars, taskLog, taskOffset, resultLog, resultOffset, staged>>

\* The limiter refuses the item, the source cannot be read or the PUT returns
\* an error; in the last case the bytes may have been stored all the same.
WUploadFails(i) ==
  /\ wphase = "process"
  /\ itemState[i] = "resolved"
  /\ itemState' = [itemState EXCEPT ![i] = "failed"]
  /\ sink' \in {sink, sink \cup {i}}
  /\ UNCHANGED <<wphase, wpos, fetched, wbatch, dlq, cached, wcrashes>>
  /\ UNCHANGED <<dbVars, taskLog, taskOffset, resultLog, resultOffset, staged>>

\* Mutant of WProduce: one uploaded item is enough for "uploaded".
WProduceAnyUpload ==
  LET sel  == Selected(Current)
      up   == sel \cap InState("uploaded")
      down == sel \cap InState("failed")
  IN
  /\ wphase = "process"
  /\ sel = up \cup down
  /\ resultLog' = Append(resultLog,
       [task |-> Current.task, cause |-> Head(wbatch),
        status |-> IF up # {} THEN "uploaded" ELSE "partial_failed",
        uploaded |-> up, failed |-> down])
  /\ wphase' = "ack"
  /\ UNCHANGED <<wpos, fetched, wbatch, itemState, dlq, cached, wcrashes>>
  /\ UNCHANGED <<dbVars, taskLog, taskOffset, resultOffset, sink, staged>>

\* After wg.Wait: build the result from the slots and produce it.
WProduce ==
  LET sel  == Selected(Current)
      up   == sel \cap InState("uploaded")
      down == sel \cap InState("failed")
  IN
  /\ wphase = "process"
  /\ sel = up \cup down
  /\ resultLog' = Append(resultLog,
       [task |-> Current.task, cause |-> Head(wbatch),
        status |-> IF down = {} THEN "uploaded" ELSE "partial_failed",
        uploaded |-> up, failed |-> down])
  /\ wphase' = "ack"
  /\ UNCHANGED <<wpos, fetched, wbatch, itemState, dlq, cached, wcrashes>>
  /\ UNCHANGED <<dbVars, taskLog, taskOffset, resultOffset, sink, staged>>

\* taskMessage.Ack: commit the offset of the message just processed.
WAck ==
  /\ wphase = "ack"
  /\ taskOffset' = Head(wbatch)
  /\ wbatch' = Tail(wbatch)
  /\ itemState' = [i \in Items |-> "idle"]
  /\ wphase' = IF Tail(wbatch) = <<>> THEN "fetch" ELSE "start"
  /\ UNCHANGED <<wpos, fetched, dlq, cached, wcrashes>>
  /\ UNCHANGED <<dbVars, taskLog, resultLog, resultOffset, sink, staged>>

\* Mutant of WCrash: the reader comes back where it had read to.
WCrashSkips ==
  /\ wcrashes < MaxWorkerCrashes
  /\ wcrashes' = wcrashes + 1
  /\ wphase' = "fetch"
  /\ fetched' = 0
  /\ wbatch' = <<>>
  /\ itemState' = [i \in Items |-> "idle"]
  /\ cached' = {}
  /\ UNCHANGED <<dlq, wpos>>
  /\ UNCHANGED storeVars

(***************************************************************************)
(* The process exits (an error returned by Run, a panic, a kill) and is    *)
(* started again: memory is lost, the reader resumes at the committed      *)
(* offset, a PUT that was on the wire may still be stored. It is the only  *)
(* way a message comes twice here: that the worker group moves its         *)
(* partition while the old worker still produces is not modelled.          *)
(***************************************************************************)
WCrash ==
  /\ wcrashes < MaxWorkerCrashes
  /\ wcrashes' = wcrashes + 1
  /\ wphase' = "fetch"
  /\ wpos' = taskOffset
  /\ fetched' = 0
  /\ wbatch' = <<>>
  /\ itemState' = [i \in Items |-> "idle"]
  /\ cached' = {}
  /\ \E landed \in SUBSET InState("resolved") : sink' = sink \cup landed
  /\ UNCHANGED dlq
  /\ UNCHANGED <<dbVars, taskLog, taskOffset, resultLog, resultOffset, staged>>

\* One step of the running process.
WStep ==
  \/ WFetch \/ WDeadLetter \/ WAckDeadLetter \/ WBatchReady
  \/ WStart \/ WProduce \/ WAck
  \/ \E i \in Items : \/ WAcquireSlot(i) \/ WResolve(i) \/ WResolveFails(i)
                      \/ WUpload(i) \/ WUploadFails(i)

(***************************************************************************)
(* The worker on its own: anyone may append to the task topic, valid or    *)
(* not, and the staging bucket may lose or gain an archive.                *)
(***************************************************************************)
EnvPublish ==
  /\ Len(taskLog) < MaxTaskMsgs
  /\ \E m \in TaskMsg :
       /\ m.items \subseteq ItemsOf(m.task)
       /\ m.skip \subseteq m.items
       /\ m.valid \/ m.items = {}
       /\ taskLog' = Append(taskLog, m)
  /\ UNCHANGED workerVars
  /\ UNCHANGED <<dbVars, taskOffset, resultLog, resultOffset, sink, staged>>

EnvStaging ==
  /\ ObjectMode
  /\ \E t \in Tasks : staged' \in {staged \cup {t}, staged \ {t}}
  /\ UNCHANGED workerVars
  /\ UNCHANGED <<dbVars, taskLog, taskOffset, resultLog, resultOffset, sink>>

workerSpecVars == <<storeVars, workerVars>>

WorkerInit == StoreInit /\ WInit
WorkerNext == WStep \/ WCrash \/ EnvPublish \/ EnvStaging

\* The loop of Run goes on as long as the process is up.
WorkerSpec ==
  WorkerInit /\ [][WorkerNext]_workerSpecVars /\ WF_workerSpecVars(WStep)
-----------------------------------------------------------------------------
(***************************************************************************)
(* Properties                                                              *)
(***************************************************************************)

\* Types of the worker's state and of what it shares.
WorkerTypeOK == StoreTypeOK /\ WTypeOK

\* At-least-once hand-over: a task message is passed over by the group's
\* committed offset only when its result, or its dead letter, is already in
\* the broker. Otherwise a restart would silently drop the task.
AckedTasksAnswered ==
  \A k \in 1 .. taskOffset :
    IF taskLog[k].valid THEN Answered(k) ELSE k \in dlq

\* A result accounts for every selected item of the message that caused it,
\* exactly once; it says "uploaded" only for items whose bytes the sink holds,
\* and its status is "uploaded" only when no item failed.
ResultsComplete ==
  \A r \in DOMAIN resultLog :
    LET res == resultLog[r]
        msg == taskLog[res.cause]
    IN /\ res.task = msg.task
       /\ res.uploaded \cup res.failed = Selected(msg)
       /\ res.uploaded \cap res.failed = {}
       /\ res.uploaded \subseteq sink
       /\ (res.status = "uploaded") <=> (res.failed = {})

\* Every message is eventually answered or dead-lettered, although the
\* process may exit at any point a bounded number of times.
EveryTaskAnswered ==
  \A k \in 1 .. MaxTaskMsgs :
    (k <= Len(taskLog)) ~> (k \in dlq \/ Answered(k))
=============================================================================
