---------------------------- MODULE DeliveryStore ----------------------------
(***************************************************************************)
(* State shared by the parts of the delivery path: the rows of the control *)
(* plane's database (task, task_item, workspace_object), the two Kafka     *)
(* topics between control plane and data plane with the committed offset   *)
(* of the one consumer group of each, the staging bucket and the sink.     *)
(*                                                                         *)
(* One partition per topic: both producers key a message by task_id, so    *)
(* all messages of a task share a partition and keep their order.          *)
(***************************************************************************)
EXTENDS Naturals, Sequences

CONSTANTS
  Tasks,      \* task ids
  Items,      \* task_item ids of all tasks
  TaskOf,     \* TaskOf[i]: the task that item i belongs to (task_item.task_id)
  Blocking,   \* items classified with severity "error"
  Mapped,     \* items whose target_name_matched names a workspace of the owner
  Consumers,  \* control-plane processes that apply delivery results
  Nobody,     \* "no holder" of a row lock, a lease or a claim
  ObjectMode, \* delivery_source_mode = object: archives go through staging
  MaxTaskMsgs \* bound on the length of delivery.tasks.v1

ASSUME StoreAssumption ==
  /\ Tasks # {}
  /\ TaskOf \in [Items -> Tasks]
  /\ Blocking \subseteq Items
  /\ Mapped \subseteq Items
  /\ Nobody \notin Consumers
  /\ ObjectMode \in BOOLEAN
  /\ MaxTaskMsgs \in Nat

VARIABLES
  status,       \* task.status
  itemStatus,   \* task_item.upload_status; "none" before the row exists
  objects,      \* task_item_id of the workspace_object rows (unique column)
  rowLock,      \* the open session that has written rows of a task
  taskLog,      \* topic delivery.tasks.v1
  taskOffset,   \* offset committed by the group of the workers
  resultLog,    \* topic delivery.results.v1
  resultOffset, \* offset committed by the group control-plane-results
  sink,         \* items whose bytes are at dst_path in the sink bucket
  staged        \* tasks with an object staged/tasks/{id}/archive.zip

dbVars    == <<status, itemStatus, objects, rowLock>>
storeVars == <<status, itemStatus, objects, rowLock, taskLog, taskOffset,
               resultLog, resultOffset, sink, staged>>

(***************************************************************************)
(* Values.                                                                 *)
(***************************************************************************)
\* task.status values on the go-worker path; "failed" is written only by the
\* in-process python runner and is read by the retry handler.
TaskStatus == {"draft", "classified", "confirmed", "queued",
               "uploaded", "partial_failed", "failed"}
Terminal   == {"uploaded", "partial_failed", "failed"}

ItemStatus == {"none", "pending", "uploaded", "failed"}

\* A record of delivery.tasks.v1. "skip" are the items the pipeline filters
\* out (not pending, or of severity error); an invalid record does not decode
\* or fails validateTaskMessage.
TaskMsg == [task: Tasks, items: SUBSET Items, skip: SUBSET Items, valid: BOOLEAN]

\* A record of delivery.results.v1 as a worker writes it. "cause" is the
\* offset of the task message that was processed; the code does not send it,
\* no action reads it.
ResultMsg == [task: Tasks, cause: Nat, status: {"uploaded", "partial_failed"},
              uploaded: SUBSET Items, failed: SUBSET Items]

ItemsOf(t) == {i \in Items : TaskOf[i] = t}

\* Items the worker uploads for a message: pending and of severity ok/warning.
Selected(m) == m.items \ m.skip

\* Items the upload handler puts into the message.
UploadItems(t) == {i \in ItemsOf(t) \ Blocking : itemStatus[i] = "pending"}

\* A result for task message k has been produced.
Answered(k) == \E r \in DOMAIN resultLog : resultLog[r].cause = k

StoreTypeOK ==
  /\ status \in [Tasks -> TaskStatus]
  /\ itemStatus \in [Items -> ItemStatus]
  /\ objects \subseteq Items
  /\ rowLock \in [Tasks -> Consumers \cup {Nobody}]
  /\ taskLog \in Seq(TaskMsg)
  /\ taskOffset \in 0 .. Len(taskLog)
  /\ resultLog \in Seq(ResultMsg)
  /\ resultOffset \in 0 .. Len(resultLog)
  /\ sink \subseteq Items
  /\ staged \subseteq Tasks

\* A fresh database: no task classified yet, empty topics and buckets.
StoreInit ==
  /\ status = [t \in Tasks |-> "draft"]
  /\ itemStatus = [i \in Items |-> "none"]
  /\ objects = {}
  /\ rowLock = [t \in Tasks |-> Nobody]
  /\ taskLog = <<>>
  /\ taskOffset = 0
  /\ resultLog = <<>>
  /\ resultOffset = 0
  /\ sink = {}
  /\ staged = {}
=============================================================================
