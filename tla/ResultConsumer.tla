--------------------------- MODULE ResultConsumer ---------------------------
(***************************************************************************)
(* The control plane's consumer of delivery results: a caller opens a      *)
(* database session, runs consume_delivery_results and commits.  Each call *)
(* joins the consumer group, reads a batch from the committed offset and,  *)
(* record by record, takes the apply lease of the task, applies the result *)
(* in the session, commits the Kafka offset and releases the lease.  The   *)
(* session is committed by the caller once the whole batch is done.        *)
(***************************************************************************)
EXTENDS DeliveryStore

CONSTANTS
  LeaseEnabled,   \* redis_lease_enabled
  MaxRecords,     \* max_records of one poll
  MaxResults,     \* bound on the length of delivery.results.v1
  MaxFaults,      \* bound on crashes and transient errors
  MaxRebalances   \* bound on moves of the partition to another member

ASSUME ConsumerAssumption ==
  /\ LeaseEnabled \in BOOLEAN
  /\ MaxRecords \in Nat \ {0}
  /\ MaxResults \in Nat
  /\ MaxFaults \in Nat
  /\ MaxRebalances \in Nat

VARIABLES
  cphase,   \* where the call of each consumer is
  cbatch,   \* offsets of the batch still to handle
  view,     \* the rows in the snapshot that the session reads from
  wStatus,  \* task.status written by the session, "keep" where it wrote none
  wItem,    \* task_item.upload_status written by the session, or "keep"
  wObj,     \* workspace_object rows inserted by the session
  pending,  \* history: offsets applied by the session and not yet committed
  leases,   \* Redis key delivery_result_apply:{task_id}: the holder
  owner,    \* group member the partition is assigned to
  faults,   \* crashes and errors so far
  moves,    \* rebalances so far
  applied,  \* history: offsets whose effects the database has committed
  skipped,  \* history: offsets passed over because the lease was taken
  lost      \* history: committed offsets whose session was rolled back after all

sessionVars  == <<view, wStatus, wItem, wObj, pending>>
groupVars    == <<owner, faults, moves>>
historyVars  == <<applied, skipped, lost>>
consumerVars == <<cphase, cbatch, sessionVars, leases, groupVars, historyVars>>

Keep == "keep"

NoStatus == [t \in Tasks |-> Keep]
NoItem == [i \in Items |-> Keep]

CInit ==
  /\ cphase = [c \in Consumers |-> "idle"]
  /\ cbatch = [c \in Consumers |-> <<>>]
  /\ view = [c \in Consumers |-> [status |-> status, item |-> itemStatus, objects |-> objects]]
  /\ wStatus = [c \in Consumers |-> NoStatus]
  /\ wItem = [c \in Consumers |-> NoItem]
  /\ wObj = [c \in Consumers |-> {}]
  /\ pending = [c \in Consumers |-> {}]
  /\ leases = [t \in Tasks |-> Nobody]
  /\ owner \in Consumers
  /\ faults = 0
  /\ moves = 0
  /\ applied = {}
  /\ skipped = {}
  /\ lost = {}

Record(c) == resultLog[Head(cbatch[c])]

\* The value of offset k is a DeliveryResultMessage.
Readable(k) == resultLog[k].status # "unreadable"

\* The lease table once c gives up what it holds (the release script deletes
\* the key only when the token is still its own).
LeasesWithout(c) ==
  [t \in Tasks |-> IF leases[t] = c THEN Nobody ELSE leases[t]]

\* The record of the session that is applied and whose offset is not committed.
Unacked(c) == IF cphase[c] = "ack" THEN {Head(cbatch[c])} ELSE {}

\* The records of the session whose offset is committed go down with it.
Forfeit(c) == lost' = lost \cup (pending[c] \ Unacked(c))

\* Mutant of EndSession: the row locks of the session are not given up.
EndSessionLocked(c) ==
  /\ wStatus' = [wStatus EXCEPT ![c] = NoStatus]
  /\ wItem' = [wItem EXCEPT ![c] = NoItem]
  /\ wObj' = [wObj EXCEPT ![c] = {}]
  /\ pending' = [pending EXCEPT ![c] = {}]
  /\ cphase' = [cphase EXCEPT ![c] = "idle"]
  /\ cbatch' = [cbatch EXCEPT ![c] = <<>>]
  /\ UNCHANGED <<rowLock, view>>

\* The session ends: what it wrote and locked is forgotten.
EndSession(c) ==
  /\ wStatus' = [wStatus EXCEPT ![c] = NoStatus]
  /\ wItem' = [wItem EXCEPT ![c] = NoItem]
  /\ wObj' = [wObj EXCEPT ![c] = {}]
  /\ pending' = [pending EXCEPT ![c] = {}]
  /\ rowLock' = [t \in Tasks |-> IF rowLock[t] = c THEN Nobody ELSE rowLock[t]]
  /\ cphase' = [cphase EXCEPT ![c] = "idle"]
  /\ cbatch' = [cbatch EXCEPT ![c] = <<>>]
  /\ UNCHANGED view

topicVars == <<taskLog, taskOffset, resultLog, sink, staged>>
rowVars == <<status, itemStatus, objects>>

(***************************************************************************)
(* consume_delivery_results                                                *)
(***************************************************************************)

\* Mutant of CPoll: a record that does not parse is left out of the batch.
CPollDrops(c) ==
  /\ cphase[c] = "idle"
  /\ owner = c
  /\ \E n \in 1 .. MaxRecords :
       /\ resultOffset + n <= Len(resultLog)
       /\ cbatch' = [cbatch EXCEPT ![c] =
                       SelectSeq([k \in 1 .. n |-> resultOffset + k], Readable)]
  /\ cphase' = [cphase EXCEPT ![c] = "first"]
  /\ UNCHANGED <<sessionVars, leases, groupVars, historyVars>>
  /\ UNCHANGED storeVars

\* Mutant of CPoll: only a full batch is taken.
CPollFull(c) ==
  /\ cphase[c] = "idle"
  /\ owner = c
  /\ resultOffset + MaxRecords <= Len(resultLog)
  /\ \A k \in 1 .. MaxRecords : Readable(resultOffset + k)
  /\ cbatch' = [cbatch EXCEPT ![c] = [k \in 1 .. MaxRecords |-> resultOffset + k]]
  /\ cphase' = [cphase EXCEPT ![c] = "first"]
  /\ UNCHANGED <<sessionVars, leases, groupVars, historyVars>>
  /\ UNCHANGED storeVars

\* A new AIOKafkaConsumer reads up to MaxRecords from the committed offset and
\* parses all of them first: one that does not parse raises, the group is left
\* and nothing has changed. The next call meets the same record.
CPoll(c) ==
  /\ cphase[c] = "idle"
  /\ owner = c
  /\ \E n \in 1 .. MaxRecords :
       /\ resultOffset + n <= Len(resultLog)
       /\ \A k \in 1 .. n : Readable(resultOffset + k)
       /\ cbatch' = [cbatch EXCEPT ![c] = [k \in 1 .. n |-> resultOffset + k]]
  /\ cphase' = [cphase EXCEPT ![c] = "first"]
  /\ UNCHANGED <<sessionVars, leases, groupVars, historyVars>>
  /\ UNCHANGED storeVars

\* Acquire the lease of the record's task (always granted when leases are
\* off) and load the task; the first read opens the session's snapshot. The
\* two are one step here: a session that commits between them is taken to
\* have committed before.
CLease(c) ==
  /\ cphase[c] \in {"first", "lease"}
  /\ cbatch[c] # <<>>
  /\ LeaseEnabled => leases[Record(c).task] = Nobody
  /\ leases' = IF LeaseEnabled THEN [leases EXCEPT ![Record(c).task] = c] ELSE leases
  /\ view' = IF cphase[c] = "first"
               THEN [view EXCEPT ![c] = [status |-> status, item |-> itemStatus,
                                         objects |-> objects]]
               ELSE view
  /\ cphase' = [cphase EXCEPT ![c] = "apply"]
  /\ UNCHANGED <<cbatch, wStatus, wItem, wObj, pending, groupVars, historyVars>>
  /\ UNCHANGED storeVars

\* The lease is held elsewhere: "continue", without apply and without ack.
CSkip(c) ==
  /\ cphase[c] \in {"first", "lease"}
  /\ cbatch[c] # <<>>
  /\ LeaseEnabled
  /\ leases[Record(c).task] # Nobody
  /\ skipped' = skipped \cup {Head(cbatch[c])}
  /\ cbatch' = [cbatch EXCEPT ![c] = Tail(@)]
  /\ UNCHANGED <<cphase, sessionVars, leases, groupVars, applied, lost>>
  /\ UNCHANGED storeVars

(***************************************************************************)
(* apply_delivery_result, in the caller's session. The session reads its   *)
(* own writes, and the snapshot for the rest. A column is written only     *)
(* when the loaded object's value changes.                                 *)
(***************************************************************************)
SeenStatus(c, t) == IF wStatus[c][t] = Keep THEN view[c].status[t] ELSE wStatus[c][t]
SeenItem(c, i) == IF wItem[c][i] = Keep THEN view[c].item[i] ELSE wItem[c][i]

\* Mutant of NewObjects: failed items get a workspace object too.
NewObjectsOfFailed(c) ==
  ((Record(c).uploaded \cup Record(c).failed) \cap Mapped) \ (wObj[c] \cup view[c].objects)

\* Uploaded items with a workspace for which the session sees no object yet.
NewObjects(c) ==
  (Record(c).uploaded \cap Mapped) \ (wObj[c] \cup view[c].objects)

\* Mutant of ItemWrites: failed items are left as they are.
ItemWritesUploadedOnly(c) ==
  [i \in Items |->
     IF i \in Record(c).uploaded \cap ItemsOf(Record(c).task) THEN "uploaded" ELSE wItem[c][i]]

\* update_upload_status of every item of the message that belongs to its task.
ItemWrites(c) ==
  LET m == Record(c)
      verdict(i) == IF i \in m.uploaded THEN "uploaded" ELSE "failed"
      named == (m.uploaded \cup m.failed) \cap ItemsOf(m.task)
  IN [i \in Items |->
        IF i \in named /\ SeenItem(c, i) # verdict(i) THEN verdict(i) ELSE wItem[c][i]]

\* Item rows, workspace objects and task row, in any prior status. The rows
\* stay locked until the session ends. Not modelled: the branches for a task
\* or an item that does not exist, or a status that is neither "uploaded" nor
\* "failed"; no row is ever deleted, and the worker reports nothing else.
CApply(c) ==
  LET m == Record(c) IN
  /\ cphase[c] = "apply"
  /\ rowLock[m.task] \in {Nobody, c}
  /\ NewObjects(c) \cap objects = {}
  /\ wItem' = [wItem EXCEPT ![c] = ItemWrites(c)]
  /\ wObj' = [wObj EXCEPT ![c] = @ \cup NewObjects(c)]
  /\ wStatus' = IF SeenStatus(c, m.task) # m.status
                  THEN [wStatus EXCEPT ![c][m.task] = m.status]
                  ELSE wStatus
  /\ rowLock' = [rowLock EXCEPT ![m.task] = c]
  /\ pending' = [pending EXCEPT ![c] = @ \cup {Head(cbatch[c])}]
  /\ cphase' = [cphase EXCEPT ![c] = "ack"]
  /\ UNCHANGED <<cbatch, view, leases, groupVars, historyVars>>
  /\ UNCHANGED <<rowVars, topicVars, resultOffset>>

\* record.ack: commit the offset of this record, before the session commits.
CAck(c) ==
  /\ cphase[c] = "ack"
  /\ owner = c
  /\ resultOffset' = Head(cbatch[c])
  /\ cphase' = [cphase EXCEPT ![c] = "release"]
  /\ UNCHANGED <<cbatch, sessionVars, leases, groupVars, historyVars>>
  /\ UNCHANGED <<dbVars, topicVars>>

CRelease(c) ==
  /\ cphase[c] = "release"
  /\ leases' = LeasesWithout(c)
  /\ cbatch' = [cbatch EXCEPT ![c] = Tail(@)]
  /\ cphase' = [cphase EXCEPT ![c] = "lease"]
  /\ UNCHANGED <<sessionVars, groupVars, historyVars>>
  /\ UNCHANGED storeVars

\* The batch is done; the group is left and the caller gets the summaries.
CReturn(c) ==
  /\ cphase[c] \in {"first", "lease"}
  /\ cbatch[c] = <<>>
  /\ cphase' = [cphase EXCEPT ![c] = "commit"]
  /\ UNCHANGED <<cbatch, sessionVars, leases, groupVars, historyVars>>
  /\ UNCHANGED storeVars

\* Mutant of CCommit: the objects are left out of the transaction.
CCommitNoObjects(c) ==
  /\ cphase[c] = "commit"
  /\ status' = [t \in Tasks |-> IF wStatus[c][t] = Keep THEN status[t] ELSE wStatus[c][t]]
  /\ itemStatus' = [i \in Items |-> IF wItem[c][i] = Keep THEN itemStatus[i] ELSE wItem[c][i]]
  /\ applied' = applied \cup pending[c]
  /\ EndSession(c)
  /\ UNCHANGED <<objects, leases, groupVars, skipped, lost>>
  /\ UNCHANGED <<topicVars, resultOffset>>

\* session.commit() of the caller.
CCommit(c) ==
  /\ cphase[c] = "commit"
  /\ status' = [t \in Tasks |-> IF wStatus[c][t] = Keep THEN status[t] ELSE wStatus[c][t]]
  /\ itemStatus' = [i \in Items |-> IF wItem[c][i] = Keep THEN itemStatus[i] ELSE wItem[c][i]]
  /\ objects' = objects \cup wObj[c]
  /\ applied' = applied \cup pending[c]
  /\ EndSession(c)
  /\ UNCHANGED <<leases, groupVars, skipped, lost>>
  /\ UNCHANGED <<topicVars, resultOffset>>

\* Mutant of Unwind: the session is used again without a rollback.
UnwindNoRollback(c) ==
  /\ cphase' = [cphase EXCEPT ![c] = "idle"]
  /\ cbatch' = [cbatch EXCEPT ![c] = <<>>]
  /\ pending' = [pending EXCEPT ![c] = {}]
  /\ leases' = LeasesWithout(c)
  /\ Forfeit(c)
  /\ UNCHANGED <<view, wStatus, wItem, wObj, owner, moves, applied, skipped>>
  /\ UNCHANGED <<dbVars, topicVars, resultOffset>>

(***************************************************************************)
(* Exceptions: the lease is released by "finally", the exception leaves    *)
(* the call and the session is rolled back. Offsets already committed in   *)
(* this batch stay committed.                                              *)
(***************************************************************************)
Unwind(c) ==
  /\ EndSession(c)
  /\ Forfeit(c)
  /\ leases' = LeasesWithout(c)
  /\ UNCHANGED <<owner, moves, applied, skipped>>
  /\ UNCHANGED <<rowVars, topicVars, resultOffset>>

\* The snapshot hid a workspace_object committed meanwhile: the INSERT
\* violates uq_workspace_object_task_item.
CConflict(c) ==
  /\ cphase[c] = "apply"
  /\ rowLock[Record(c).task] \in {Nobody, c}
  /\ NewObjects(c) \cap objects # {}
  /\ Unwind(c)
  /\ UNCHANGED faults

\* Two sessions wait for each other's rows and the database aborts one.
CDeadlock(c) ==
  /\ cphase[c] = "apply"
  /\ \E d \in Consumers \ {c} :
       /\ cphase[d] = "apply"
       /\ rowLock[Record(c).task] = d
       /\ rowLock[Record(d).task] = c
  /\ Unwind(c)
  /\ UNCHANGED faults

\* The partition was taken away: the offset commit is refused.
CAckRejected(c) ==
  /\ cphase[c] = "ack"
  /\ owner # c
  /\ Unwind(c)
  /\ UNCHANGED faults

\* Any other error of the database, the broker or Redis.
CError(c) ==
  /\ cphase[c] # "idle"
  /\ faults < MaxFaults
  /\ faults' = faults + 1
  /\ Unwind(c)

(***************************************************************************)
(* Faults around the call.                                                 *)
(***************************************************************************)

\* The process dies: nothing releases its lease, which lives until its TTL.
CCrash(c) ==
  /\ cphase[c] # "idle"
  /\ faults < MaxFaults
  /\ faults' = faults + 1
  /\ EndSession(c)
  /\ Forfeit(c)
  /\ UNCHANGED <<leases, owner, moves, applied, skipped>>
  /\ UNCHANGED <<rowVars, topicVars, resultOffset>>

\* Another member joins and the partition moves to it.
Rebalance(c) ==
  /\ owner # c
  /\ moves < MaxRebalances
  /\ moves' = moves + 1
  /\ owner' = c
  /\ UNCHANGED <<cphase, cbatch, sessionVars, leases, faults, historyVars>>
  /\ UNCHANGED storeVars

\* The TTL of a lease runs out; no caller ever refreshes it.
LeaseExpires(t) ==
  /\ leases[t] # Nobody
  /\ leases' = [leases EXCEPT ![t] = Nobody]
  /\ UNCHANGED <<cphase, cbatch, sessionVars, groupVars, historyVars>>
  /\ UNCHANGED storeVars

CStep(c) ==
  \/ CPoll(c) \/ CLease(c) \/ CSkip(c) \/ CApply(c) \/ CAck(c)
  \/ CRelease(c) \/ CReturn(c) \/ CCommit(c)
  \/ CConflict(c) \/ CDeadlock(c) \/ CAckRejected(c)

CFault ==
  \/ \E c \in Consumers : CError(c) \/ CCrash(c) \/ Rebalance(c)
  \/ \E t \in Tasks : LeaseExpires(t)

(***************************************************************************)
(* The consumer on its own: every task is queued with pending items, and   *)
(* the topic receives results the way the worker builds them, or a record  *)
(* that is no DeliveryResultMessage (a field too many is enough).          *)
(***************************************************************************)
EnvUnreadable ==
  /\ Len(resultLog) < MaxResults
  /\ \E t \in Tasks : resultLog' = Append(resultLog,
       [task |-> t, cause |-> 0, status |-> "unreadable", uploaded |-> {}, failed |-> {}])
  /\ UNCHANGED consumerVars
  /\ UNCHANGED <<dbVars, taskLog, taskOffset, resultOffset, sink, staged>>

EnvResult ==
  /\ Len(resultLog) < MaxResults
  /\ \E t \in Tasks : \E up \in SUBSET ItemsOf(t) : \E down \in SUBSET ItemsOf(t) :
       /\ up \cap down = {}
       /\ resultLog' = Append(resultLog,
            [task |-> t, cause |-> 0,
             status |-> IF down = {} THEN "uploaded" ELSE "partial_failed",
             uploaded |-> up, failed |-> down])
       /\ sink' = sink \cup up
  /\ UNCHANGED consumerVars
  /\ UNCHANGED <<dbVars, taskLog, taskOffset, resultOffset, staged>>

ConsumerInit ==
  /\ status = [t \in Tasks |-> "queued"]
  /\ itemStatus = [i \in Items |-> "pending"]
  /\ objects = {}
  /\ rowLock = [t \in Tasks |-> Nobody]
  /\ taskLog = <<>> /\ taskOffset = 0
  /\ resultLog = <<>> /\ resultOffset = 0
  /\ sink = {} /\ staged = {}
  /\ CInit

consumerSpecVars == <<storeVars, consumerVars>>

ConsumerNext == (\E c \in Consumers : CStep(c)) \/ CFault \/ EnvResult \/ EnvUnreadable

\* A caller goes on with the call it made and calls again; a lease expires.
ConsumerSpec ==
  /\ ConsumerInit /\ [][ConsumerNext]_consumerSpecVars
  /\ \A c \in Consumers : WF_consumerSpecVars(CStep(c))
  /\ \A t \in Tasks : WF_consumerSpecVars(LeaseExpires(t))
-----------------------------------------------------------------------------
(***************************************************************************)
(* Properties                                                              *)
(***************************************************************************)

\* The stored outcome of a task is that of one result, applied whole: the
\* task row and the item rows come from the same record, never half of one
\* mixed with half of another. (Once the partition has moved, two sessions may
\* apply results of one task at a time, and rows of two results do mix.)
StatusMatchesResult ==
  moves = 0 => \A t \in Tasks : status[t] \in Terminal =>
    \E k \in applied :
      /\ resultLog[k].task = t
      /\ resultLog[k].status = status[t]
      /\ \A i \in resultLog[k].uploaded : itemStatus[i] = "uploaded"
      /\ \A i \in resultLog[k].failed : itemStatus[i] = "failed"

\* A workspace_object exists for every uploaded item that maps to a workspace,
\* and only for items that an applied result reported as uploaded.
ObjectsMatchResults ==
  /\ {i \in Mapped : itemStatus[i] = "uploaded"} \subseteq objects
  /\ \A i \in objects : \E k \in applied : i \in resultLog[k].uploaded

\* In the database, or in an open session that has not failed.
Held(k) == k \in applied \/ \E c \in Consumers : k \in pending[c]

\* The committed offset leaves a record behind in two ways only: its lease was
\* taken, or its session was rolled back after the ack. No interleaving of
\* polls, refused acks and rebalances passes over a record otherwise.
AckedResultsAccounted == \A k \in 1 .. resultOffset : Held(k) \/ k \in skipped \cup lost

\* The committed offset is within one batch of a record that does not parse:
\* a call that reads up to it raises before it handles any.
StopsShort ==
  \E k \in resultOffset + 1 .. resultOffset + MaxRecords : k <= Len(resultLog) /\ ~Readable(k)

\* Every result in the topic is eventually committed to the database, unless
\* it is left behind in one of these two ways or the group stops short of it
\* for good. Nothing ever passes over a record that does not parse.
EveryResultSettled ==
  \A k \in 1 .. MaxResults :
    (k <= Len(resultLog)) ~> (k \in applied \cup skipped \cup lost \/ StopsShort)

\* No call waits forever: not for rows that another session has locked, and
\* not in a cycle of such waits. (A lease that is held is never waited for:
\* its record is skipped.)
CallReturns ==
  \A c \in Consumers : (cphase[c] # "idle") ~> (cphase[c] = "idle")
=============================================================================
