# Delivery path of the multi-tenant file delivery platform: TLA+ models and proofs

The platform takes an archive of files from an operator, classifies its entries,
and delivers each entry to the workspace of a target tenant. The control plane
(FastAPI, SQLAlchemy, MySQL) owns the rows; a Go data plane moves the bytes; Kafka
carries task messages one way and results the other; Redis holds advisory claims
and leases. Nothing ties the four stores together in a transaction, and this is
where the hard behaviour of the system lives. The modules here model that path.

Paths below are relative to the repository root; `app/` stands for
`control-plane/app/`.

## 1. The system

| Part | State it keeps | Operations | Modelled in |
|---|---|---|---|
| Task endpoints, `app/api/tasks.py` | `task.status`, `task_item.upload_status`, the staged archive, a Redis claim per task | classify, confirm, upload, retry | `UploadApi`, `TaskRunner` |
| Task creation, `create_task` | rows under a unique key, a Redis claim per key, the directory of the task | create | `TaskCreation` |
| Result consumer, `app/services/delivery.py` | position in `delivery.results.v1`, apply leases, an open database session | poll, lease, apply, ack, release, commit by the caller | `ResultConsumer` |
| Go worker, `data-plane/internal/{worker,transport,pipeline}` | reader position, the batch, result slots of the items | consume, dead-letter, process, produce, ack | `KafkaWorker` |
| Resolver and sink, `data-plane/internal/{source,sink}` | archive cache, S3 objects | resolve, PUT | inside `KafkaWorker` |
| Database, topics, buckets | rows, two logs and their committed offsets, staging and sink buckets | | `DeliveryStore` |
| In-process runner and S3 uploader, `app/services/{task_runner,s3_uploader}.py` | semaphores, gathered groups, per-item commits | run, upload, retry | `TaskRunner` |
| Progress bus and SSE stream, `app/services/progress_bus.py` | subscriber queues | subscribe, close, stream | `TaskRunner` |
| Staging clean-up, `app/services/staging_cleanup.py` | list of deleted keys in the task events | scan, delete, commit | `StagingCleanup` |
| File-spool transport, `data-plane/internal/transport/file.go` and the spool classes of `delivery.py` | a task file and a result file per task | publish, consume, produce, apply | `FileSpool` |
| Rate limiter, `data-plane/internal/limiter/limiter.go` | one Redis counter with a TTL | allow | `RateLimiter` |
| Classifier, `app/services/{classifier,classification_profile}.py` | the profile | classify an archive | `Classifier` |
| Workspace reads, `app/api/workspaces.py`, `app/services/{auth,presign}.py`, `app/repos/workspace_repo.py` | workspaces, objects and their keys | list, get, download, record | `WorkspaceReads` |
| Redis helpers, `app/services/{redis_lease,idempotency_guard}.py` | keys with a TTL and a token | acquire, refresh, release | where they are used |
| Settings, metrics, tracing, web pages, `_legacy` | | | not modelled, see section 7 |

How the parts interact. `upload_task` stages the archive, publishes a task message
keyed by `task_id` and then writes `queued`. The worker fetches the message, uploads
the items that are still pending and have no blocking error, produces one result
message for the task and only then commits the offset of the task message. A caller
of `consume_delivery_results` opens a database session, applies the results of a
batch in it and commits the session at the end. The endpoints read the rows that
this session wrote.

What makes it hard, and what would make each part correct:

* **Endpoints.** A handler reads the task, decides, and writes later; two handlers
  of one task, or a handler and the consumer, interleave. Staging, publishing and
  the database commit are three separate effects with compensation in between.
  Wanted: nothing unclean is published, a status never promises what was not
  requested, one trigger gives one delivery (section 6 says where it does not), an
  outcome is not overwritten, a claim is taken from nobody who holds it.
* **Worker.** The process may exit between any two effects and Kafka redelivers.
  Items run concurrently under a semaphore. Wanted: a committed offset only past
  answered messages, results that account for every selected item and claim only
  stored bytes, every message answered in the end.
* **Consumer.** One session spans a batch while offsets are committed per record;
  sessions of two processes overlap after a rebalance; a snapshot hides what others
  commit; row locks are held to the end. Wanted: the rows of a task come from one
  whole result, no result is dropped, every call returns.
* **Runner.** With the `python` back end a background coroutine uploads instead of the
  worker. Each row is its own transaction, groups are gathered, an exception in one
  item leaves its siblings running. Wanted: the tally of a run agrees with the rows,
  one sender per item, a retry leads back to an upload, runs and streams end.
* **Creation.** Clients repeat a call with the same idempotency key; the claim that
  keeps them apart expires; files are written between the insert and the commit.
  Wanted: one task per key, no task without its files, no files left by a lost race,
  and a client that tries again is served.
* **Clean-up.** The job decides on a snapshot, deletes in a bucket that the endpoints
  use meanwhile, and notes its deletions in one commit at the end. Wanted: it forgets
  no archive, hides none, and takes none that a message needs.
* **File spool.** The default transport has no acknowledgement: task files stay, all of
  them are worked off at every start, and all results are applied at every look. Files
  are written while others read them. Wanted: every publication comes to be answered and
  reflected, and what is applied again takes nothing back.
* **Limiter.** A fixed window bounds uploads of all workers together, and its reply may be
  lost. Wanted: a bound that holds wherever the window is laid, and no refusal without
  cause.
* **Routing.** Between the name a browser sends and the bytes a reader downloads there
  are six parts that each rewrite or look up a name: the archive, the classifier, the
  message, the resolver, the sink and the workspace. Wanted: no file of a confirmed folder
  is lost, each reader sees exactly what is theirs, and the bytes are the right ones.
* **The whole.** Redelivery, retry and late results meet. Wanted: rows never run
  ahead of bytes, a task reads `uploaded` only when its items do, and what was
  published settles.

## 2. Modules and how they correspond to the code

```
DeliveryStore              rows, topics, offsets, buckets
  |- UploadApi             endpoints          <- MCUploadApi, UploadApiProofs
  |    |- StagingCleanup   clean-up job       <- MCStagingCleanup, StagingCleanupProofs
  |- KafkaWorker           Go worker          <- MCKafkaWorker, BrokerProofs
  |- ResultConsumer        consumer           <- MCResultConsumer, BrokerProofs
        \ all three in DeliverySystem         <- MCDeliverySystem, DeliverySystemProofs
             implements DeliveryLedger        (abstract)
TaskCreation               create_task        <- MCTaskCreation, TaskCreationProofs
TaskRunner                 python back end    <- MCTaskRunner, TaskRunnerProofs
             implements DeliveryLedger
RateLimiter                fixed window
  |- FileSpool             file transport     <- MCFileSpool, FileSpoolProofs
             implements DeliveryLedger
Classifier   WorkspaceReads
  \ both in FolderRouting  folder to reader   <- MCFolderRouting, FolderRoutingProofs
```

**DeliveryStore.** `status` and `itemStatus` are the two status columns (`none`: the
item row does not exist yet), `objects` the `workspace_object` rows, `rowLock` the
open session that has written rows of a task. `taskLog`, `resultLog` are the topics,
`taskOffset`, `resultOffset` the committed offsets, `staged` and `sink` the buckets.
One partition per topic: both producers key by `task_id`, so the messages of a task
are always in one partition and in order. Item contents are abstracted to two facts
the code decides on: a blocking error (`Blocking`) and a target that names a
workspace of the owner (`Mapped`). A task message carries the items the handler
listed and those the pipeline filters out (`skip`). `cause` in a result is a history
field that no action reads.

**KafkaWorker.** `wphase` is the place in `Worker.Run`; `WFetch` is one
`FetchMessage` of `Consume`; a message that does not decode or validate goes through
`WDeadLetter` and `WAckDeadLetter` before the next fetch, as in `produceDLQ`.
`WBatchReady` is the end of `Consume` (batch full, or no message within the wait).
`WStart`, `WAcquireSlot`, `WResolve`, `WUpload` and their failures are the pipeline
with one goroutine per item; `WProduce` builds the result from the slots, `WAck`
commits. Each error that `Run` returns ends the process, so `WCrash` at that point
covers it; it resets what is in memory, puts the reader back at the committed
offset, and a PUT on the wire may still land. `EnvPublish` and `EnvStaging` close the
module when it is checked alone.

**ResultConsumer.** `cphase` is the place of each caller in
`consume_delivery_results`. `CPoll` starts a consumer at the committed offset and parses its batch (a record that
does not parse, which `EnvUnreadable` may append, makes the call raise);
`CLease`/`CSkip` are the two outcomes of `acquire`; `CApply` is the whole of
`apply_delivery_result` in the open session; `CAck` commits the Kafka offset;
`CRelease` is the `finally`; `CReturn` ends the batch and `CCommit` is the caller's
`session.commit()`. The session is modelled as what it is: `view` is the snapshot
opened by its first read (MySQL REPEATABLE READ), `wStatus`, `wItem`, `wObj` the
columns it has written, and a column is written only if the loaded value differs, as
the ORM's flush does. The errors have names: a unique-key conflict that the snapshot
hid (`CConflict`), a database deadlock, a refused offset commit after a rebalance, any
other error, a crash that leaves the lease to its TTL. `pending`, `applied`,
`skipped`, `lost` are history variables; `lost` takes the records of a session that is
rolled back, without the one that is applied and not yet acked (`Unacked`), which will be
read again.

**UploadApi.** A request slot goes through `rphase`. Each handler is a read step, which
loads what the code loads, and one or more later steps, which write by primary key
whatever the row holds by then. `upload_task` has a step per effect: claim, stage,
publish, compensate, mark, release, each with the failures the code handles, and
`UploadPublishLost` (stored, but the reply was lost), `UploadMarkFails`, `ApiCrash` as
counted faults. A row that an open consumer session has written blocks writers
(`Unlocked`). `raced` is a history variable: the tasks for which a request has acted
although another had overtaken it, which is a confirmation or a retry decided on a status
that has changed since (`Stale`), or an upload past its claim whose task or items have
changed, or beside which another one is under way (`Rivalled`). No action reads it. `EnvAnswer`
closes the module.

**TaskRunner** stands alone: a deployment has one back end or the other, and in this one
nothing goes through Kafka. It models one task, since tasks share only the process.
`rpc` is the place of a background run, `ipc` that of each item coroutine of it, `qpc`
that of a request. `RunCheck` and `RunStart` are the two halves of step 1 of
`_run_task_inner`, `RunList` step 2, `GroupsDone` the two nested `gather` calls: a group
whose item raised is over at once, and its other items go on by themselves, also after
the run has ended. `ItemDbError` raises where the code has no `try` around it and fails
the item where it has; a transaction that raises, here and in `RunDbError`, was refused or was
carried out with its reply lost (`RowOrNot`, `StatusOrNot`). The two semaphores are taken in the same order by every item, so
that they act as the smaller of the two (`Slots`). Of the progress bus only the end of a
stream is kept: `sub` tells whether a stream reads from Redis or from memory, and
`RunClose` reaches both or, when Redis fails, only the latter.

**TaskCreation** stands alone: no other handler sees a task before it is committed.
`phase` is the place of each client's call in `create_task`. `Insert` is the flush in
`TaskRepo.create`; `writer` is the open session that has inserted a row with a key, for
which a second insert waits, until it is committed (`InsertConflict`), rolled back, or
the wait times out (`InsertTimesOut`). `archive` is the state of a task's directory:
nothing in the code removes it. `Close` is the end of the session dependency, after the
`finally` that releases the claim. `ClaimOf` is `_guard_key`, which replaces characters
and cuts, so that two keys may share a name.

**StagingCleanup** extends `UploadApi`. `ApiStep` is a step of the endpoints with the
events it commits (`fresh`: `task_staged_source`, `listed`:
`task_staged_source_deleted`); where a commit that raised may have been carried out,
both are possible. `Expire` moves an event past the retention cutoff. `JobScan` is the
two queries of `cleanup_staging_sources`, `JobDelete` one deletion with its flushed
event, `JobCommit` the one commit of the job, `JobAbort` any error or exit before it,
which rolls the events back and not the deletions. `taken` is a history variable.

**RateLimiter** is the Lua script of `limiter.go` and its callers. `count` and `ttl` are
the value and the expiry of the one key that all uploads of a worker use; `Allow`,
`Refuse` and `AllowFails` are the three outcomes of a call, the last of them with the
request counted or not. Counts above `Limit + 1` are not told apart, since the script only
compares. Time is a `Tick`, of which the window has `Window`. `admitted` and `unheard`
are history variables.

**FileSpool** extends it to the whole path on that transport. `inbox` and `outbox` are the
two directories: one task file and one result file per task, the later round over the
earlier. `Publish` is one step because the file is written under another name and
renamed; the result is written by `os.WriteFile`, which truncates first, and is therefore
two steps (`WTruncate`, `WWrite`) with readers and an exit in between. `WConsume` takes all
task files, answered or not, in the order of their names; `Ack` does nothing. The message
holds the rows as they were at publication, so that a worker that comes back to a file
uploads its items again. `Consume` applies every result file at once, new or old, and none
if one of them does not parse. `MarkQueued` writes "queued" whatever the status is.

**Classifier** is `classifier.py` and `_load_profile` as operators on a path, a profile and
an archive. A path is the sequence of its components; what the code computes from the
characters of a component (lower case, suffix, last segment, words, similarity, whether it
has Latin-1 characters that read as GBK) are constant functions on components, so that
the decisions, their order and the counts are the code's and the alphabet is not. The order
of the profile is kept where it decides: the first target that answers, the first word
that occurs, the first of the best ratios. `ClassifyEntry` is one turn of the loop.

**WorkspaceReads** is the other end: `ResolveCurrentActor` for `auth.py`, one operator per
query of `workspace_repo.py`, and the endpoints on top. A refused request has `NoActor`,
and a 404 is the empty set.

**FolderRouting** composes the two with the parts in between. `CreateTask` makes the
archive (`SafeArchiveName`, `Acceptable`), `ClassifyTask`, `ConfirmTask` and `UploadTask`
are the endpoints on an undisturbed task, `UploadItem` and `FailItem` the resolver (the
first member of exactly the name) and the sink (`dst_path` is the key, as it is),
`ApplyResult` the rows and objects, `Redeliver` a second processing of the message. The
bytes of a member are identified by the task and the position in its archive, which also
stands for their hash.

**DeliverySystem** takes the steps of the three in any order over the shared state.

**DeliveryLedger** is what a reader of a workspace is promised: bytes arrive and stay;
an item reads `uploaded`, or is listed, only if its bytes are there; a listing is never
withdrawn; a mapped item that reads `uploaded` is listed. The refinement mapping takes
`sink`, `objects` and the set of items that read `uploaded`.

The operators whose comment starts with "Mutant of" are not part of the
specification. Each is a plausible bug in the definition that follows it, and puts one
property to the test: with the mutant in place of the definition, TLC reports the
property violated.

## 3. Runs

| Run | Instance | What it shows |
|---|---|---|
| `kafka_worker` | 1 task, 2 items, 2 messages of any kind, 1 exit, batch 1, object sources | `AckedTasksAnswered`, `ResultsComplete`, `EveryTaskAnswered` |
| `result_consumer` | 2 callers, 2 tasks, 2 results, batch 2, leases, 1 fault, 1 rebalance | `StatusMatchesResult`, `ObjectsMatchResults`, `AckedResultsAccounted` |
| `result_locks` | 2 callers, 2 tasks, 3 results, batch 2, no leases, 1 rebalance | `CallReturns`, `EveryResultSettled`: row locks in opposite orders, conflicts, refused acks, records that do not parse |
| `upload_api` | 2 request slots, 2 tasks (one blocked), slow requests, 1 fault, claims on | `OnlyCleanTasksPublished`, `QueuedMeansPublished`, `ClaimsFollowUploads` |
| `runner` | 2 items of one group, 2 runs, 1 request slot, 1 stream, claims on, 1 fault of any kind | `TallyMatchesRows`, `RetryLeadsBack`, `OneSenderPerItem`, `RunnerImplementsLedger` |
| `runner_ends` | 2 items of one group, 1 run at a time, 2 faults | `RunEnds`, `StreamComesToEnd` |
| `creation` | 3 clients, 2 of one key, slow calls, 3 ids, 1 fault of any kind | `RepliesAgree`, `RowsHaveArchive`, `LeftoversFromFaults`, `EveryKeyServed` |
| `staging` | 1 task with a retry, 1 request slot, 2 jobs, 1 fault of each side | `ListedMeansDeleted`, `ScanSparesTasksInFlight`, `OldArchivesDeleted` |
| `system_faults` | 1 item, 2 messages, 1 request slot, one fault of each component, object sources | `RowsBackedByBytes`, `ImplementsLedger`, `PublishedItemsSettle` |
| `system_outcome` | 2 items, 2 request slots without claims, 2 messages, batch 2, object sources, no counted fault | while calm and for tasks that are not raced: `NoItemTwiceWhenCalm`, `ArchiveKeptWhenCalm`, `UploadedMeansAllOnce` |
| `spool` | 1 task of 2 items, 2 publications in all, 1 fault, 2 uploads in 2 ticks | `PublishedIsAnswered`, `SpoolImplementsLedger`, `LimiterWindow` |
| `routing` | 2 tasks of 2 owners with a target of one name, 3 profiles, 16 folders of up to 3 names, 6 readers, 2 faults | `NoFileDropped`, `ReadersSeeTheirOwn`, `ShownBytesAreOwn`, `FailuresExplained` |

`kafka_worker`, `upload_api` and `creation` also check the type invariants that section 5
proves.

The bounds, and why they are enough. Every property that can fail between two actors
needs two of them on one row or one offset: the instances have two callers, two
requests, or one of each component. Two messages are the least that put one behind
another (batch, redelivery, second upload); three results with a batch of two put one
result outside the batch. Two items are the least that make a partial failure; where a
property is about one item only (`system_faults`) one is enough, since items meet only
in the status of the task. The races of requests need two of them on one task
(`system_outcome`), and with the guard off any two uploads may run side by side; `upload_api`
has the claims, which expire under slow requests. In `system_faults` the request that fails
is alone, so that what is left to go wrong is the fault. `MaxTaskMsgs`, `MaxResults`, `MaxFaults`, `MaxRebalances`,
`MaxApiFaults`,
`MaxWorkerCrashes`, `MaxRunFaults`, `MaxCreateFaults`, `MaxJobFaults`,
`MaxPublications`, `MaxSpoolFaults` and `MaxRoutingFaults` bound what the
environment does, never what the code does. `MaxIds` bounds the ids of `creation`: an
insert takes one, and three are as many as two keys and one fault can use. One task is
enough in `staging`, since a job treats its candidates one by one and staging keys are
per task; two jobs are the least that overlap. One task is enough in `spool` too: files are
per task, and what tasks share there, the limiter, two items share as well; two
publications put an old result and an old task file beside new ones. In `routing` every
folder and profile is there for a way through the classifier (each strategy, filter,
match, refusal and way to fail at least once), and the two owners have a target of the same
name and files that go to the same path. The two request slots of `system_outcome` are
symmetric (its properties are safety, and no definition names a slot); no other symmetry is
used. Deadlock is checked
in `creation`, where clients call for ever; elsewhere it is off: with no task message,
no result and no client call left, the system really rests.

## 4. Fairness

* `WF(WStep)`: `Worker.Run` loops until its process ends, and a supervisor starts the
  process again (an exit is `WCrash`, which includes the restart). A worker started
  with `-once` stops after a batch; it is assumed to be started again as well.
* `WF(CStep(c))`: a call of `consume_delivery_results` that has begun goes on, and the
  caller calls again. Nothing is assumed about who gets a lease or a lock first.
* Nothing is assumed of the endpoints on the path to Kafka: no client is obliged to call and
  no handler to come to its end. What has been published settles without them.
* `WF(RunStep(r))`: the event loop goes on with every background run; nobody is obliged
  to read a stream.
* `WF(Call(c))`, `WF(Step(c))`: a client repeats its create call, which is what an
  idempotency key is for, and a call that has begun goes on.
* `WF(JobStep(j))`, `WF(Expire(t))`: the operator runs the clean-up job again and again
  (`docs/plans/phase-3x-production-hardening.md:175` gives the command; the code has no
  schedule of its own), and time passes.
* On the spool, `WF(WStep)` and `WF(MarkQueued(t))` as above, with a worker that is run again
  and again (`-once` or not), and `SF(Consume)`: the caller looks at the results again and
  again. It is strong because a result file that is being written disables it for the
  time of one write, and looks do not for ever fall into that time. No fairness of time is
  assumed: a limiter whose window never ends refuses, and a refusal is an answer too.
* `routing` states safety only, and so no fairness.
* `WF(LeaseExpires(t))` in `ResultConsumer`, `WF(ClaimExpires(n))` in `TaskCreation`: Redis
  expires keys.
* No fairness on faults, and none on the success of a step against its failure: weak
  fairness is on the disjunction, so an item may fail every time.

## 5. Proofs

`BrokerProofs` proves of the worker, for every set of tasks and items, every number of messages,
every `MaxItemConc` and every number of exits:

* `WorkerTypeCorrect`: `WorkerSpec => []WorkerTypeOK`. The types are not inductive
  alone: `WAck` takes the head of the batch and `WAckDeadLetter` commits `wpos`, so the
  invariant `WTypeInv` adds `WShape`, which says when the batch is non-empty and the
  position is not zero.
* `ResultsAlwaysComplete`: `WorkerSpec => []ResultsComplete`. A result is built from the
  state of the slots, so the invariant adds that, while a message is processed, the
  slots in use are exactly those of its selected items and that an item whose slot says
  `uploaded` is in the sink. Results already in the topic stay right because both the
  task topic and the sink only grow.
* `HandOver`: if `BatchSize = 1`, the default, then `WorkerSpec => []AckedTasksAnswered`.
  The invariant adds that the reader is at most one message ahead of the committed
  offset, that this one message is the one in the batch (or the one being
  dead-lettered), and that it is answered before `WAck` and in the dead-letter topic
  before `WAckDeadLetter`. The assumption is needed: with a batch of two,
  dead-lettering an invalid message commits the offset of the valid one fetched before
  it (section 6).

`UploadApiProofs` proves, for every set of tasks, items and requests:

* `UploadTypeCorrect`: `UploadSpec => []UploadTypeOK`.
* `BlockedTasksStay`: `UploadSpec => []OnlyCleanTasksPublished`. The property speaks of
  messages only; what makes it inductive is that the status never passes "classified"
  while an item of the task has a blocking error, and that no handler works on such a
  task beyond its checks (`CleanInv`, with the types `CInv`): a write by a stale
  handler is then harmless for this property.
* `QueuedIsPublished`: `UploadSpec => []QueuedMeansPublished`. The status and the message
  are written in two steps; the invariant `QueuedInv` adds that only a request whose task
  has a message comes to the second one, and messages are never taken back.
* `ClaimsAreFollowed`: `UploadSpec => ClaimsFollowUploads`. A claim is taken away by its TTL or
  by the release of the request that holds it, since the script compares tokens; and a handler
  whose claim is still its own comes to its end through the release only.

`TaskCreationProofs` proves, for every set of keys, clients and claim names and any number
of faults:

* `CreationTypeCorrect`, `OneTaskPerKey`, `TasksHaveArchives`: `Spec` keeps
  `CreationTypeOK`, `RepliesAgree`, `RowsHaveArchive`. The invariant `CreationInv` adds
  that an open insert of a key and a committed row of it exclude each other, that the
  ids of rows and of calls at work are used once, and that a call which is about to
  commit has its files whole. Claims do not occur in it: the unique key alone
  carries the argument, whatever Redis does.

* `LeftoversAreFaults`: `Spec => []LeftoversFromFaults`. The directories without a task are
  counted against the faults (`OrphanInv`): a call that has written files either commits its
  row or takes the counted failure, because the insert that decides the race comes first.

`StagingCleanupProofs` proves:

* `ListingIsTruthful`: `CleanupSpec => []ListedMeansDeleted`. The invariant `CleanupInv`
  follows the set of tasks that have an archive or have lost one, which only grows:
  whoever may list a key (a job with a note, a compensating request, an expired event)
  works on a task of that set, and a key is noted only when its archive is gone.
* `ScansSpare`: `CleanupSpec => ScanSparesTasksInFlight`, for any number of requests. `FlightInv`
  says, until a request fails half-way, what *Requests in turn* below describes: a task
  that is not raced has one message ahead at most and reads "queued" meanwhile, or
  "confirmed" while the publisher is about to mark it. A scan picks neither.

`BrokerProofs` proves of the result consumer, for every set of consumers, tasks and items, every batch size
and any number of results, errors and rebalances:

* `AckedAccountedFor`: `ConsumerSpec => []AckedResultsAccounted`. A commit of an offset
  passes over all records before it, so the invariant `OffsetInv` speaks of those as well:
  everything in front of a session's batch is accounted for. With the shape of the sessions
  (`CShape`: what is applied lies before the head of the batch) this is inductive, also
  when two sessions read the same part of the topic.
* `ObjectsMatch`: `ConsumerSpec => []ObjectsMatchResults`. `ObjectInv` follows the writes of
  an open session: an object that it adds comes from a result that it has applied, and
  a mapped item that it turns "uploaded" has its object in the database or among its writes.
  Snapshots may be old; that listings are never withdrawn is what makes them safe.
* `OneResultWhole`: `ConsumerSpec => []StatusMatchesResult`. `RowInv` says that, until the
  partition moves, only its owner has a session, its snapshot is the database, and the
  rows as they would be after its commit are those of one result (`Whole`).

`TaskRunnerProofs` proves, for any number of runs, requests, items, slots and faults:

* `RunnerIsLedger`: `RunnerSpec => RunnerImplementsLedger`. `StoredInv`: what has been sent,
  or reads "uploaded", is stored.
* `OneSender`, `TallySpeaksForRows`, `RetriesLeadBack`: with the guard on and a claim that
  does not expire before the run has marked the task (`GuardEnabled`, `~ShortTTL`),
  `RunnerSpec` keeps `OneSenderPerItem`, `TallyMatchesRows`, `RetryLeadsBack`. The invariant
  `RunnerInv` holds the types always, and `CalmInv` as long as no transaction was refused and
  no retry overlapped a run (`RetriesLeadBack` wants no exit either): from the
  claim to the mark there is one holder, the claim exists and the task is confirmed;
  behind the mark one run is at work and the task says so; a row is what the place of its
  item says; a final status speaks for the rows. The two assumptions are the two that
  section 6 shows to be needed: with the guard off, or a claim that ends while the run
  waits for its turn, two runs start.

`DeliverySystemProofs` takes the three components of the Kafka path together. Each
invariant above is about the shared rows and topics, and here the others write them too:

* `RowsAreBacked`, `SystemIsLedger`: `SystemSafety => []RowsBackedByBytes` and
  `SystemSafety => ImplementsLedger`. `SystemInv` joins the types of all parts, the results
  as the worker leaves them (`ResultInv`), the objects and offsets as the consumers leave
  them (`OInv`, `OffsetInv`), and `ItemsBacked`: "uploaded" in a row, or among the writes of
  an open session, is about bytes in the sink. In the refinement a PUT is `Deliver`, the
  commit of a session `Settle`, and all other steps stutter.
* `PartsHoldTogether`: what was proved of the consumer and of the worker alone holds
  with the other components in place of their environments.
* `PromisesHold`: `SystemSafety => [](OnlyCleanTasksPublished /\ QueuedMeansPublished)`.
  Results are written over any status, so the argument of `UploadApiProofs` needs in
  addition that a session only writes what a result says, and that a result
  answers a message (`WritesAreResults`).
* `ReadsOnce`: a worker that has not exited reads every message once and answers it at
  most once.
* `NoItemTwice`, `ArchiveStays`, `UploadedIsAll`: `SystemSafety` implies
  `NoItemTwiceWhenCalm`, `[]ArchiveKeptWhenCalm` and `[]UploadedMeansAllOnce`, for any number of
  requests. The argument goes by messages that are *open*: their result is
  not written, not yet read, or still in an open session. `OneCaller` says that before
  the partition moves one caller reads the topic, forward and each record once, so
  that a result is written at most once and a message closes for good. `CalmFlights` says
  of open messages what the next paragraph describes. With this, `ArchiveInv` is inductive:
  compensation, which deletes under the key of the task, runs for the only upload of the task,
  when no message of it is open. For the rows (`CalmRows`), the items of an open message are
  pending and the others of its task are uploaded (`Divides`), a confirmed task has no failed
  item, and a session that has applied a result writes its verdict on all of its items,
  because its snapshot shows them as pending (`SessionRows`). A result says "uploaded" only
  without failed items (`WholeResults`): the whole task is then uploaded.

*Requests in turn.* The last three and `ScansSpare` rest on the lemmas about requests at the end
of `UploadApiProofs`. They speak of a task for which no request has acted on what another one had
changed since it loaded it (`Fair`: not raced, and with items), whatever requests run side by
side: reads overlap, and so do the two halves of handlers. `KnownOnce` says that a
task which has left "draft" has its rows, so that it cannot be classified once more, and that what
a request has loaded allows what it does. `InTurn` says that one upload of the task at most is past
its claim; that until it has published, the task is confirmed and no message is under way; and
that afterwards there is one at most, and the task says so. A step that would break this is one
that makes the task raced (`RequestKeepsTurn`, `OutcomeKeepsTurn`). That raced tasks are excepted is
needed: of two uploads that have both read "confirmed", the second publishes the same items again
once the first has released its claim, and if it fails it deletes the archive under the message of
the first (section 6). A task without items can be classified and uploaded again at any time, since
what stops a second classification is the unique key of the items; its messages carry nothing,
and the properties say nothing of them.

`FileSpoolProofs` proves `SpoolRefinesLedger`: `Spec => SpoolImplementsLedger`, so that the
delivery path on the file spool implements `DeliveryLedger` for every number of tasks,
items, publications and faults and every limit. The invariant `IInv` says that whatever
reports an item as uploaded (a slot of the worker, a result file of any round, also a
truncated one, a row) reports bytes that are in the bucket, and that a shown item with a
workspace is listed. This is what makes it harmless that results are applied in any order
and for any number of times.

It also proves `LimiterBounds`: `Spec => []LimiterWindow`, for every limit, window length and
schedule of requests, lost replies and ticks. `LimiterInv` looks back from now over the length
of one window and cuts this span at the tick in which the key was created. What was admitted
from then on is at most the counter and at most `Limit`, and with the replies that were lost
it is at least the counter up to `Limit`; the key was created by the first of these
admissions, so that the later ticks have at most `Limit - 1` of them; and in front of the cut there
are at most `Limit - 1`, because the key before had expired by then. The sums over ticks are
a recursive function, and what is needed of them (`Sums`, `SumsGrow`, `SumsAfterTick`) is proved
by induction from the least-number principle.

`FolderRoutingProofs` proves the four properties of `routing`, for every profile, every set of
names, folders, tenants, workspaces and requests, archives of any length and any number of
failed PUTs and repeated deliveries:

* `FoldersArriveWhole`: `Spec => []NoFileDropped`. The rows and the summary of a task come
  from the loop of `classify_zip` over the archive. `BookedKeeps` is its loop invariant: after n
  turns the rows are, in order, those of the first n members that are not ignored, and the
  summary counts them. `ZipIs` is what holds after the last turn. The state invariant
  `RowsInv` carries it on: the second classification of a task that has a row violates the
  unique key (`ClassifiedOnce`), so that summary and rows are always of one classification.
  `TargetIsNamed` says which targets can come out of a name.
* `FailuresAreExplained`: `Spec => []FailuresExplained`. `SentInv` ties the answer for each
  item to its row: the row was accepted, "uploaded" means that it could be, and "failed" without a
  fault that it could not. `FileRow` and `MemberFound` say when it cannot.
* `ReadersAreKeptApart`: `Spec => []ReadersSeeTheirOwn`. `StoreInv` says that each object is that
  of a sent item, in a workspace of its owner that has the item's target (there is one at most, by the
  unique key of workspaces), and that each item that reads "uploaded" has its object there. An
  object is made at the first result that reports the item as uploaded and stays whatever later
  ones say. The separately scoped queries are then compared role by role.
* `ReadersGetTheFile`: `ASSUME RegardedOnce PROVE Spec => []ShownBytesAreOwn`. `StoreInv` also
  follows the bucket: under a key are the bytes of an item that was sent there. The hypothesis
  says that a name which was read as GBK does not consist of characters that read as GBK once
  more. It is needed: without it the resolver can find another member under the name of a row
  (section 6).

The induction over archives does not come from the library, whose induction theorems have an
operator as a parameter. `LeastNumber` (a non-empty set of numbers has a least one) is derived
from the well-foundedness of the order of the naturals, `Induction` is stated for sets of
numbers, and `Recursion` shows that a function which is defined step by step over an interval has
the values that its steps say. `Turns`, `Parts` and `InLast` are written as such functions for
this reason.

Apart from the assumptions that are named with a theorem here, the proofs use the named
assumptions on the constants (`StoreAssumption`, `WorkerAssumption`, `CreationAssumption`
and so on) and nothing else.

Only model-checked is liveness: `EveryTaskAnswered`, `CallReturns`, `EveryResultSettled`,
`PublishedItemsSettle`, `RunEnds`, `StreamComesToEnd`, `EveryKeyServed`,
`OldArchivesDeleted`, `PublishedIsAnswered`. Fairness and ENABLED are out of the prover's
reach. Every invariant, every property of steps and every refinement that a run
checks is a theorem, under the assumptions given above.

## 6. Where code and documents disagree

These are statements of the documents that the code does not keep. No run is kept for them;
the properties of section 3 are worded so as to hold of the code as it is.

* The result offset is committed only after the database
  (`docs/RFC/0002-stateless-data-plane-source-ref.md:111`). `record.ack` runs before the
  caller commits its session (`app/services/delivery.py:559`): an error or exit in between
  loses the result. `AckedResultsAccounted` counts such a result as `lost`.
* The task state machine refuses regressions (`docs/TECHNICAL_NOTES.md:34`). `queued` is
  written after publishing, over an outcome stored in between
  (`app/api/tasks.py:680`), and on Kafka the task then reads `queued` for good. On the
  file spool the result is applied once more, which is the second half of
  `PublishedIsAnswered`.
* `upload_task` checks the status before it takes the claim and not again
  (`app/api/tasks.py:597`): a second request that read "confirmed" publishes the same
  items once the first has released its claim, and when its own publication fails, its
  compensation deletes the archive of the message that is under way. `docs/plans/phase-4-redis-capabilities.md:140`
  says that quick repeated triggers do not publish again.
* The second result of a redelivered message rewrites rows that a retry has changed, so
  that a task can read `uploaded` while one of its items reads failed
  (`app/services/delivery.py:283`). `docs/RFC/0003-kafka-retry-dlq-idempotency.md:28` wants
  duplicates to leave task and items stable.
* A staging key is listed as deleted for good, by the clean-up job or by compensation, and
  every upload of a task stages under the same key: an archive staged later is never
  cleaned (`app/services/staging_cleanup.py:75`). Nor is one whose event was not
  committed. RFC 0003 line 54 wants the clean-up to avoid leaked objects.
* The job judges the age of the oldest event of a key and the status at its scan: it may
  delete an archive that a retry has staged a moment ago, also under a message that the
  worker has still to process. The plan
  (`docs/plans/phase-3x-production-hardening.md:155`) says that neither the archive of an
  unfinished task nor one inside retention is deleted.
* With a claim that expires under a slow create, two calls run the write path up to the
  insert; `docs/plans/phase-4-redis-capabilities.md:139` says only one does. The unique
  key still lets only one of them write (`OneTaskPerKey`).
* With a batch above one, `Consume` dead-letters an invalid message and commits its offset
  past valid messages fetched earlier in the batch (`transport/kafka.go:172`); the RFC
  says the offset follows the result. The default batch is one.
* A result skipped because its lease is held is passed over by the ack of a later record
  of the batch (`app/services/delivery.py:556`); the plan says it is kept for a later try.
* A retry during an upload, or one that loaded the task before its outcome was stored,
  resets the failed items but leaves the task `partial_failed`; neither
  endpoint then moves it on. So does an exit of the process in the python back end, and
  an item whose transaction was refused. `RetryLeadsBack` says that nothing else does.
* A result that does not parse (`app/services/delivery.py:502`) stops the consumer for good:
  the call raises before it handles any record of its batch, and results have no
  dead-letter topic as tasks have. `StopsShort` names these results in `EveryResultSettled`;
  `AckedResultsAccounted` says that no ack ever passes over one.
* With the guard off, a second background run finds the task `uploading`, raises, and
  writes `failed` over it while the first is at work.
* `dst_path` is relative to the workspace (`docs/ADR/0011-classification-profile-engine.md:30`), but
  the sink uses it as the whole key of the bucket (`sink/s3.go:102`) and the path template names
  neither owner nor target: files of two targets or two owners that render the same path
  overwrite each other. `ShownBytesAreOwn` says that nothing else can go wrong with the bytes.
* A type that the profile maps to but does not describe has no category, so that the item
  has no path and yet counts as `ok` and does not block (`app/services/classifier.py:380`);
  a name with Latin-1 characters that happen to be GBK is rewritten in `src_path`
  (`classifier.py:97`), and no member of the archive has that name; a profile with an empty
  `path_template` gives no item a path. Such items fail at every
  delivery: `FailuresExplained` says that only these do.
* GBK has a few Latin-1 characters, so that a name that was read as GBK may read as GBK again.
  If the name of one member is read as such a name, and another member has this very name
  in the archive, then the row of the first is sent under the name of the
  second, and the resolver finds the second (`source/resolver.go:68`): its bytes are stored and
  shown for the first. `RegardedOnce`, the hypothesis of `ReadersGetTheFile`, excludes it, and
  so do the names of `routing`.
* The shipped default profile (`profiles/hq_subsidiary_reports_v1/profile.json`) has a map of
  `targets` and a list of `entry_filters`, and `_load_profile` (`app/api/tasks.py:116`) wants
  a list and a map: the endpoint raises on it. The tests replace the function. The model
  starts from a profile that was loaded.
* Two files whose safe names are equal (`acme//a` and `acme/a`) make every classification of
  the task fail on the unique key, and the task stays a draft.
* A target is taken in the order of the profile, so that an alias of an earlier target hides
  the key of a later one; with a fuzzy threshold of 0 a file without any resemblance gets the
  type "" and never reaches the fallback by suffix (`classifier.py:234`).
* On the file spool every start of the worker uploads every item again, and every look
  applies every result again: a retry is undone by the next look until the worker has
  answered the next upload.
* The limiter admits up to twice its limit, less one, within the length of a window
  (`LimiterWindow`).

After a rebalance two sessions may apply results of one task at a time, and because a
session writes only columns that differ from its snapshot the rows of two results mix:
`StatusMatchesResult` is therefore stated up to the first move of the partition.

What the passing properties leave out on purpose follows from the table:
`AckedResultsAccounted` names the two ways in which a record is left behind and shows
that there is no third; `NoItemTwiceWhenCalm`, `ArchiveKeptWhenCalm` and `UploadedMeansAllOnce`
hold for tasks that are not raced and while `Calm`: no request has failed half-way, the worker
has not exited and the partition has not moved (a move and a move back let a session that is
still open apply a result that another has committed). Two overlapping requests do break each of
them without any fault, which is why `raced` is in their statements;
`ScanSparesTasksInFlight` speaks of the scan, of tasks that are not raced and without a fault, and
`OldArchivesDeleted` exempts keys that are listed already;
`TallyMatchesRows` and `OneSenderPerItem` hold without refused transactions and without
a retry that overlaps a run.

## 7. Not modelled, and why

* Formatting, labels, audit events, hashes, sizes, headers, tracing, metrics, settings:
  no property depends on them.
* Several partitions: messages of different tasks then lose their relative order, which
  no property uses.
* `refresh` of a lease: nothing calls it.
* Progress events before the end of a stream: nothing reads state from them.
* The bytes of an archive: its content is fixed when the task is created and never
  written again, so that every staging of it stores the same bytes and the worker's
  cache, which has no eviction, cannot be stale.
* The counts the clean-up reports, and its optional bucket filter.
* The characters of names (section 2, Classifier), the bytes of files, and the limits of
  payload sizes next to that of the number of files.
* The audit events of the endpoints, such as the one of a download URL, and the time after
  which a URL ends: a URL opens a key as it is when it is used.
* A stream that is opened after the end of its run (`app/services/progress_bus.py:66`): the
  code replays nothing and the stream goes on until the browser leaves, which leaves no
  property to state.
* A rebalance of the worker group in which the old worker goes on producing: a message comes
  twice only after an exit (`WCrash`). `Calm` would have to leave it out in the same way.
* In `apply_delivery_result` (`app/services/delivery.py:190`) the branches for a task or an item
  that does not exist and for a status other than "uploaded" and "failed": no row is ever
  deleted, and the worker reports nothing else.
* The moment between the grant of an apply lease and the first read of the session: `CLease`
  is both, so that a commit of another session in between is taken to come before.
* Claims that several keys share, in the run `creation` (each key has a name of its own there):
  `OneTaskPerKey` covers them, `EveryKeyServed` leaves them out, since calls with one key may then turn
  those with the other away for as long as they come.
* `_legacy` (not imported), web pages (the nondeterministic client of `UploadApi`),
  and the start of the worker and of the application.

## 8. Plan

Done: the delivery path and its refinement of `DeliveryLedger`, the python back end, task
creation, the clean-up job, the file spool and its refinement of the ledger, the limiter,
the classifier with the workspace reads and downloads, and the theorems of section 5.

Modules still to write, in this order:

1. `Transport`, an abstract hand-over of task messages (taken, answered, given back), with
   `FileSpool` and `KafkaWorker` as two implementations.
2. `LeaseTable`: one module for claims and leases, mutual exclusion up to expiry, which
   `ResultConsumer`, `UploadApi` and `TaskCreation` use by instance.

Theorems: every safety property that a run checks is one. What is left to prove: what a raced
task still promises (that each item is published at most once per request, for instance); that the
types of `FileSpool` and `StagingCleanup` are invariants, as far as they are not
already part of an invariant of section 5; which item's bytes are shown when two owners or two
targets share a path; and the steps of a liveness argument that are plain invariants, such as that
a call of the consumer which waits for a lock waits for an open session.

New questions share runs where they can be asked of one instance: a run is kept for each
distinct question, and the properties of a component are checked together.
