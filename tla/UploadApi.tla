------------------------------ MODULE UploadApi ------------------------------
(***************************************************************************)
(* The task endpoints of the control plane on the go-worker path: classify, *)
(* confirm, upload and retry.  A handler reads the task in one step and     *)
(* writes in later ones; requests interleave with each other and with the   *)
(* application of results.  A request has its own database session: what    *)
(* it read first is what it decides on, and the columns it sets are written *)
(* by primary key, whatever the row holds by then.                          *)
(***************************************************************************)
EXTENDS DeliveryStore

CONSTANTS
  Reqs,          \* request slots; each is a process of its own
  GuardEnabled,  \* redis_idempotency_enabled
  ShortTTL,      \* a request may take longer than redis_idempotency_ttl_seconds
  MaxApiFaults   \* bound on crashes, failed commits and lost replies

ASSUME UploadAssumption ==
  /\ Nobody \notin Reqs
  /\ GuardEnabled \in BOOLEAN
  /\ ShortTTL \in BOOLEAN
  /\ MaxApiFaults \in Nat

VARIABLES
  rphase,    \* what the request of each slot does next
  rtask,     \* its task
  rseen,     \* task.status as the request loaded it
  ritems,    \* the items the upload request loaded as uploadable
  claims,    \* Redis key idempotency:v1:upload_task:{tenant}:{task}: the holder
  raced,     \* read by properties only: tasks that requests have raced for
  apiFaults  \* faults so far

uploadVars == <<rphase, rtask, rseen, ritems, claims, raced, apiFaults>>

RPhase == {"idle", "classify", "confirm", "retry", "claim", "stage", "publish",
           "compensate", "mark", "release"}

UTypeOK ==
  /\ rphase \in [Reqs -> RPhase]
  /\ rtask \in [Reqs -> Tasks]
  /\ rseen \in [Reqs -> TaskStatus]
  /\ ritems \in [Reqs -> SUBSET Items]
  /\ claims \in [Tasks -> Reqs \cup {Nobody}]
  /\ raced \subseteq Tasks
  /\ apiFaults \in Nat

UInit ==
  /\ rphase = [r \in Reqs |-> "idle"]
  /\ rtask = [r \in Reqs |-> CHOOSE t \in Tasks : TRUE]
  /\ rseen = [r \in Reqs |-> "draft"]
  /\ ritems = [r \in Reqs |-> {}]
  /\ claims = [t \in Tasks |-> Nobody]
  /\ raced = {}
  /\ apiFaults = 0

\* Request r, at phase p, goes on to phase q.
Goto(r, p, q) == rphase[r] = p /\ rphase' = [rphase EXCEPT ![r] = q]

\* A handler starts on task t: it loads the task row, and the items it needs.
Begin(r, t, q, items) ==
  /\ Goto(r, "idle", q)
  /\ rtask' = [rtask EXCEPT ![r] = t]
  /\ rseen' = [rseen EXCEPT ![r] = status[t]]
  /\ ritems' = [ritems EXCEPT ![r] = items]
  /\ UNCHANGED <<claims, raced, apiFaults>>
  /\ UNCHANGED storeVars

loadedVars == <<rtask, rseen, ritems>>
requestVars == <<loadedVars, raced>>
brokerVars == <<taskLog, taskOffset, resultLog, resultOffset, sink>>

\* No session that is still open has written rows of the request's task.
Unlocked(r) == rowLock[rtask[r]] = Nobody

\* The row is no longer what the request loaded; another upload of its task
\* is past its claim as well.
Stale(r) == status[rtask[r]] # rseen[r]
Sending == {"stage", "publish", "compensate", "mark"}
Rivalled(r) == \E p \in Reqs \ {r} : rtask[p] = rtask[r] /\ rphase[p] \in Sending

\* Kept for the properties: the request acts on its task although another one
\* has overtaken it.
RaceIf(r, overtaken) == raced' = IF overtaken THEN raced \cup {rtask[r]} ELSE raced

(***************************************************************************)
(* classify_task: any status is accepted; the rows of the archive's entries *)
(* are inserted, and the unique key on (task_id, src_path) makes a second   *)
(* classification of the same archive fail as a whole.                      *)
(***************************************************************************)
ClassifyRead(r, t) == Begin(r, t, "classify", {})

ClassifyCommit(r) ==
  LET t == rtask[r] IN
  /\ Goto(r, "classify", "idle")
  /\ Unlocked(r)
  /\ \A i \in ItemsOf(t) : itemStatus[i] = "none"
  /\ itemStatus' = [i \in Items |-> IF TaskOf[i] = t THEN "pending" ELSE itemStatus[i]]
  /\ status' = IF rseen[r] = "classified" THEN status ELSE [status EXCEPT ![t] = "classified"]
  /\ UNCHANGED <<requestVars, claims, apiFaults>>
  /\ UNCHANGED <<objects, rowLock, staged, brokerVars>>

ClassifyConflict(r) ==
  /\ Goto(r, "classify", "idle")
  /\ \E i \in ItemsOf(rtask[r]) : itemStatus[i] # "none"
  /\ UNCHANGED <<requestVars, claims, apiFaults>>
  /\ UNCHANGED storeVars

(***************************************************************************)
(* confirm_task: only a classified task without blocking errors.            *)
(***************************************************************************)
\* Mutant of ConfirmRead: the blocking errors are not looked at.
ConfirmReadAny(r, t) ==
  /\ status[t] = "classified"
  /\ Begin(r, t, "confirm", {})

ConfirmRead(r, t) ==
  /\ status[t] = "classified"
  /\ ItemsOf(t) \cap Blocking = {}
  /\ Begin(r, t, "confirm", {})

ConfirmCommit(r) ==
  /\ Goto(r, "confirm", "idle")
  /\ Unlocked(r)
  /\ status' = [status EXCEPT ![rtask[r]] = "confirmed"]
  /\ RaceIf(r, Stale(r))
  /\ UNCHANGED <<loadedVars, claims, apiFaults>>
  /\ UNCHANGED <<itemStatus, objects, rowLock, staged, brokerVars>>

(***************************************************************************)
(* retry_task: one UPDATE resets the items that are failed at that moment;  *)
(* the status goes back to confirmed only if it was failed or               *)
(* partial_failed when the request loaded it.                               *)
(***************************************************************************)
RetryRead(r, t) == Begin(r, t, "retry", {})

\* Mutant of RetryCommit: the task is confirmed, its items stay failed.
RetryCommitTaskOnly(r) ==
  LET leads == /\ \E i \in ItemsOf(rtask[r]) : itemStatus[i] = "failed"
               /\ rseen[r] \in {"failed", "partial_failed"}
  IN
  /\ Goto(r, "retry", "idle")
  /\ Unlocked(r)
  /\ status' = IF leads THEN [status EXCEPT ![rtask[r]] = "confirmed"] ELSE status
  /\ RaceIf(r, leads /\ Stale(r))
  /\ UNCHANGED <<loadedVars, claims, apiFaults>>
  /\ UNCHANGED <<itemStatus, objects, rowLock, staged, brokerVars>>

RetryCommit(r) ==
  LET t == rtask[r]
      reset == {i \in ItemsOf(t) : itemStatus[i] = "failed"}
      leads == reset # {} /\ rseen[r] \in {"failed", "partial_failed"}
  IN
  /\ Goto(r, "retry", "idle")
  /\ Unlocked(r)
  /\ itemStatus' = [i \in Items |-> IF i \in reset THEN "pending" ELSE itemStatus[i]]
  /\ status' = IF leads THEN [status EXCEPT ![t] = "confirmed"] ELSE status
  /\ RaceIf(r, leads /\ Stale(r))
  /\ UNCHANGED <<loadedVars, claims, apiFaults>>
  /\ UNCHANGED <<objects, rowLock, staged, brokerVars>>

(***************************************************************************)
(* upload_task.                                                             *)
(***************************************************************************)

\* Load the task and check its status. The items are listed later, in the
\* same snapshot.
UploadRead(r, t) ==
  /\ status[t] = "confirmed"
  /\ Begin(r, t, "claim", UploadItems(t))

\* SET NX of the claim (always granted when the guard is off).
UploadClaim(r) ==
  /\ GuardEnabled => claims[rtask[r]] = Nobody
  /\ Goto(r, "claim", IF ObjectMode THEN "stage" ELSE "publish")
  /\ claims' = IF GuardEnabled THEN [claims EXCEPT ![rtask[r]] = r] ELSE claims
  /\ RaceIf(r, Stale(r) \/ ritems[r] # UploadItems(rtask[r]) \/ Rivalled(r))
  /\ UNCHANGED <<loadedVars, apiFaults>>
  /\ UNCHANGED storeVars

\* 409: another request holds the claim.
UploadBusy(r) ==
  /\ GuardEnabled /\ claims[rtask[r]] # Nobody
  /\ Goto(r, "claim", "idle")
  /\ UNCHANGED <<requestVars, claims, apiFaults>>
  /\ UNCHANGED storeVars

\* stage_task_archive under the key of the task, then the event is committed.
UploadStage(r) ==
  /\ Goto(r, "stage", "publish")
  /\ staged' = staged \cup {rtask[r]}
  /\ UNCHANGED <<requestVars, claims, apiFaults>>
  /\ UNCHANGED <<dbVars, brokerVars>>

\* The staging call raises, stored or not: there is no reference to delete.
\* Or the commit of its event raises, and the reference is known.
UploadStageFails(r) ==
  /\ \/ /\ Goto(r, "stage", "release")
        /\ staged' \in {staged, staged \cup {rtask[r]}}
     \/ /\ Goto(r, "stage", "compensate")
        /\ staged' = staged \cup {rtask[r]}
  /\ UNCHANGED <<requestVars, claims, apiFaults>>
  /\ UNCHANGED <<dbVars, brokerVars>>

\* build_delivery_task_message of the items loaded, appended to the topic.
AppendTask(r) ==
  /\ Len(taskLog) < MaxTaskMsgs
  /\ taskLog' = Append(taskLog, [task |-> rtask[r], items |-> ritems[r],
                                 skip |-> {}, valid |-> TRUE])
  /\ UNCHANGED <<requestVars, claims>>
  /\ UNCHANGED <<dbVars, taskOffset, resultLog, resultOffset, sink, staged>>

\* Mutant of UploadPublish: the staged archive is cleaned up in any case.
UploadPublishCleansUp(r) ==
  /\ Goto(r, "publish", "compensate")
  /\ AppendTask(r)
  /\ UNCHANGED apiFaults

UploadPublish(r) ==
  /\ Goto(r, "publish", "mark")
  /\ AppendTask(r)
  /\ UNCHANGED apiFaults

AfterFailure == IF ObjectMode THEN "compensate" ELSE "release"

\* Mutant of UploadPublishFails: the exception is swallowed.
UploadPublishSwallowed(r) ==
  /\ Goto(r, "publish", "mark")
  /\ UNCHANGED <<requestVars, claims, apiFaults>>
  /\ UNCHANGED storeVars

\* publish raises and the broker has not stored the message,
UploadPublishFails(r) ==
  /\ Goto(r, "publish", AfterFailure)
  /\ UNCHANGED <<requestVars, claims, apiFaults>>
  /\ UNCHANGED storeVars

\* or it has, and only the reply was lost.
UploadPublishLost(r) ==
  /\ apiFaults < MaxApiFaults
  /\ apiFaults' = apiFaults + 1
  /\ Goto(r, "publish", AfterFailure)
  /\ AppendTask(r)

\* The staged archive is deleted, unless that call fails in its turn.
UploadCompensate(r) ==
  /\ Goto(r, "compensate", "release")
  /\ staged' \in {staged, staged \ {rtask[r]}}
  /\ UNCHANGED <<requestVars, claims, apiFaults>>
  /\ UNCHANGED <<dbVars, brokerVars>>

\* Mutant of UploadMark: the status of the in-process runner is written.
UploadMarkUploading(r) ==
  /\ Goto(r, "mark", "release")
  /\ Unlocked(r)
  /\ status' = [status EXCEPT ![rtask[r]] = "uploading"]
  /\ UNCHANGED <<requestVars, claims, apiFaults>>
  /\ UNCHANGED <<itemStatus, objects, rowLock, staged, brokerVars>>

\* Mutant of UploadMark: the transaction is not committed.
UploadMarkNoCommit(r) ==
  /\ Goto(r, "mark", "release")
  /\ UNCHANGED <<requestVars, claims, apiFaults>>
  /\ UNCHANGED storeVars

\* update_status(queued) and commit, whatever the status is by now.
UploadMark(r) ==
  /\ Goto(r, "mark", "release")
  /\ Unlocked(r)
  /\ status' = [status EXCEPT ![rtask[r]] = "queued"]
  /\ UNCHANGED <<requestVars, claims, apiFaults>>
  /\ UNCHANGED <<itemStatus, objects, rowLock, staged, brokerVars>>

\* The database refuses it: the message stays published.
UploadMarkFails(r) ==
  /\ apiFaults < MaxApiFaults
  /\ apiFaults' = apiFaults + 1
  /\ Goto(r, "mark", "release")
  /\ UNCHANGED <<requestVars, claims>>
  /\ UNCHANGED storeVars

\* Mutant of UploadRelease: DEL of the key, whoever holds it by now.
UploadReleaseAnyToken(r) ==
  /\ Goto(r, "release", "idle")
  /\ claims' = [claims EXCEPT ![rtask[r]] = Nobody]
  /\ UNCHANGED <<requestVars, apiFaults>>
  /\ UNCHANGED storeVars

\* finally: the release script deletes the claim if the token is still ours.
UploadRelease(r) ==
  /\ Goto(r, "release", "idle")
  /\ claims' = IF claims[rtask[r]] = r THEN [claims EXCEPT ![rtask[r]] = Nobody] ELSE claims
  /\ UNCHANGED <<requestVars, apiFaults>>
  /\ UNCHANGED storeVars

(***************************************************************************)
(* Faults around the handlers.                                              *)
(***************************************************************************)

\* The process dies in the middle of the request: "finally" does not run.
ApiCrash(r) ==
  /\ rphase[r] # "idle"
  /\ apiFaults < MaxApiFaults
  /\ apiFaults' = apiFaults + 1
  /\ rphase' = [rphase EXCEPT ![r] = "idle"]
  /\ UNCHANGED <<requestVars, claims>>
  /\ UNCHANGED storeVars

\* The TTL of a claim runs out: after its holder has died or, if requests
\* may be slow, under a holder that is still at work.
ClaimExpires(t) ==
  /\ claims[t] # Nobody
  /\ ShortTTL \/ rphase[claims[t]] = "idle" \/ rtask[claims[t]] # t
  /\ claims' = [claims EXCEPT ![t] = Nobody]
  /\ UNCHANGED <<rphase, requestVars, apiFaults>>
  /\ UNCHANGED storeVars

\* A client makes a call; a handler goes on.
UCall(r) == \E t \in Tasks :
  ClassifyRead(r, t) \/ ConfirmRead(r, t) \/ RetryRead(r, t) \/ UploadRead(r, t)

UStep(r) ==
  \/ ClassifyCommit(r) \/ ClassifyConflict(r) \/ ConfirmCommit(r) \/ RetryCommit(r)
  \/ UploadClaim(r) \/ UploadBusy(r) \/ UploadStage(r) \/ UploadStageFails(r)
  \/ UploadPublish(r) \/ UploadPublishFails(r) \/ UploadCompensate(r)
  \/ UploadMark(r) \/ UploadRelease(r)

UFault ==
  \/ \E r \in Reqs : UploadPublishLost(r) \/ UploadMarkFails(r) \/ ApiCrash(r)
  \/ \E t \in Tasks : ClaimExpires(t)

(***************************************************************************)
(* The API on its own: messages are answered in order, each with any        *)
(* outcome for its items; without its archive every item fails.             *)
(***************************************************************************)
EnvAnswer ==
  /\ taskOffset < Len(taskLog)
  /\ LET m == taskLog[taskOffset + 1] IN
     \E up \in SUBSET m.items :
       /\ ObjectMode /\ m.task \notin staged => up = {}
       /\ sink' = sink \cup up
       /\ objects' = objects \cup (up \cap Mapped)
       /\ itemStatus' = [i \in Items |-> IF i \in up THEN "uploaded"
                                         ELSE IF i \in m.items THEN "failed"
                                         ELSE itemStatus[i]]
       /\ status' = [status EXCEPT ![m.task] =
                       IF up = m.items THEN "uploaded" ELSE "partial_failed"]
  /\ taskOffset' = taskOffset + 1
  /\ UNCHANGED uploadVars
  /\ UNCHANGED <<rowLock, taskLog, resultLog, resultOffset, staged>>

uploadSpecVars == <<storeVars, uploadVars>>

UploadInit == StoreInit /\ UInit
UploadNext == (\E r \in Reqs : UCall(r) \/ UStep(r)) \/ UFault \/ EnvAnswer

UploadSpec == UploadInit /\ [][UploadNext]_uploadSpecVars
-----------------------------------------------------------------------------
(***************************************************************************)
(* Properties                                                              *)
(***************************************************************************)

\* Types of the API's state and of what it shares.
UploadTypeOK == StoreTypeOK /\ UTypeOK

\* The message is still to be processed.
InFlight(k) == k \in taskOffset + 1 .. Len(taskLog) /\ ~Answered(k)

\* What a step publishes does not travel already, unless requests have raced
\* for its task.
PublishesAfresh ==
  \A k \in DOMAIN taskLog : \A n \in Len(taskLog) + 1 .. Len(taskLog') :
    InFlight(k) /\ taskLog[k].task \notin raced
      => taskLog[k].items \cap taskLog'[n].items = {}

\* Nothing of a task with a blocking classification error is ever published,
\* whatever calls interleave.
OnlyCleanTasksPublished ==
  \A k \in DOMAIN taskLog : ItemsOf(taskLog[k].task) \cap Blocking = {}

\* A task says "queued" only once a message of it is in the topic: after a
\* crash the status never promises a delivery that was not requested.
QueuedMeansPublished ==
  \A t \in Tasks : status[t] = "queued" =>
    \E k \in DOMAIN taskLog : taskLog[k].task = t

\* A claim goes only when it expires or when its holder releases it: a slow
\* request whose claim has expired and passed to another never takes that one
\* away. And a handler that comes to its end, through any failure, leaves no
\* claim behind, so that the task can be uploaded again at once.
ClaimsMove ==
  \A r \in Reqs, t \in Tasks :
    /\ claims[t] = r /\ claims'[t] # r =>
         claims'[t] = Nobody /\ (UNCHANGED rphase \/ rphase[r] = "release")
    /\ /\ rtask[r] = t /\ rphase[r] \in Sending \cup {"release"}
       /\ rphase'[r] = "idle" /\ apiFaults' = apiFaults
       => claims'[t] # r

ClaimsFollowUploads == [][ClaimsMove]_uploadSpecVars
=============================================================================
