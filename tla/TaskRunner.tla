----------------------------- MODULE TaskRunner -----------------------------
(***************************************************************************)
(* The in-process delivery back end (delivery_backend = python) for one     *)
(* task: the upload and retry endpoints, the background run_task with its   *)
(* nested semaphores and gathered groups, and the progress bus with the     *)
(* streams of browsers.  Everything runs in one process and interleaves at  *)
(* awaits; each database write of a run is a short transaction of its own.  *)
(* Tasks share nothing but the process, so one task is modelled.            *)
(***************************************************************************)
EXTENDS Naturals, FiniteSets

CONSTANTS
  Items,          \* task_item ids of the task
  GroupOf,        \* target_name_matched of an item
  Runs,           \* background tasks of run_task
  Reqs,           \* request slots
  Subs,           \* progress streams
  Slots,          \* the smaller of the two semaphores of a run
  GuardEnabled,   \* redis_idempotency_enabled
  ShortTTL,       \* the claim may expire before the run it protects has begun
  RedisBus,       \* progress_backend = redis
  MaxRunFaults    \* bound on refused transactions, Redis errors and exits

ASSUME RunnerAssumption ==
  /\ Runs # {}
  /\ Slots \in Nat \ {0}
  /\ GuardEnabled \in BOOLEAN /\ ShortTTL \in BOOLEAN /\ RedisBus \in BOOLEAN
  /\ MaxRunFaults \in Nat

VARIABLES
  tstatus,    \* task.status
  row,        \* task_item.upload_status; "none" where the task has no such item
  stored,     \* items whose bytes are in the bucket
  rpc,        \* where each run is
  ipc,        \* where each run is with each item
  qpc,        \* where each request is
  qseen,      \* task.status as a retry request loaded it
  claim,      \* the Redis key of the upload claim exists
  sub,        \* where each stream gets its events from
  overlap,    \* history: a retry has reset items under a run, or on a stale status
  dbFaults,   \* database transactions refused so far
  busFaults,  \* Redis errors of the progress bus so far
  runCrashes  \* exits of the process so far

rowVars  == <<tstatus, row>>
runVars  == <<rpc, ipc>>
reqVars  == <<qpc, qseen, claim>>
histVars == <<overlap, runCrashes>>
runnerVars == <<rowVars, stored, runVars, reqVars, sub, histVars, dbFaults, busFaults>>

NoItems == [i \in Items |-> "none"]

\* A confirmed task; its archive may have held no uploadable entry at all.
RunnerInit ==
  /\ tstatus = "confirmed"
  /\ row \in {[i \in Items |-> IF i \in S THEN "pending" ELSE "none"] : S \in SUBSET Items}
  /\ stored = {}
  /\ rpc = [r \in Runs |-> "off"]
  /\ ipc = [r \in Runs |-> NoItems]
  /\ qpc = [q \in Reqs |-> "idle"]
  /\ qseen = [q \in Reqs |-> "confirmed"]
  /\ claim = FALSE
  /\ sub = [s \in Subs |-> "off"]
  /\ overlap = FALSE
  /\ dbFaults = 0 /\ busFaults = 0 /\ runCrashes = 0

AtWork(r) == {i \in Items : ipc[r][i] \in {"waiting", "sending", "sent", "failing"}}
Idle(r) == rpc[r] = "off" /\ AtWork(r) = {}

RunGoto(r, p, q) == rpc[r] = p /\ rpc' = [rpc EXCEPT ![r] = q]
ReqGoto(q, p, n) == qpc[q] = p /\ qpc' = [qpc EXCEPT ![q] = n]
ItemGoto(r, i, p, q) == ipc[r][i] = p /\ ipc' = [ipc EXCEPT ![r][i] = q]
MayFail == dbFaults + busFaults + runCrashes < MaxRunFaults
DbFault == MayFail /\ dbFaults' = dbFaults + 1
BusFault == MayFail /\ busFaults' = busFaults + 1

(***************************************************************************)
(* The endpoints: upload_task on the python path, retry_task.               *)
(***************************************************************************)
RUploadRead(q) ==
  /\ tstatus = "confirmed"
  /\ ReqGoto(q, "idle", "claim")
  /\ UNCHANGED <<rowVars, stored, runVars, qseen, claim, sub, histVars, dbFaults, busFaults>>

\* Mutant of RUploadClaim: the answer of Redis is not looked at.
RUploadClaimAlways(q) ==
  /\ ReqGoto(q, "claim", "schedule")
  /\ claim' = GuardEnabled
  /\ UNCHANGED <<rowVars, stored, runVars, qseen, sub, histVars, dbFaults, busFaults>>

\* The claim is taken, or the request is answered with 409.
RUploadClaim(q) ==
  /\ ReqGoto(q, "claim", IF claim THEN "idle" ELSE "schedule")
  /\ claim' = GuardEnabled
  /\ UNCHANGED <<rowVars, stored, runVars, qseen, sub, histVars, dbFaults, busFaults>>

\* The event is committed and run_task is left to the background. The claim
\* is not given back: with the guard on it lives until its TTL.
RUploadSchedule(q) ==
  /\ \E r \in Runs : Idle(r)
  /\ ReqGoto(q, "schedule", "idle")
  /\ rpc' = [rpc EXCEPT ![CHOOSE r \in Runs : Idle(r)] = "scheduled"]
  /\ UNCHANGED <<rowVars, stored, ipc, qseen, claim, sub, histVars, dbFaults, busFaults>>

RUploadDbError(q) ==
  /\ DbFault
  /\ ReqGoto(q, "schedule", "idle")
  /\ UNCHANGED <<rowVars, stored, runVars, qseen, claim, sub, histVars, busFaults>>

RRetryRead(q) ==
  /\ ReqGoto(q, "idle", "retry")
  /\ qseen' = [qseen EXCEPT ![q] = tstatus]
  /\ UNCHANGED <<rowVars, stored, runVars, claim, sub, histVars, dbFaults, busFaults>>

\* Mutant of RRetryCommit: the task is not confirmed again.
RRetryCommitItemsOnly(q) ==
  /\ ReqGoto(q, "retry", "idle")
  /\ row' = [i \in Items |-> IF row[i] = "failed" THEN "pending" ELSE row[i]]
  /\ UNCHANGED <<tstatus, stored, runVars, qseen, claim, sub, histVars, dbFaults, busFaults>>

\* One UPDATE resets what is failed by now; the status loaded decides.
RRetryCommit(q) ==
  LET reset == {i \in Items : row[i] = "failed"}
      over  == qseen[q] \in {"failed", "partial_failed"}
  IN
  /\ ReqGoto(q, "retry", "idle")
  /\ row' = [i \in Items |-> IF i \in reset THEN "pending" ELSE row[i]]
  /\ tstatus' = IF reset # {} /\ over THEN "confirmed" ELSE tstatus
  /\ overlap' = (overlap \/ (reset # {} /\ (~over \/ tstatus # qseen[q])))
  /\ qseen' = [qseen EXCEPT ![q] = "confirmed"]
  /\ UNCHANGED <<stored, runVars, claim, sub, runCrashes, dbFaults, busFaults>>

\* The TTL of the claim runs out; unless it is short, not before a run that
\* it protects has marked the task, nor under a request.
RClaimExpires ==
  /\ claim
  /\ \/ ShortTTL
     \/ /\ \A q \in Reqs : qpc[q] \notin {"claim", "schedule"}
        /\ \A r \in Runs : rpc[r] \notin {"scheduled", "checked"}
  /\ claim' = FALSE
  /\ UNCHANGED <<rowVars, stored, runVars, qpc, qseen, sub, histVars, dbFaults, busFaults>>

(***************************************************************************)
(* _run_task_inner.                                                         *)
(***************************************************************************)

\* Load the task: a status other than "confirmed" raises ValueError.
RunCheck(r) ==
  /\ RunGoto(r, "scheduled", IF tstatus = "confirmed" THEN "checked" ELSE "failing")
  /\ UNCHANGED <<rowVars, stored, ipc, reqVars, sub, histVars, dbFaults, busFaults>>

RunStart(r) ==
  /\ RunGoto(r, "checked", "listing")
  /\ tstatus' = "uploading"
  /\ UNCHANGED <<row, stored, ipc, reqVars, sub, histVars, dbFaults, busFaults>>

\* List the pending items; with none of them the task is done at once.
RunList(r) ==
  LET todo == {i \in Items : row[i] = "pending"} IN
  /\ RunGoto(r, "listing", IF todo = {} THEN "final" ELSE "sending")
  /\ ipc' = [ipc EXCEPT ![r] = [i \in Items |-> IF i \in todo THEN "waiting" ELSE "none"]]
  /\ UNCHANGED <<rowVars, stored, reqVars, sub, histVars, dbFaults, busFaults>>

Raised(r) == {GroupOf[i] : i \in {j \in Items : ipc[r][j] = "raised"}}

\* Mutant of GroupsDone: an item that raised is waited for.
GroupsDoneAllReturn(r) == \A i \in Items : ipc[r][i] \in {"none", "ok", "bad"}

\* gather: a group is over when one of its items raises, the others of the
\* group going on by themselves, or when all of them have returned.
GroupsDone(r) == \A i \in AtWork(r) : GroupOf[i] \in Raised(r)

RunGathered(r) ==
  /\ GroupsDone(r)
  /\ RunGoto(r, "sending", "final")
  /\ UNCHANGED <<rowVars, stored, ipc, reqVars, sub, histVars, dbFaults, busFaults>>

\* Mutant of AllOk: only groups that raised count as failed.
AllOkUnlessRaised(r) == Raised(r) = {}

\* No False among the results: a group that raised counts as one.
AllOk(r) == Raised(r) = {} /\ \A i \in Items : ipc[r][i] # "bad"

RunFinal(r) ==
  /\ RunGoto(r, "final", "closing")
  /\ tstatus' = IF AllOk(r) THEN "uploaded" ELSE "partial_failed"
  /\ UNCHANGED <<row, stored, ipc, reqVars, sub, histVars, dbFaults, busFaults>>

\* A transaction that raises: its commit was refused, or carried out with its
\* reply lost.
StatusOrNot(s) == DbFault /\ tstatus' \in {tstatus, s}
RowOrNot(i, s) == DbFault /\ row' \in {row, [row EXCEPT ![i] = s]}

\* A read or a transaction of the run raises.
RunDbError(r) ==
  /\ \/ /\ RunGoto(r, "scheduled", "failing") \/ RunGoto(r, "listing", "failing")
        /\ StatusOrNot(tstatus)
     \/ RunGoto(r, "checked", "failing") /\ StatusOrNot("uploading")
     \/ /\ RunGoto(r, "final", "failing")
        /\ StatusOrNot(IF AllOk(r) THEN "uploaded" ELSE "partial_failed")
  /\ UNCHANGED <<row, stored, ipc, reqVars, sub, histVars, busFaults>>

\* run_task, except: "failed" is written over any status, or that raises too.
RunFailed(r) ==
  /\ RunGoto(r, "failing", "closing")
  /\ \/ tstatus' = "failed" /\ UNCHANGED dbFaults
     \/ StatusOrNot("failed")
  /\ UNCHANGED <<row, stored, ipc, reqVars, sub, histVars, busFaults>>

(***************************************************************************)
(* _upload_item, one coroutine per item of a run.                           *)
(***************************************************************************)
Busy(r) == {i \in Items : ipc[r][i] \in {"sending", "sent", "failing"}}

\* A slot of both semaphores, then the row is marked.
ItemMark(r, i) ==
  /\ Cardinality(Busy(r)) < Slots
  /\ ItemGoto(r, i, "waiting", "sending")
  /\ row' = [row EXCEPT ![i] = "uploading"]
  /\ UNCHANGED <<tstatus, stored, rpc, reqVars, sub, histVars, dbFaults, busFaults>>

\* upload_file returns: a PUT, or all parts and the completion of them.
ItemSend(r, i) ==
  /\ ItemGoto(r, i, "sending", "sent")
  /\ stored' = stored \cup {i}
  /\ UNCHANGED <<rowVars, rpc, reqVars, sub, histVars, dbFaults, busFaults>>

\* Mutant of ItemSendFails: the error is taken for a success.
ItemSendErrorDropped(r, i) ==
  /\ ItemGoto(r, i, "sending", "sent")
  /\ UNCHANGED <<rowVars, stored, rpc, reqVars, sub, histVars, dbFaults, busFaults>>

\* The file cannot be read or upload_file raises; bytes whose reply was lost
\* are stored all the same.
ItemSendFails(r, i) ==
  /\ ItemGoto(r, i, "sending", "failing")
  /\ stored' \in {stored, stored \cup {i}}
  /\ UNCHANGED <<rowVars, rpc, reqVars, sub, histVars, dbFaults, busFaults>>

ItemUploaded(r, i) ==
  /\ ItemGoto(r, i, "sent", "ok")
  /\ row' = [row EXCEPT ![i] = "uploaded"]
  /\ UNCHANGED <<tstatus, stored, rpc, reqVars, sub, histVars, dbFaults, busFaults>>

ItemFailed(r, i) ==
  /\ ItemGoto(r, i, "failing", "bad")
  /\ row' = [row EXCEPT ![i] = "failed"]
  /\ UNCHANGED <<tstatus, stored, rpc, reqVars, sub, histVars, dbFaults, busFaults>>

\* A transaction of the item raises: inside "try" the item is failed next,
\* outside it the exception leaves the coroutine and its group.
ItemDbError(r, i) ==
  /\ \/ /\ Cardinality(Busy(r)) < Slots
        /\ ItemGoto(r, i, "waiting", "raised") /\ RowOrNot(i, "uploading")
     \/ ItemGoto(r, i, "sent", "failing") /\ RowOrNot(i, "uploaded")
     \/ ItemGoto(r, i, "failing", "raised") /\ RowOrNot(i, "failed")
  /\ UNCHANGED <<tstatus, stored, rpc, reqVars, sub, histVars, busFaults>>

(***************************************************************************)
(* Progress streams. Events before the end of a stream carry no state, so   *)
(* only the end (None in the queue) is modelled.                            *)
(***************************************************************************)
Live(s) == sub[s] \in {"memory", "redis"}

\* Subscribe; a Redis error falls back to the queue in memory.
Subscribe(s) ==
  /\ sub[s] = "off"
  /\ \/ /\ sub' = [sub EXCEPT ![s] = IF RedisBus THEN "redis" ELSE "memory"]
        /\ UNCHANGED busFaults
     \/ RedisBus /\ BusFault /\ sub' = [sub EXCEPT ![s] = "memory"]
  /\ UNCHANGED <<rowVars, stored, runVars, reqVars, histVars, dbFaults>>

\* What close_task reaches: every queue, or those in memory if Redis fails.
Ended(S) == [s \in Subs |-> IF sub[s] \in S THEN "ending" ELSE sub[s]]

\* Mutant of RunClose: only the queues in memory are closed.
RunCloseMemory(r) ==
  /\ RunGoto(r, "closing", "off")
  /\ sub' = Ended({"memory"})
  /\ UNCHANGED <<rowVars, stored, ipc, reqVars, histVars, dbFaults, busFaults>>

\* What is left of a run: the items that have outlived their group.
Leftover(r) == [i \in Items |-> IF i \in AtWork(r) THEN ipc[r][i] ELSE "none"]

\* The outcome is published and the streams of the task are closed.
RunClose(r) ==
  /\ RunGoto(r, "closing", "off")
  /\ \/ sub' = Ended({"memory", "redis"}) /\ UNCHANGED busFaults
     \/ RedisBus /\ BusFault /\ sub' = Ended({"memory"})
  /\ ipc' = [ipc EXCEPT ![r] = Leftover(r)]
  /\ UNCHANGED <<rowVars, stored, reqVars, histVars, dbFaults>>

\* The pump of a Redis subscription fails and ends the stream early.
PumpFails(s) ==
  /\ sub[s] = "redis" /\ BusFault
  /\ sub' = [sub EXCEPT ![s] = "ending"]
  /\ UNCHANGED <<rowVars, stored, runVars, reqVars, histVars, dbFaults>>

\* The stream reads None, or the browser goes away.
StreamEnds(s) ==
  /\ sub[s] # "off"
  /\ sub' = [sub EXCEPT ![s] = "off"]
  /\ UNCHANGED <<rowVars, stored, runVars, reqVars, histVars, dbFaults, busFaults>>

\* The process exits: runs, requests and streams are gone; the claim is not.
ProcessCrash ==
  /\ MayFail
  /\ runCrashes' = runCrashes + 1
  /\ \E landed \in SUBSET {i \in Items : \E r \in Runs : ipc[r][i] = "sending"} :
       stored' = stored \cup landed
  /\ rpc' = [r \in Runs |-> "off"]
  /\ ipc' = [r \in Runs |-> NoItems]
  /\ qpc' = [q \in Reqs |-> "idle"]
  /\ qseen' = [q \in Reqs |-> "confirmed"]
  /\ sub' = [s \in Subs |-> "off"]
  /\ UNCHANGED <<rowVars, claim, overlap, dbFaults, busFaults>>

RunStep(r) ==
  \/ RunCheck(r) \/ RunStart(r) \/ RunList(r) \/ RunGathered(r) \/ RunFinal(r)
  \/ RunDbError(r) \/ RunFailed(r) \/ RunClose(r)
  \/ \E i \in Items : \/ ItemMark(r, i) \/ ItemSend(r, i) \/ ItemSendFails(r, i)
                      \/ ItemUploaded(r, i) \/ ItemFailed(r, i) \/ ItemDbError(r, i)

ReqStep(q) ==
  \/ RUploadRead(q) \/ RUploadClaim(q) \/ RUploadSchedule(q) \/ RUploadDbError(q)
  \/ RRetryRead(q) \/ RRetryCommit(q)

RunnerNext ==
  \/ \E r \in Runs : RunStep(r)
  \/ \E q \in Reqs : ReqStep(q)
  \/ \E s \in Subs : Subscribe(s) \/ PumpFails(s) \/ StreamEnds(s)
  \/ RClaimExpires \/ ProcessCrash

\* The event loop goes on with every run; nobody is obliged to call or listen.
RunnerSpec ==
  /\ RunnerInit /\ [][RunnerNext]_runnerVars
  /\ \A r \in Runs : WF_runnerVars(RunStep(r))
-----------------------------------------------------------------------------
(***************************************************************************)
(* Properties                                                              *)
(***************************************************************************)

\* No transaction was refused and no retry has overlapped a run.
Undisturbed == dbFaults = 0 /\ ~overlap

\* The task reads "uploaded" only when every item of it does, through retries
\* and exits of the process. (A group that raised leaves its other items
\* running after the run has been tallied, so a refused transaction can make
\* the tally of a later run speak for items it does not know.)
TallyMatchesRows ==
  Undisturbed /\ tstatus = "uploaded" => \A i \in Items : row[i] \in {"none", "uploaded"}

NothingAtWork == (\A r \in Runs : Idle(r)) /\ (\A q \in Reqs : qpc[q] = "idle")

\* Neither upload nor retry leads the task anywhere.
DeadEnd ==
  /\ NothingAtWork
  /\ \/ tstatus = "uploading"
     \/ tstatus \in {"partial_failed", "failed"} /\ \A i \in Items : row[i] # "failed"

\* A retry leads back to an upload: a task ends where no endpoint moves it on
\* only after an exit, a refused transaction or a retry during a run.
RetryLeadsBack == DeadEnd => ~Undisturbed \/ runCrashes > 0

\* No item is uploaded by two runs at a time: the claim covers the time from
\* the check of the status to the run's own mark on the task.
OneSenderPerItem ==
  Undisturbed => \A i \in Items :
    Cardinality({r \in Runs : ipc[r][i] \in {"waiting", "sending", "sent"}}) <= 1

\* What an item row promises is kept: the run implements the ledger of
\* deliveries (this back end lists nothing in a workspace).
RunnerLedger == INSTANCE DeliveryLedger
  WITH Mapped <- {}, delivered <- stored, recorded <- {},
       shown <- {i \in Items : row[i] = "uploaded"}

RunnerImplementsLedger == RunnerLedger!LedgerSpec

\* Every run ends, whatever raises in it: no coroutine waits for a semaphore
\* or a group for ever.
RunEnds == \A r \in Runs : (rpc[r] # "off") ~> (rpc[r] = "off")

\* A stream that is open while a run is at work comes to its end, also when
\* the run fails and cannot even store that, unless Redis drops the message.
StreamComesToEnd ==
  \A s \in Subs : (Live(s) /\ \E r \in Runs : rpc[r] # "off")
                    ~> (~Live(s) \/ busFaults > 0)
=============================================================================
