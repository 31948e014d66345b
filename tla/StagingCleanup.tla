--------------------------- MODULE StagingCleanup ---------------------------
(***************************************************************************)
(* The clean-up job of the staging bucket, next to the endpoints that fill  *)
(* it.  The job lists the staging events past retention of tasks with an    *)
(* outcome, deletes the archives, notes each deletion as an event, and      *)
(* commits at the end.  All uploads of a task stage under the same key.     *)
(***************************************************************************)
EXTENDS UploadApi

CONSTANTS
  Jobs,        \* processes that run the job, each again and again
  MaxJobFaults \* bound on refused deletions and aborted runs

ASSUME CleanupAssumption == MaxJobFaults \in Nat

VARIABLES
  fresh,     \* tasks with a task_staged_source event inside retention
  expired,   \* tasks with one past retention
  listed,    \* tasks whose key a task_staged_source_deleted event names
  running,   \* jobs between their scan and their commit
  found,     \* per job, the candidates still to be deleted
  noted,     \* per job, the deletions whose events are not committed
  taken,     \* read by properties only: tasks that have lost their archive
  jobFaults  \* faults so far

cleanupVars == <<fresh, expired, listed, running, found, noted, taken, jobFaults>>
stagingVars == <<storeVars, uploadVars, cleanupVars>>
jobVars == <<running, found, noted, jobFaults>>

CleanupInit ==
  /\ UploadInit
  /\ fresh = {} /\ expired = {} /\ listed = {} /\ taken = {}
  /\ running = {}
  /\ found = [j \in Jobs |-> {}]
  /\ noted = [j \in Jobs |-> {}]
  /\ jobFaults = 0

\* Tasks whose request goes from phase p to phase q in this step.
Moved(p, q) == {rtask[r] : r \in {s \in Reqs : rphase[s] = p /\ rphase'[s] = q}}

(***************************************************************************)
(* The endpoints, with the events that upload_task commits: one for the     *)
(* archive it has staged (certainly when it goes on to publish, perhaps     *)
(* when that commit has raised), one for the archive that compensation has  *)
(* deleted (unless that call or its commit raises).                         *)
(***************************************************************************)
ApiStep ==
  /\ UploadNext
  /\ \E unsure \in SUBSET Moved("stage", "compensate") :
       fresh' = fresh \cup Moved("stage", "publish") \cup unsure
  /\ \E sure \in SUBSET (Moved("compensate", "release") \ staged') :
       listed' = listed \cup sure
  /\ UNCHANGED <<expired, jobVars>>

\* The events of task t pass the retention cutoff.
Expire(t) ==
  /\ t \in fresh
  /\ fresh' = fresh \ {t}
  /\ expired' = expired \cup {t}
  /\ UNCHANGED <<storeVars, uploadVars, listed, jobVars>>

(***************************************************************************)
(* cleanup_staging_sources.                                                 *)
(***************************************************************************)

\* Mutant of Candidates: the status of the task is not looked at.
CandidatesAny == expired \ listed

\* Mutant of Candidates: the cutoff is compared the wrong way round.
CandidatesFresh == {t \in fresh : status[t] \in Terminal} \ listed

\* _list_cleanup_candidates, less the keys of _list_deleted_source_keys: two
\* queries in one snapshot.
Candidates == {t \in expired : status[t] \in Terminal} \ listed

JobScan(j) ==
  /\ j \notin running
  /\ running' = running \cup {j}
  /\ found' = [found EXCEPT ![j] = Candidates]
  /\ UNCHANGED <<storeVars, uploadVars, fresh, expired, listed, noted, jobFaults>>

\* delete_object, which succeeds for a missing key too; the event is flushed.
JobDelete(j, t) ==
  /\ t \in found[j]
  /\ found' = [found EXCEPT ![j] = @ \ {t}]
  /\ noted' = [noted EXCEPT ![j] = @ \cup {t}]
  /\ staged' = staged \ {t}
  /\ UNCHANGED <<dbVars, brokerVars, uploadVars, fresh, expired, listed, running, jobFaults>>

\* Mutant of JobDeleteFails: the refused deletion is noted like the others.
JobDeleteFailsNoted(j, t) ==
  /\ t \in found[j]
  /\ jobFaults < MaxJobFaults
  /\ jobFaults' = jobFaults + 1
  /\ found' = [found EXCEPT ![j] = @ \ {t}]
  /\ noted' = [noted EXCEPT ![j] = @ \cup {t}]
  /\ UNCHANGED <<storeVars, uploadVars, fresh, expired, listed, running>>

\* The bucket refuses the deletion: the job goes on with the next candidate.
JobDeleteFails(j, t) ==
  /\ t \in found[j]
  /\ jobFaults < MaxJobFaults
  /\ jobFaults' = jobFaults + 1
  /\ found' = [found EXCEPT ![j] = @ \ {t}]
  /\ UNCHANGED <<storeVars, uploadVars, fresh, expired, listed, noted, running>>

\* The caller commits the events of the whole run.
JobCommit(j) ==
  /\ j \in running /\ found[j] = {}
  /\ running' = running \ {j}
  /\ listed' = listed \cup noted[j]
  /\ noted' = [noted EXCEPT ![j] = {}]
  /\ UNCHANGED <<storeVars, uploadVars, fresh, expired, found, jobFaults>>

\* Any other error, or the end of the process: the events are rolled back,
\* the deletions are not.
JobAbort(j) ==
  /\ j \in running
  /\ jobFaults < MaxJobFaults
  /\ jobFaults' = jobFaults + 1
  /\ running' = running \ {j}
  /\ found' = [found EXCEPT ![j] = {}]
  /\ noted' = [noted EXCEPT ![j] = {}]
  /\ UNCHANGED <<storeVars, uploadVars, fresh, expired, listed>>

JobStep(j) == JobScan(j) \/ (\E t \in found[j] : JobDelete(j, t)) \/ JobCommit(j)

JobFault(j) == JobAbort(j) \/ \E t \in found[j] : JobDeleteFails(j, t)

Track == taken' = taken \cup (staged \ staged')

CleanupNext ==
  /\ \/ ApiStep
     \/ \E t \in Tasks : Expire(t)
     \/ \E j \in Jobs : JobStep(j) \/ JobFault(j)
  /\ Track

\* The operator runs the job again and again, and time passes.
CleanupSpec ==
  /\ CleanupInit /\ [][CleanupNext]_stagingVars
  /\ \A j \in Jobs : WF_stagingVars(JobStep(j) /\ Track)
  /\ \A t \in Tasks : WF_stagingVars(Expire(t) /\ Track)
-----------------------------------------------------------------------------
(***************************************************************************)
(* Properties                                                              *)
(***************************************************************************)

\* A scan picks no task with items still to be delivered by a message in the
\* topic: what the worker needs can only be taken from a message published
\* after the scan. Excepted are tasks that requests have raced for (a second
\* upload decided on a stale "confirmed" is still in flight when the first has
\* its outcome), and the time after a request has died or lost a reply.
ScanSparesTasksInFlight ==
  [][\A j \in Jobs : \A t \in (found'[j] \ found[j]) \ raced : \A k \in DOMAIN taskLog :
       apiFaults = 0 /\ InFlight(k) /\ taskLog[k].items # {}
         => taskLog[k].task # t]_stagingVars

\* A key is listed as deleted, so that no scan picks it again, only if its
\* archive has really been deleted, through refused deletions, aborted runs
\* and compensation.
ListedMeansDeleted == listed \subseteq taken

\* An archive whose event was committed does not outlive its task: it is
\* deleted once the task has an outcome, unless the task is retried or its
\* key is listed already.
OldArchivesDeleted ==
  \A t \in Tasks :
    (t \in staged \cap (fresh \cup expired) /\ status[t] \in Terminal)
      ~> (t \notin staged \/ status[t] \notin Terminal \/ t \in listed)
=============================================================================
