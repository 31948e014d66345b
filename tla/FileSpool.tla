------------------------------ MODULE FileSpool ------------------------------
(***************************************************************************)
(* The delivery path on its default transport: a directory of task files,   *)
(* which nothing is ever removed from, and a directory of result files, one *)
(* per task.  A worker that is started again and again works off all task   *)
(* files each time, under the rate limiter, and the control plane applies   *)
(* all result files each time it looks.                                     *)
(*                                                                         *)
(* Here a request takes one step up to the publication and one from there   *)
(* on, one request of a task at a time, and the results are read and        *)
(* applied in one step: UploadApi and ResultConsumer are about what comes   *)
(* in between.                                                              *)
(***************************************************************************)
EXTENDS RateLimiter, FiniteSets, SequencesExt

CONSTANTS
  NumTasks,        \* tasks, numbered in the order of their file names
  Items,
  TaskOf,          \* TaskOf[i]: the task of item i
  Mapped,          \* items whose target has a workspace of the owner
  MaxPublications, \* bound on the publications of all tasks
  MaxSpoolFaults   \* bound on exits and failed calls

Tasks == 1 .. NumTasks

ASSUME SpoolAssumption ==
  /\ NumTasks \in Nat \ {0}
  /\ TaskOf \in [Items -> Tasks]
  /\ Mapped \subseteq Items
  /\ MaxPublications \in Nat
  /\ MaxSpoolFaults \in Nat

VARIABLES
  status,     \* task.status
  itemStatus, \* task_item.upload_status
  objects,    \* items with a workspace_object
  sink,       \* items whose bytes are in the bucket
  marking,    \* tasks with an upload request that has still to write "queued"
  inbox,      \* per task: the task file; round 0 if there is none
  outbox,     \* per task: the result file; round 0 if none has been written
  work,       \* the messages that the worker has still to process
  outcome,    \* pipeline state of the items of the first of them
  faults

rowVars    == <<status, itemStatus, objects>>
workerVars == <<work, outcome>>
spoolVars  == <<rowVars, sink, marking, inbox, outbox, workerVars, faults>>
vars       == <<spoolVars, limiterVars>>

Terminal   == {"uploaded", "partial_failed"}
ItemsOf(t) == {i \in Items : TaskOf[i] = t}
NoResult   == [round |-> 0, whole |-> TRUE, uploaded |-> {}, failed |-> {}]

Init ==
  /\ status = [t \in Tasks |-> "confirmed"]
  /\ itemStatus = [i \in Items |-> "pending"]
  /\ objects = {} /\ sink = {}
  /\ marking = {}
  /\ inbox = [t \in Tasks |-> [round |-> 0, items |-> {}]]
  /\ outbox = [t \in Tasks |-> NoResult]
  /\ work = <<>>
  /\ outcome = [i \in Items |-> "idle"]
  /\ faults = 0
  /\ LimiterInit

Fault == faults < MaxSpoolFaults /\ faults' = faults + 1

(***************************************************************************)
(* The endpoints.                                                          *)
(***************************************************************************)
\* The pending items are read and written to a file under another name, which
\* is then renamed: nobody sees half a task file.
Publish(t) ==
  /\ status[t] = "confirmed"
  /\ t \notin marking
  /\ FoldSeq(LAMBDA file, sum : file.round + sum, 0, inbox) < MaxPublications
  /\ inbox' = [inbox EXCEPT ![t] =
       [round |-> @.round + 1, items |-> {i \in ItemsOf(t) : itemStatus[i] = "pending"}]]
  /\ marking' = marking \cup {t}
  /\ UNCHANGED <<rowVars, sink, outbox, workerVars, faults, limiterVars>>

\* "queued", whatever the status is by now.
MarkQueued(t) ==
  /\ t \in marking
  /\ status' = [status EXCEPT ![t] = "queued"]
  /\ marking' = marking \ {t}
  /\ UNCHANGED <<itemStatus, objects, sink, inbox, outbox, workerVars, faults,
                 limiterVars>>

\* The process exits in between, or the commit fails.
MarkFails(t) ==
  /\ t \in marking
  /\ Fault
  /\ marking' = marking \ {t}
  /\ UNCHANGED <<rowVars, sink, inbox, outbox, workerVars, limiterVars>>

Retry(t) ==
  /\ \E i \in ItemsOf(t) : itemStatus[i] = "failed"
  /\ itemStatus' = [i \in Items |-> IF i \in ItemsOf(t) /\ itemStatus[i] = "failed"
                                    THEN "pending" ELSE itemStatus[i]]
  /\ status' = [status EXCEPT ![t] = IF @ = "partial_failed" THEN "confirmed" ELSE @]
  /\ UNCHANGED <<objects, sink, marking, inbox, outbox, workerVars, faults, limiterVars>>

(***************************************************************************)
(* The worker.                                                             *)
(***************************************************************************)
Message(t) == [task |-> t, round |-> inbox[t].round, items |-> inbox[t].items]

Waiting(messages) ==
  [i \in Items |-> IF messages # <<>> /\ i \in Head(messages).items THEN "waiting" ELSE "idle"]

\* Mutant of TaskFiles: a task that has a result is not read again.
TaskFilesUnanswered ==
  SelectSeq([t \in Tasks |-> Message(t)],
            LAMBDA m : m.round > 0 /\ outbox[m.task].round = 0)

\* Consume: all task files, also the ones that have been answered.
TaskFiles == SelectSeq([t \in Tasks |-> Message(t)], LAMBDA m : m.round > 0)

WConsume ==
  /\ work = <<>>
  /\ TaskFiles # <<>>
  /\ work' = TaskFiles
  /\ outcome' = Waiting(TaskFiles)
  /\ UNCHANGED <<rowVars, sink, marking, inbox, outbox, faults, limiterVars>>

Ends(i, verdict) ==
  /\ outcome[i] = "waiting"
  /\ outcome' = [outcome EXCEPT ![i] = verdict]
  /\ UNCHANGED <<rowVars, marking, inbox, outbox, work>>

WUpload(i) ==
  /\ Allow
  /\ sink' = sink \cup {i}
  /\ Ends(i, "uploaded")
  /\ UNCHANGED faults

WLimited(i) ==
  /\ Refuse
  /\ Ends(i, "failed")
  /\ UNCHANGED <<sink, faults>>

\* Mutant of WItemFails: an error of the PUT is dropped.
WItemFailsDropped(i) ==
  /\ Fault
  /\ \/ Ends(i, "failed") /\ UNCHANGED <<sink, limiterVars>>
     \/ Ends(i, "failed") /\ AllowFails /\ UNCHANGED sink
     \/ Ends(i, "uploaded") /\ Allow /\ sink' \in {sink, sink \cup {i}}

\* The source cannot be read; or Redis does not answer; or the PUT reports an
\* error, after the bytes have been stored or before.
WItemFails(i) ==
  /\ Fault
  /\ Ends(i, "failed")
  /\ \/ UNCHANGED <<sink, limiterVars>>
     \/ AllowFails /\ UNCHANGED sink
     \/ Allow /\ sink' \in {sink, sink \cup {i}}

\* Produce: os.WriteFile truncates the result file,
WTruncate ==
  /\ work # <<>>
  /\ outbox[Head(work).task].whole
  /\ \A i \in Items : outcome[i] # "waiting"
  /\ outbox' = [outbox EXCEPT ![Head(work).task].whole = FALSE]
  /\ UNCHANGED <<rowVars, sink, marking, inbox, workerVars, faults, limiterVars>>

\* and writes it. Ack does nothing.
WWrite ==
  /\ work # <<>>
  /\ ~outbox[Head(work).task].whole
  /\ \A i \in Items : outcome[i] # "waiting"
  /\ outbox' = [outbox EXCEPT ![Head(work).task] =
       [round |-> Head(work).round, whole |-> TRUE,
        uploaded |-> {i \in Items : outcome[i] = "uploaded"},
        failed |-> {i \in Items : outcome[i] = "failed"}]]
  /\ work' = Tail(work)
  /\ outcome' = Waiting(Tail(work))
  /\ UNCHANGED <<rowVars, sink, marking, inbox, faults, limiterVars>>

WCrash ==
  /\ work # <<>>
  /\ Fault
  /\ work' = <<>>
  /\ outcome' = Waiting(<<>>)
  /\ UNCHANGED <<rowVars, sink, marking, inbox, outbox, limiterVars>>

WStep == WConsume \/ WTruncate \/ WWrite \/ \E i \in Items : WUpload(i) \/ WLimited(i)

(***************************************************************************)
(* The results.                                                            *)
(***************************************************************************)
Uploaded == UNION {outbox[t].uploaded : t \in Tasks}
Failed   == UNION {outbox[t].failed : t \in Tasks}
Verdict(t) == IF outbox[t].failed = {} THEN "uploaded" ELSE "partial_failed"

\* Every result file is new or not, and the caller commits.  A file
\* that is cut off raises, and nothing is applied.
Consume ==
  /\ \A t \in Tasks : outbox[t].whole
  /\ itemStatus' = [i \in Items |-> CASE i \in Uploaded -> "uploaded"
                                      [] i \in Failed -> "failed"
                                      [] OTHER -> itemStatus[i]]
  /\ objects' = objects \cup (Uploaded \cap Mapped)
  /\ status' = [t \in Tasks |-> IF outbox[t].round = 0 THEN status[t] ELSE Verdict(t)]
  /\ UNCHANGED <<sink, marking, inbox, outbox, workerVars, faults, limiterVars>>

TimePasses == Tick /\ UNCHANGED spoolVars

Next ==
  \/ \E t \in Tasks : \/ Publish(t) \/ MarkQueued(t) \/ MarkFails(t) \/ Retry(t)
  \/ WStep \/ WCrash \/ \E i \in Items : WItemFails(i)
  \/ Consume
  \/ TimePasses

\* The worker is run again and again, requests go on, and the results are
\* looked at again and again.  A result file is cut off for the time of one
\* write only, so that the looks do not for ever fall into that time: SF.
Spec ==
  /\ Init /\ [][Next]_vars
  /\ WF_vars(WStep)
  /\ \A t \in Tasks : WF_vars(MarkQueued(t))
  /\ SF_vars(Consume)
-----------------------------------------------------------------------------
(***************************************************************************)
(* Properties.                                                             *)
(***************************************************************************)
\* The rows of a task say what its result file says.
Reflected(t) ==
  /\ outbox[t].whole
  /\ status[t] = Verdict(t)
  /\ \A i \in outbox[t].uploaded : itemStatus[i] = "uploaded"
  /\ \A i \in outbox[t].failed : itemStatus[i] = "failed"

\* Every publication comes to be answered, by a result of it or of a later one
\* that the rows reflect: although no file is removed and every start works
\* off all of them, and although a worker may leave a result file cut off.  And
\* no task stays in "queued", also if its result has been applied before the
\* request wrote that: the same result is applied once more.
PublishedIsAnswered ==
  \A t \in Tasks :
    /\ \A n \in 1 .. MaxPublications :
         inbox[t].round = n ~> outbox[t].round >= n /\ Reflected(t)
    /\ status[t] = "queued" ~> status[t] \in Terminal

\* The results of older rounds that are applied again, and the uploads that
\* are done again, never let a row say "uploaded" without bytes, never
\* withdraw an object, and list what has a workspace (DeliveryLedger).
Ledger == INSTANCE DeliveryLedger
            WITH delivered <- sink, recorded <- objects,
                 shown <- {i \in Items : itemStatus[i] = "uploaded"}

SpoolImplementsLedger == Ledger!LedgerSpec

\* Fewer than twice the limit are admitted within the length of a window,
\* wherever it begins, since the request that starts a window is not in the
\* same length as the end of the one before; and uploads are refused only if
\* as many as the limit have been admitted within that time, or the replies of
\* some were lost (the fixed window of limiter.go).
LimiterWindow ==
  LET recent == InLast(admitted)[Window] IN
  /\ recent <= 2 * Limit - 1
  /\ count >= Limit => recent + unheard >= Limit
=============================================================================
