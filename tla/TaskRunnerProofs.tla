--------------------------- MODULE TaskRunnerProofs ---------------------------
(***************************************************************************)
(* Theorems about the in-process runner, for any number of runs, requests,  *)
(* items, slots and faults: rows claim only bytes that are stored; and with *)
(* the claim on and no shorter than the start of a run, no two runs send    *)
(* one item, a tally speaks for the rows, and a retry leads back.           *)
(***************************************************************************)
EXTENDS TaskRunner, FiniteSetTheorems, TLAPS

RunPhases == {"off", "scheduled", "checked", "listing", "sending", "final", "failing", "closing"}
ItemPhases == {"none", "waiting", "sending", "sent", "failing", "ok", "bad", "raised"}
ReqPhases == {"idle", "claim", "schedule", "retry"}
RowValues == {"none", "pending", "uploading", "uploaded", "failed"}
TaskValues == {"confirmed", "uploading", "uploaded", "partial_failed", "failed"}

RunnerTypes ==
  /\ tstatus \in TaskValues
  /\ row \in [Items -> RowValues]
  /\ stored \subseteq Items
  /\ rpc \in [Runs -> RunPhases]
  /\ ipc \in [Runs -> [Items -> ItemPhases]]
  /\ qpc \in [Reqs -> ReqPhases]
  /\ qseen \in [Reqs -> TaskValues]
  /\ claim \in BOOLEAN
  /\ overlap \in BOOLEAN
  /\ dbFaults \in Nat /\ busFaults \in Nat /\ runCrashes \in Nat

(***************************************************************************)
(* The invariant of a runner that nothing has disturbed.                    *)
(***************************************************************************)

\* From the grant of the claim to the mark on the task there is one holder:
\* a request that is to schedule a run, or the run it has scheduled.
ReqHolds(q) == qpc[q] = "schedule"
RunHolds(r) == rpc[r] \in {"scheduled", "checked"}
Held == (\E q \in Reqs : ReqHolds(q)) \/ (\E r \in Runs : RunHolds(r))

OneHolder ==
  /\ \A p, q \in Reqs : ReqHolds(p) /\ ReqHolds(q) => p = q
  /\ \A r, s \in Runs : RunHolds(r) /\ RunHolds(s) => r = s
  /\ \A q \in Reqs, r \in Runs : ~(ReqHolds(q) /\ RunHolds(r))

\* While there is one, the claim exists and the task is confirmed; so it is
\* while a request goes for a claim that does not exist.
ClaimCovers ==
  /\ Held => claim /\ tstatus = "confirmed"
  /\ ~claim /\ (\E q \in Reqs : qpc[q] = "claim") => tstatus = "confirmed"

\* Behind the mark there is one run at work, and the task says so.
Active(r) == rpc[r] \in {"listing", "sending", "final"}

OneActive ==
  /\ \A r, s \in Runs : Active(r) /\ Active(s) => r = s
  /\ \A r \in Runs : Active(r) => tstatus = "uploading"
  /\ tstatus = "uploading" /\ runCrashes = 0 => \E r \in Runs : Active(r)
  /\ \A r \in Runs : AtWork(r) # {} => rpc[r] = "sending"

NothingRaised ==
  /\ tstatus # "failed"
  /\ \A r \in Runs : rpc[r] # "failing"
  /\ \A r \in Runs, i \in Items : ipc[r][i] # "raised"

\* What the row of an item is, by where the run is with it.
RowOf == [none      |-> {"none", "uploaded"}, waiting |-> {"pending"},
          sending   |-> {"uploading"},        sent    |-> {"uploading"},
          failing   |-> {"uploading"},        ok      |-> {"uploaded"},
          bad       |-> {"failed"},           raised  |-> {}]

RowsFollowRun ==
  \A r \in Runs : \A i \in Items :
    /\ rpc[r] = "listing" => row[i] \in {"none", "pending", "uploaded"}
    /\ rpc[r] \in {"sending", "final"} => row[i] \in RowOf[ipc[r][i]]

RowsFollowTask ==
  /\ tstatus = "confirmed" => \A i \in Items : row[i] \in {"none", "pending", "uploaded"}
  /\ tstatus = "uploaded" => \A i \in Items : row[i] \in {"none", "uploaded"}
  /\ tstatus = "partial_failed" =>
       /\ \A i \in Items : row[i] \in {"none", "uploaded", "failed"}
       /\ \E i \in Items : row[i] = "failed"

CalmInv ==
  OneHolder /\ ClaimCovers /\ OneActive /\ NothingRaised /\ RowsFollowRun /\ RowsFollowTask

RunnerInv == RunnerTypes /\ (Undisturbed => CalmInv)

(***************************************************************************)
(* The invariant behind the ledger.                                         *)
(***************************************************************************)
SentIsStored ==
  /\ \A i \in Items : row[i] = "uploaded" => i \in stored
  /\ \A r \in Runs, i \in Items : ipc[r][i] = "sent" => i \in stored

StoredInv == RunnerTypes /\ SentIsStored
(***************************************************************************)
(* Types.                                                                   *)
(***************************************************************************)

\* The initial states are well-typed.
LEMMA InitRunnerTypes == RunnerInit => RunnerTypes
<1> SUFFICES ASSUME RunnerInit PROVE RunnerTypes
  OBVIOUS
<1>1. tstatus \in TaskValues /\ stored \subseteq Items /\ claim \in BOOLEAN /\ overlap \in BOOLEAN
      /\ dbFaults \in Nat /\ busFaults \in Nat /\ runCrashes \in Nat
  BY DEF RunnerInit, TaskValues
<1>2. row \in [Items -> RowValues]
  BY DEF RunnerInit, RowValues
<1>3. rpc \in [Runs -> RunPhases] /\ ipc \in [Runs -> [Items -> ItemPhases]]
  BY DEF RunnerInit, RunPhases, ItemPhases, NoItems
<1>4. qpc \in [Reqs -> ReqPhases] /\ qseen \in [Reqs -> TaskValues]
  BY DEF RunnerInit, ReqPhases, TaskValues
<1>5. QED BY <1>1, <1>2, <1>3, <1>4 DEF RunnerTypes

\* Every step of a run keeps the types,
LEMMA RunKeepsTypes ==
  ASSUME RunnerTypes, NEW r \in Runs, RunStep(r)
  PROVE  RunnerTypes'
<1> USE DEF RunnerTypes, RunGoto, ItemGoto, DbFault, BusFault, RunPhases, ItemPhases,
            TaskValues, RowValues, rowVars, reqVars, histVars
<1>1. CASE RunCheck(r) \/ RunStart(r) \/ RunGathered(r) \/ RunFinal(r)
  BY <1>1 DEF RunCheck, RunStart, RunGathered, RunFinal
<1>2. CASE RunList(r)
  BY <1>2 DEF RunList
<1>3. CASE RunDbError(r) \/ RunFailed(r)
  <2>1. CASE RunDbError(r)
    BY <2>1 DEF RunDbError, StatusOrNot
  <2>2. CASE RunFailed(r)
    BY <2>2, SMTT(30) DEF RunFailed, StatusOrNot
  <2>3. QED BY <1>3, <2>1, <2>2
<1>4. CASE RunClose(r)
  BY <1>4 DEF RunClose, Leftover
<1>5. ASSUME NEW i \in Items,
             ItemMark(r, i) \/ ItemSend(r, i) \/ ItemSendFails(r, i) \/ ItemUploaded(r, i)
             \/ ItemFailed(r, i)
      PROVE  RunnerTypes'
  <2>1. CASE ItemMark(r, i)
    BY <2>1 DEF ItemMark
  <2>2. CASE ItemSend(r, i)
    BY <2>2 DEF ItemSend
  <2>3. CASE ItemSendFails(r, i)
    BY <2>3, SMTT(30) DEF ItemSendFails
  <2>4. CASE ItemUploaded(r, i)
    BY <2>4 DEF ItemUploaded
  <2>5. CASE ItemFailed(r, i)
    BY <2>5 DEF ItemFailed
  <2>6. QED BY <1>5, <2>1, <2>2, <2>3, <2>4, <2>5
<1>6. ASSUME NEW i \in Items, ItemDbError(r, i) PROVE RunnerTypes'
  <2>1. \E p \in {"raised", "failing"} : ipc' = [ipc EXCEPT ![r] = [ipc[r] EXCEPT ![i] = p]]
    BY <1>6 DEF ItemDbError
  <2>2. ipc' \in [Runs -> [Items -> ItemPhases]]
    BY <2>1
  <2>3. /\ dbFaults' \in Nat
        /\ row' = row \/ \E v \in RowValues : row' = [row EXCEPT ![i] = v]
    BY <1>6 DEF ItemDbError, RowOrNot
  <2>4. row' \in [Items -> RowValues]
    BY <2>3
  <2>5. QED BY <1>6, <2>2, <2>3, <2>4 DEF ItemDbError
<1>7. QED BY <1>1, <1>2, <1>3, <1>4, <1>5, <1>6 DEF RunStep

\* and so do a request, a stream, the claim's TTL and an exit.
LEMMA OthersKeepRunnerTypes ==
  ASSUME RunnerTypes,
         \/ \E q \in Reqs : ReqStep(q)
         \/ \E s \in Subs : Subscribe(s) \/ PumpFails(s) \/ StreamEnds(s)
         \/ RClaimExpires \/ ProcessCrash
         \/ UNCHANGED runnerVars
  PROVE  RunnerTypes'
<1> USE DEF RunnerTypes, ReqGoto, DbFault, BusFault, ReqPhases, TaskValues, RowValues,
            rowVars, runVars, reqVars, histVars
<1>1. ASSUME NEW q \in Reqs, RUploadRead(q) \/ RUploadClaim(q) \/ RUploadDbError(q) \/ RRetryRead(q)
      PROVE  RunnerTypes'
  <2>1. CASE RUploadRead(q)
    BY <2>1 DEF RUploadRead
  <2>2. CASE RUploadClaim(q)
    <3>1. claim' \in BOOLEAN
      BY <2>2, RunnerAssumption DEF RUploadClaim
    <3>2. qpc' \in [Reqs -> ReqPhases]
      BY <2>2 DEF RUploadClaim
    <3>3. QED BY <2>2, <3>1, <3>2 DEF RUploadClaim
  <2>3. CASE RUploadDbError(q)
    BY <2>3 DEF RUploadDbError
  <2>4. CASE RRetryRead(q)
    BY <2>4 DEF RRetryRead
  <2>5. QED BY <1>1, <2>1, <2>2, <2>3, <2>4
<1>2. ASSUME NEW q \in Reqs, RUploadSchedule(q) PROVE RunnerTypes'
  BY <1>2 DEF RUploadSchedule, RunPhases
<1>3. ASSUME NEW q \in Reqs, RRetryCommit(q) PROVE RunnerTypes'
  BY <1>3 DEF RRetryCommit
<1>4. ASSUME NEW s \in Subs, Subscribe(s) \/ PumpFails(s) \/ StreamEnds(s) PROVE RunnerTypes'
  BY <1>4 DEF Subscribe, PumpFails, StreamEnds
<1>5. CASE RClaimExpires
  BY <1>5 DEF RClaimExpires
<1>6. CASE ProcessCrash
  BY <1>6 DEF ProcessCrash, RunPhases, ItemPhases, NoItems
<1>7. CASE UNCHANGED runnerVars
  BY <1>7 DEF runnerVars
<1>8. QED BY <1>1, <1>2, <1>3, <1>4, <1>5, <1>6, <1>7 DEF ReqStep

\* So every step does.
LEMMA NextKeepsRunnerTypes ==
  ASSUME RunnerTypes, [RunnerNext]_runnerVars
  PROVE  RunnerTypes'
BY RunKeepsTypes, OthersKeepRunnerTypes DEF RunnerNext

(***************************************************************************)
(* The runner implements the ledger.                                        *)
(***************************************************************************)

\* A row turns "uploaded" only for an item whose send has returned, and bytes
\* that are stored stay.
LEMMA NextKeepsStored ==
  ASSUME StoredInv, [RunnerNext]_runnerVars
  PROVE  /\ StoredInv'
         /\ \E S \in SUBSET Items : stored' = stored \cup S
         /\ \/ \A i \in Items : (row'[i] = "uploaded") <=> (row[i] = "uploaded")
            \/ stored' = stored
<1> USE DEF SentIsStored, ItemGoto, rowVars, runVars, reqVars, histVars
<1> DEFINE Goal == /\ SentIsStored'
                   /\ \E S \in SUBSET Items : stored' = stored \cup S
                   /\ \/ \A i \in Items : (row'[i] = "uploaded") <=> (row[i] = "uploaded")
                      \/ stored' = stored
<1>t. /\ RunnerTypes /\ SentIsStored /\ RunnerTypes'
      /\ ipc \in [Runs -> [Items -> ItemPhases]] /\ row \in [Items -> RowValues]
      /\ stored \subseteq Items
  BY NextKeepsRunnerTypes DEF StoredInv, RunnerTypes
<1>k. stored' = stored => \E S \in SUBSET Items : stored' = stored \cup S
  <2>1. stored = stored \cup {}
    OBVIOUS
  <2>2. QED BY <2>1
<1>1. ASSUME UNCHANGED <<row, stored, ipc>> PROVE Goal
  <2>1. SentIsStored'
    BY <1>1, <1>t
  <2>2. QED BY <1>1, <1>k, <2>1
<1>2. ASSUME NEW r \in Runs, RunList(r) PROVE Goal
  <2>1. UNCHANGED <<row, stored>>
    BY <1>2 DEF RunList
  <2>2. \A s \in Runs, i \in Items : ipc'[s][i] = "sent" => ipc[s][i] = "sent"
    BY <1>2, <1>t DEF RunList
  <2>3. QED BY <1>t, <1>k, <2>1, <2>2
<1>3. ASSUME NEW r \in Runs, RunClose(r) PROVE Goal
  <2>1. UNCHANGED <<row, stored>>
    BY <1>3 DEF RunClose
  <2>2. \A s \in Runs, i \in Items : ipc'[s][i] = "sent" => ipc[s][i] = "sent"
    BY <1>3, <1>t DEF RunClose, Leftover
  <2>3. QED BY <1>t, <1>k, <2>1, <2>2
<1>4. ASSUME NEW r \in Runs, NEW i \in Items,
             ItemMark(r, i) \/ ItemFailed(r, i) \/ (ItemDbError(r, i) /\ ipc[r][i] # "sent")
      PROVE  Goal
  <2>1. /\ stored' = stored
        /\ row' = row \/ row' = [row EXCEPT ![i] = "uploading"]
           \/ row' = [row EXCEPT ![i] = "failed"]
    BY <1>4 DEF ItemMark, ItemFailed, ItemDbError, RowOrNot
  <2>2. \A s \in Runs, j \in Items : ipc'[s][j] = "sent" => ipc[s][j] = "sent"
    BY <1>4, <1>t DEF ItemMark, ItemFailed, ItemDbError
  <2>3. QED BY <1>t, <1>k, <2>1, <2>2
<1>5. ASSUME NEW r \in Runs, NEW i \in Items, ItemSend(r, i) \/ ItemSendFails(r, i)
      PROVE  Goal
  <2>1. row' = row
    BY <1>5 DEF ItemSend, ItemSendFails
  <2>2. \A s \in Runs, j \in Items : ipc'[s][j] = "sent" =>
          ipc[s][j] = "sent" \/ (j = i /\ ItemSend(r, i))
    BY <1>5, <1>t DEF ItemSend, ItemSendFails
  <2>3. \E S \in SUBSET Items : stored' = stored \cup S
    <3>1. stored' = stored \cup {} \/ stored' = stored \cup {i}
      BY <1>5 DEF ItemSend, ItemSendFails
    <3>2. QED BY <3>1
  <2>4. ItemSend(r, i) => i \in stored'
    BY DEF ItemSend
  <2>5. QED BY <1>t, <2>1, <2>2, <2>3, <2>4
<1>6. ASSUME NEW r \in Runs, NEW i \in Items,
             ItemUploaded(r, i) \/ (ItemDbError(r, i) /\ ipc[r][i] = "sent")
      PROVE  Goal
  <2>1. /\ stored' = stored /\ ipc[r][i] = "sent"
        /\ row' = row \/ row' = [row EXCEPT ![i] = "uploaded"]
    BY <1>6 DEF ItemUploaded, ItemDbError, RowOrNot
  <2>2. \A s \in Runs, j \in Items : ipc'[s][j] = "sent" => ipc[s][j] = "sent"
    BY <1>6, <1>t DEF ItemUploaded, ItemDbError
  <2>3. i \in stored
    BY <1>t, <2>1
  <2>4. QED BY <1>t, <1>k, <2>1, <2>2, <2>3
<1>7. ASSUME NEW q \in Reqs, RRetryCommit(q) PROVE Goal
  <2>1. UNCHANGED <<stored, ipc>>
        /\ \A i \in Items : (row'[i] = "uploaded") <=> (row[i] = "uploaded")
    BY <1>7 DEF RRetryCommit
  <2>2. QED BY <1>t, <1>k, <2>1
<1>8. ASSUME ProcessCrash PROVE Goal
  <2>1. row' = row /\ \E S \in SUBSET Items : stored' = stored \cup S
    BY <1>8 DEF ProcessCrash
  <2>2. \A s \in Runs, j \in Items : ipc'[s][j] # "sent"
    BY <1>8 DEF ProcessCrash, NoItems
  <2>3. SentIsStored'
    BY <1>t, <2>1, <2>2
  <2>4. QED BY <2>1, <2>3
<1> HIDE DEF Goal, SentIsStored, ItemGoto
<1>9. ASSUME NEW r \in Runs, RunStep(r) PROVE Goal
  <2>1. CASE RunCheck(r) \/ RunStart(r) \/ RunGathered(r) \/ RunFinal(r) \/ RunDbError(r)
             \/ RunFailed(r)
    <3>1. UNCHANGED <<row, stored, ipc>>
      BY <2>1 DEF RunCheck, RunStart, RunGathered, RunFinal, RunDbError, RunFailed
    <3>2. QED BY <1>1, <3>1
  <2>2. QED BY <1>2, <1>3, <1>4, <1>5, <1>6, <1>9, <2>1 DEF RunStep
<1>10. ASSUME NEW q \in Reqs, ReqStep(q), ~RRetryCommit(q) PROVE Goal
  <2>1. UNCHANGED <<row, stored, ipc>>
    BY <1>10 DEF ReqStep, RUploadRead, RUploadClaim, RUploadSchedule, RUploadDbError, RRetryRead
  <2>2. QED BY <1>1, <2>1
<1>11. ASSUME \/ \E s \in Subs : Subscribe(s) \/ PumpFails(s) \/ StreamEnds(s)
              \/ RClaimExpires
              \/ UNCHANGED runnerVars
       PROVE  Goal
  <2>1. UNCHANGED <<row, stored, ipc>>
    BY <1>11 DEF Subscribe, PumpFails, StreamEnds, RClaimExpires, runnerVars
  <2>2. QED BY <1>1, <2>1
<1>12. Goal
  BY <1>7, <1>8, <1>9, <1>10, <1>11 DEF RunnerNext
<1>13. QED BY <1>t, <1>12 DEF StoredInv, Goal

\* The run implements the ledger of deliveries: a send is its Deliver, the
\* transaction that marks a row its Settle; a row reads "uploaded" only for
\* bytes in the bucket, through failed transactions, retries and exits.
THEOREM RunnerIsLedger == RunnerSpec => RunnerImplementsLedger
<1> DEFINE Read == {i \in Items : row[i] = "uploaded"}
<1>1. RunnerInit => StoredInv /\ RunnerLedger!LInit
  <2> SUFFICES ASSUME RunnerInit PROVE StoredInv /\ stored = {} /\ Read = {}
    BY DEF RunnerLedger!LInit
  <2>1. /\ stored = {} /\ \A i \in Items : row[i] # "uploaded"
        /\ \A r \in Runs, i \in Items : ipc[r][i] # "sent"
    BY DEF RunnerInit, NoItems
  <2>2. QED BY <2>1, InitRunnerTypes DEF StoredInv, SentIsStored
<1>2. StoredInv /\ [RunnerNext]_runnerVars
        => StoredInv' /\ [RunnerLedger!Deliver \/ RunnerLedger!Settle]_RunnerLedger!ledgerVars
  <2> SUFFICES ASSUME StoredInv, [RunnerNext]_runnerVars
               PROVE  StoredInv' /\ (RunnerLedger!Deliver \/ RunnerLedger!Settle)
    OBVIOUS
  <2>1. /\ StoredInv'
        /\ \E S \in SUBSET Items : stored' = stored \cup S
        /\ \/ \A i \in Items : (row'[i] = "uploaded") <=> (row[i] = "uploaded")
           \/ stored' = stored
    BY NextKeepsStored
  <2>2. CASE \A i \in Items : (row'[i] = "uploaded") <=> (row[i] = "uploaded")
    <3>1. Read' = Read
      BY <2>2
    <3>2. RunnerLedger!Deliver
      BY <2>1, <3>1 DEF RunnerLedger!Deliver
    <3>3. QED BY <2>1, <3>2
  <2>3. CASE stored' = stored
    <3>1. Read' \in SUBSET stored
      BY <2>1, <2>3 DEF StoredInv, SentIsStored
    <3>2. {} \in SUBSET stored /\ {} = {} \cup {}
      OBVIOUS
    <3>3. RunnerLedger!Settle
      BY <2>3, <3>1, <3>2 DEF RunnerLedger!Settle
    <3>4. QED BY <2>1, <3>3
  <2>4. QED BY <2>1, <2>2, <2>3
<1>3. QED
  BY <1>1, <1>2, PTL DEF RunnerSpec, RunnerImplementsLedger, RunnerLedger!LedgerSpec

(***************************************************************************)
(* What stays undisturbed was undisturbed.                                  *)
(***************************************************************************)

\* Refusals are counted and an overlap is remembered: a state that nothing
\* has disturbed comes from such a state, by a step that refused nothing.
LEMMA CalmComesFromCalm ==
  ASSUME RunnerTypes, [RunnerNext]_runnerVars, Undisturbed'
  PROVE  Undisturbed /\ dbFaults' = dbFaults
<1> USE DEF RunnerTypes, Undisturbed, DbFault, BusFault, rowVars, runVars, reqVars, histVars
<1>1. ASSUME NEW r \in Runs, RunStep(r) PROVE Undisturbed /\ dbFaults' = dbFaults
  <2>1. overlap' = overlap /\ (dbFaults' = dbFaults \/ dbFaults' = dbFaults + 1)
    BY <1>1 DEF RunStep, RunCheck, RunStart, RunList, RunGathered, RunFinal, RunDbError, RunFailed,
      RunClose, ItemMark, ItemSend, ItemSendFails, ItemUploaded, ItemFailed, ItemDbError,
      StatusOrNot, RowOrNot
  <2>2. QED BY <2>1
<1>2. ASSUME NEW q \in Reqs, ReqStep(q) PROVE Undisturbed /\ dbFaults' = dbFaults
  <2>1. (overlap => overlap') /\ (dbFaults' = dbFaults \/ dbFaults' = dbFaults + 1)
    BY <1>2 DEF ReqStep, RUploadRead, RUploadClaim, RUploadSchedule, RUploadDbError, RRetryRead,
      RRetryCommit
  <2>2. QED BY <2>1
<1>3. ASSUME \/ \E s \in Subs : Subscribe(s) \/ PumpFails(s) \/ StreamEnds(s)
             \/ RClaimExpires \/ ProcessCrash \/ UNCHANGED runnerVars
      PROVE  Undisturbed /\ dbFaults' = dbFaults
  BY <1>3 DEF Subscribe, PumpFails, StreamEnds, RClaimExpires, ProcessCrash, runnerVars
<1>4. QED BY <1>1, <1>2, <1>3 DEF RunnerNext

(***************************************************************************)
(* The steps of a run.                                                      *)
(***************************************************************************)

\* The check of the status, behind which the claim stands: it finds the task
\* confirmed.
LEMMA CheckKeepsCalm ==
  ASSUME RunnerTypes, CalmInv, NEW r \in Runs, RunCheck(r)
  PROVE  CalmInv'
<1> USE DEF RunnerTypes
<1>1. /\ rpc[r] = "scheduled" /\ rpc' = [rpc EXCEPT ![r] = "checked"]
      /\ UNCHANGED <<tstatus, row, ipc, qpc, claim, runCrashes>>
  BY DEF CalmInv, ClaimCovers, Held, RunHolds, RunCheck, RunGoto, rowVars, reqVars, histVars
<1>2. \A s \in Runs : (RunHolds(s)' <=> RunHolds(s)) /\ (Active(s)' <=> Active(s))
  BY <1>1 DEF RunHolds, Active
<1>3. OneHolder' /\ ClaimCovers'
  BY <1>1, <1>2 DEF CalmInv, OneHolder, ClaimCovers, Held, ReqHolds
<1>4. OneActive'
  BY <1>1, <1>2 DEF CalmInv, OneActive, AtWork
<1>5. NothingRaised' /\ RowsFollowRun' /\ RowsFollowTask'
  BY <1>1 DEF CalmInv, NothingRaised, RowsFollowRun, RowsFollowTask
<1>6. QED BY <1>3, <1>4, <1>5 DEF CalmInv

\* The mark on the task: the holder becomes the one active run.
LEMMA StartKeepsCalm ==
  ASSUME RunnerTypes, CalmInv, NEW r \in Runs, RunStart(r)
  PROVE  CalmInv'
<1> USE DEF RunnerTypes
<1>1. /\ rpc[r] = "checked" /\ rpc' = [rpc EXCEPT ![r] = "listing"] /\ tstatus' = "uploading"
      /\ UNCHANGED <<row, ipc, qpc, claim, runCrashes>>
  BY DEF RunStart, RunGoto, reqVars, histVars
<1>2. RunHolds(r) /\ Held /\ claim /\ tstatus = "confirmed"
  BY <1>1 DEF CalmInv, ClaimCovers, Held, RunHolds
<1>3. /\ \A s \in Runs : ~RunHolds(s)'
      /\ \A q \in Reqs : ~ReqHolds(q)'
  BY <1>1, <1>2 DEF CalmInv, OneHolder, RunHolds, ReqHolds
<1>4. \A s \in Runs : Active(s)' <=> s = r
  BY <1>1, <1>2 DEF CalmInv, OneActive, Active
<1>5. OneHolder' /\ ClaimCovers'
  BY <1>1, <1>2, <1>3 DEF OneHolder, ClaimCovers, Held
<1>6. OneActive'
  BY <1>1, <1>4 DEF CalmInv, OneActive, AtWork
<1>7. NothingRaised' /\ RowsFollowTask'
  BY <1>1 DEF CalmInv, NothingRaised, RowsFollowTask
<1>8. RowsFollowRun'
  <2>1. \A i \in Items : row[i] \in {"none", "pending", "uploaded"}
    BY <1>2 DEF CalmInv, RowsFollowTask
  <2>2. \A s \in Runs : rpc'[s] \in {"listing", "sending", "final"} => s = r
    BY <1>4 DEF Active
  <2>3. QED BY <1>1, <2>1, <2>2 DEF RowsFollowRun
<1>9. QED BY <1>5, <1>6, <1>7, <1>8 DEF CalmInv

\* An active run goes on to another active phase: holders stay as they are.
LEMMA ActiveGoesOn ==
  ASSUME RunnerTypes, OneHolder, ClaimCovers, OneActive, NEW r \in Runs, Active(r),
         NEW p \in {"sending", "final"}, rpc' = [rpc EXCEPT ![r] = p],
         UNCHANGED <<tstatus, qpc, claim, runCrashes>>,
         \A s \in Runs : AtWork(s)' # {} => rpc'[s] = "sending"
  PROVE  OneHolder' /\ ClaimCovers' /\ OneActive'
<1> USE DEF RunnerTypes
<1>1. \A s \in Runs : (RunHolds(s)' <=> RunHolds(s)) /\ (Active(s)' <=> Active(s))
  BY DEF RunHolds, Active
<1>2. OneHolder' /\ ClaimCovers'
  BY <1>1 DEF OneHolder, ClaimCovers, Held, ReqHolds
<1>3. OneActive'
  BY <1>1 DEF OneActive
<1>4. QED BY <1>2, <1>3

\* The list of the pending items.
LEMMA ListKeepsCalm ==
  ASSUME RunnerTypes, CalmInv, NEW r \in Runs, RunList(r)
  PROVE  CalmInv'
<1> USE DEF RunnerTypes
<1> DEFINE todo == {i \in Items : row[i] = "pending"}
<1>1. /\ rpc[r] = "listing"
      /\ rpc' = [rpc EXCEPT ![r] = IF todo = {} THEN "final" ELSE "sending"]
      /\ ipc' = [ipc EXCEPT ![r] = [i \in Items |-> IF i \in todo THEN "waiting" ELSE "none"]]
      /\ UNCHANGED <<tstatus, row, qpc, claim, runCrashes>>
  BY DEF RunList, RunGoto, rowVars, reqVars, histVars
<1>2. /\ \A i \in Items : ipc'[r][i] = IF row[i] = "pending" THEN "waiting" ELSE "none"
      /\ \A s \in Runs : s # r => ipc'[s] = ipc[s] /\ rpc'[s] = rpc[s]
      /\ rpc'[r] = IF \E i \in Items : row[i] = "pending" THEN "sending" ELSE "final"
  BY <1>1
<1>3. \A s \in Runs : AtWork(s)' # {} => rpc'[s] = "sending"
  BY <1>1, <1>2 DEF CalmInv, OneActive, AtWork
<1>4. OneHolder' /\ ClaimCovers' /\ OneActive'
  BY <1>1, <1>3, ActiveGoesOn DEF CalmInv, Active
<1>5. NothingRaised' /\ RowsFollowTask'
  BY <1>1, <1>2 DEF CalmInv, NothingRaised, RowsFollowTask
<1>6. RowsFollowRun'
  <2>1. \A i \in Items : row[i] \in {"none", "pending", "uploaded"}
    BY <1>1 DEF CalmInv, RowsFollowRun
  <2>2. \A i \in Items : row'[i] \in RowOf[ipc'[r][i]]
    BY <1>1, <1>2, <2>1 DEF RowOf
  <2>3. QED BY <1>1, <1>2, <2>2 DEF CalmInv, RowsFollowRun
<1>7. QED BY <1>4, <1>5, <1>6 DEF CalmInv

\* Without an item that has raised, a gathered run has no item at work.
LEMMA GatheredKeepsCalm ==
  ASSUME RunnerTypes, CalmInv, NEW r \in Runs, RunGathered(r)
  PROVE  CalmInv' /\ AtWork(r) = {}
<1> USE DEF RunnerTypes
<1>1. /\ rpc[r] = "sending" /\ rpc' = [rpc EXCEPT ![r] = "final"]
      /\ UNCHANGED <<tstatus, row, ipc, qpc, claim, runCrashes>>
  BY DEF RunGathered, RunGoto, rowVars, reqVars, histVars
<1>2. AtWork(r) = {}
  BY DEF RunGathered, GroupsDone, Raised, CalmInv, NothingRaised
<1>3. \A s \in Runs : AtWork(s)' # {} => rpc'[s] = "sending"
  BY <1>1, <1>2 DEF CalmInv, OneActive, AtWork
<1>4. OneHolder' /\ ClaimCovers' /\ OneActive'
  BY <1>1, <1>3, ActiveGoesOn DEF CalmInv, Active
<1>5. NothingRaised' /\ RowsFollowTask' /\ RowsFollowRun'
  BY <1>1 DEF CalmInv, NothingRaised, RowsFollowTask, RowsFollowRun
<1>6. QED BY <1>2, <1>4, <1>5 DEF CalmInv

\* The tally: every item is over by now, so the results are the rows.
LEMMA FinalKeepsCalm ==
  ASSUME RunnerTypes, CalmInv, NEW r \in Runs, RunFinal(r)
  PROVE  CalmInv'
<1> USE DEF RunnerTypes
<1>1. /\ rpc[r] = "final" /\ rpc' = [rpc EXCEPT ![r] = "closing"]
      /\ tstatus' = IF AllOk(r) THEN "uploaded" ELSE "partial_failed"
      /\ UNCHANGED <<row, ipc, qpc, claim, runCrashes>>
  BY DEF RunFinal, RunGoto, reqVars, histVars
<1>2. Active(r) /\ tstatus = "uploading" /\ ~Held
  BY <1>1 DEF CalmInv, OneActive, Active, ClaimCovers
<1>3. /\ \A s \in Runs : RunHolds(s)' <=> RunHolds(s)
      /\ \A s \in Runs : ~Active(s)'
  BY <1>1, <1>2 DEF CalmInv, OneActive, Active, RunHolds
<1>4. tstatus' \in {"uploaded", "partial_failed"}
  BY <1>1
<1>5. OneHolder' /\ ClaimCovers'
  BY <1>1, <1>2, <1>3 DEF CalmInv, OneHolder, ClaimCovers, Held, ReqHolds
<1>6. OneActive' /\ NothingRaised'
  BY <1>1, <1>3, <1>4 DEF CalmInv, OneActive, AtWork, NothingRaised
<1>7. RowsFollowRun'
  BY <1>1 DEF CalmInv, RowsFollowRun
<1>8. RowsFollowTask'
  <2>1. \A i \in Items : ipc[r][i] \in {"none", "ok", "bad"}
    BY <1>1 DEF CalmInv, OneActive, AtWork, NothingRaised, ItemPhases
  <2>2. \A i \in Items : /\ ipc[r][i] = "bad" => row[i] = "failed"
                         /\ ipc[r][i] # "bad" => row[i] \in {"none", "uploaded"}
    BY <1>1, <2>1 DEF CalmInv, RowsFollowRun, RowOf
  <2>3. Raised(r) = {}
    BY <2>1 DEF Raised
  <2>4. CASE \A i \in Items : ipc[r][i] # "bad"
    BY <1>1, <2>2, <2>3, <2>4 DEF AllOk, RowsFollowTask
  <2>5. CASE \E i \in Items : ipc[r][i] = "bad"
    BY <1>1, <2>2, <2>5 DEF AllOk, RowsFollowTask
  <2>6. QED BY <2>4, <2>5
<1>9. QED BY <1>5, <1>6, <1>7, <1>8 DEF CalmInv

\* The close of a run that is over.
LEMMA CloseKeepsCalm ==
  ASSUME RunnerTypes, CalmInv, NEW r \in Runs, RunClose(r)
  PROVE  CalmInv'
<1> USE DEF RunnerTypes
<1>1. /\ rpc[r] = "closing" /\ rpc' = [rpc EXCEPT ![r] = "off"]
      /\ ipc' = [ipc EXCEPT ![r] = Leftover(r)]
      /\ UNCHANGED <<tstatus, row, qpc, claim, runCrashes>>
  BY DEF RunClose, RunGoto, rowVars, reqVars, histVars
<1>2. \A s \in Runs : (RunHolds(s)' <=> RunHolds(s)) /\ (Active(s)' <=> Active(s))
  BY <1>1 DEF RunHolds, Active
<1>3. /\ \A i \in Items : ipc'[r][i] = "none"
      /\ \A s \in Runs : s # r => ipc'[s] = ipc[s]
  BY <1>1 DEF Leftover, CalmInv, OneActive
<1>4. OneHolder' /\ ClaimCovers'
  BY <1>1, <1>2 DEF CalmInv, OneHolder, ClaimCovers, Held, ReqHolds
<1>5. OneActive'
  BY <1>1, <1>2, <1>3 DEF CalmInv, OneActive, AtWork
<1>6. NothingRaised' /\ RowsFollowTask' /\ RowsFollowRun'
  BY <1>1, <1>3 DEF CalmInv, NothingRaised, RowsFollowTask, RowsFollowRun
<1>7. QED BY <1>4, <1>5, <1>6 DEF CalmInv

\* An item at work: its run is the one that sends, and the row goes with it.
LEMMA ItemKeepsCalm ==
  ASSUME RunnerTypes, CalmInv, dbFaults' = dbFaults, NEW r \in Runs, NEW i \in Items,
         \/ ItemMark(r, i) \/ ItemSend(r, i) \/ ItemSendFails(r, i) \/ ItemUploaded(r, i)
         \/ ItemFailed(r, i) \/ ItemDbError(r, i)
  PROVE  CalmInv'
<1> USE DEF RunnerTypes
<1>1. /\ ipc[r][i] \in {"waiting", "sending", "sent", "failing"}
      /\ UNCHANGED <<tstatus, rpc, qpc, claim, runCrashes>>
  BY DEF ItemMark, ItemSend, ItemSendFails, ItemUploaded, ItemFailed, ItemDbError, ItemGoto,
    DbFault, rowVars, reqVars, histVars
<1>2. rpc[r] = "sending" /\ tstatus = "uploading" /\ row[i] \in RowOf[ipc[r][i]]
  BY <1>1 DEF CalmInv, OneActive, Active, AtWork, RowsFollowRun
<1>3. PICK p \in {"sending", "sent", "failing", "ok", "bad"},
           v \in RowValues :
        /\ ipc' = [ipc EXCEPT ![r][i] = p]
        /\ row' = [row EXCEPT ![i] = v]
        /\ v \in RowOf[p]
  <2>1. row = [row EXCEPT ![i] = row[i]]
    OBVIOUS
  <2>2. CASE ItemMark(r, i)
    BY <2>2 DEF ItemMark, ItemGoto, RowOf, RowValues
  <2>3. CASE ItemSend(r, i) \/ ItemSendFails(r, i)
    <3>1. /\ row' = row /\ ipc[r][i] = "sending"
          /\ ipc' = [ipc EXCEPT ![r][i] = "sent"] \/ ipc' = [ipc EXCEPT ![r][i] = "failing"]
      BY <2>3 DEF ItemSend, ItemSendFails, ItemGoto, rowVars
    <3>2. row[i] = "uploading"
      BY <1>2, <3>1 DEF RowOf
    <3>3. QED BY <2>1, <3>1, <3>2 DEF RowOf, RowValues
  <2>4. CASE ItemUploaded(r, i)
    BY <2>4 DEF ItemUploaded, ItemGoto, RowOf, RowValues
  <2>5. CASE ItemFailed(r, i)
    BY <2>5 DEF ItemFailed, ItemGoto, RowOf, RowValues
  <2>6. ~ItemDbError(r, i)
    BY DEF ItemDbError, RowOrNot, DbFault
  <2>7. QED BY <2>2, <2>3, <2>4, <2>5, <2>6
<1>4. /\ ipc'[r][i] = p /\ row'[i] \in RowOf[p]
      /\ \A j \in Items : j # i => ipc'[r][j] = ipc[r][j] /\ row'[j] = row[j]
      /\ \A s \in Runs : s # r => ipc'[s] = ipc[s]
  BY <1>3
<1>5. OneHolder' /\ ClaimCovers'
  BY <1>1 DEF CalmInv, OneHolder, ClaimCovers, Held, ReqHolds, RunHolds
<1>6. OneActive'
  <2>1. \A s \in Runs : AtWork(s)' # {} => rpc'[s] = "sending"
    BY <1>1, <1>2, <1>4 DEF CalmInv, OneActive, AtWork
  <2>2. QED BY <1>1, <2>1 DEF CalmInv, OneActive, Active
<1>7. NothingRaised'
  BY <1>1, <1>3, <1>4 DEF CalmInv, NothingRaised
<1>8. RowsFollowTask'
  BY <1>1, <1>2 DEF RowsFollowTask
<1>9. RowsFollowRun'
  <2>1. \A s \in Runs : rpc[s] \in {"listing", "sending", "final"} => s = r
    BY <1>2 DEF CalmInv, OneActive, Active
  <2>2. \A j \in Items : row'[j] \in RowOf[ipc'[r][j]]
    BY <1>2, <1>4 DEF CalmInv, RowsFollowRun
  <2>3. QED BY <1>1, <1>2, <2>1, <2>2 DEF RowsFollowRun
<1>10. QED BY <1>5, <1>6, <1>7, <1>8, <1>9 DEF CalmInv

\* So every step of a run keeps the invariant, when no transaction is refused.
LEMMA RunKeepsCalm ==
  ASSUME RunnerTypes, CalmInv, dbFaults' = dbFaults, NEW r \in Runs, RunStep(r)
  PROVE  CalmInv'
<1>1. ~RunDbError(r)
  BY DEF RunDbError, StatusOrNot, DbFault, RunnerTypes
<1>2. ~RunFailed(r)
  BY DEF RunFailed, RunGoto, CalmInv, NothingRaised
<1>3. ASSUME NEW i \in Items,
             \/ ItemMark(r, i) \/ ItemSend(r, i) \/ ItemSendFails(r, i) \/ ItemUploaded(r, i)
             \/ ItemFailed(r, i) \/ ItemDbError(r, i)
      PROVE  CalmInv'
  BY <1>3, ItemKeepsCalm
<1>4. QED
  BY <1>1, <1>2, <1>3, CheckKeepsCalm, StartKeepsCalm, ListKeepsCalm, GatheredKeepsCalm,
     FinalKeepsCalm, CloseKeepsCalm DEF RunStep

(***************************************************************************)
(* The endpoints, the TTL of the claim, the streams and an exit.            *)
(***************************************************************************)

\* A request for the claim: the task was confirmed when it asked, and while
\* the claim is free nobody has moved it on.
LEMMA ClaimKeepsCalm ==
  ASSUME GuardEnabled, RunnerTypes, CalmInv, NEW q \in Reqs, RUploadRead(q) \/ RUploadClaim(q)
  PROVE  CalmInv'
<1> USE DEF RunnerTypes
<1>1. /\ UNCHANGED <<tstatus, row, ipc, rpc, runCrashes>>
      /\ \/ qpc' = [qpc EXCEPT ![q] = "claim"] /\ claim' = claim /\ tstatus = "confirmed"
            /\ qpc[q] = "idle"
         \/ qpc' = [qpc EXCEPT ![q] = "idle"] /\ claim' /\ claim /\ qpc[q] = "claim"
         \/ qpc' = [qpc EXCEPT ![q] = "schedule"] /\ claim' /\ ~claim /\ qpc[q] = "claim"
  BY DEF RUploadRead, RUploadClaim, ReqGoto, rowVars, runVars, histVars
<1>2. /\ \A s \in Runs : (RunHolds(s)' <=> RunHolds(s)) /\ (Active(s)' <=> Active(s))
      /\ \A s \in Runs : AtWork(s)' = AtWork(s)
  BY <1>1 DEF RunHolds, Active, AtWork
<1>3. OneHolder' /\ ClaimCovers'
  <2>1. CASE ~claim /\ qpc[q] = "claim"
    <3>1. tstatus = "confirmed" /\ ~Held
      BY <2>1 DEF CalmInv, ClaimCovers
    <3>2. /\ \A p \in Reqs : ReqHolds(p)' => p = q
          /\ \A s \in Runs : ~RunHolds(s)'
      BY <1>1, <1>2, <3>1 DEF Held, ReqHolds
    <3>3. QED BY <1>1, <2>1, <3>1, <3>2 DEF OneHolder, ClaimCovers
  <2>2. CASE ~(~claim /\ qpc[q] = "claim")
    <3>1. \A p \in Reqs : ReqHolds(p)' <=> ReqHolds(p)
      BY <1>1, <2>2 DEF ReqHolds
    <3>2. QED BY <1>1, <1>2, <2>2, <3>1 DEF CalmInv, OneHolder, ClaimCovers, Held
  <2>3. QED BY <2>1, <2>2
<1>4. OneActive'
  BY <1>1, <1>2 DEF CalmInv, OneActive
<1>5. NothingRaised' /\ RowsFollowRun' /\ RowsFollowTask'
  BY <1>1 DEF CalmInv, NothingRaised, RowsFollowRun, RowsFollowTask
<1>6. QED BY <1>3, <1>4, <1>5 DEF CalmInv

\* The request hands what it holds to the run it schedules.
LEMMA ScheduleKeepsCalm ==
  ASSUME RunnerTypes, CalmInv, NEW q \in Reqs, RUploadSchedule(q)
  PROVE  CalmInv'
<1> USE DEF RunnerTypes
<1>1. PICK r \in Runs :
        /\ rpc[r] = "off" /\ rpc' = [rpc EXCEPT ![r] = "scheduled"]
        /\ qpc[q] = "schedule" /\ qpc' = [qpc EXCEPT ![q] = "idle"]
        /\ UNCHANGED <<tstatus, row, ipc, claim, runCrashes>>
  <2>1. (CHOOSE r \in Runs : Idle(r)) \in Runs /\ Idle(CHOOSE r \in Runs : Idle(r))
    BY DEF RUploadSchedule
  <2>2. QED BY <2>1 DEF RUploadSchedule, ReqGoto, Idle, rowVars, histVars
<1>2. ReqHolds(q) /\ Held /\ claim /\ tstatus = "confirmed"
  BY <1>1 DEF CalmInv, ClaimCovers, Held, ReqHolds
<1>3. /\ \A p \in Reqs : ~ReqHolds(p)'
      /\ \A s \in Runs : RunHolds(s)' <=> s = r
  BY <1>1, <1>2 DEF CalmInv, OneHolder, ReqHolds, RunHolds
<1>4. \A s \in Runs : (Active(s)' <=> Active(s)) /\ AtWork(s)' = AtWork(s)
  BY <1>1 DEF Active, AtWork
<1>5. OneHolder' /\ ClaimCovers'
  BY <1>1, <1>2, <1>3 DEF OneHolder, ClaimCovers
<1>6. OneActive'
  BY <1>1, <1>4 DEF CalmInv, OneActive
<1>7. NothingRaised' /\ RowsFollowRun' /\ RowsFollowTask'
  BY <1>1 DEF CalmInv, NothingRaised, RowsFollowRun, RowsFollowTask
<1>8. QED BY <1>5, <1>6, <1>7 DEF CalmInv

\* A retry that disturbs nothing and resets anything does so on a task that
\* is "partial_failed" now: no run holds or does anything then.
LEMMA RetryKeepsCalm ==
  ASSUME RunnerTypes, CalmInv, ~overlap', NEW q \in Reqs, RRetryRead(q) \/ RRetryCommit(q)
  PROVE  CalmInv'
<1> USE DEF RunnerTypes
<1>1. /\ \A p \in Reqs : ReqHolds(p)' <=> ReqHolds(p)
      /\ \A p \in Reqs : qpc'[p] = "claim" => qpc[p] = "claim"
      /\ UNCHANGED <<rpc, ipc, claim, runCrashes>>
  BY DEF RRetryRead, RRetryCommit, ReqGoto, ReqHolds, rowVars, runVars, histVars
<1>2. /\ \A s \in Runs : (RunHolds(s)' <=> RunHolds(s)) /\ (Active(s)' <=> Active(s))
      /\ \A s \in Runs : AtWork(s)' = AtWork(s)
  BY <1>1 DEF Active, AtWork, RunHolds
<1>3. OneHolder'
  BY <1>1, <1>2 DEF CalmInv, OneHolder
<1>4. \/ UNCHANGED <<tstatus, row>>
      \/ /\ tstatus = "partial_failed" /\ tstatus' = "confirmed"
         /\ row' = [i \in Items |-> IF row[i] = "failed" THEN "pending" ELSE row[i]]
  <2>1. CASE RRetryRead(q)
    BY <2>1 DEF RRetryRead, rowVars
  <2>2. CASE RRetryCommit(q) /\ \A i \in Items : row[i] # "failed"
    BY <2>2 DEF RRetryCommit
  <2>3. CASE RRetryCommit(q) /\ \E i \in Items : row[i] = "failed"
    <3>1. {i \in Items : row[i] = "failed"} # {}
      BY <2>3
    <3>2. qseen[q] \in {"failed", "partial_failed"} /\ tstatus = qseen[q] /\ tstatus' = "confirmed"
      BY <2>3, <3>1 DEF RRetryCommit
    <3>3. tstatus # "failed"
      BY DEF CalmInv, NothingRaised
    <3>4. row' = [i \in Items |-> IF row[i] = "failed" THEN "pending" ELSE row[i]]
      BY <2>3 DEF RRetryCommit
    <3>5. QED BY <3>2, <3>3, <3>4
  <2>4. QED BY <2>1, <2>2, <2>3
<1>5. CASE UNCHANGED <<tstatus, row>>
  <2>1. ClaimCovers' /\ OneActive'
    BY <1>1, <1>2, <1>5 DEF CalmInv, ClaimCovers, Held, OneActive
  <2>2. NothingRaised' /\ RowsFollowRun' /\ RowsFollowTask'
    BY <1>1, <1>5 DEF CalmInv, NothingRaised, RowsFollowRun, RowsFollowTask
  <2>3. QED BY <1>3, <2>1, <2>2 DEF CalmInv
<1>6. CASE /\ tstatus = "partial_failed" /\ tstatus' = "confirmed"
           /\ row' = [i \in Items |-> IF row[i] = "failed" THEN "pending" ELSE row[i]]
  <2>1. ~Held /\ \A s \in Runs : ~Active(s)
    BY <1>6 DEF CalmInv, ClaimCovers, OneActive
  <2>2. ClaimCovers' /\ OneActive'
    BY <1>1, <1>2, <1>6, <2>1 DEF CalmInv, ClaimCovers, Held, OneActive
  <2>3. NothingRaised'
    BY <1>1, <1>6 DEF CalmInv, NothingRaised
  <2>4. RowsFollowRun'
    BY <1>1, <2>1 DEF RowsFollowRun, Active
  <2>5. RowsFollowTask'
    BY <1>6 DEF CalmInv, RowsFollowTask
  <2>6. QED BY <1>3, <2>2, <2>3, <2>4, <2>5 DEF CalmInv
<1>7. QED BY <1>4, <1>5, <1>6

\* The claim runs out under nobody that relies on it.
LEMMA ExpiryKeepsCalm ==
  ASSUME ~ShortTTL, RunnerTypes, CalmInv, RClaimExpires
  PROVE  CalmInv'
<1>1. /\ UNCHANGED <<tstatus, row, ipc, rpc, qpc, runCrashes>>
      /\ \A q \in Reqs : qpc[q] \notin {"claim", "schedule"}
      /\ \A r \in Runs : rpc[r] \notin {"scheduled", "checked"}
  BY DEF RClaimExpires, rowVars, runVars, histVars
<1>2. OneHolder' /\ ClaimCovers'
  BY <1>1 DEF OneHolder, ClaimCovers, Held, ReqHolds, RunHolds
<1>3. OneActive' /\ NothingRaised' /\ RowsFollowRun' /\ RowsFollowTask'
  BY <1>1 DEF CalmInv, OneActive, Active, AtWork, NothingRaised, RowsFollowRun, RowsFollowTask
<1>4. QED BY <1>2, <1>3 DEF CalmInv

\* An exit leaves nothing at work; the rows stay as the last run left them.
LEMMA ExitKeepsCalm ==
  ASSUME RunnerTypes, CalmInv, ProcessCrash
  PROVE  CalmInv'
<1>1. /\ UNCHANGED <<tstatus, row>> /\ runCrashes' = runCrashes + 1
      /\ \A r \in Runs : rpc'[r] = "off" /\ \A i \in Items : ipc'[r][i] = "none"
      /\ \A q \in Reqs : qpc'[q] = "idle"
  BY DEF ProcessCrash, NoItems, rowVars
<1>2. OneHolder' /\ ClaimCovers'
  BY <1>1 DEF OneHolder, ClaimCovers, Held, ReqHolds, RunHolds
<1>3. OneActive'
  BY <1>1 DEF OneActive, Active, AtWork, RunnerTypes
<1>4. NothingRaised' /\ RowsFollowRun' /\ RowsFollowTask'
  BY <1>1 DEF CalmInv, NothingRaised, RowsFollowRun, RowsFollowTask
<1>5. QED BY <1>2, <1>3, <1>4 DEF CalmInv

\* Streams and stuttering do not touch what the invariant speaks of.
LEMMA StreamsKeepCalm ==
  ASSUME CalmInv,
         \/ \E s \in Subs : Subscribe(s) \/ PumpFails(s) \/ StreamEnds(s)
         \/ UNCHANGED runnerVars
  PROVE  CalmInv'
<1>1. UNCHANGED <<tstatus, row, ipc, rpc, qpc, claim, runCrashes>>
  BY DEF Subscribe, PumpFails, StreamEnds, runnerVars, rowVars, runVars, reqVars, histVars
<1>2. OneHolder' /\ ClaimCovers' /\ OneActive'
  BY <1>1 DEF CalmInv, OneHolder, ClaimCovers, Held, ReqHolds, RunHolds, OneActive, Active, AtWork
<1>3. NothingRaised' /\ RowsFollowRun' /\ RowsFollowTask'
  BY <1>1 DEF CalmInv, NothingRaised, RowsFollowRun, RowsFollowTask
<1>4. QED BY <1>2, <1>3 DEF CalmInv

(***************************************************************************)
(* The theorems.                                                            *)
(***************************************************************************)

\* A runner starts with the invariant,
LEMMA InitRunnerInv == RunnerInit => RunnerInv
<1> SUFFICES ASSUME RunnerInit PROVE CalmInv
  BY InitRunnerTypes DEF RunnerInv
<1>1. /\ tstatus = "confirmed" /\ \A i \in Items : row[i] \in {"none", "pending"}
      /\ \A r \in Runs : rpc[r] = "off" /\ \A i \in Items : ipc[r][i] = "none"
      /\ \A q \in Reqs : qpc[q] = "idle"
  BY DEF RunnerInit, NoItems
<1>2. OneHolder /\ ClaimCovers /\ OneActive
  BY <1>1 DEF OneHolder, ClaimCovers, Held, ReqHolds, RunHolds, OneActive, Active, AtWork
<1>3. NothingRaised /\ RowsFollowRun /\ RowsFollowTask
  BY <1>1 DEF NothingRaised, RowsFollowRun, RowsFollowTask
<1>4. QED BY <1>2, <1>3 DEF CalmInv

\* and with the claim on, for long enough, every step keeps it.
LEMMA NextKeepsRunnerInv ==
  ASSUME GuardEnabled, ~ShortTTL, RunnerInv, [RunnerNext]_runnerVars
  PROVE  RunnerInv'
<1>1. RunnerTypes /\ RunnerTypes'
  BY NextKeepsRunnerTypes DEF RunnerInv
<1>2. ASSUME Undisturbed' PROVE CalmInv'
  <2>1. CalmInv /\ dbFaults' = dbFaults /\ ~overlap'
    BY <1>1, <1>2, CalmComesFromCalm DEF RunnerInv, Undisturbed
  <2>2. ASSUME NEW q \in Reqs, ReqStep(q) PROVE CalmInv'
    <3>1. ~RUploadDbError(q)
      BY <1>1, <2>1 DEF RUploadDbError, DbFault, RunnerTypes
    <3>2. QED BY <1>1, <2>1, <2>2, <3>1, ClaimKeepsCalm, ScheduleKeepsCalm, RetryKeepsCalm DEF ReqStep
  <2>3. ASSUME NEW r \in Runs, RunStep(r) PROVE CalmInv'
    BY <1>1, <2>1, <2>3, RunKeepsCalm
  <2>4. QED BY <1>1, <2>1, <2>2, <2>3, ExpiryKeepsCalm, ExitKeepsCalm, StreamsKeepCalm DEF RunnerNext
<1>3. QED BY <1>1, <1>2 DEF RunnerInv

\* So it holds throughout.
LEMMA RunnerInvHolds == ASSUME GuardEnabled, ~ShortTTL PROVE RunnerSpec => []RunnerInv
<1>1. RunnerInv /\ [RunnerNext]_runnerVars => RunnerInv'
  BY NextKeepsRunnerInv
<1>2. QED BY <1>1, InitRunnerInv, PTL DEF RunnerSpec

\* With the claim on and no shorter than the start of a run, two runs never
\* upload one item: the status is checked behind the claim, and the mark on
\* the task takes over from it.
THEOREM OneSender == ASSUME GuardEnabled, ~ShortTTL PROVE RunnerSpec => []OneSenderPerItem
<1>1. RunnerInv => OneSenderPerItem
  <2> SUFFICES ASSUME RunnerInv, Undisturbed, NEW i \in Items
               PROVE  Cardinality({r \in Runs : ipc[r][i] \in {"waiting", "sending", "sent"}}) <= 1
    BY DEF OneSenderPerItem
  <2> DEFINE S == {r \in Runs : ipc[r][i] \in {"waiting", "sending", "sent"}}
  <2>1. \A r, s \in S : r = s
    <3>1. \A r \in S : AtWork(r) # {}
      BY DEF AtWork
    <3>2. \A r \in S : Active(r)
      BY <3>1 DEF RunnerInv, CalmInv, OneActive, Active
    <3>3. QED BY <3>2 DEF RunnerInv, CalmInv, OneActive
  <2>2. S = {} \/ \E r \in Runs : S = {r}
    BY <2>1
  <2>3. Cardinality(S) = 0 \/ Cardinality(S) = 1
    <3> HIDE DEF S
    <3>1. QED BY <2>2, FS_EmptySet, FS_Singleton
  <2>4. Cardinality(S) <= 1
    <3> HIDE DEF S
    <3>1. QED BY <2>3
  <2>5. QED BY <2>4
<1>2. QED BY <1>1, RunnerInvHolds, PTL

\* A task that reads "uploaded" has only uploaded items, through retries that
\* overlap no run and through exits of the process.
THEOREM TallySpeaksForRows == ASSUME GuardEnabled, ~ShortTTL PROVE RunnerSpec => []TallyMatchesRows
<1>1. RunnerInv => TallyMatchesRows
  BY DEF RunnerInv, CalmInv, RowsFollowTask, TallyMatchesRows
<1>2. QED BY <1>1, RunnerInvHolds, PTL

\* Where nothing has disturbed it and the process has not exited, the task
\* never ends where neither an upload nor a retry moves it on.
THEOREM RetriesLeadBack == ASSUME GuardEnabled, ~ShortTTL PROVE RunnerSpec => []RetryLeadsBack
<1>1. RunnerInv => RetryLeadsBack
  <2> SUFFICES ASSUME RunnerInv, DeadEnd, Undisturbed, runCrashes = 0 PROVE FALSE
    BY DEF RetryLeadsBack, RunnerInv, RunnerTypes
  <2>1. \A r \in Runs : ~Active(r)
    BY DEF DeadEnd, NothingAtWork, Idle, Active
  <2>2. tstatus # "uploading" /\ tstatus # "failed"
    BY <2>1 DEF RunnerInv, CalmInv, OneActive, NothingRaised
  <2>3. QED BY <2>2 DEF RunnerInv, CalmInv, RowsFollowTask, DeadEnd
<1>2. QED BY <1>1, RunnerInvHolds, PTL
=============================================================================
