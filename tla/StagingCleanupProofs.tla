------------------------- MODULE StagingCleanupProofs -------------------------
(***************************************************************************)
(* Theorems about the clean-up of the staging bucket, for any number of     *)
(* jobs, requests and tasks: a key is listed as deleted only if its archive *)
(* has been deleted, and a scan picks a task with items still to be         *)
(* delivered only if requests have raced for it.                            *)
(***************************************************************************)
EXTENDS StagingCleanup, UploadApiProofs

CleanupTypes ==
  /\ UploadTypeOK
  /\ fresh \subseteq Tasks /\ expired \subseteq Tasks
  /\ found \in [Jobs -> SUBSET Tasks]
  /\ noted \in [Jobs -> SUBSET Tasks]

\* Tasks whose archive has ever been stored: it is there, or has been taken.
Stored == staged \cup taken

\* Whatever is going to delete an archive, or to note the deletion, does so
\* for an archive that has been stored.
StoredInv ==
  /\ fresh \cup expired \subseteq Stored
  /\ \A j \in Jobs : found[j] \subseteq Stored /\ noted[j] \subseteq taken
  /\ \A r \in Reqs :
       rphase[r] = "compensate" \/ (ObjectMode /\ rphase[r] = "publish") => rtask[r] \in Stored
  /\ listed \subseteq taken

CleanupInv == CleanupTypes /\ StoredInv

\* An archive that has ever been stored stays so, also if it is taken now.
LEMMA StoredGrows ==
  ASSUME Track
  PROVE  Stored \subseteq Stored' /\ taken \subseteq taken' /\ staged \ staged' \subseteq taken'
BY DEF Track, Stored

\* What one request does to the staging bucket, step by step: an archive is
\* there when its request goes on from staging, and compensation belongs to
\* an archive that has been stored.
LEMMA RequestsStored ==
  ASSUME CleanupInv, UploadNext, Track
  PROVE  /\ Moved("stage", "publish") \cup Moved("stage", "compensate") \subseteq Stored'
         /\ Moved("compensate", "release") \subseteq Stored
         /\ \A r \in Reqs :
              rphase'[r] = "compensate" \/ (ObjectMode /\ rphase'[r] = "publish")
                => rtask'[r] \in Stored'
<1> USE DEF CleanupInv, CleanupTypes, StoredInv, UploadTypeOK, UTypeOK, RPhase, Goto, Moved,
            Stored, Track, requestVars, loadedVars, RaceIf, brokerVars, dbVars, storeVars
<1>1. ASSUME NEW r \in Reqs, UCall(r)
      PROVE  /\ \A s \in Reqs : rphase'[s] \in {"publish", "compensate", "release"}
                   => rphase'[s] = rphase[s] /\ rtask'[s] = rtask[s]
             /\ staged' = staged
  BY <1>1 DEF UCall, ClassifyRead, ConfirmRead, RetryRead, UploadRead, Begin
<1>2. ASSUME NEW r \in Reqs, UStep(r) \/ UploadPublishLost(r) \/ UploadMarkFails(r) \/ ApiCrash(r)
      PROVE  /\ rtask' = rtask
             /\ \A s \in Reqs \ {r} : rphase'[s] = rphase[s]
             /\ rphase[r] = "stage" /\ rphase'[r] \in {"publish", "compensate"}
                  => rtask[r] \in staged'
             /\ rphase'[r] = "compensate" => rphase[r] \in {"stage", "publish"} /\ (rphase[r] = "publish" => ObjectMode)
             /\ ObjectMode /\ rphase'[r] = "publish" => rphase[r] = "stage"
  <2>1. CASE ClassifyCommit(r) \/ ClassifyConflict(r) \/ ConfirmCommit(r) \/ RetryCommit(r)
    BY <2>1 DEF ClassifyCommit, ClassifyConflict, ConfirmCommit, RetryCommit
  <2>2. CASE UploadClaim(r) \/ UploadBusy(r)
    BY <2>2 DEF UploadClaim, UploadBusy
  <2>3. CASE UploadStage(r) \/ UploadStageFails(r)
    BY <2>3 DEF UploadStage, UploadStageFails
  <2>4. CASE UploadPublish(r) \/ UploadPublishFails(r) \/ UploadPublishLost(r)
    BY <2>4 DEF UploadPublish, UploadPublishFails, UploadPublishLost, AppendTask, AfterFailure
  <2>5. CASE UploadCompensate(r) \/ UploadMark(r) \/ UploadRelease(r)
    BY <2>5 DEF UploadCompensate, UploadMark, UploadRelease
  <2>6. CASE UploadMarkFails(r) \/ ApiCrash(r)
    BY <2>6 DEF UploadMarkFails, ApiCrash
  <2>7. QED BY <1>2, <2>1, <2>2, <2>3, <2>4, <2>5, <2>6 DEF UStep
<1>3. CASE EnvAnswer \/ \E t \in Tasks : ClaimExpires(t)
  <2>1. UNCHANGED <<rphase, rtask, staged>>
    BY <1>3 DEF EnvAnswer, ClaimExpires, uploadVars
  <2>2. QED BY <2>1, StoredGrows
<1>4. ASSUME NEW r \in Reqs, UCall(r)
      PROVE  /\ Moved("stage", "publish") \cup Moved("stage", "compensate") \subseteq Stored'
             /\ Moved("compensate", "release") \subseteq Stored
             /\ \A s \in Reqs :
                  rphase'[s] = "compensate" \/ (ObjectMode /\ rphase'[s] = "publish")
                    => rtask'[s] \in Stored'
  BY <1>1, <1>4, StoredGrows
<1>5. ASSUME NEW r \in Reqs, UStep(r) \/ UploadPublishLost(r) \/ UploadMarkFails(r) \/ ApiCrash(r)
      PROVE  /\ Moved("stage", "publish") \cup Moved("stage", "compensate") \subseteq Stored'
             /\ Moved("compensate", "release") \subseteq Stored
             /\ \A s \in Reqs :
                  rphase'[s] = "compensate" \/ (ObjectMode /\ rphase'[s] = "publish")
                    => rtask'[s] \in Stored'
  BY <1>2, <1>5, StoredGrows
<1>6. QED BY <1>3, <1>4, <1>5 DEF UploadNext, UFault

\* The endpoints keep the invariant,
LEMMA ApiKeepsInv ==
  ASSUME CleanupInv, ApiStep, Track
  PROVE  CleanupInv'
<1>1. UploadNext /\ UNCHANGED <<expired, found, noted>>
  BY DEF ApiStep, jobVars
<1>2. UploadTypeOK'
  BY <1>1, UploadKeepsTypes DEF CleanupInv, CleanupTypes
<1>3. fresh' \subseteq fresh \cup Moved("stage", "publish") \cup Moved("stage", "compensate")
  BY DEF ApiStep
<1>4. listed' \subseteq listed \cup (Moved("compensate", "release") \ staged')
  BY DEF ApiStep
<1>5. fresh' \subseteq Tasks
  BY <1>3 DEF Moved, CleanupInv, CleanupTypes, UploadTypeOK, UTypeOK
<1>6. listed' \subseteq taken'
  BY <1>1, <1>4, RequestsStored, StoredGrows DEF CleanupInv, StoredInv, Stored
<1>7. QED
  BY <1>1, <1>2, <1>3, <1>5, <1>6, RequestsStored, StoredGrows DEF CleanupInv, CleanupTypes, StoredInv

\* and so does the job.
LEMMA JobKeepsInv ==
  ASSUME CleanupInv, NEW j \in Jobs, JobStep(j) \/ JobFault(j), Track
  PROVE  CleanupInv'
<1> USE DEF CleanupInv, CleanupTypes, StoredInv
<1>1. UNCHANGED <<uploadVars, fresh, expired>>
  BY DEF JobStep, JobFault, JobScan, JobDelete, JobCommit, JobAbort, JobDeleteFails
<1>2. /\ UNCHANGED <<dbVars, brokerVars>> /\ staged' \subseteq staged
  BY DEF JobStep, JobFault, JobScan, JobDelete, JobCommit, JobAbort, JobDeleteFails, storeVars,
         dbVars, brokerVars
<1>3. UploadTypeOK'
  BY <1>1, <1>2 DEF UploadTypeOK, StoreTypeOK, UTypeOK, uploadVars, dbVars, brokerVars
<1>4. /\ found' \in [Jobs -> SUBSET Tasks] /\ noted' \in [Jobs -> SUBSET Tasks]
      /\ \A i \in Jobs : found'[i] \subseteq Stored' /\ noted'[i] \subseteq taken'
      /\ listed' \subseteq taken'
  <2>1. CASE JobScan(j)
    BY <2>1, StoredGrows DEF JobScan, Candidates
  <2>2. ASSUME NEW t \in found[j], JobDelete(j, t)
        PROVE  <1>4!:
    <3>1. t \in Tasks /\ t \in taken'
      BY <2>2 DEF JobDelete, Track, Stored
    <3>2. QED BY <2>2, <3>1, StoredGrows DEF JobDelete
  <2>3. ASSUME NEW t \in found[j], JobDeleteFails(j, t)
        PROVE  <1>4!:
    BY <2>3, StoredGrows DEF JobDeleteFails
  <2>4. CASE JobCommit(j)
    BY <2>4, StoredGrows DEF JobCommit
  <2>5. CASE JobAbort(j)
    BY <2>5, StoredGrows DEF JobAbort
  <2>6. QED BY <2>1, <2>2, <2>3, <2>4, <2>5 DEF JobStep, JobFault
<1>5. \A r \in Reqs :
        rphase'[r] = "compensate" \/ (ObjectMode /\ rphase'[r] = "publish")
          => rtask'[r] \in Stored'
  BY <1>1, StoredGrows DEF uploadVars
<1>6. QED BY <1>1, <1>3, <1>4, <1>5, StoredGrows

\* The invariant holds at the start,
LEMMA InitCleanupInv == CleanupInit => CleanupInv
<1>1. CleanupInit => UploadTypeOK
  BY UploadInitTypes DEF CleanupInit
<1>2. CleanupInit => \A r \in Reqs : rphase[r] = "idle"
  BY DEF CleanupInit, UploadInit, UInit
<1>3. QED BY <1>1, <1>2 DEF CleanupInit, CleanupInv, CleanupTypes, StoredInv, Stored

\* and every step keeps it.
LEMMA NextKeepsCleanupInv ==
  ASSUME CleanupInv, [CleanupNext]_stagingVars
  PROVE  CleanupInv'
<1>1. CASE CleanupNext /\ ApiStep
  BY <1>1, ApiKeepsInv DEF CleanupNext
<1>2. ASSUME CleanupNext, NEW t \in Tasks, Expire(t)
      PROVE  CleanupInv'
  BY <1>2, StoredGrows
     DEF Expire, CleanupNext, CleanupInv, CleanupTypes, StoredInv, UploadTypeOK, StoreTypeOK,
         UTypeOK, storeVars, uploadVars, jobVars
<1>3. ASSUME CleanupNext, NEW j \in Jobs, JobStep(j) \/ JobFault(j)
      PROVE  CleanupInv'
  BY <1>3, JobKeepsInv DEF CleanupNext
<1>4. CASE UNCHANGED stagingVars
  BY <1>4 DEF stagingVars, cleanupVars, CleanupInv, CleanupTypes, StoredInv, Stored, UploadTypeOK,
         StoreTypeOK, UTypeOK, storeVars, uploadVars
<1>5. QED BY <1>1, <1>2, <1>3, <1>4 DEF CleanupNext

\* A key is listed as deleted, and by that spared by every later scan, only
\* if its archive has been deleted: neither a refused deletion nor an aborted
\* run nor a compensation that raises ever hides an archive from the job.
THEOREM ListingIsTruthful == CleanupSpec => []ListedMeansDeleted
<1>1. CleanupInv /\ [CleanupNext]_stagingVars => CleanupInv'
  BY NextKeepsCleanupInv
<1>2. CleanupInv => ListedMeansDeleted
  BY DEF CleanupInv, StoredInv, ListedMeansDeleted
<1>3. QED BY <1>1, <1>2, InitCleanupInv, PTL DEF CleanupSpec

(***************************************************************************)
(* Tasks with a message on its way.  Of a task that no requests have raced  *)
(* for, one message at most is ahead of the worker, and until it has been   *)
(* answered the task is queued, or its upload is about to say so.           *)
(***************************************************************************)
\* Offsets of the messages still to be processed, and those of one task.
Ahead == taskOffset + 1 .. Len(taskLog)
Due(t) == {k \in Ahead : taskLog[k].task = t}

CalmApi == KnownOnce /\ \A t \in Tasks : Fair(t) => InTurn(t, Due(t))

FlightInv == UploadTypeOK /\ Plain /\ (apiFaults = 0 => CalmApi)

\* Messages ahead are in the topic.
LEMMA AheadInTopic ==
  ASSUME UploadTypeOK
  PROVE  Ahead \subseteq DOMAIN taskLog
<1>1. taskLog \in Seq(TaskMsg) /\ taskOffset \in Nat /\ Len(taskLog) \in Nat
  BY DEF UploadTypeOK, StoreTypeOK
<1>2. QED BY <1>1 DEF Ahead

\* A request keeps what it relies on,
LEMMA RequestKeepsCalm ==
  ASSUME UploadTypeOK, UploadTypeOK', CalmApi, NEW r \in Reqs, UCall(r) \/ UStep(r)
  PROVE  CalmApi'
<1>1. KnownOnce' /\ KnownOnce
  BY CallKeepsKnown, StepKeepsKnown DEF CalmApi
<1>2. /\ taskOffset' = taskOffset
      /\ \A k \in DOMAIN taskLog : k \in DOMAIN taskLog' /\ taskLog'[k] = taskLog[k]
      /\ \A k \in DOMAIN taskLog' : k \notin DOMAIN taskLog =>
           k = Len(taskLog) + 1 /\ UploadPublish(r) /\ taskLog'[k].task = rtask[r]
  BY RequestsPublish
<1>3. Ahead \subseteq DOMAIN taskLog /\ Ahead' \subseteq DOMAIN taskLog'
  BY AheadInTopic DEF Ahead, UploadTypeOK, StoreTypeOK
<1>4. \A k \in Ahead' : k \in DOMAIN taskLog => k \in Ahead
  <2>1. taskLog \in Seq(TaskMsg) /\ taskOffset \in Nat /\ Len(taskLog) \in Nat
        /\ DOMAIN taskLog = 1 .. Len(taskLog)
    BY DEF UploadTypeOK, StoreTypeOK
  <2>2. QED BY <1>2, <2>1 DEF Ahead
<1>5. ASSUME NEW t \in Tasks, Fair(t)' PROVE InTurn(t, Due(t))'
  <2>1. Fair(t)
    BY <1>5, RacedGrows DEF Fair, ItemsOf
  <2>2. PICK D, E : D = Due(t) /\ E = Due(t)'
    OBVIOUS
  <2>3. InTurn(t, D)
    BY <2>1, <2>2 DEF CalmApi
  <2>4. D # {} => Known(t)
    BY <1>1, <1>3, <2>2 DEF Due, KnownOnce
  <2>5. PICK n : n = Len(taskLog) + 1
    OBVIOUS
  <2>6. \A k \in E : \/ k \in D
                     \/ k = n /\ UploadPublish(r) /\ rtask[r] = t
    BY <1>2, <1>3, <1>4, <2>2, <2>5 DEF Due
  <2>7. E \subseteq D \cup {n} /\ (n \in E \ D => UploadPublish(r) /\ rtask[r] = t)
    BY <2>6
  <2>8. InTurn(t, E)'
    BY <1>1, <1>5, <2>3, <2>4, <2>7, RequestKeepsTurn
  <2>9. QED BY <2>2, <2>8 DEF InTurn
<1>6. QED BY <1>1, <1>5 DEF CalmApi

\* and an answer takes the one message of its task off the road.
LEMMA AnswerKeepsCalm ==
  ASSUME UploadTypeOK, CalmApi, EnvAnswer
  PROVE  CalmApi'
<1> DEFINE n == taskOffset + 1
<1>1. /\ n \in Ahead /\ n \in DOMAIN taskLog /\ \A k \in Ahead' : k \in Ahead /\ k # n
      /\ taskLog' = taskLog
  <2>1. taskOffset \in Nat /\ Len(taskLog) \in Nat /\ taskOffset < Len(taskLog)
        /\ taskOffset' = taskOffset + 1 /\ taskLog' = taskLog
        /\ DOMAIN taskLog = 1 .. Len(taskLog)
    BY DEF EnvAnswer, UploadTypeOK, StoreTypeOK
  <2>2. QED BY <2>1 DEF Ahead
<1>2. /\ UNCHANGED <<rphase, rtask, rseen, raced>>
      /\ \A u \in Tasks : u # taskLog[n].task => status'[u] = status[u]
      /\ \A i \in Items : itemStatus'[i] = "none" => itemStatus[i] = "none"
  BY DEF EnvAnswer, UploadTypeOK, StoreTypeOK, uploadVars
<1> HIDE DEF n
<1>3. KnownOnce'
  BY <1>1, <1>2, OutcomeKeepsKnown DEF CalmApi
<1>4. ASSUME NEW t \in Tasks, Fair(t)' PROVE InTurn(t, Due(t))'
  <2>1. PICK D, E : D = Due(t) /\ E = Due(t)'
    OBVIOUS
  <2>2. InTurn(t, D)
    BY <1>2, <1>4, <2>1 DEF CalmApi, Fair, ItemsOf
  <2>3. E \subseteq D
    BY <1>1, <2>1 DEF Due
  <2>4. taskLog[n].task = t => n \in D /\ n \notin E
    BY <1>1, <2>1 DEF Due
  <2>5. status'[t] = status[t] \/ (D # {} /\ E = {})
    BY <1>2, <2>2, <2>3, <2>4 DEF InTurn
  <2>6. InTurn(t, E)'
    BY <1>2, <2>2, <2>3, <2>5, OutcomeKeepsTurn
  <2>7. QED BY <2>1, <2>6 DEF InTurn
<1>5. QED BY <1>3, <1>4 DEF CalmApi

\* Steps that leave the tasks, the topic and the requests alone keep it,
LEMMA SameFlights ==
  ASSUME CalmApi,
         UNCHANGED <<status, itemStatus, taskLog, taskOffset, rphase, rtask, rseen, raced>>
  PROVE  CalmApi'
<1>1. KnownOnce'
  BY DEF CalmApi, KnownOnce, Known, ItemsOf
<1>2. \A t : (Fair(t)' <=> Fair(t)) /\ Due(t)' = Due(t) /\ (Marking(t)' <=> Marking(t))
  BY DEF Fair, Due, Ahead, Marking, ItemsOf
<1>3. QED BY <1>1, <1>2 DEF CalmApi, InTurn

\* Every step of the endpoints on their own keeps the invariant.
LEMMA ApiKeepsFlights ==
  ASSUME FlightInv, UploadNext
  PROVE  FlightInv'
<1>1. UploadTypeOK /\ UploadTypeOK' /\ apiFaults \in Nat
  BY UploadKeepsTypes DEF FlightInv, UploadTypeOK, UTypeOK
<1>2. ASSUME apiFaults' = 0 PROVE CalmApi'
  <2>1. ASSUME NEW r \in Reqs, UploadPublishLost(r) \/ UploadMarkFails(r) \/ ApiCrash(r)
        PROVE  FALSE
    BY <1>1, <1>2, <2>1 DEF UploadPublishLost, UploadMarkFails, ApiCrash
  <2>2. ASSUME NEW r \in Reqs, UCall(r) \/ UStep(r) PROVE CalmApi'
    <3>1. apiFaults = 0
      BY <1>2, <2>2 DEF UCall, ClassifyRead, ConfirmRead, RetryRead, UploadRead, Begin, UStep,
        ClassifyCommit, ClassifyConflict, ConfirmCommit, RetryCommit, UploadClaim, UploadBusy,
        UploadStage, UploadStageFails, UploadPublish, UploadPublishFails, UploadCompensate,
        UploadMark, UploadRelease
    <3>2. QED BY <1>1, <2>2, <3>1, RequestKeepsCalm DEF FlightInv
  <2>3. ASSUME EnvAnswer PROVE CalmApi'
    <3>1. apiFaults = 0
      BY <1>2, <2>3 DEF EnvAnswer, uploadVars
    <3>2. QED BY <1>1, <2>3, <3>1, AnswerKeepsCalm DEF FlightInv
  <2>4. ASSUME NEW t \in Tasks, ClaimExpires(t) PROVE CalmApi'
    <3>1. UNCHANGED <<status, itemStatus, taskLog, taskOffset, rphase, rtask, rseen, raced, apiFaults>>
      BY <2>4 DEF ClaimExpires, requestVars, loadedVars, storeVars
    <3>2. QED BY <1>2, <3>1, SameFlights DEF FlightInv
  <2>5. QED BY <2>1, <2>2, <2>3, <2>4 DEF UploadNext, UFault
<1>3. Plain'
  <2>1. CASE EnvAnswer
    <3>1. UNCHANGED <<ritems, rtask, taskLog>>
      BY <2>1 DEF EnvAnswer, uploadVars
    <3>2. QED BY <3>1 DEF Plain, FlightInv, ItemsOf
  <2>2. QED BY <2>1, RequestsKeepPlain DEF UploadNext, FlightInv
<1>4. QED BY <1>1, <1>2, <1>3 DEF FlightInv

\* So does every step next to them, which leaves their state alone.
LEMMA CleanupKeepsFlights ==
  ASSUME FlightInv, [CleanupNext]_stagingVars
  PROVE  FlightInv'
<1>1. CASE ApiStep
  BY <1>1, ApiKeepsFlights DEF ApiStep
<1>2. CASE (\E t \in Tasks : Expire(t)) \/ (\E j \in Jobs : JobStep(j) \/ JobFault(j))
           \/ UNCHANGED stagingVars
  <2>1. UNCHANGED uploadVars /\ UNCHANGED <<dbVars, brokerVars>> /\ staged' \subseteq staged
    BY <1>2 DEF Expire, JobStep, JobFault, JobScan, JobDelete, JobCommit, JobAbort, JobDeleteFails,
           stagingVars, storeVars, dbVars, brokerVars
  <2>2. UploadTypeOK'
    BY <2>1 DEF FlightInv, UploadTypeOK, StoreTypeOK, UTypeOK, uploadVars, dbVars, brokerVars
  <2>3. UNCHANGED <<status, itemStatus, taskLog, taskOffset, rphase, rtask, rseen, raced, apiFaults>>
    BY <2>1 DEF uploadVars, dbVars, brokerVars
  <2>4. Plain'
    BY <2>1 DEF uploadVars, brokerVars, Plain, FlightInv, ItemsOf
  <2>5. QED BY <2>2, <2>3, <2>4, SameFlights DEF FlightInv
<1>3. QED BY <1>1, <1>2 DEF CleanupNext

\* While no request has died or lost a reply, a scan of the clean-up job
\* picks no task with items still to be delivered, whatever requests run side
\* by side, unless one of them has overtaken another: such a task is "queued"
\* or about to be, never over.
THEOREM ScansSpare == CleanupSpec => ScanSparesTasksInFlight
<1> DEFINE Spares == \A j \in Jobs : \A t \in (found'[j] \ found[j]) \ raced : \A k \in DOMAIN taskLog :
                       apiFaults = 0 /\ InFlight(k) /\ taskLog[k].items # {} => taskLog[k].task # t
<1>1. CleanupInit => FlightInv
  <2> SUFFICES ASSUME CleanupInit PROVE FlightInv
    OBVIOUS
  <2>1. UploadTypeOK
    BY UploadInitTypes DEF CleanupInit
  <2>2. /\ \A r \in Reqs : rphase[r] = "idle" /\ rseen[r] = "draft" /\ ritems[r] = {}
        /\ \A t \in Tasks : status[t] = "draft"
        /\ taskLog = <<>> /\ taskOffset = 0
    BY DEF CleanupInit, UploadInit, UInit, StoreInit
  <2>3. \A t : Due(t) = {}
    <3>1. Ahead = {}
      BY <2>2 DEF Ahead
    <3>2. QED BY <3>1 DEF Due
  <2>4. QED BY <2>1, <2>2, <2>3 DEF FlightInv, Plain, CalmApi, KnownOnce, InTurn, Sending
<1>2. FlightInv /\ [CleanupNext]_stagingVars => FlightInv'
  BY CleanupKeepsFlights
<1>3. FlightInv /\ CleanupInv /\ [CleanupNext]_stagingVars => Spares
  <2> SUFFICES ASSUME FlightInv, CleanupInv, [CleanupNext]_stagingVars,
                      NEW j \in Jobs, NEW t \in (found'[j] \ found[j]) \ raced,
                      NEW k \in DOMAIN taskLog,
                      apiFaults = 0, InFlight(k), taskLog[k].items # {}
               PROVE  taskLog[k].task # t
    OBVIOUS
  <2>1. t \in Candidates
    <3>1. found \in [Jobs -> SUBSET Tasks]
      BY DEF CleanupInv, CleanupTypes
    <3>2. PICK i \in Jobs : JobScan(i)
      BY <3>1 DEF CleanupNext, ApiStep, Expire, JobStep, JobFault, JobDelete, JobCommit, JobAbort,
        JobDeleteFails, stagingVars, cleanupVars, jobVars
    <3>3. QED BY <3>1, <3>2 DEF JobScan
  <2>2. SUFFICES ASSUME taskLog[k].task = t PROVE FALSE
    OBVIOUS
  <2>3. k \in Due(t)
    BY <2>2 DEF InFlight, Due, Ahead
  <2>4. t \in Tasks /\ status[t] \in Terminal
    BY <2>1 DEF Candidates, CleanupInv, CleanupTypes
  <2>5. Fair(t)
    BY <2>2 DEF Fair, Plain, FlightInv
  <2>6. status[t] \in {"queued", "confirmed"}
    BY <2>3, <2>4, <2>5 DEF FlightInv, CalmApi, InTurn
  <2>7. QED BY <2>4, <2>6 DEF Terminal
<1>4. CleanupInv /\ [CleanupNext]_stagingVars => CleanupInv'
  BY NextKeepsCleanupInv
<1>5. QED BY <1>1, <1>2, <1>3, <1>4, InitCleanupInv, PTL DEF CleanupSpec, ScanSparesTasksInFlight
=============================================================================
