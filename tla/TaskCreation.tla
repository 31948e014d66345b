---------------------------- MODULE TaskCreation ----------------------------
(***************************************************************************)
(* create_task: concurrent calls with idempotency keys.  A call takes a     *)
(* claim in Redis, looks its key up, inserts the row (the unique key of the *)
(* table decides who may), writes the archive and the extracted files, and  *)
(* commits.  Claims expire, calls fail and processes die on the way.        *)
(***************************************************************************)
EXTENDS Naturals, FiniteSets

CONSTANTS
  Keys,           \* pairs of a tenant and an idempotency key
  Callers,        \* clients; each repeats one call
  KeyOf,          \* the key a client uses
  ClaimNames,     \* names in Redis
  ClaimOf,        \* _guard_key: cleaned and cut to 128 characters, so that
                  \* two keys may share a name
  Nobody,
  GuardEnabled,   \* redis_idempotency_enabled
  ShortTTL,       \* a call may take longer than the TTL of its claim
  MaxIds,         \* bound on the task ids that gen_id hands out
  MaxCreateFaults \* bound on errors and exits

ASSUME CreationAssumption ==
  /\ KeyOf \in [Callers -> Keys]
  /\ ClaimOf \in [Keys -> ClaimNames]
  /\ Nobody \notin Callers
  /\ GuardEnabled \in BOOLEAN
  /\ ShortTTL \in BOOLEAN
  /\ MaxIds \in Nat
  /\ MaxCreateFaults \in Nat

VARIABLES
  phase,   \* what the call of each client does next
  id,      \* the task id of its row, 0 before the insert
  claim,   \* the holder of each claim
  rows,    \* committed rows of the table task: <<key, id>>
  writer,  \* the open session that has inserted a row with the key
  archive, \* per task id, the files in its directory
  nextId,  \* the next fresh id
  answers, \* <<key, id>> of the replies 200 and 201
  faults   \* faults so far

vars == <<phase, id, claim, rows, writer, archive, nextId, answers, faults>>

Phase == {"idle", "claim", "look", "insert", "files", "commit",
          "reply", "release", "close"}
Ids == 1 .. MaxIds
Files == {"none", "part", "whole"}

Init ==
  /\ phase = [c \in Callers |-> "idle"]
  /\ id = [c \in Callers |-> 0]
  /\ claim = [n \in ClaimNames |-> Nobody]
  /\ rows = {}
  /\ writer = [k \in Keys |-> Nobody]
  /\ archive = [i \in Ids |-> "none"]
  /\ nextId = 1
  /\ answers = {}
  /\ faults = 0

Goto(c, p, q) == phase[c] = p /\ phase' = [phase EXCEPT ![c] = q]
Fault == faults < MaxCreateFaults /\ faults' = faults + 1

\* A committed row has the key of client c.
Exists(c) == \E i \in Ids : <<KeyOf[c], i>> \in rows
Name(c) == ClaimOf[KeyOf[c]]

Call(c) ==
  /\ Goto(c, "idle", "claim")
  /\ UNCHANGED <<id, claim, rows, writer, archive, nextId, answers, faults>>

\* SET NX EX of the claim (always granted when the guard is off).
TakeClaim(c) ==
  /\ Goto(c, "claim", "look")
  /\ GuardEnabled => claim[Name(c)] = Nobody
  /\ claim' = IF GuardEnabled THEN [claim EXCEPT ![Name(c)] = c] ELSE claim
  /\ UNCHANGED <<id, rows, writer, archive, nextId, answers, faults>>

\* 409: another call, perhaps of another key, holds the claim.
Busy(c) ==
  /\ Goto(c, "claim", "idle")
  /\ GuardEnabled /\ claim[Name(c)] # Nobody
  /\ UNCHANGED <<id, claim, rows, writer, archive, nextId, answers, faults>>

\* get_by_idempotency_key finds a committed row: 200 with its id.
LookUpFinds(c) ==
  /\ Goto(c, "look", "release")
  /\ \E i \in Ids : /\ <<KeyOf[c], i>> \in rows
                    /\ answers' = answers \cup {<<KeyOf[c], i>>}
  /\ UNCHANGED <<id, claim, rows, writer, archive, nextId, faults>>

\* It finds none; _prepare_folder_upload reads the files and packs the
\* archive in memory,
LookUpMisses(c) ==
  /\ Goto(c, "look", "insert")
  /\ ~Exists(c)
  /\ UNCHANGED <<id, claim, rows, writer, archive, nextId, answers, faults>>

\* or refuses them: 400 or 413.
PrepareRefuses(c) ==
  /\ Goto(c, "look", "release")
  /\ ~Exists(c)
  /\ Fault
  /\ UNCHANGED <<id, claim, rows, writer, archive, nextId, answers>>

\* Mutant of Insert: the table has no unique key.
InsertAlways(c) ==
  /\ Goto(c, "insert", "files")
  /\ nextId \in Ids
  /\ id' = [id EXCEPT ![c] = nextId]
  /\ nextId' = nextId + 1
  /\ writer' = [writer EXCEPT ![KeyOf[c]] = c]
  /\ UNCHANGED <<claim, rows, archive, answers, faults>>

\* TaskRepo.create: INSERT, flushed. The unique key admits one open insert of
\* a key, and none once a row with it is committed.
Insert(c) ==
  /\ Goto(c, "insert", "files")
  /\ ~Exists(c) /\ writer[KeyOf[c]] = Nobody
  /\ nextId \in Ids
  /\ id' = [id EXCEPT ![c] = nextId]
  /\ nextId' = nextId + 1
  /\ writer' = [writer EXCEPT ![KeyOf[c]] = c]
  /\ UNCHANGED <<claim, rows, archive, answers, faults>>

\* Mutant of InsertConflict: the files are written before the insert.
InsertConflictLate(c) ==
  /\ Goto(c, "insert", "release")
  /\ Exists(c)
  /\ nextId \in Ids
  /\ nextId' = nextId + 1
  /\ archive' = [archive EXCEPT ![nextId] = "whole"]
  /\ UNCHANGED <<id, claim, rows, writer, answers, faults>>

\* A row with the key has been committed meanwhile: the flush raises.
InsertConflict(c) ==
  /\ Goto(c, "insert", "release")
  /\ Exists(c)
  /\ UNCHANGED <<id, claim, rows, writer, archive, nextId, answers, faults>>

\* The insert waits for another open one and runs into the lock timeout.
InsertTimesOut(c) ==
  /\ Goto(c, "insert", "release")
  /\ writer[KeyOf[c]] # Nobody
  /\ Fault
  /\ UNCHANGED <<id, claim, rows, writer, archive, nextId, answers>>

\* The archive is written, then checked against the limits and extracted.
WriteFiles(c) ==
  /\ Goto(c, "files", "commit")
  /\ archive' = [archive EXCEPT ![id[c]] = "whole"]
  /\ UNCHANGED <<id, claim, rows, writer, nextId, answers, faults>>

\* Mutant of WriteFails: the row is kept when the files are not.
WriteFailsKeepsRow(c) ==
  /\ Goto(c, "files", "release")
  /\ Fault
  /\ \E f \in Files : archive' = [archive EXCEPT ![id[c]] = f]
  /\ rows' = rows \cup {<<KeyOf[c], id[c]>>}
  /\ writer' = [writer EXCEPT ![KeyOf[c]] = Nobody]
  /\ UNCHANGED <<id, claim, nextId, answers>>

\* Writing or extracting raises: the directory stays, in whatever state.
WriteFails(c) ==
  /\ Goto(c, "files", "release")
  /\ Fault
  /\ \E f \in Files : archive' = [archive EXCEPT ![id[c]] = f]
  /\ UNCHANGED <<id, claim, rows, writer, nextId, answers>>

\* temp_dir is set and the session committed.
Commit(c) ==
  /\ Goto(c, "commit", "reply")
  /\ rows' = rows \cup {<<KeyOf[c], id[c]>>}
  /\ writer' = [writer EXCEPT ![KeyOf[c]] = Nobody]
  /\ UNCHANGED <<id, claim, archive, nextId, answers, faults>>

\* The commit raises; the database has carried it out or has rolled back.
CommitFails(c) ==
  /\ Goto(c, "commit", "release")
  /\ Fault
  /\ rows' \in {rows, rows \cup {<<KeyOf[c], id[c]>>}}
  /\ writer' = [writer EXCEPT ![KeyOf[c]] = Nobody]
  /\ UNCHANGED <<id, claim, archive, nextId, answers>>

\* 201 with the id.
Reply(c) ==
  /\ Goto(c, "reply", "release")
  /\ answers' = answers \cup {<<KeyOf[c], id[c]>>}
  /\ UNCHANGED <<id, claim, rows, writer, archive, nextId, faults>>

\* finally: the script deletes the claim if it is still ours.
Release(c) ==
  /\ Goto(c, "release", "close")
  /\ claim' = IF claim[Name(c)] = c THEN [claim EXCEPT ![Name(c)] = Nobody] ELSE claim
  /\ UNCHANGED <<id, rows, writer, archive, nextId, answers, faults>>

\* Mutant of Close: the session goes back to the pool as it is.
CloseKeepsLocks(c) ==
  /\ Goto(c, "close", "idle")
  /\ id' = [id EXCEPT ![c] = 0]
  /\ UNCHANGED <<claim, rows, writer, archive, nextId, answers, faults>>

\* What the database holds for a client without its session.
WriterWithout(c) == [k \in Keys |-> IF writer[k] = c THEN Nobody ELSE writer[k]]

\* The session dependency ends after the handler, and rolls back.
Close(c) ==
  /\ Goto(c, "close", "idle")
  /\ id' = [id EXCEPT ![c] = 0]
  /\ writer' = WriterWithout(c)
  /\ UNCHANGED <<claim, rows, archive, nextId, answers, faults>>

\* The process dies in the middle of the call.
Crash(c) ==
  /\ phase[c] # "idle"
  /\ Fault
  /\ phase' = [phase EXCEPT ![c] = "idle"]
  /\ id' = [id EXCEPT ![c] = 0]
  /\ writer' = WriterWithout(c)
  /\ \E f \in Files : archive' =
       IF phase[c] = "files" THEN [archive EXCEPT ![id[c]] = f] ELSE archive
  /\ UNCHANGED <<claim, rows, nextId, answers>>

\* Mutant of ClaimExpires: the claim is set without a TTL.
ClaimNeverExpires(n) == FALSE

\* The TTL runs out: after its holder has died or, if calls may be slow,
\* under a holder that is still at work.
ClaimExpires(n) ==
  /\ claim[n] # Nobody
  /\ ShortTTL \/ phase[claim[n]] \in {"idle", "claim"}
  /\ claim' = [claim EXCEPT ![n] = Nobody]
  /\ UNCHANGED <<phase, id, rows, writer, archive, nextId, answers, faults>>

Step(c) ==
  \/ TakeClaim(c) \/ Busy(c) \/ LookUpFinds(c) \/ LookUpMisses(c)
  \/ Insert(c) \/ InsertConflict(c) \/ WriteFiles(c) \/ Commit(c) \/ Reply(c)
  \/ Release(c) \/ Close(c)

Fails(c) ==
  PrepareRefuses(c) \/ InsertTimesOut(c) \/ WriteFails(c) \/ CommitFails(c) \/ Crash(c)

Next ==
  \/ \E c \in Callers : Call(c) \/ Step(c) \/ Fails(c)
  \/ \E n \in ClaimNames : ClaimExpires(n)

\* A client repeats its call; a call that has begun goes on; Redis expires a
\* claim by itself.
Spec ==
  /\ Init /\ [][Next]_vars
  /\ \A c \in Callers : WF_vars(Call(c)) /\ WF_vars(Step(c))
  /\ \A n \in ClaimNames : WF_vars(ClaimExpires(n))
-----------------------------------------------------------------------------
(***************************************************************************)
(* Properties                                                              *)
(***************************************************************************)

Writing == {"files", "commit"}

\* Types; an insert is open only in the session of a call at work, and a call
\* that writes files holds the only open insert of its key.
CreationTypeOK ==
  /\ phase \in [Callers -> Phase]
  /\ id \in [Callers -> 0 .. MaxIds]
  /\ claim \in [ClaimNames -> Callers \cup {Nobody}]
  /\ rows \subseteq Keys \X Ids
  /\ writer \in [Keys -> Callers \cup {Nobody}]
  /\ archive \in [Ids -> Files]
  /\ nextId \in 1 .. MaxIds + 1
  /\ answers \subseteq Keys \X Ids
  /\ faults \in 0 .. MaxCreateFaults
  /\ \A k \in Keys : writer[k] # Nobody =>
       phase[writer[k]] \in Writing \cup {"release", "close"}
  /\ \A c \in Callers : phase[c] \in Writing => writer[KeyOf[c]] = c

\* Two replies name the same task exactly if they answer the same key:
\* repeated and concurrent calls never create a second task, and keys that
\* share the name of their claim never share a task.
RepliesAgree ==
  \A a, b \in answers : a[1] = b[1] <=> a[2] = b[2]

\* A task that exists has its archive, whole: classify and staging read it.
RowsHaveArchive == \A r \in rows : archive[r[2]] = "whole"

\* A directory without a row, and without a call that is filling it, is left
\* behind only by a failure: calls that lose a race leave no files.
LeftoversFromFaults ==
  LET owned == {r[2] : r \in rows} \cup {id[c] : c \in {d \in Callers : phase[d] # "idle"}}
  IN Cardinality({i \in Ids : archive[i] # "none"} \ owned) <= faults

\* Every key that clients keep calling with is answered in the end, whatever
\* failed before: the claim and the open insert of a call that died do not
\* stand in the way. Keys that share a claim name are left out: the calls of
\* one may keep turning the other away (409).
OwnClaim(k) == \A j \in Keys \ {k} : ClaimOf[j] # ClaimOf[k]

EveryKeyServed ==
  \A c \in Callers : OwnClaim(KeyOf[c]) => <>(\E i \in Ids : <<KeyOf[c], i>> \in answers)
=============================================================================
