------------------------- MODULE TaskCreationProofs -------------------------
(***************************************************************************)
(* Theorems about create_task, for any number of clients, keys, names of    *)
(* claims (shared or not), expiries and failures: types, one task per key,  *)
(* no task without its archive, and no directory without a task but by a    *)
(* failure.                                                                 *)
(***************************************************************************)
EXTENDS TaskCreation, FiniteSetTheorems, TLAPS

\* What a call holds while it is at work: its own key only; while it writes,
\* a fresh id that no row and no other writer has, for a key without a row;
\* then a whole archive, and at last a committed row.
SessionInv ==
  /\ \A c \in Callers : \A k \in Keys : writer[k] = c => k = KeyOf[c]
  /\ \A c \in Callers : phase[c] \in Writing =>
       /\ id[c] \in Ids /\ id[c] < nextId
       /\ ~Exists(c)
       /\ \A k \in Keys : <<k, id[c]>> \notin rows
  /\ \A c, d \in Callers :
       phase[c] \in Writing /\ phase[d] \in Writing /\ c # d => id[c] # id[d]
  /\ \A c \in Callers : phase[c] = "commit" => archive[id[c]] = "whole"
  /\ \A c \in Callers : phase[c] = "reply" => <<KeyOf[c], id[c]>> \in rows

\* Rows match keys with ids one to one, and have whole archives.
RowInv ==
  /\ \A k \in Keys : \A i \in Ids :
       <<k, i>> \in rows => i < nextId /\ archive[i] = "whole"
  /\ \A k, l \in Keys : \A i, j \in Ids :
       <<k, i>> \in rows /\ <<l, j>> \in rows => (k = l <=> i = j)
  /\ answers \subseteq rows

CreationInv == CreationTypeOK /\ SessionInv /\ RowInv

\* One step of one client keeps the types.
LEMMA CallKeepsTypes ==
  ASSUME CreationInv, NEW c \in Callers, Call(c) \/ Step(c) \/ Fails(c)
  PROVE  CreationTypeOK'
<1> USE CreationAssumption
<1> USE DEF CreationInv, CreationTypeOK, Phase, Ids, Files, Writing, Goto, Fault
<1>1. CASE Call(c)
  BY <1>1 DEF Call
<1>2. CASE TakeClaim(c)
  BY <1>2 DEF TakeClaim, Name
<1>3. CASE Busy(c)
  BY <1>3 DEF Busy
<1>4. CASE LookUpFinds(c)
  BY <1>4 DEF LookUpFinds
<1>5. CASE LookUpMisses(c)
  BY <1>5 DEF LookUpMisses
<1>6. CASE PrepareRefuses(c)
  BY <1>6 DEF PrepareRefuses
<1>7. CASE Insert(c)
  BY <1>7 DEF Insert
<1>8. CASE InsertConflict(c)
  BY <1>8 DEF InsertConflict
<1>9. CASE InsertTimesOut(c)
  BY <1>9 DEF InsertTimesOut
<1>10. CASE WriteFiles(c)
  BY <1>10 DEF WriteFiles, SessionInv
<1>11. CASE WriteFails(c)
  BY <1>11 DEF WriteFails, SessionInv
<1>12. CASE Commit(c)
  BY <1>12 DEF Commit, SessionInv
<1>13. CASE CommitFails(c)
  BY <1>13 DEF CommitFails, SessionInv
<1>14. CASE Reply(c)
  BY <1>14 DEF Reply, SessionInv
<1>15. CASE Release(c)
  BY <1>15 DEF Release, Name
<1>16. CASE Close(c)
  BY <1>16 DEF Close, WriterWithout
<1>17. CASE Crash(c)
  <2>1. archive' \in [Ids -> Files]
    BY <1>17 DEF Crash, SessionInv
  <2>2. /\ phase' \in [Callers -> Phase] /\ id' \in [Callers -> 0 .. MaxIds]
        /\ writer' \in [Keys -> Callers \cup {Nobody}] /\ faults' \in 0 .. MaxCreateFaults
        /\ UNCHANGED <<claim, rows, nextId, answers>>
    BY <1>17 DEF Crash, WriterWithout
  <2>3. \A k \in Keys : writer'[k] # c /\ (writer'[k] # Nobody => writer'[k] = writer[k])
    BY <1>17 DEF Crash, WriterWithout
  <2>4. \A d \in Callers \ {c} : phase'[d] = phase[d]
    BY <1>17 DEF Crash
  <2>5. \A k \in Keys : writer'[k] # Nobody =>
          phase'[writer'[k]] \in Writing \cup {"release", "close"}
    BY <2>2, <2>3, <2>4
  <2>6. \A d \in Callers : phase'[d] \in Writing => writer'[KeyOf[d]] = d
    BY <1>17 DEF Crash, WriterWithout
  <2>7. QED BY <2>1, <2>2, <2>5, <2>6
<1>18. QED
  BY <1>1, <1>2, <1>3, <1>4, <1>5, <1>6, <1>7, <1>8, <1>9, <1>10, <1>11, <1>12,
     <1>13, <1>14, <1>15, <1>16, <1>17 DEF Step, Fails

\* The row of client c is committed; the call goes on at phase q.
CommitOf(c, q) ==
  /\ phase[c] = "commit" /\ phase' = [phase EXCEPT ![c] = q]
  /\ rows' = rows \cup {<<KeyOf[c], id[c]>>}
  /\ writer' = [writer EXCEPT ![KeyOf[c]] = Nobody]
  /\ UNCHANGED <<id, archive, nextId, answers>>

\* The new row is the only one with its key and the only one with its id, and
\* no other call was about to commit either.
LEMMA RowCommitted ==
  ASSUME CreationInv, NEW c \in Callers, NEW q \in {"reply", "release"}, CommitOf(c, q)
  PROVE  SessionInv' /\ RowInv'
<1> USE CreationAssumption
<1> USE DEF CreationInv, CreationTypeOK, Writing
<1> DEFINE k == KeyOf[c]
           i == id[c]
<1>1. /\ k \in Keys /\ i \in Ids /\ i < nextId /\ archive[i] = "whole"
      /\ \A j \in Ids : <<k, j>> \notin rows
      /\ \A l \in Keys : <<l, i>> \notin rows
  BY DEF CommitOf, SessionInv, Exists
<1>2. \A d \in Callers : d # c /\ phase[d] \in Writing => KeyOf[d] # k /\ id[d] # i
  BY DEF CommitOf, SessionInv
<1>3. \A l \in Keys : \A j \in Ids : <<l, j>> \in rows' <=> (<<l, j>> \in rows \/ (l = k /\ j = i))
  BY <1>1 DEF CommitOf
<1>4. /\ phase' = [phase EXCEPT ![c] = q] /\ i = id[c] /\ k = KeyOf[c]
      /\ writer' = [writer EXCEPT ![k] = Nobody]
      /\ UNCHANGED <<id, archive, nextId, answers>>
      /\ rows \subseteq rows'
  BY DEF CommitOf
<1> HIDE DEF k, i
<1>5. RowInv'
  <2>1. \A l \in Keys : \A j \in Ids : <<l, j>> \in rows' => j < nextId' /\ archive'[j] = "whole"
    BY <1>1, <1>3, <1>4 DEF RowInv
  <2>2. \A l, m \in Keys : \A j, n \in Ids :
          <<l, j>> \in rows' /\ <<m, n>> \in rows' => (l = m <=> j = n)
    BY <1>1, <1>3 DEF RowInv
  <2>3. answers' \subseteq rows'
    BY <1>4 DEF RowInv
  <2>4. QED BY <2>1, <2>2, <2>3 DEF RowInv
<1>6. SessionInv'
  <2>1. \A d \in Callers : \A l \in Keys : writer'[l] = d => l = KeyOf[d]
    BY <1>1, <1>4 DEF SessionInv
  <2>2. \A d \in Callers : phase'[d] \in Writing => d # c /\ phase[d] = phase'[d]
    BY <1>4
  <2>3. ASSUME NEW d \in Callers, phase'[d] \in Writing
        PROVE  /\ id'[d] \in Ids /\ id'[d] < nextId'
               /\ \A j \in Ids : <<KeyOf[d], j>> \notin rows'
               /\ \A l \in Keys : <<l, id'[d]>> \notin rows'
    <3>1. d # c /\ phase[d] \in Writing
      BY <2>2, <2>3
    <3>2. /\ id[d] \in Ids /\ id[d] < nextId
          /\ \A j \in Ids : <<KeyOf[d], j>> \notin rows
          /\ \A l \in Keys : <<l, id[d]>> \notin rows
      BY <3>1 DEF SessionInv, Exists
    <3>3. KeyOf[d] \in Keys /\ KeyOf[d] # k /\ id[d] # i
      BY <3>1, <1>2
    <3>4. QED BY <3>2, <3>3, <1>3, <1>4
  <2>4. \A d, e \in Callers :
          phase'[d] \in Writing /\ phase'[e] \in Writing /\ d # e => id'[d] # id'[e]
    BY <2>2, <1>4 DEF SessionInv
  <2>5. \A d \in Callers : phase'[d] = "commit" => archive'[id'[d]] = "whole"
    BY <2>2, <1>4 DEF SessionInv
  <2>6. \A d \in Callers : phase'[d] = "reply" => <<KeyOf[d], id'[d]>> \in rows'
    BY <1>4, <1>1, <1>3 DEF SessionInv
  <2>7. QED BY <2>1, <2>3, <2>4, <2>5, <2>6 DEF SessionInv, Exists
<1>7. QED BY <1>5, <1>6

\* A committed row keeps its place: the step of a client that adds none and
\* writes no files but its own keeps what is said of rows and sessions.
LEMMA CallKeepsRows ==
  ASSUME CreationInv, NEW c \in Callers, Call(c) \/ Step(c) \/ Fails(c)
  PROVE  SessionInv' /\ RowInv'
<1> USE CreationAssumption
<1> USE DEF CreationInv, CreationTypeOK, Phase, Ids, Files, Writing, Goto, SessionInv,
            RowInv, Exists
<1>1. CASE Call(c)
  BY <1>1 DEF Call
<1>2. CASE TakeClaim(c)
  BY <1>2 DEF TakeClaim
<1>3. CASE Busy(c)
  BY <1>3 DEF Busy
<1>4. CASE LookUpFinds(c)
  <2>1. answers' \subseteq rows
    BY <1>4 DEF LookUpFinds
  <2>2. UNCHANGED <<id, rows, writer, archive, nextId>>
    BY <1>4 DEF LookUpFinds
  <2>3. phase' = [phase EXCEPT ![c] = "release"]
    BY <1>4 DEF LookUpFinds
  <2>4. QED BY <2>1, <2>2, <2>3
<1>5. CASE LookUpMisses(c)
  BY <1>5 DEF LookUpMisses
<1>6. CASE PrepareRefuses(c)
  BY <1>6 DEF PrepareRefuses
<1>7. CASE Insert(c)
  BY <1>7 DEF Insert
<1>8. CASE InsertConflict(c)
  BY <1>8 DEF InsertConflict
<1>9. CASE InsertTimesOut(c)
  BY <1>9 DEF InsertTimesOut
<1>10. CASE WriteFiles(c)
  BY <1>10 DEF WriteFiles
<1>11. CASE WriteFails(c)
  BY <1>11 DEF WriteFails
<1>12. CASE Commit(c)
  <2>1. CommitOf(c, "reply")
    BY <1>12 DEF Commit, CommitOf
  <2>2. QED BY <2>1, RowCommitted
<1>13. CASE CommitFails(c)
  <2>1. CASE rows' = rows
    BY <1>13, <2>1 DEF CommitFails
  <2>2. CASE rows' = rows \cup {<<KeyOf[c], id[c]>>}
    <3>1. CommitOf(c, "release")
      BY <1>13, <2>2 DEF CommitFails, CommitOf
    <3>2. QED BY <3>1, RowCommitted
  <2>3. QED BY <1>13, <2>1, <2>2 DEF CommitFails
<1>14. CASE Reply(c)
  BY <1>14 DEF Reply
<1>15. CASE Release(c)
  BY <1>15 DEF Release
<1>16. CASE Close(c)
  BY <1>16 DEF Close, WriterWithout
<1>17. CASE Crash(c)
  BY <1>17 DEF Crash, WriterWithout
<1>18. QED
  BY <1>1, <1>2, <1>3, <1>4, <1>5, <1>6, <1>7, <1>8, <1>9, <1>10, <1>11, <1>12,
     <1>13, <1>14, <1>15, <1>16, <1>17 DEF Step, Fails

\* The invariant holds at the start,
LEMMA InitCreation == Init => CreationInv
BY CreationAssumption DEF Init, CreationInv, CreationTypeOK, SessionInv, RowInv, Phase, Ids,
   Files, Writing

\* and neither an expiry nor a stutter disturbs it.
LEMMA OthersKeepCreation ==
  ASSUME CreationInv, (\E n \in ClaimNames : ClaimExpires(n)) \/ UNCHANGED vars
  PROVE  CreationInv'
<1>1. UNCHANGED <<phase, id, rows, writer, archive, nextId, answers, faults>>
  BY DEF ClaimExpires, vars
<1>2. claim' \in [ClaimNames -> Callers \cup {Nobody}]
  BY DEF ClaimExpires, vars, CreationInv, CreationTypeOK
<1>3. CreationTypeOK'
  BY <1>1, <1>2 DEF CreationInv, CreationTypeOK
<1>4. SessionInv' /\ RowInv'
  BY <1>1 DEF CreationInv, SessionInv, RowInv, Exists
<1>5. QED BY <1>3, <1>4 DEF CreationInv

\* The invariant holds in every reachable state.
THEOREM CreationInvariant == Spec => []CreationInv
<1>1. CreationInv /\ [Next]_vars => CreationInv'
  BY CallKeepsTypes, CallKeepsRows, OthersKeepCreation DEF CreationInv, Next
<1>2. QED BY <1>1, InitCreation, PTL DEF Spec

\* create_task keeps its types, and only a call that holds the open insert of
\* its key writes files, whatever claims expire under their holders.
THEOREM CreationTypeCorrect == Spec => []CreationTypeOK
<1>1. CreationInv => CreationTypeOK
  BY DEF CreationInv
<1>2. QED BY <1>1, CreationInvariant, PTL

\* Every reply for a key names the one task of that key, and replies for two
\* keys name two tasks, even if the keys share the name of their claim.
THEOREM OneTaskPerKey == Spec => []RepliesAgree
<1>1. CreationInv => RepliesAgree
  BY DEF CreationInv, CreationTypeOK, RowInv, RepliesAgree
<1>2. QED BY <1>1, CreationInvariant, PTL

\* No row of a task is ever committed before its archive is whole, and no
\* later call damages the archive of a task that exists.
THEOREM TasksHaveArchives == Spec => []RowsHaveArchive
<1>1. CreationInv => RowsHaveArchive
  BY DEF CreationInv, CreationTypeOK, RowInv, RowsHaveArchive
<1>2. QED BY <1>1, CreationInvariant, PTL

(***************************************************************************)
(* What failures leave behind.                                              *)
(***************************************************************************)

\* Directories without a row and without a call that is about to commit one.
Orphans ==
  {i \in Ids : /\ archive[i] # "none"
               /\ \A k \in Keys : <<k, i>> \notin rows
               /\ \A c \in Callers : phase[c] \in Writing => id[c] # i}

OrphanInv == CreationInv /\ Cardinality(Orphans) <= faults

\* A step of a client orphans no directory, or it is a fault and orphans the
\* one of that client: a call that loses the race for its key, or that finds
\* its key taken, has written nothing.
LEMMA CallOrphansByFault ==
  ASSUME CreationInv, NEW c \in Callers, Call(c) \/ Step(c) \/ Fails(c)
  PROVE  \/ Orphans' \subseteq Orphans /\ faults' >= faults
         \/ Orphans' \subseteq Orphans \cup {id[c]} /\ faults' = faults + 1
<1> USE CreationAssumption
<1> USE DEF CreationInv, CreationTypeOK, Ids, Writing, Goto, Fault, Orphans
<1>1. CASE Call(c) \/ TakeClaim(c) \/ Busy(c)
  BY <1>1 DEF Call, TakeClaim, Busy
<1>2. CASE LookUpFinds(c) \/ LookUpMisses(c) \/ PrepareRefuses(c)
  BY <1>2 DEF LookUpFinds, LookUpMisses, PrepareRefuses
<1>3. CASE Insert(c)
  BY <1>3 DEF Insert
<1>4. CASE InsertConflict(c) \/ InsertTimesOut(c)
  BY <1>4 DEF InsertConflict, InsertTimesOut
<1>5. CASE WriteFiles(c)
  BY <1>5 DEF WriteFiles, SessionInv
<1>6. CASE WriteFails(c)
  BY <1>6 DEF WriteFails, SessionInv
<1>7. CASE Commit(c)
  <2>1. KeyOf[c] \in Keys /\ id[c] \in Ids /\ <<KeyOf[c], id[c]>> \in rows' /\ rows \subseteq rows'
    BY <1>7 DEF Commit, SessionInv
  <2>2. /\ UNCHANGED <<id, archive, faults>>
        /\ \A d \in Callers : d # c => phase'[d] = phase[d]
    BY <1>7 DEF Commit
  <2>3. ASSUME NEW i \in Orphans' PROVE i \in Orphans
    <3>1. /\ i \in Ids /\ archive[i] # "none" /\ i # id[c]
          /\ \A k \in Keys : <<k, i>> \notin rows
      BY <2>1, <2>2, <2>3
    <3>2. \A d \in Callers : phase[d] \in Writing => id[d] # i
      BY <2>2, <2>3, <3>1
    <3>3. QED BY <3>1, <3>2
  <2>4. Orphans' \subseteq Orphans
    <3> HIDE DEF Orphans
    <3>1. QED BY <2>3
  <2>5. faults' >= faults
    BY <2>2
  <2>6. QED BY <2>4, <2>5
<1>8. CASE CommitFails(c)
  BY <1>8 DEF CommitFails, SessionInv
<1>9. CASE Reply(c) \/ Release(c)
  BY <1>9 DEF Reply, Release
<1>10. CASE Close(c)
  BY <1>10 DEF Close
<1>11. CASE Crash(c)
  <2>1. /\ rows' = rows /\ faults' = faults + 1
        /\ \A d \in Callers : d # c => phase'[d] = phase[d] /\ id'[d] = id[d]
        /\ \A i \in Ids : i # id[c] => archive'[i] = archive[i]
    BY <1>11 DEF Crash
  <2>2. Orphans' \subseteq Orphans \cup {id[c]}
    BY <2>1
  <2>3. QED BY <2>1, <2>2
<1>12. QED
  BY <1>1, <1>2, <1>3, <1>4, <1>5, <1>6, <1>7, <1>8, <1>9, <1>10, <1>11 DEF Step, Fails

\* There are finitely many of them, so the count goes up by one at most.
LEMMA OrphansCounted ==
  ASSUME OrphanInv, NEW c \in Callers, Call(c) \/ Step(c) \/ Fails(c)
  PROVE  Cardinality(Orphans') <= faults'
<1>1. IsFiniteSet(Orphans) /\ IsFiniteSet(Orphans')
  <2>1. IsFiniteSet(Ids)
    BY CreationAssumption, FS_Interval DEF Ids, CreationAssumption
  <2>2. Orphans \subseteq Ids /\ Orphans' \subseteq Ids
    BY DEF Orphans, Ids
  <2>3. QED BY <2>1, <2>2, FS_Subset
<1>2. /\ Cardinality(Orphans) \in Nat /\ Cardinality(Orphans') \in Nat
      /\ faults \in Nat /\ faults' \in Nat /\ Cardinality(Orphans) <= faults
  <2>1. CreationTypeOK'
    BY CallKeepsTypes DEF OrphanInv
  <2>2. QED
    BY <1>1, <2>1, FS_CardinalityType, CreationAssumption DEF OrphanInv, CreationInv, CreationTypeOK
<1>3. CASE Orphans' \subseteq Orphans /\ faults' >= faults
  <2>1. Cardinality(Orphans') <= Cardinality(Orphans)
    BY <1>1, <1>3, FS_Subset
  <2>2. QED BY <1>2, <1>3, <2>1
<1>4. CASE Orphans' \subseteq Orphans \cup {id[c]} /\ faults' = faults + 1
  <2>1. /\ IsFiniteSet(Orphans \cup {id[c]})
        /\ Cardinality(Orphans \cup {id[c]}) <= Cardinality(Orphans) + 1
    <3>1. ASSUME NEW S, NEW x, IsFiniteSet(S), Cardinality(S) \in Nat
          PROVE  IsFiniteSet(S \cup {x}) /\ Cardinality(S \cup {x}) <= Cardinality(S) + 1
      <4>1. /\ IsFiniteSet(S \cup {x})
            /\ Cardinality(S \cup {x}) = IF x \in S THEN Cardinality(S) ELSE Cardinality(S) + 1
        BY <3>1, FS_AddElement, Zenon
      <4>2. QED BY <3>1, <4>1
    <3>2. QED BY <1>1, <1>2, <3>1
  <2>2. Cardinality(Orphans') <= Cardinality(Orphans \cup {id[c]})
    BY <1>4, <2>1, FS_Subset
  <2>3. Cardinality(Orphans \cup {id[c]}) \in Nat
    BY <2>1, FS_CardinalityType
  <2>4. QED BY <1>2, <1>4, <2>1, <2>2, <2>3
<1>5. QED BY <1>3, <1>4, CallOrphansByFault DEF OrphanInv

\* The directories that no row and no call at work accounts for are at most
\* as many as there were failures: repeated and concurrent calls, expired
\* claims and lost races leave no files.
THEOREM LeftoversAreFaults == Spec => []LeftoversFromFaults
<1>1. Init => OrphanInv
  <2> SUFFICES ASSUME Init PROVE CreationInv /\ Cardinality(Orphans) <= faults
    BY DEF OrphanInv
  <2>1. CreationInv
    BY InitCreation
  <2>2. Orphans = {}
    BY DEF Init, Orphans, Ids
  <2>3. Cardinality(Orphans) = 0
    BY <2>2, FS_EmptySet
  <2>4. QED BY <2>1, <2>3 DEF Init
<1>2. OrphanInv /\ [Next]_vars => OrphanInv'
  <2> SUFFICES ASSUME OrphanInv, [Next]_vars
               PROVE  OrphanInv'
    OBVIOUS
  <2>1. ASSUME NEW c \in Callers, Call(c) \/ Step(c) \/ Fails(c)
        PROVE  OrphanInv'
    BY <2>1, OrphansCounted, CallKeepsTypes, CallKeepsRows DEF OrphanInv, CreationInv
  <2>2. ASSUME (\E n \in ClaimNames : ClaimExpires(n)) \/ UNCHANGED vars
        PROVE  OrphanInv'
    <3>1. UNCHANGED <<phase, id, rows, archive, faults>>
      BY <2>2 DEF ClaimExpires, vars
    <3>2. Orphans' = Orphans
      BY <3>1 DEF Orphans
    <3>3. CreationInv'
      BY <2>2, OthersKeepCreation DEF OrphanInv
    <3>4. QED BY <3>1, <3>2, <3>3 DEF OrphanInv
  <2>3. QED BY <2>1, <2>2 DEF Next
<1>3. OrphanInv => LeftoversFromFaults
  <2> SUFFICES ASSUME OrphanInv PROVE LeftoversFromFaults
    OBVIOUS
  <2> DEFINE owned == {r[2] : r \in rows} \cup {id[c] : c \in {d \in Callers : phase[d] # "idle"}}
             left  == {i \in Ids : archive[i] # "none"} \ owned
  <2>1. left \subseteq Orphans
    <3> SUFFICES ASSUME NEW i \in left PROVE i \in Orphans
      OBVIOUS
    <3>1. \A k \in Keys : <<k, i>> \notin rows
      OBVIOUS
    <3>2. \A c \in Callers : phase[c] \in Writing => id[c] # i
      BY DEF Writing
    <3>3. QED BY <3>1, <3>2 DEF Orphans
  <2>2. IsFiniteSet(Orphans)
    <3>1. IsFiniteSet(Ids)
      BY CreationAssumption, FS_Interval DEF Ids, CreationAssumption
    <3>2. Orphans \subseteq Ids
      BY DEF Orphans
    <3>3. QED BY <3>1, <3>2, FS_Subset
  <2> HIDE DEF left
  <2>3. Cardinality(left) <= Cardinality(Orphans) /\ Cardinality(left) \in Nat
        /\ Cardinality(Orphans) \in Nat
    BY <2>1, <2>2, FS_Subset, FS_CardinalityType
  <2>4. Cardinality(left) <= faults
    BY <2>3, CreationAssumption DEF OrphanInv, CreationInv, CreationTypeOK
  <2>5. QED BY <2>4 DEF LeftoversFromFaults, left, owned
<1>4. QED BY <1>1, <1>2, <1>3, PTL DEF Spec
=============================================================================
