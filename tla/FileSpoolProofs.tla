--------------------------- MODULE FileSpoolProofs ---------------------------
(***************************************************************************)
(* The delivery path on the file spool implements DeliveryLedger, for every *)
(* number of tasks, items, publications and faults, and every limit; and    *)
(* its rate limiter keeps its bound, for every limit and window.            *)
(***************************************************************************)
EXTENDS FileSpool, FiniteSetTheorems, WellFoundedInduction, TLAPS

Shown == {i \in Items : itemStatus[i] = "uploaded"}

\* The result files are records, and the worker has an outcome for every item;
\* of the results, only what they report as uploaded matters here.
Fields == {"round", "whole", "uploaded", "failed"}

FilesOK ==
  /\ DOMAIN outbox = Tasks
  /\ \A t \in Tasks : DOMAIN outbox[t] = Fields
  /\ DOMAIN outcome = Items

\* What is reported as uploaded has its bytes, wherever the report is: with the
\* worker, in a result file (which may be applied at any time, and again), or
\* in the rows; and what is shown as uploaded is listed.
Reported ==
  /\ \A i \in Items : outcome[i] = "uploaded" => i \in sink
  /\ \A t \in Tasks : outbox[t].uploaded \subseteq sink
  /\ Shown \subseteq sink
  /\ Shown \cap Mapped \subseteq objects

IInv == FilesOK /\ Reported

LEMMA InitReported == Init => IInv
  BY DEF Init, IInv, FilesOK, Fields, Reported, Shown, NoResult

\* The truncation of a result file leaves its last content on record.
LEMMA TruncateKeepsReport ==
  ASSUME IInv, WTruncate
  PROVE  IInv' /\ UNCHANGED <<sink, objects, Shown>>
<1>1. UNCHANGED <<sink, objects, itemStatus, outcome>>
  BY DEF WTruncate, rowVars, workerVars
<1>2. outbox' = [outbox EXCEPT ![Head(work).task].whole = FALSE]
  BY DEF WTruncate
<1>3. \A t \in Tasks : outbox'[t] = outbox[t] \/ outbox'[t] = [outbox[t] EXCEPT !.whole = FALSE]
  BY <1>2 DEF IInv, FilesOK
<1>4. \A t \in Tasks : outbox'[t].uploaded = outbox[t].uploaded /\ DOMAIN outbox'[t] = Fields
  BY <1>3 DEF IInv, FilesOK, Fields
<1>5. FilesOK'
  BY <1>1, <1>2, <1>4 DEF IInv, FilesOK
<1> QED
  BY <1>1, <1>4, <1>5 DEF IInv, Reported, Shown

\* The result that is written reports as uploaded what the pipeline did.
LEMMA WriteReportsOutcome ==
  ASSUME IInv, WWrite
  PROVE  IInv' /\ UNCHANGED <<sink, objects, Shown>>
<1> DEFINE file == [round |-> Head(work).round, whole |-> TRUE,
                    uploaded |-> {i \in Items : outcome[i] = "uploaded"},
                    failed |-> {i \in Items : outcome[i] = "failed"}]
<1>1. UNCHANGED <<sink, objects, itemStatus>>
  BY DEF WWrite, rowVars
<1>2. outbox' = [outbox EXCEPT ![Head(work).task] = file] /\ outcome' = Waiting(Tail(work))
  BY DEF WWrite
<1>3. file.uploaded \subseteq sink
  BY DEF IInv, Reported
<1>4. \A i \in Items : outcome'[i] # "uploaded"
  BY <1>2 DEF Waiting
<1>5. \A t \in Tasks : outbox'[t] = outbox[t] \/ outbox'[t] = file
  BY <1>2 DEF IInv, FilesOK
<1>6. FilesOK'
  BY <1>2, <1>5 DEF IInv, FilesOK, Fields, Waiting
<1> QED
  BY <1>1, <1>3, <1>4, <1>5, <1>6 DEF IInv, Reported, Shown

\* An item ends: as uploaded only with its bytes in the sink.
LEMMA ItemEnds ==
  ASSUME IInv, NEW i \in Items, WUpload(i) \/ WLimited(i) \/ WItemFails(i)
  PROVE  IInv' /\ sink \subseteq sink' /\ sink' \subseteq sink \cup {i} /\ UNCHANGED <<objects, Shown>>
<1>1. UNCHANGED <<objects, itemStatus, outbox>>
  BY DEF WUpload, WLimited, WItemFails, Ends, rowVars
<1>2. sink \subseteq sink' /\ sink' \subseteq sink \cup {i}
  BY DEF WUpload, WLimited, WItemFails
<1>3. \A j \in Items : outcome'[j] = "uploaded" => j \in sink'
  <2>1. CASE WUpload(i)
    BY <2>1 DEF WUpload, Ends, IInv, FilesOK, Reported
  <2>2. CASE WLimited(i) \/ WItemFails(i)
    <3>1. outcome' = [outcome EXCEPT ![i] = "failed"]
      BY <2>2 DEF WLimited, WItemFails, Ends
    <3>2. \A j \in Items : outcome'[j] = "uploaded" => outcome[j] = "uploaded"
      BY <3>1 DEF IInv, FilesOK
    <3> QED
      BY <1>2, <3>2 DEF IInv, Reported
  <2> QED
    BY <2>1, <2>2
<1>4. DOMAIN outcome' = Items
  BY DEF WUpload, WLimited, WItemFails, Ends, IInv, FilesOK
<1> QED
  BY <1>1, <1>2, <1>3, <1>4 DEF IInv, FilesOK, Reported, Shown

\* Results, old or new, are settled by the ledger: what they report as uploaded
\* has been delivered, and is listed in the same step.
LEMMA ConsumeSettles ==
  ASSUME IInv, Consume
  PROVE  IInv' /\ Ledger!Settle
<1>1. UNCHANGED <<sink, outbox, outcome>>
  BY DEF Consume, workerVars
<1>2. Uploaded \subseteq sink
  BY DEF Uploaded, IInv, Reported
<1>3. objects' = objects \cup (Uploaded \cap Mapped)
  BY DEF Consume
<1>4. Shown' \subseteq Shown \cup Uploaded
  BY DEF Consume, Shown
<1>5. Shown' \subseteq sink /\ Shown' \cap Mapped \subseteq objects'
  BY <1>2, <1>3, <1>4 DEF IInv, Reported
<1>6. IInv'
  BY <1>1, <1>5 DEF IInv, FilesOK, Reported
<1>7. Ledger!Settle
  BY <1>1, <1>2, <1>3, <1>5 DEF Ledger!Settle, Shown
<1> QED
  BY <1>6, <1>7

\* Every other step leaves what the ledger speaks of as it is, but for a retry,
\* which withdraws nothing that is shown.
LEMMA OtherSteps ==
  ASSUME IInv,
         \/ \E t \in Tasks : Publish(t) \/ MarkQueued(t) \/ MarkFails(t) \/ Retry(t)
         \/ WConsume \/ WCrash \/ TimePasses \/ UNCHANGED vars
  PROVE  IInv' /\ UNCHANGED <<sink, objects, Shown>>
<1>1. UNCHANGED <<sink, objects, outbox>>
  BY DEF Publish, MarkQueued, MarkFails, Retry, WConsume, WCrash, TimePasses, vars,
         spoolVars, rowVars, workerVars
<1>2. \A i \in Items : outcome'[i] = "uploaded" => outcome[i] = "uploaded"
  BY DEF Publish, MarkQueued, MarkFails, Retry, WConsume, WCrash, TimePasses, vars,
         spoolVars, rowVars, workerVars, Waiting
<1>3. DOMAIN outcome' = Items
  BY DEF Publish, MarkQueued, MarkFails, Retry, WConsume, WCrash, TimePasses, vars,
         spoolVars, rowVars, workerVars, Waiting, IInv, FilesOK
<1>4. Shown' = Shown
  BY DEF Publish, MarkQueued, MarkFails, Retry, WConsume, WCrash, TimePasses, vars,
         spoolVars, rowVars, workerVars, Shown
<1> QED
  BY <1>1, <1>2, <1>3, <1>4 DEF IInv, FilesOK, Reported

\* SpoolImplementsLedger: whatever is uploaded, applied, cut off or lost, and
\* however often, no row says "uploaded" without bytes in the bucket, an item
\* with a workspace is listed when it is shown, and no object is withdrawn.
THEOREM SpoolRefinesLedger == Spec => SpoolImplementsLedger
<1>1. Init => IInv /\ Ledger!LInit
  <2>1. Init => Ledger!LInit
    BY DEF Init, Ledger!LInit
  <2> QED
    BY <2>1, InitReported
<1>2. IInv /\ [Next]_vars => IInv' /\ [Ledger!Deliver \/ Ledger!Settle]_(Ledger!ledgerVars)
  <2> SUFFICES ASSUME IInv, [Next]_vars
               PROVE  IInv' /\ [Ledger!Deliver \/ Ledger!Settle]_(Ledger!ledgerVars)
    OBVIOUS
  <2> USE DEF Ledger!ledgerVars
  <2>1. CASE \E i \in Items : WUpload(i) \/ WLimited(i) \/ WItemFails(i)
    <3>1. PICK i \in Items : WUpload(i) \/ WLimited(i) \/ WItemFails(i)
      BY <2>1
    <3>2. IInv' /\ sink' = sink \cup (sink' \cap {i}) /\ UNCHANGED <<objects, Shown>>
      BY <3>1, ItemEnds
    <3> QED
      BY <3>2 DEF Ledger!Deliver, Shown
  <2>2. CASE Consume
    BY <2>2, ConsumeSettles
  <2>3. CASE WTruncate
    BY <2>3, TruncateKeepsReport DEF Shown
  <2>4. CASE WWrite
    BY <2>4, WriteReportsOutcome DEF Shown
  <2>5. CASE \/ \E t \in Tasks : Publish(t) \/ MarkQueued(t) \/ MarkFails(t) \/ Retry(t)
             \/ WConsume \/ WCrash \/ TimePasses \/ UNCHANGED vars
    BY <2>5, OtherSteps DEF Shown
  <2> QED
    BY <2>1, <2>2, <2>3, <2>4, <2>5 DEF Next, WStep
<1> QED
  BY <1>1, <1>2, PTL DEF Spec, SpoolImplementsLedger, Ledger!LedgerSpec

(***************************************************************************)
(* The limiter.  What it has admitted in the last ticks is a sum, about     *)
(* which facts are proved by induction: a set that has 0 and the successor  *)
(* of each of its numbers has all of them, for the least one that it has    *)
(* not would have a predecessor.                                            *)
(***************************************************************************)
LEMMA LeastNumber ==
  ASSUME NEW T, T \subseteq Nat, T # {}
  PROVE  \E x \in T : \A y \in T : x <= y
<1> DEFINE Below == {0 .. n : n \in T}
<1>1. Below \subseteq FiniteSubsetsOf(Nat)
  <2>1. ASSUME NEW n \in T PROVE 0 .. n \subseteq Nat /\ IsFiniteSet(0 .. n)
    <3>1. n \in Int /\ 0 \in Int /\ 0 .. n \subseteq Nat
      OBVIOUS
    <3>2. QED BY <3>1, FS_Interval
  <2>2. QED BY <2>1 DEF FiniteSubsetsOf
<1>2. Below # {}
  OBVIOUS
<1>3. PICK B \in Below : \A C \in Below : ~(<<C, B>> \in StrictSubsetOrdering(Nat))
  BY <1>1, <1>2, WFMin, FS_StrictSubsetOrderingWellFounded
<1>4. PICK x \in T : B = 0 .. x
  OBVIOUS
<1>5. ASSUME NEW y \in T, y < x PROVE FALSE
  <2>1. /\ 0 .. y \in Below /\ 0 .. y \in SUBSET Nat /\ 0 .. x \in SUBSET Nat
        /\ 0 .. y \subseteq 0 .. x /\ x \in 0 .. x /\ x \notin 0 .. y
    BY <1>5
  <2>2. QED BY <2>1, <1>3, <1>4 DEF StrictSubsetOrdering
<1>6. QED BY <1>5

\* Induction up to n.
LEMMA Induction ==
  ASSUME NEW n \in Nat, NEW S, 0 \in S, \A k \in 1 .. n : k - 1 \in S => k \in S
  PROVE  0 .. n \subseteq S
<1> SUFFICES ASSUME (0 .. n) \ S # {} PROVE FALSE
  OBVIOUS
<1>1. PICK x \in (0 .. n) \ S : \A y \in (0 .. n) \ S : x <= y
  <2>1. (0 .. n) \ S \subseteq Nat
    OBVIOUS
  <2>2. QED BY <2>1, LeastNumber
<1>2. x \in 1 .. n /\ x - 1 \in 0 .. n /\ ~(x <= x - 1)
  BY <1>1
<1>3. x - 1 \in S
  BY <1>1, <1>2
<1>4. QED BY <1>1, <1>2, <1>3

Ticks == 1 .. Window

\* The sums exist: those up to each tick do.
LEMMA Sums ==
  ASSUME NEW a \in [Ticks -> Nat]
  PROVE  /\ InLast(a) \in [0 .. Window -> Nat]
         /\ InLast(a)[0] = 0
         /\ \A k \in Ticks : InLast(a)[k] = InLast(a)[k - 1] + a[k]
<1> USE LimiterAssumption DEF Ticks
<1> DEFINE Sum(f, m) == /\ f \in [0 .. m -> Nat] /\ f[0] = 0
                        /\ \A k \in 1 .. m : f[k] = f[k - 1] + a[k]
           Good == {m \in 0 .. Window : \E f : Sum(f, m)}
           Def(f) == f = [k \in 0 .. Window |-> IF k = 0 THEN 0 ELSE f[k - 1] + a[k]]
<1>1. 0 \in Good
  <2> DEFINE g == [k \in 0 .. 0 |-> 0]
  <2>1. Sum(g, 0)
    OBVIOUS
  <2> HIDE DEF Sum, g
  <2>2. QED BY <2>1
<1>2. ASSUME NEW m \in 1 .. Window, m - 1 \in Good PROVE m \in Good
  <2>1. PICK f : Sum(f, m - 1)
    BY <1>2
  <2> DEFINE g == [k \in 0 .. m |-> IF k = m THEN f[m - 1] + a[m] ELSE f[k]]
  <2>2. m \in Nat /\ m - 1 \in 0 .. m - 1 /\ a[m] \in Nat /\ m # 0
    OBVIOUS
  <2>3. f[m - 1] + a[m] \in Nat
    BY <2>1, <2>2
  <2>4. g \in [0 .. m -> Nat] /\ g[0] = 0
    BY <2>1, <2>2, <2>3
  <2>5. ASSUME NEW k \in 1 .. m PROVE g[k] = g[k - 1] + a[k]
    <3>1. k \in 0 .. m /\ k - 1 \in 0 .. m /\ k - 1 # m
      OBVIOUS
    <3>2. g[k - 1] = f[k - 1]
      BY <3>1
    <3>3. CASE k = m
      BY <3>1, <3>2, <3>3
    <3>4. CASE k # m
      <4>1. k \in 1 .. m - 1
        BY <3>4
      <4>2. QED BY <2>1, <3>1, <3>2, <3>4, <4>1
    <3>5. QED BY <3>3, <3>4
  <2>6. Sum(g, m)
    BY <2>4, <2>5
  <2> HIDE DEF Sum, g
  <2>7. QED BY <2>6
<1>3. Window \in Good
  <2> HIDE DEF Good
  <2>1. 0 .. Window \subseteq Good
    BY <1>1, <1>2, Induction
  <2>2. QED BY <2>1
<1>4. PICK f : Sum(f, Window)
  BY <1>3
<1>5. Def(f)
  BY <1>4
<1>6. InLast(a) = CHOOSE g : Def(g)
  BY DEF InLast
<1>7. Def(InLast(a))
  <2> HIDE DEF Def
  <2>1. QED BY <1>5, <1>6
<1> DEFINE s == InLast(a)
<1> HIDE DEF s
<1>8. s = [k \in 0 .. Window |-> IF k = 0 THEN 0 ELSE s[k - 1] + a[k]]
  BY <1>7 DEF s
<1>9. s[0] = 0 /\ \A k \in 1 .. Window : s[k] = s[k - 1] + a[k]
  BY <1>8
<1>10. \A k \in 0 .. Window : s[k] \in Nat
  <2> DEFINE S == {k \in 0 .. Window : s[k] \in Nat}
  <2>1. 0 \in S
    BY <1>9
  <2>2. ASSUME NEW k \in 1 .. Window, k - 1 \in S PROVE k \in S
    BY <1>9, <2>2
  <2> HIDE DEF S
  <2>3. 0 .. Window \subseteq S
    BY <2>1, <2>2, Induction
  <2>4. QED BY <2>3 DEF S
<1>11. s \in [0 .. Window -> Nat]
  BY <1>8, <1>10
<1>12. QED BY <1>9, <1>11 DEF s

\* They grow,
LEMMA SumsGrow ==
  ASSUME NEW a \in [Ticks -> Nat], NEW j \in 0 .. Window, NEW k \in j .. Window
  PROVE  InLast(a)[j] <= InLast(a)[k]
<1> USE LimiterAssumption DEF Ticks
<1> DEFINE s == InLast(a)
           S == {m \in 0 .. Window : j <= m => s[j] <= s[m]}
<1>1. s \in [0 .. Window -> Nat] /\ \A m \in 1 .. Window : s[m] = s[m - 1] + a[m]
  BY Sums
<1> HIDE DEF s
<1>2. 0 \in S
  BY <1>1
<1>3. ASSUME NEW m \in 1 .. Window, m - 1 \in S PROVE m \in S
  <2>1. s[m] \in Nat /\ s[m - 1] \in Nat /\ s[j] \in Nat /\ a[m] \in Nat /\ s[m] = s[m - 1] + a[m]
    BY <1>1
  <2>2. CASE j = m
    BY <2>1, <2>2
  <2>3. CASE j # m
    BY <2>1, <2>3, <1>3
  <2>4. QED BY <2>2, <2>3
<1> HIDE DEF S
<1>4. 0 .. Window \subseteq S
  BY <1>2, <1>3, Induction
<1>5. s[j] <= s[k]
  BY <1>4 DEF S
<1>6. QED BY <1>5 DEF s

\* by one with an upload now,
LEMMA SumsAfterAllow ==
  ASSUME NEW a \in [Ticks -> Nat], NEW b, b = [a EXCEPT ![1] = @ + 1]
  PROVE  b \in [Ticks -> Nat] /\ \A k \in Ticks : InLast(b)[k] = InLast(a)[k] + 1
<1> USE LimiterAssumption DEF Ticks
<1> DEFINE s == InLast(a)
           r == InLast(b)
           S == {m \in 0 .. Window : m > 0 => r[m] = s[m] + 1}
<1>1. b \in [Ticks -> Nat] /\ b[1] = a[1] + 1 /\ \A k \in 2 .. Window : b[k] = a[k]
  OBVIOUS
<1>2. /\ s \in [0 .. Window -> Nat] /\ s[0] = 0 /\ \A m \in 1 .. Window : s[m] = s[m - 1] + a[m]
      /\ r \in [0 .. Window -> Nat] /\ r[0] = 0 /\ \A m \in 1 .. Window : r[m] = r[m - 1] + b[m]
  BY <1>1, Sums
<1> HIDE DEF s, r
<1>3. 0 \in S
  OBVIOUS
<1>4. ASSUME NEW m \in 1 .. Window, m - 1 \in S PROVE m \in S
  <2>1. /\ s[m] = s[m - 1] + a[m] /\ r[m] = r[m - 1] + b[m]
        /\ s[m - 1] \in Nat /\ a[m] \in Nat /\ s[m] \in Nat /\ r[m] \in Nat
    BY <1>2
  <2>2. CASE m = 1
    BY <1>1, <1>2, <2>1, <2>2
  <2>3. CASE m # 1
    <3>1. b[m] = a[m] /\ r[m - 1] = s[m - 1] + 1
      BY <1>1, <1>4, <2>3
    <3>2. r[m] = s[m] + 1
      BY <2>1, <3>1
    <3>3. QED BY <3>2
  <2>4. QED BY <2>2, <2>3
<1> HIDE DEF S
<1>5. 0 .. Window \subseteq S
  BY <1>3, <1>4, Induction
<1>6. \A k \in Ticks : r[k] = s[k] + 1
  BY <1>5 DEF S
<1>7. QED BY <1>1, <1>6 DEF s, r

\* and move on by one tick with the time.
LEMMA SumsAfterTick ==
  ASSUME NEW a \in [Ticks -> Nat], NEW b,
         b = [k \in Ticks |-> IF k = 1 THEN 0 ELSE a[k - 1]]
  PROVE  b \in [Ticks -> Nat] /\ \A k \in Ticks : InLast(b)[k] = InLast(a)[k - 1]
<1> USE LimiterAssumption DEF Ticks
<1> DEFINE s == InLast(a)
           r == InLast(b)
           S == {m \in 0 .. Window : m > 0 => r[m] = s[m - 1]}
<1>1. b \in [Ticks -> Nat] /\ b[1] = 0 /\ \A k \in 2 .. Window : b[k] = a[k - 1]
  OBVIOUS
<1>2. /\ s \in [0 .. Window -> Nat] /\ s[0] = 0 /\ \A m \in 1 .. Window : s[m] = s[m - 1] + a[m]
      /\ r \in [0 .. Window -> Nat] /\ r[0] = 0 /\ \A m \in 1 .. Window : r[m] = r[m - 1] + b[m]
  BY <1>1, Sums
<1> HIDE DEF s, r
<1>3. 0 \in S
  OBVIOUS
<1>4. ASSUME NEW m \in 1 .. Window, m - 1 \in S PROVE m \in S
  <2>1. CASE m = 1
    BY <1>1, <1>2, <2>1
  <2>2. CASE m # 1
    <3>1. m - 1 \in 1 .. Window
      BY <2>2
    <3>2. b[m] = a[m - 1] /\ r[m - 1] = s[m - 2] /\ s[m - 1] = s[m - 2] + a[m - 1]
          /\ r[m] = r[m - 1] + b[m]
      BY <1>1, <1>2, <1>4, <2>2, <3>1
    <3>3. QED BY <3>2
  <2>3. QED BY <2>1, <2>2
<1> HIDE DEF S
<1>5. 0 .. Window \subseteq S
  BY <1>3, <1>4, Induction
<1>6. \A k \in Ticks : r[k] = s[k - 1]
  BY <1>5 DEF S
<1>7. QED BY <1>1, <1>6 DEF s, r

(***************************************************************************)
(* The key is created by the first request of a window and expires with a   *)
(* tick.  So the uploads that the window of the key has admitted, and only  *)
(* they, are in the ticks since it was created; and what is left of the     *)
(* windows before lacks the request that began the last one.                *)
(***************************************************************************)
LimiterTypes ==
  /\ count \in 0 .. Limit + 1
  /\ ttl \in 0 .. Window
  /\ admitted \in [Ticks -> Nat]
  /\ unheard \in Nat
  /\ count = 0 <=> ttl = 0

\* The number of ticks in which the window has been open, the current one too.
Open == Window - ttl + 1

OpenWindow ==
  /\ InLast(admitted)[Open] <= count /\ InLast(admitted)[Open] <= Limit
  /\ InLast(admitted)[Open - 1] <= count - 1 /\ InLast(admitted)[Open - 1] <= Limit - 1
  /\ InLast(admitted)[Open] + unheard >= IF count > Limit THEN Limit ELSE count
  /\ InLast(admitted)[Window] - InLast(admitted)[Open] <= Limit - 1

NoWindow ==
  /\ admitted[1] = 0
  /\ InLast(admitted)[Window] <= Limit - 1

LimiterInv ==
  /\ LimiterTypes
  /\ ttl > 0 => OpenWindow
  /\ ttl = 0 => NoWindow

\* The bound follows: the window that is open, and the rest of the ones before.
LEMMA BoundHolds == LimiterInv => LimiterWindow
<1> SUFFICES ASSUME LimiterInv PROVE LimiterWindow
  OBVIOUS
<1> USE LimiterAssumption DEF Ticks
<1> DEFINE s == InLast(admitted)
<1>1. s \in [0 .. Window -> Nat]
  BY Sums DEF LimiterInv, LimiterTypes
<1>2. s[Window] <= 2 * Limit - 1
  <2> HIDE DEF s
  <2>1. CASE ttl = 0
    BY <1>1, <2>1 DEF LimiterInv, NoWindow, s
  <2>2. CASE ttl > 0
    <3>1. Open \in Ticks
      BY <2>2 DEF LimiterInv, LimiterTypes, Open
    <3>2. s[Open] <= Limit /\ s[Window] - s[Open] <= Limit - 1
      BY <2>2 DEF LimiterInv, OpenWindow, s
    <3>3. s[Open] \in Nat /\ s[Window] \in Nat
      BY <1>1, <3>1
    <3>4. QED BY <3>2, <3>3
  <2>3. QED BY <2>1, <2>2 DEF LimiterInv, LimiterTypes
<1>3. ASSUME count >= Limit PROVE s[Window] + unheard >= Limit
  <2>1. ttl > 0
    BY <1>3 DEF LimiterInv, LimiterTypes
  <2>2. Open \in Ticks /\ Open \in 0 .. Window /\ Window \in Open .. Window
    BY <2>1 DEF LimiterInv, LimiterTypes, Open
  <2>3. s[Open] <= s[Window]
    BY <2>2, SumsGrow DEF LimiterInv, LimiterTypes
  <2>4. s[Open] + unheard >= Limit
    BY <1>3, <2>1 DEF LimiterInv, LimiterTypes, OpenWindow
  <2> HIDE DEF s
  <2>5. s[Open] \in Nat /\ s[Window] \in Nat /\ unheard \in Nat
    BY <1>1, <2>2 DEF LimiterInv, LimiterTypes
  <2>6. QED BY <2>3, <2>4, <2>5
<1>4. QED BY <1>2, <1>3 DEF LimiterWindow

\* A request that the key counts, admitted or not.
LEMMA CountKeepsLimiter ==
  ASSUME LimiterInv, CountRequest, admitted' = admitted, unheard' \in Nat, unheard' >= unheard,
         count >= Limit \/ unheard' = unheard + 1
  PROVE  LimiterInv'
<1> USE LimiterAssumption DEF Ticks
<1> DEFINE s == InLast(admitted)
<1>1. s \in [0 .. Window -> Nat] /\ s[0] = 0 /\ s[1] = s[0] + admitted[1]
  <2>1. 1 \in Ticks /\ 1 - 1 = 0
    OBVIOUS
  <2>2. QED BY <2>1, Sums DEF LimiterInv, LimiterTypes
<1>2. InLast(admitted)' = s
  OBVIOUS
<1> HIDE DEF s
<1>3. LimiterTypes'
  BY DEF LimiterInv, LimiterTypes, CountRequest
<1>4. ttl' > 0
  BY <1>3 DEF LimiterInv, LimiterTypes, CountRequest
<1>5. OpenWindow'
  <2>1. CASE count = 0
    <3>1. count' = 1 /\ ttl' = Window /\ Open' = 1 /\ ttl = 0
      BY <2>1 DEF LimiterInv, LimiterTypes, CountRequest, Open
    <3>2. s[1] = 0 /\ s[Window] <= Limit - 1 /\ s[Window] \in Nat
      BY <1>1, <3>1 DEF LimiterInv, NoWindow, s
    <3>3. QED BY <1>1, <1>2, <2>1, <3>1, <3>2 DEF OpenWindow, LimiterInv, LimiterTypes
  <2>2. CASE count # 0
    <3>1. Open' = Open /\ ttl > 0 /\ Open \in Ticks
      BY <2>2 DEF LimiterInv, LimiterTypes, CountRequest, Open
    <3>2. s[Open] \in Nat /\ s[Open - 1] \in Nat /\ s[Window] \in Nat
      BY <1>1, <3>1
    <3>3. /\ s[Open] <= count /\ s[Open] <= Limit
          /\ s[Open - 1] <= count - 1 /\ s[Open - 1] <= Limit - 1
          /\ s[Open] + unheard >= IF count > Limit THEN Limit ELSE count
          /\ s[Window] - s[Open] <= Limit - 1
      BY <3>1 DEF LimiterInv, OpenWindow, s
    <3>4. /\ count \in Nat /\ unheard \in Nat /\ Limit \in Nat
          /\ count' = IF count > Limit THEN count ELSE count + 1
      BY DEF LimiterInv, LimiterTypes, CountRequest
    <3>5. /\ s[Open] <= count' /\ s[Open - 1] <= count' - 1
          /\ s[Open] + unheard' >= IF count' > Limit THEN Limit ELSE count'
      <4>1. CASE count > Limit
        <5>1. count' = count
          BY <3>4, <4>1
        <5>2. s[Open] + unheard >= Limit
          BY <3>3, <4>1
        <5>3. s[Open] + unheard' >= Limit
          BY <3>2, <3>4, <5>2
        <5>4. QED BY <3>3, <4>1, <5>1, <5>3
      <4>2. CASE count <= Limit
        <5>1. count' = count + 1
          BY <3>4, <4>2
        <5>2. s[Open] + unheard >= count
          BY <3>3, <3>4, <4>2
        <5>3. s[Open] <= count' /\ s[Open - 1] <= count' - 1
          BY <3>2, <3>3, <3>4, <5>1
        <5>4. CASE count = Limit
          <6>1. s[Open] + unheard' >= Limit
            BY <3>2, <3>4, <5>2, <5>4
          <6>2. QED BY <3>4, <5>1, <5>3, <5>4, <6>1
        <5>5. CASE count < Limit
          <6>1. unheard' = unheard + 1
            BY <3>4, <5>5
          <6>2. s[Open] + unheard' >= count + 1
            BY <3>2, <3>4, <5>2, <6>1
          <6>3. QED BY <3>4, <5>1, <5>3, <5>5, <6>2
        <5>6. QED BY <3>4, <4>2, <5>4, <5>5
      <4>3. QED BY <3>4, <4>1, <4>2
    <3>6. QED BY <1>2, <3>1, <3>3, <3>5 DEF OpenWindow
  <2>3. QED BY <2>1, <2>2
<1>6. QED BY <1>3, <1>4, <1>5 DEF LimiterInv

\* A request that is admitted.
LEMMA AllowKeepsLimiter ==
  ASSUME LimiterInv, Allow
  PROVE  LimiterInv'
<1> USE LimiterAssumption DEF Ticks
<1> DEFINE s == InLast(admitted)
           r == InLast(admitted')
<1>1. s \in [0 .. Window -> Nat] /\ s[0] = 0 /\ s[1] = s[0] + admitted[1]
  <2>1. 1 \in Ticks /\ 1 - 1 = 0
    OBVIOUS
  <2>2. QED BY <2>1, Sums DEF LimiterInv, LimiterTypes
<1>2. admitted' \in [Ticks -> Nat] /\ \A k \in Ticks : r[k] = s[k] + 1
  BY SumsAfterAllow DEF LimiterInv, LimiterTypes, Allow
<1>3. r[0] = 0
  BY <1>2, Sums
<1>4. InLast(admitted)' = r
  OBVIOUS
<1> HIDE DEF s, r
<1>5. LimiterTypes' /\ ttl' > 0
  BY <1>2 DEF LimiterInv, LimiterTypes, Allow, CountRequest
<1>6. OpenWindow'
  <2>1. CASE count = 0
    <3>1. count' = 1 /\ ttl' = Window /\ Open' = 1 /\ ttl = 0 /\ unheard' = unheard
      BY <2>1 DEF LimiterInv, LimiterTypes, Allow, CountRequest, Open
    <3>2. s[1] = 0 /\ s[Window] <= Limit - 1 /\ s[Window] \in Nat
      BY <1>1, <3>1 DEF LimiterInv, NoWindow, s
    <3>3. r[1] = 1 /\ r[Window] = s[Window] + 1
      BY <1>2, <3>2
    <3>4. QED BY <1>3, <1>4, <2>1, <3>1, <3>2, <3>3 DEF OpenWindow, LimiterInv, LimiterTypes
  <2>2. CASE count # 0
    <3>1. Open' = Open /\ ttl > 0 /\ Open \in Ticks /\ count' = count + 1 /\ count' <= Limit
          /\ unheard' = unheard /\ count \in Nat /\ unheard \in Nat
      BY <2>2 DEF LimiterInv, LimiterTypes, Allow, CountRequest, Open
    <3>2. s[Open] \in Nat /\ s[Open - 1] \in Nat /\ s[Window] \in Nat
      BY <1>1, <3>1
    <3>3. /\ s[Open] <= count
          /\ s[Open - 1] <= count - 1
          /\ s[Open] + unheard >= IF count > Limit THEN Limit ELSE count
          /\ s[Window] - s[Open] <= Limit - 1
      BY <3>1 DEF LimiterInv, OpenWindow, s
    <3>4. r[Open] = s[Open] + 1 /\ r[Window] = s[Window] + 1 /\ r[Open - 1] <= s[Open - 1] + 1
          /\ r[Open - 1] \in Nat /\ (Open = 1 => r[Open - 1] = 0)
      <4>1. CASE Open = 1
        BY <1>2, <1>3, <3>1, <3>2, <4>1
      <4>2. CASE Open # 1
        <5>1. Open - 1 \in Ticks
          BY <3>1, <4>2
        <5>2. r[Open] = s[Open] + 1 /\ r[Open - 1] = s[Open - 1] + 1
          BY <1>2, <3>1, <5>1
        <5>3. r[Window] = s[Window] + 1
          BY <1>2
        <5>4. QED BY <3>2, <4>2, <5>2, <5>3
      <4>3. QED BY <4>1, <4>2
    <3>5. /\ r[Open] <= count' /\ r[Open] <= Limit
          /\ r[Open - 1] <= count' - 1 /\ r[Open - 1] <= Limit - 1
          /\ r[Open] + unheard' >= IF count' > Limit THEN Limit ELSE count'
          /\ r[Window] - r[Open] <= Limit - 1
      BY <3>1, <3>2, <3>3, <3>4
    <3>6. QED BY <1>4, <3>1, <3>5 DEF OpenWindow
  <2>3. QED BY <2>1, <2>2
<1>7. QED BY <1>5, <1>6 DEF LimiterInv

\* Time.
LEMMA TickKeepsLimiter ==
  ASSUME LimiterInv, Tick
  PROVE  LimiterInv'
<1> USE LimiterAssumption DEF Ticks
<1> DEFINE s == InLast(admitted)
           r == InLast(admitted')
<1>1. s \in [0 .. Window -> Nat]
  BY Sums DEF LimiterInv, LimiterTypes
<1>2. admitted' \in [Ticks -> Nat] /\ admitted'[1] = 0 /\ \A k \in Ticks : r[k] = s[k - 1]
  <2>1. admitted' = [k \in Ticks |-> IF k = 1 THEN 0 ELSE admitted[k - 1]]
    BY DEF Tick
  <2>2. 1 \in Ticks
    OBVIOUS
  <2>3. QED BY <2>1, <2>2, SumsAfterTick DEF LimiterInv, LimiterTypes
<1>3. r[Window] <= s[Window] /\ r[Window] = s[Window - 1]
  <2>1. Window - 1 \in 0 .. Window /\ Window \in (Window - 1) .. Window /\ Window \in Ticks
    OBVIOUS
  <2>2. QED BY <1>2, <2>1, SumsGrow DEF LimiterInv, LimiterTypes
<1>4. InLast(admitted)' = r
  OBVIOUS
<1>5. \A k \in 0 .. Window : r[k] \in Nat
  BY <1>2, Sums
<1> HIDE DEF s, r
<1>6. LimiterTypes'
  BY <1>2 DEF LimiterInv, LimiterTypes, Tick
<1>7. CASE ttl = 0
  <2>1. ttl' = 0
    BY <1>7 DEF Tick
  <2>2. s[Window] <= Limit - 1 /\ s[Window] \in Nat /\ r[Window] \in Nat
    BY <1>1, <1>5, <1>7 DEF LimiterInv, NoWindow, s
  <2>3. QED BY <1>2, <1>3, <1>4, <1>6, <2>1, <2>2 DEF LimiterInv, NoWindow
<1>8. CASE ttl = 1
  <2>1. ttl' = 0
    BY <1>8 DEF Tick
  <2>2. Open = Window
    BY <1>8 DEF Open
  <2>3. s[Window - 1] <= Limit - 1
    BY <1>8, <2>2 DEF LimiterInv, OpenWindow, s
  <2>4. QED BY <1>2, <1>3, <1>4, <1>6, <2>1, <2>3 DEF LimiterInv, NoWindow
<1>9. CASE ttl > 1
  <2>1. /\ ttl' = ttl - 1 /\ ttl' > 0 /\ count' = count /\ unheard' = unheard
        /\ Open' = Open + 1 /\ Open \in Ticks /\ Open + 1 \in Ticks
    BY <1>9 DEF LimiterInv, LimiterTypes, Tick, Open
  <2>2. /\ s[Open] <= count /\ s[Open] <= Limit
        /\ s[Open - 1] <= count - 1 /\ s[Open - 1] <= Limit - 1
        /\ s[Open] + unheard >= IF count > Limit THEN Limit ELSE count
        /\ s[Window] - s[Open] <= Limit - 1
    <3>1. ttl > 0
      BY <1>9 DEF LimiterInv, LimiterTypes
    <3>2. QED BY <3>1 DEF LimiterInv, OpenWindow, s
  <2>3. r[Open'] = s[Open] /\ r[Open' - 1] = s[Open - 1]
    BY <1>2, <2>1
  <2>4. r[Window] - r[Open'] <= Limit - 1
    <3>1. s[Window] \in Nat /\ s[Open] \in Nat /\ r[Window] \in Nat
      BY <1>1, <1>5, <2>1
    <3>2. QED BY <1>3, <2>2, <2>3, <3>1
  <2>5. OpenWindow'
    BY <1>4, <2>1, <2>2, <2>3, <2>4 DEF OpenWindow
  <2>6. QED BY <1>6, <2>1, <2>5 DEF LimiterInv
<1>10. QED BY <1>7, <1>8, <1>9 DEF LimiterInv, LimiterTypes

\* LimiterWindow: fewer than twice the limit are admitted within the length of
\* a window, and uploads are refused only if the limit is reached or replies
\* were lost, for every limit, window and schedule of requests and faults.
THEOREM LimiterBounds == Spec => []LimiterWindow
<1>1. Init => LimiterInv
  <2> SUFFICES ASSUME Init PROVE LimiterInv
    OBVIOUS
  <2> USE LimiterAssumption DEF Ticks
  <2>1. count = 0 /\ ttl = 0 /\ unheard = 0 /\ admitted = [k \in Ticks |-> 0]
    BY DEF Init, LimiterInit
  <2>2. admitted \in [Ticks -> Nat]
    BY <2>1
  <2> DEFINE s == InLast(admitted)
             S == {m \in 0 .. Window : s[m] = 0}
  <2>3. s[0] = 0 /\ \A k \in 1 .. Window : s[k] = s[k - 1] + admitted[k]
    BY <2>2, Sums
  <2> HIDE DEF s
  <2>4. 0 \in S
    BY <2>3
  <2>5. ASSUME NEW m \in 1 .. Window, m - 1 \in S PROVE m \in S
    BY <2>1, <2>3, <2>5
  <2> HIDE DEF S
  <2>6. 0 .. Window \subseteq S
    BY <2>4, <2>5, Induction
  <2>7. s[Window] = 0
    BY <2>6 DEF S
  <2>8. QED BY <2>1, <2>2, <2>7 DEF LimiterInv, LimiterTypes, NoWindow, s
<1>2. LimiterInv /\ [Next]_vars => LimiterInv'
  <2> SUFFICES ASSUME LimiterInv, [Next]_vars PROVE LimiterInv'
    OBVIOUS
  <2>1. CASE UNCHANGED limiterVars
    BY <2>1 DEF limiterVars, LimiterInv, LimiterTypes, OpenWindow, NoWindow, Open
  <2>2. CASE Allow
    BY <2>2, AllowKeepsLimiter
  <2>3. CASE Refuse
    BY <2>3, CountKeepsLimiter DEF Refuse, LimiterInv, LimiterTypes
  <2>4. CASE AllowFails
    <3>1. CASE UNCHANGED limiterVars
      BY <2>1, <3>1
    <3>2. CASE ~UNCHANGED limiterVars
      BY <2>4, <3>2, CountKeepsLimiter DEF AllowFails, limiterVars, LimiterInv, LimiterTypes
    <3>3. QED BY <3>1, <3>2
  <2>5. CASE Tick
    BY <2>5, TickKeepsLimiter
  <2>6. UNCHANGED limiterVars \/ Allow \/ Refuse \/ AllowFails \/ Tick
    BY DEF Next, vars, Publish, MarkQueued, MarkFails, Retry, WStep, WConsume, WTruncate, WWrite,
           WUpload, WLimited, WCrash, WItemFails, Consume, TimePasses
  <2>7. QED BY <2>1, <2>2, <2>3, <2>4, <2>5, <2>6
<1>3. QED BY <1>1, <1>2, BoundHolds, PTL DEF Spec
=============================================================================
