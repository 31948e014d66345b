------------------------- MODULE FolderRoutingProofs -------------------------
(***************************************************************************)
(* What becomes of a folder, for every profile, every archive and every set *)
(* of names: no file of a confirmed folder is lost, an item fails without a *)
(* fault for named reasons only, readers see the items of their tenant and  *)
(* no others, and download the bytes that they are shown the hash of.       *)
(***************************************************************************)
EXTENDS FolderRouting, SequenceTheorems, FiniteSetTheorems, WellFoundedInduction, TLAPS

(***************************************************************************)
(* Induction, and functions that are defined by recursion.                  *)
(***************************************************************************)
LEMMA LeastNumber ==
  ASSUME NEW T, T \subseteq Nat, T # {}
  PROVE  \E x \in T : \A y \in T : x <= y
<1> DEFINE Below == {0 .. n : n \in T}
<1>1. Below \subseteq FiniteSubsetsOf(Nat)
  <2>1. ASSUME NEW n \in T PROVE 0 .. n \subseteq Nat /\ IsFiniteSet(0 .. n)
    <3>1. n \in Int /\ 0 \in Int /\ 0 .. n \subseteq Nat
      OBVIOUS
    <3>2. QED BY <3>1, FS_Interval
  <2>2. QED BY <2>1 DEF FiniteSubsetsOf
<1>2. Below # {}
  OBVIOUS
<1>3. PICK B \in Below : \A C \in Below : ~(<<C, B>> \in StrictSubsetOrdering(Nat))
  BY <1>1, <1>2, WFMin, FS_StrictSubsetOrderingWellFounded
<1>4. PICK x \in T : B = 0 .. x
  OBVIOUS
<1>5. ASSUME NEW y \in T, y < x PROVE FALSE
  <2>1. /\ 0 .. y \in Below /\ 0 .. y \in SUBSET Nat /\ 0 .. x \in SUBSET Nat
        /\ 0 .. y \subseteq 0 .. x /\ x \in 0 .. x /\ x \notin 0 .. y
    BY <1>5
  <2>2. QED BY <2>1, <1>3, <1>4 DEF StrictSubsetOrdering
<1>6. QED BY <1>5

LEMMA Induction ==
  ASSUME NEW n \in Nat, NEW S, 0 \in S, \A k \in 1 .. n : k - 1 \in S => k \in S
  PROVE  0 .. n \subseteq S
<1> SUFFICES ASSUME (0 .. n) \ S # {} PROVE FALSE
  OBVIOUS
<1>1. PICK x \in (0 .. n) \ S : \A y \in (0 .. n) \ S : x <= y
  <2>1. (0 .. n) \ S \subseteq Nat
    OBVIOUS
  <2>2. QED BY <2>1, LeastNumber
<1>2. x \in 1 .. n /\ x - 1 \in 0 .. n /\ ~(x <= x - 1)
  BY <1>1
<1>3. x - 1 \in S
  BY <1>1, <1>2
<1>4. QED BY <1>1, <1>2, <1>3

\* L steps in D, and a function whose values come from each other by the steps.
Steps(L, D) == [1 .. L -> [D -> D]]
RunOf(f, L, D, a, F) ==
  f \in [0 .. L -> D] /\ f[0] = a /\ \A n \in 1 .. L : f[n] = F[n][f[n - 1]]

LEMMA Recursion ==
  ASSUME NEW L \in Nat, NEW D, NEW a \in D, NEW F \in Steps(L, D)
  PROVE  \E f : RunOf(f, L, D, a, F)
<1> USE DEF Steps
<1> DEFINE Runs(f, m) == /\ f \in [0 .. m -> D] /\ f[0] = a
                         /\ \A n \in 1 .. m : f[n] = F[n][f[n - 1]]
           Good == {m \in 0 .. L : \E f : Runs(f, m)}
<1>1. 0 \in Good
  <2> DEFINE g == [n \in 0 .. 0 |-> a]
  <2>1. Runs(g, 0)
    OBVIOUS
  <2> HIDE DEF Runs, g
  <2>2. QED BY <2>1
<1>2. ASSUME NEW m \in 1 .. L, m - 1 \in Good PROVE m \in Good
  <2>1. PICK f : Runs(f, m - 1)
    BY <1>2
  <2> DEFINE g == [n \in 0 .. m |-> IF n = m THEN F[m][f[m - 1]] ELSE f[n]]
  <2>2. F[m][f[m - 1]] \in D
    BY <2>1
  <2>3. g \in [0 .. m -> D] /\ g[0] = a
    BY <2>1, <2>2
  <2>4. ASSUME NEW n \in 1 .. m PROVE g[n] = F[n][g[n - 1]]
    <3>1. g[n - 1] = f[n - 1]
      OBVIOUS
    <3>2. CASE n = m
      <4>1. g[n] = F[m][f[m - 1]] /\ g[n - 1] = f[m - 1]
        BY <3>1, <3>2
      <4> HIDE DEF g
      <4>2. QED BY <4>1, <3>2
    <3>3. CASE n # m
      <4>1. n \in 1 .. m - 1 /\ g[n] = f[n]
        BY <3>3
      <4>2. QED BY <3>1, <4>1, <2>1
    <3>4. QED BY <3>2, <3>3
  <2>5. Runs(g, m)
    BY <2>3, <2>4
  <2> HIDE DEF Runs, g
  <2>6. QED BY <2>5
<1>3. L \in Good
  <2> HIDE DEF Good
  <2>1. 0 .. L \subseteq Good
    BY <1>1, <1>2, Induction
  <2>2. QED BY <2>1
<1>4. QED BY <1>3 DEF RunOf

(***************************************************************************)
(* Names of parts.                                                         *)
(***************************************************************************)
\* Paths as they stand in an archive: no component is empty.
Proper == Names \ {None}
Clean == Seq(Proper) \ {<<>>}

LEMMA AppendKeepsSeq ==
  ASSUME NEW T
  PROVE  \A q \in Seq(T) : \A y \in T : Append(q, y) \in Seq(T)
OBVIOUS

LEMMA SequenceFacts ==
  ASSUME NEW T
  PROVE  /\ \A q \in Seq(T) : /\ Len(q) \in Nat /\ DOMAIN q = 1 .. Len(q)
                             /\ \A i \in 1 .. Len(q) : q[i] \in T
                             /\ q # <<>> => Len(q) # 0 /\ Last(q) \in T
         /\ \A n \in Nat : \A q \in [1 .. n -> T] : q \in Seq(T) /\ Len(q) = n
<1>1. ASSUME NEW q \in Seq(T)
      PROVE  /\ Len(q) \in Nat /\ DOMAIN q = 1 .. Len(q)
             /\ \A i \in 1 .. Len(q) : q[i] \in T
             /\ q # <<>> => Len(q) # 0 /\ Last(q) \in T
  <2>1. Len(q) \in Nat /\ DOMAIN q = 1 .. Len(q) /\ \A i \in 1 .. Len(q) : q[i] \in T
    OBVIOUS
  <2>2. q # <<>> => Len(q) # 0
    BY EmptySeq
  <2>3. QED BY <2>1, <2>2 DEF Last
<1>2. ASSUME NEW n \in Nat, NEW q \in [1 .. n -> T] PROVE q \in Seq(T) /\ Len(q) = n
  OBVIOUS
<1>3. QED BY <1>1, <1>2

\* What is left of a raw name are the components of it that are not empty.
LEMMA PartsClean ==
  ASSUME NEW raw \in Seq(Names)
  PROVE  Parts(raw) \in Seq(Proper)
<1> DEFINE L == Len(raw)
           D == Seq(Proper)
           Kept(s, n) == IF raw[n] = None THEN s ELSE Append(s, raw[n])
           F == [n \in 1 .. L |-> [s \in D |-> Kept(s, n)]]
           Body(f, n) == IF n = 0 THEN <<>>
                         ELSE IF raw[n] = None THEN f[n - 1] ELSE Append(f[n - 1], raw[n])
           Def(f) == f = [n \in 0 .. L |-> Body(f, n)]
<1>1. L \in Nat /\ <<>> \in D /\ \A n \in 1 .. L : raw[n] \in Names
  OBVIOUS
<1>2. \A s \in D : \A x \in Proper : Append(s, x) \in D
  BY AppendKeepsSeq
<1>3. Parts(raw) = (CHOOSE g : Def(g))[L]
  BY DEF Parts
<1> HIDE DEF D, L
<1>4. \A s \in D : \A n \in 1 .. L : Kept(s, n) \in D
  BY <1>1, <1>2 DEF Proper
<1>5. \A f, n : Body(f, n) = IF n = 0 THEN <<>> ELSE Kept(f[n - 1], n)
  OBVIOUS
<1> HIDE DEF Kept, Body
<1>6. /\ F \in Steps(L, D)
      /\ \A s \in D : \A n \in 1 .. L : F[n][s] = Kept(s, n)
  BY <1>4 DEF Steps
<1> HIDE DEF F
<1>7. PICK f : RunOf(f, L, D, <<>>, F)
  BY <1>1, <1>6, Recursion
<1>8. /\ f \in [0 .. L -> D]
      /\ f[0] = <<>> /\ \A n \in 1 .. L : f[n] = F[n][f[n - 1]]
  BY <1>7 DEF RunOf
<1>9. \A n \in 0 .. L : f[n] = Body(f, n)
  <2>1. \A n \in 1 .. L : f[n - 1] \in D
    BY <1>1, <1>8
  <2>2. \A n \in 0 .. L : n = 0 \/ n \in 1 .. L
    BY <1>1
  <2>3. QED BY <2>1, <2>2, <1>5, <1>6, <1>8
<1>10. Def(f)
  BY <1>8, <1>9
<1> DEFINE g == CHOOSE g : Def(g)
<1>11. Def(g)
  <2> HIDE DEF Def
  <2>1. QED BY <1>10
<1> HIDE DEF g
<1>12. \A n \in 0 .. L : g[n] = Body(g, n)
  BY <1>11
<1> DEFINE S == {n \in 0 .. L : g[n] \in D}
<1>13. 0 \in S
  BY <1>1, <1>5, <1>12
<1>14. \A n \in 1 .. L : n - 1 \in S => n \in S
  <2>1. \A n \in 1 .. L : n \in 0 .. L /\ n # 0
    BY <1>1
  <2>2. QED BY <2>1, <1>4, <1>5, <1>12
<1> HIDE DEF S
<1>15. 0 .. L \subseteq S
  BY <1>1, <1>13, <1>14, Induction
<1>16. g[L] \in D
  BY <1>1, <1>15 DEF S
<1>17. QED BY <1>3, <1>16 DEF D, g

LEMMA SafeIsClean ==
  ASSUME NEW raw \in Seq(Names), SafeArchiveName(raw) # <<>>
  PROVE  SafeArchiveName(raw) \in Clean
BY PartsClean DEF SafeArchiveName, Clean

LEMMA DecodeKeepsClean ==
  ASSUME NEW path \in Clean
  PROVE  DecodeZipFilename(path) \in Clean
<1> USE ClassifierAssumption
<1> DEFINE read == [i \in DOMAIN path |-> Regarded[path[i]]]
<1>1. /\ Len(path) \in Nat \ {0} /\ DOMAIN path = 1 .. Len(path)
      /\ \A i \in 1 .. Len(path) : path[i] \in Proper
  BY SequenceFacts DEF Clean
<1>2. \A x \in Proper : Regarded[x] \in Proper
  BY DEF Proper
<1>3. \A i \in 1 .. Len(path) : read[i] \in Proper
  BY <1>1, <1>2
<1>4. read \in [1 .. Len(path) -> Proper]
  BY <1>1, <1>3
<1> HIDE DEF read
<1>5. read \in Seq(Proper) /\ Len(read) = Len(path)
  BY <1>1, <1>4, SequenceFacts
<1>6. read \in Clean
  BY <1>1, <1>5 DEF Clean
<1>7. QED BY <1>6 DEF DecodeZipFilename, read

LEMMA CleanIsNoDirectory ==
  ASSUME NEW path \in Clean
  PROVE  ~IsDirectory(path)
BY SequenceFacts DEF Clean, IsDirectory, Proper

(***************************************************************************)
(* The row of one file.                                                    *)
(***************************************************************************)
Severities == {"ok", "warning", "error", "ignored"}

\* A file has one of four severities, it is ignored as its name says, and an
\* accepted one has a target; its path is missing for two reasons only.
LEMMA FileRow ==
  ASSUME NEW p, NEW path, IsProfile(p)
  PROVE  LET row == ClassifyFile(p, path) IN
         /\ row.src = path
         /\ row.severity \in Severities
         /\ row.severity = "ignored" => IsIgnored(p, path)
         /\ row.severity \in {"ok", "warning"} =>
              /\ ~IsIgnored(p, path)
              /\ TargetOf(p, path) # None /\ row.target = TargetOf(p, path)
              /\ row.dst = <<>> => CategoryOf(p, row.type) = None \/ p.pathTemplate = <<>>
<1> DEFINE t == TargetOf(p, path)
<1>1. ASSUME NEW sev, NEW e
      PROVE  /\ Unclassified(path, sev, e).src = path
             /\ Unclassified(path, sev, e).severity = sev
  BY DEF Unclassified
<1>2. /\ ClassifyDocument(p, path, t).src = path
      /\ ClassifyDocument(p, path, t).severity \in {"ok", "warning", "error"}
      /\ ClassifyDocument(p, path, t).target = t
      /\ ClassifyDocument(p, path, t).severity # "error" /\ ClassifyDocument(p, path, t).dst = <<>>
           => CategoryOf(p, ClassifyDocument(p, path, t).type) = None \/ p.pathTemplate = <<>>
  <2> DEFINE type == ResolveDocumentType(p, Last(path))
             category == CategoryOf(p, type)
             rendered == IF category = None THEN <<>>
                         ELSE RenderPath(p, category, type, Last(path))
             escapes == ".." \in ToSet(rendered)
             row == ClassifyDocument(p, path, t)
  <2>1. /\ row.src = path /\ row.target = t /\ row.type = type
        /\ row.dst = IF escapes THEN <<>> ELSE rendered
        /\ row.severity = CASE escapes -> "error" [] type = None -> "warning" [] OTHER -> "ok"
    BY DEF ClassifyDocument, Unclassified
  <2>2. rendered = <<>> => category = None \/ p.pathTemplate = <<>>
    <3> SUFFICES ASSUME rendered = <<>>, category # None PROVE p.pathTemplate = <<>>
      OBVIOUS
    <3>1. DOMAIN p.pathTemplate = DOMAIN <<>>
      BY DEF RenderPath
    <3>2. DOMAIN p.pathTemplate = {}
      BY <3>1
    <3>3. /\ Len(p.pathTemplate) \in Nat /\ DOMAIN p.pathTemplate = 1 .. Len(p.pathTemplate)
          /\ p.pathTemplate # <<>> => Len(p.pathTemplate) # 0
      BY SequenceFacts DEF IsProfile
    <3>4. Len(p.pathTemplate) # 0 => 1 \in DOMAIN p.pathTemplate
      BY <3>3
    <3>5. QED BY <3>2, <3>3, <3>4
  <2>3. escapes => type # None
    <3>1. type = None => rendered = <<>>
      BY DEF CategoryOf
    <3>2. ".." \notin ToSet(<<>>)
      BY DEF ToSet
    <3>3. QED BY <3>1, <3>2
  <2> HIDE DEF type, category, rendered, escapes, row
  <2>4. row.severity \in {"ok", "warning", "error"} /\ (escapes <=> row.severity = "error")
    <3>1. CASE escapes
      BY <2>1, <2>3, <3>1
    <3>2. CASE ~escapes /\ type = None
      BY <2>1, <3>2
    <3>3. CASE ~escapes /\ type # None
      BY <2>1, <3>3
    <3>4. QED BY <3>1, <3>2, <3>3
  <2>5. QED BY <2>1, <2>2, <2>4 DEF row, category
<1>3. CASE IsPathTraversal(path)
  <2>1. ClassifyFile(p, path) = Unclassified(path, "error", "path_traversal")
    BY <1>3 DEF ClassifyFile
  <2>2. ClassifyFile(p, path).src = path /\ ClassifyFile(p, path).severity = "error"
    BY <2>1, <1>1
  <2>3. QED BY <2>2 DEF Severities
<1>4. CASE ~IsPathTraversal(path) /\ IsIgnored(p, path)
  <2>1. ClassifyFile(p, path) = Unclassified(path, "ignored", None)
    BY <1>4 DEF ClassifyFile
  <2>2. ClassifyFile(p, path).src = path /\ ClassifyFile(p, path).severity = "ignored"
    BY <2>1, <1>1
  <2>3. QED BY <2>2, <1>4 DEF Severities
<1>5. CASE ~IsPathTraversal(path) /\ ~IsIgnored(p, path) /\ t = None
  <2>1. ClassifyFile(p, path) = Unclassified(path, "error", "unknown_target")
    BY <1>5 DEF ClassifyFile
  <2>2. ClassifyFile(p, path).src = path /\ ClassifyFile(p, path).severity = "error"
    BY <2>1, <1>1
  <2>3. QED BY <2>2 DEF Severities
<1>6. CASE ~IsPathTraversal(path) /\ ~IsIgnored(p, path) /\ t # None
  <2>1. ClassifyFile(p, path) = ClassifyDocument(p, path, t)
    BY <1>6 DEF ClassifyFile
  <2>2. QED BY <2>1, <1>2, <1>6 DEF Severities
<1>7. QED BY <1>3, <1>4, <1>5, <1>6

\* A target of a row is named by its path.
LEMMA TargetIsNamed ==
  ASSUME NEW path, IsProfile(profile), TargetOf(profile, path) # None, Len(path) \in Nat \ {0}
  PROVE  NamesTarget(path, TargetOf(profile, path))
<1> DEFINE raw == ExtractTargetRaw(profile, path)
           Which == {k \in 1 .. Len(profile.targets) : AnswersTo(profile.targets[k], raw)}
<1>1. CASE profile.strategy = "broadcast"
  BY <1>1 DEF TargetOf, ExtractTargetRaw, NamesTarget
<1>2. CASE profile.strategy # "broadcast"
  <2>1. TargetOf(profile, path) = ResolveTarget(profile, raw)
    BY <1>2 DEF TargetOf
  <2>2. ResolveTarget(profile, raw) = IF Which # {} THEN profile.targets[Min(Which)].key ELSE None
    <3> DEFINE k == SelectInSeq(profile.targets, LAMBDA tc : AnswersTo(tc, raw))
    <3>1. k = IF Which # {} THEN Min(Which) ELSE 0
      BY DEF SelectInSeq
    <3>2. Which # {} => Min(Which) \in Which
      <4>1. Which \subseteq Nat
        BY DEF IsProfile
      <4> HIDE DEF Which
      <4>2. QED BY <4>1, LeastNumber DEF Min
    <3>3. ResolveTarget(profile, raw) = IF k = 0 THEN None ELSE profile.targets[k].key
      BY DEF ResolveTarget
    <3> HIDE DEF k
    <3>4. 0 \notin Which
      BY DEF IsProfile
    <3> HIDE DEF Which
    <3>5. QED BY <3>1, <3>2, <3>3, <3>4
  <2>3. Which # {} /\ Min(Which) \in Which
    <3>1. Which \subseteq Nat
      BY DEF IsProfile
    <3> HIDE DEF Which
    <3>2. QED BY <3>1, <2>1, <2>2, LeastNumber DEF Min
  <2>4. raw = IF Len(path) >= 2 THEN path[1] ELSE profile.segment[path[1]]
    BY <1>2 DEF ExtractTargetRaw
  <2>5. \E k \in DOMAIN profile.targets : /\ profile.targets[k].key = TargetOf(profile, path)
                                          /\ AnswersTo(profile.targets[k], raw)
    <3>1. Min(Which) \in DOMAIN profile.targets /\ AnswersTo(profile.targets[Min(Which)], raw)
      BY <2>3 DEF IsProfile
    <3> HIDE DEF Which, raw
    <3>2. QED BY <3>1, <2>1, <2>2, <2>3
  <2> HIDE DEF raw
  <2>6. CASE Len(path) > 1
    BY <2>4, <2>5, <2>6 DEF NamesTarget
  <2>7. CASE Len(path) = 1
    BY <2>4, <2>5, <2>7 DEF NamesTarget
  <2>8. QED BY <2>6, <2>7
<1>3. QED BY <1>1, <1>2

(***************************************************************************)
(* The rows and the summary of an archive.                                  *)
(***************************************************************************)
\* The rows that the members of an archive would get, and the summaries of
\* such rows.
RowOf(p, entries, m) == ClassifyFile(p, DecodeZipFilename(entries[m]))
RowsOf(p, entries) == {RowOf(p, entries, m) : m \in 1 .. Len(entries)}
Summaries(R) ==
  [total : Nat, ok : Nat, warning : Nat, error : Nat, ignored : Nat,
   unmatchedTargets : Nat, unmatchedTypes : Nat,
   targetsInvolved : SUBSET {row.target : row \in R}, hasBlockingErrors : BOOLEAN]

\* What a counted row adds to a summary.
LEMMA Counted ==
  ASSUME NEW R, NEW s \in Summaries(R), NEW row \in R, row.severity \in Severities
  PROVE  LET c == CountItem(s, row) IN
         /\ c \in Summaries(R)
         /\ c.total = s.total + 1
         /\ c.ok = s.ok + One(row.severity = "ok")
         /\ c.warning = s.warning + One(row.severity = "warning")
         /\ c.error = s.error + One(row.severity = "error")
         /\ c.ignored = s.ignored + One(row.severity = "ignored")
         /\ c.targetsInvolved = s.targetsInvolved \cup {t \in {row.target} : row.severity = "ok"}
<1> DEFINE Fields == {"total", "ok", "warning", "error", "ignored", "unmatchedTargets",
                      "unmatchedTypes", "targetsInvolved", "hasBlockingErrors"}
           sev == row.severity
           unmatched == row.error = "unknown_target"
           named == {t \in {row.target} : sev = "ok"}
           c1 == [s EXCEPT !.total = s.total + 1]
           c2 == [c1 EXCEPT ![sev] = s[sev] + 1]
           c3 == [c2 EXCEPT !.unmatchedTargets = s.unmatchedTargets + One(unmatched)]
           c4 == [c3 EXCEPT !.unmatchedTypes = s.unmatchedTypes + One(sev = "warning")]
           c5 == [c4 EXCEPT !.targetsInvolved = s.targetsInvolved \cup named]
<1>1. CountItem(s, row) = c5
  BY DEF CountItem
<1>2. /\ s = [f \in Fields |-> s[f]]
      /\ s.total \in Nat /\ s.ok \in Nat /\ s.warning \in Nat /\ s.error \in Nat
      /\ s.ignored \in Nat /\ s.unmatchedTargets \in Nat /\ s.unmatchedTypes \in Nat
      /\ s.targetsInvolved \in SUBSET {r.target : r \in R} /\ s.hasBlockingErrors \in BOOLEAN
  BY DEF Summaries
<1> HIDE DEF unmatched, named
<1>3. /\ c1 = [f \in Fields |-> c1[f]]
      /\ c1.total = s.total + 1
      /\ c1.ok = s.ok
      /\ c1.warning = s.warning
      /\ c1.error = s.error
      /\ c1.ignored = s.ignored
      /\ c1.unmatchedTargets = s.unmatchedTargets
      /\ c1.unmatchedTypes = s.unmatchedTypes
      /\ c1.targetsInvolved = s.targetsInvolved
      /\ c1.hasBlockingErrors = s.hasBlockingErrors
  BY <1>2
<1> HIDE DEF c1
<1>4. /\ c2 = [f \in Fields |-> c2[f]]
      /\ c2.total = s.total + 1
      /\ c2.ok = s.ok + One(sev = "ok")
      /\ c2.warning = s.warning + One(sev = "warning")
      /\ c2.error = s.error + One(sev = "error")
      /\ c2.ignored = s.ignored + One(sev = "ignored")
      /\ c2.unmatchedTargets = s.unmatchedTargets
      /\ c2.unmatchedTypes = s.unmatchedTypes
      /\ c2.targetsInvolved = s.targetsInvolved
      /\ c2.hasBlockingErrors = s.hasBlockingErrors
  <2> HIDE DEF sev
  <2>1. CASE sev = "ok"
    BY <1>2, <1>3, <2>1 DEF One
  <2>2. CASE sev = "warning"
    BY <1>2, <1>3, <2>2 DEF One
  <2>3. CASE sev = "error"
    BY <1>2, <1>3, <2>3 DEF One
  <2>4. CASE sev = "ignored"
    BY <1>2, <1>3, <2>4 DEF One
  <2>5. QED BY <2>1, <2>2, <2>3, <2>4 DEF Severities, sev
<1> HIDE DEF c2
<1>5. /\ c3 = [f \in Fields |-> c3[f]]
      /\ c3.total = s.total + 1
      /\ c3.ok = s.ok + One(sev = "ok")
      /\ c3.warning = s.warning + One(sev = "warning")
      /\ c3.error = s.error + One(sev = "error")
      /\ c3.ignored = s.ignored + One(sev = "ignored")
      /\ c3.unmatchedTargets = s.unmatchedTargets + One(unmatched)
      /\ c3.unmatchedTypes = s.unmatchedTypes
      /\ c3.targetsInvolved = s.targetsInvolved
      /\ c3.hasBlockingErrors = s.hasBlockingErrors
  BY <1>4, <1>2
<1> HIDE DEF c3
<1>6. /\ c4 = [f \in Fields |-> c4[f]]
      /\ c4.total = s.total + 1
      /\ c4.ok = s.ok + One(sev = "ok")
      /\ c4.warning = s.warning + One(sev = "warning")
      /\ c4.error = s.error + One(sev = "error")
      /\ c4.ignored = s.ignored + One(sev = "ignored")
      /\ c4.unmatchedTargets = s.unmatchedTargets + One(unmatched)
      /\ c4.unmatchedTypes = s.unmatchedTypes + One(sev = "warning")
      /\ c4.targetsInvolved = s.targetsInvolved
      /\ c4.hasBlockingErrors = s.hasBlockingErrors
  BY <1>5, <1>2
<1> HIDE DEF c4
<1>7. /\ c5 = [f \in Fields |-> c5[f]]
      /\ c5.total = s.total + 1
      /\ c5.ok = s.ok + One(sev = "ok")
      /\ c5.warning = s.warning + One(sev = "warning")
      /\ c5.error = s.error + One(sev = "error")
      /\ c5.ignored = s.ignored + One(sev = "ignored")
      /\ c5.unmatchedTargets = s.unmatchedTargets + One(unmatched)
      /\ c5.unmatchedTypes = s.unmatchedTypes + One(sev = "warning")
      /\ c5.targetsInvolved = s.targetsInvolved \cup named
      /\ c5.hasBlockingErrors = s.hasBlockingErrors
  BY <1>6, <1>2
<1> HIDE DEF c5
<1>8. \A b : One(b) \in Nat
  BY DEF One
<1>9. named \subseteq {r.target : r \in R}
  BY DEF named
<1>10. c5.targetsInvolved \in SUBSET {r.target : r \in R}
  BY <1>2, <1>7, <1>9
<1> DEFINE T == SUBSET {r.target : r \in R}
<1> HIDE DEF T
<1>11. /\ c5.total \in Nat /\ c5.ok \in Nat /\ c5.warning \in Nat /\ c5.error \in Nat
       /\ c5.ignored \in Nat /\ c5.unmatchedTargets \in Nat /\ c5.unmatchedTypes \in Nat
       /\ c5.targetsInvolved \in T /\ c5.hasBlockingErrors \in BOOLEAN
  BY <1>2, <1>7, <1>8, <1>10 DEF T
<1>12. c5 \in Summaries(R)
  <2>1. c5 = [f \in Fields |-> c5[f]]
    BY <1>7
  <2>2. c5 \in [total : Nat, ok : Nat, warning : Nat, error : Nat, ignored : Nat,
                unmatchedTargets : Nat, unmatchedTypes : Nat,
                targetsInvolved : T, hasBlockingErrors : BOOLEAN]
    BY <2>1, <1>11
  <2>3. QED BY <2>2 DEF Summaries, T
<1>13. QED
  BY <1>1, <1>7, <1>12 DEF named

\* What there is before and after each member.
Books(R) == [items : Seq(R), summary : Summaries(R)]
Booked(acc, row) ==
  [items |-> IF row.severity = "ignored" THEN acc.items ELSE Append(acc.items, row),
   summary |-> CountItem(acc.summary, row)]

LEMMA RowsAreRows ==
  ASSUME NEW p, IsProfile(p), NEW entries \in Seq(Clean), NEW m \in 1 .. Len(entries)
  PROVE  /\ DecodeZipFilename(entries[m]) \in Clean
         /\ RowOf(p, entries, m) \in RowsOf(p, entries)
         /\ RowOf(p, entries, m).severity \in Severities
         /\ RowOf(p, entries, m).src = DecodeZipFilename(entries[m])
<1>1. entries[m] \in Clean
  OBVIOUS
<1>2. DecodeZipFilename(entries[m]) \in Clean
  BY <1>1, DecodeKeepsClean
<1>3. QED BY <1>2, FileRow DEF RowOf, RowsOf

LEMMA BookedIsBooks ==
  ASSUME NEW R, NEW acc \in Books(R), NEW row \in R, row.severity \in Severities
  PROVE  Booked(acc, row) \in Books(R)
<1>1. acc.items \in Seq(R) /\ acc.summary \in Summaries(R)
  BY DEF Books
<1>2. Append(acc.items, row) \in Seq(R)
  BY <1>1, AppendKeepsSeq
<1>3. CountItem(acc.summary, row) \in Summaries(R)
  BY <1>1, Counted
<1>4. QED BY <1>1, <1>2, <1>3 DEF Booked, Books

LEMMA TurnsAre ==
  ASSUME NEW p, IsProfile(p), NEW entries \in Seq(Clean)
  PROVE  /\ \A n \in 0 .. Len(entries) : Turns(p, entries)[n] \in Books(RowsOf(p, entries))
         /\ Turns(p, entries)[0] = [items |-> <<>>, summary |-> EmptySummary]
         /\ \A n \in 1 .. Len(entries) :
              Turns(p, entries)[n] = Booked(Turns(p, entries)[n - 1], RowOf(p, entries, n))
<1> DEFINE L == Len(entries)
           D == Books(RowsOf(p, entries))
           start == [items |-> <<>>, summary |-> EmptySummary]
           row(n) == RowOf(p, entries, n)
           F == [n \in 1 .. L |-> [acc \in D |-> Booked(acc, row(n))]]
           Body(f, n) == IF n = 0 THEN start ELSE ClassifyEntry(p, f[n - 1], entries[n])
           Def(f) == f = [n \in 0 .. L |-> Body(f, n)]
<1>1. L \in Nat
  OBVIOUS
<1>2. start \in D
  <2>1. EmptySummary \in Summaries(RowsOf(p, entries))
    BY DEF EmptySummary, Summaries
  <2>2. <<>> \in Seq(RowsOf(p, entries))
    OBVIOUS
  <2>3. QED BY <2>1, <2>2 DEF Books
<1>3. Turns(p, entries) = CHOOSE g : Def(g)
  BY DEF Turns
<1>4. \A acc : \A n \in 1 .. L : ClassifyEntry(p, acc, entries[n]) = Booked(acc, row(n))
  <2>1. \A n \in 1 .. L : ~IsDirectory(DecodeZipFilename(entries[n]))
    BY RowsAreRows, CleanIsNoDirectory
  <2>2. QED BY <2>1 DEF ClassifyEntry, Booked, RowOf
<1>5. \A acc \in D : \A n \in 1 .. L : Booked(acc, row(n)) \in D
  BY RowsAreRows, BookedIsBooks
<1> HIDE DEF D, L, row, start
<1>6. \A f : Body(f, 0) = start /\ \A n \in 1 .. L : Body(f, n) = Booked(f[n - 1], row(n))
  <2>1. \A n \in 1 .. L : n # 0
    BY <1>1
  <2>2. QED BY <2>1, <1>4
<1> HIDE DEF Body
<1>7. /\ F \in Steps(L, D)
      /\ \A acc \in D : \A n \in 1 .. L : F[n][acc] = Booked(acc, row(n))
  BY <1>5 DEF Steps
<1> HIDE DEF F
<1>8. PICK f : RunOf(f, L, D, start, F)
  BY <1>1, <1>2, <1>7, Recursion
<1>9. /\ f \in [0 .. L -> D]
      /\ f[0] = start /\ \A n \in 1 .. L : f[n] = F[n][f[n - 1]]
  BY <1>8 DEF RunOf
<1>10. \A n \in 0 .. L : f[n] = Body(f, n)
  <2>1. ASSUME NEW n \in 1 .. L PROVE f[n] = Body(f, n)
    <3>1. f[n - 1] \in D
      BY <1>1, <1>9
    <3>2. f[n] = Booked(f[n - 1], row(n))
      BY <3>1, <1>7, <1>9
    <3>3. QED BY <3>2, <1>6
  <2>2. f[0] = Body(f, 0)
    BY <1>6, <1>9
  <2>3. QED BY <2>1, <2>2, <1>1
<1>11. Def(f)
  BY <1>9, <1>10
<1> DEFINE g == Turns(p, entries)
<1>12. Def(g)
  <2> HIDE DEF Def
  <2>1. QED BY <1>3, <1>11
<1> HIDE DEF g
<1>13. g[0] = start /\ \A n \in 1 .. L : g[n] = Booked(g[n - 1], row(n))
  <2>1. \A n \in 0 .. L : g[n] = Body(g, n)
    BY <1>12
  <2>2. 0 \in 0 .. L /\ \A n \in 1 .. L : n \in 0 .. L
    BY <1>1
  <2>3. QED BY <2>1, <2>2, <1>6
<1> DEFINE S == {n \in 0 .. L : g[n] \in D}
<1>14. 0 \in S
  BY <1>1, <1>2, <1>13
<1>15. \A n \in 1 .. L : n - 1 \in S => n \in S
  <2>1. \A n \in 1 .. L : n \in 0 .. L
    BY <1>1
  <2>2. QED BY <2>1, <1>5, <1>13
<1> HIDE DEF S
<1>16. 0 .. L \subseteq S
  BY <1>1, <1>14, <1>15, Induction
<1>17. \A n \in 0 .. L : g[n] \in D
  BY <1>16 DEF S
<1>18. QED BY <1>13, <1>17 DEF D, L, row, start, g

\* What the turns keep: the counts add up to the members so far, the rows are
\* those of accepted and refused members, and nothing refused is left uncounted.
Balanced(acc, n) ==
  /\ acc.summary.total = n
  /\ n = acc.summary.ok + acc.summary.warning + acc.summary.error + acc.summary.ignored
  /\ Len(acc.items) = acc.summary.ok + acc.summary.warning + acc.summary.error
  /\ \A k \in 1 .. Len(acc.items) :
       LET row == acc.items[k] IN
       /\ row.severity # "ignored"
       /\ row.severity = "error" => acc.summary.error > 0
       /\ row.severity = "ok" => row.target \in acc.summary.targetsInvolved

Entered(p, entries, acc, n) ==
  \A m \in 1 .. n : LET row == RowOf(p, entries, m) IN
    row.severity # "ignored" => \E k \in 1 .. Len(acc.items) : acc.items[k] = row

LEMMA BookedKeeps ==
  ASSUME NEW R, NEW acc \in Books(R), NEW row \in R, row.severity \in Severities,
         NEW n \in Nat, Balanced(acc, n)
  PROVE  /\ Balanced(Booked(acc, row), n + 1)
         /\ \A k \in 1 .. Len(acc.items) : /\ k \in 1 .. Len(Booked(acc, row).items)
                                           /\ Booked(acc, row).items[k] = acc.items[k]
         /\ row.severity # "ignored" =>
              \E k \in 1 .. Len(Booked(acc, row).items) : Booked(acc, row).items[k] = row
<1> DEFINE q == acc.items
           r == Booked(acc, row).items
           s == acc.summary
           c == Booked(acc, row).summary
<1>1. /\ s \in Summaries(R) /\ q \in Seq(R)
      /\ r = IF row.severity = "ignored" THEN q ELSE Append(q, row)
      /\ c = CountItem(s, row)
  BY DEF Books, Booked
<1>2. /\ c \in Summaries(R)
      /\ c.total = s.total + 1
      /\ c.ok = s.ok + One(row.severity = "ok")
      /\ c.warning = s.warning + One(row.severity = "warning")
      /\ c.error = s.error + One(row.severity = "error")
      /\ c.ignored = s.ignored + One(row.severity = "ignored")
      /\ c.targetsInvolved = s.targetsInvolved \cup {t \in {row.target} : row.severity = "ok"}
  BY <1>1, Counted
<1>3. /\ s.total \in Nat /\ s.ok \in Nat /\ s.warning \in Nat /\ s.error \in Nat /\ s.ignored \in Nat
  BY <1>1 DEF Summaries
<1>4. /\ s.total = n /\ n = s.ok + s.warning + s.error + s.ignored
      /\ Len(q) = s.ok + s.warning + s.error
  BY DEF Balanced
<1>15. \A k \in 1 .. Len(q) : /\ q[k].severity # "ignored"
                              /\ q[k].severity = "error" => s.error > 0
                              /\ q[k].severity = "ok" => q[k].target \in s.targetsInvolved
  BY DEF Balanced
<1>5. Len(q) \in Nat
  BY <1>1
<1>6. row.severity # "ignored" =>
        Len(r) = Len(q) + 1 /\ r[Len(q) + 1] = row /\ \A k \in 1 .. Len(q) : r[k] = q[k]
  <2>1. /\ Len(Append(q, row)) = Len(q) + 1 /\ Append(q, row)[Len(q) + 1] = row
        /\ \A k \in 1 .. Len(q) : Append(q, row)[k] = q[k]
    BY <1>1, AppendProperties
  <2>2. QED BY <1>1, <2>1
<1>7. row.severity = "ignored" => r = q
  BY <1>1
<1> HIDE DEF q, r, s, c
<1>8. \A k \in 1 .. Len(q) : k \in 1 .. Len(r) /\ r[k] = q[k]
  BY <1>5, <1>6, <1>7
<1>9. row.severity # "ignored" => \E k \in 1 .. Len(r) : r[k] = row
  BY <1>5, <1>6
<1> DEFINE a == One(row.severity = "ok")
           b == One(row.severity = "warning")
           d == One(row.severity = "error")
           e == One(row.severity = "ignored")
<1>10. /\ c.total = n + 1 /\ n + 1 = c.ok + c.warning + c.error + c.ignored
       /\ Len(r) = c.ok + c.warning + c.error
  <2>1. a \in Nat /\ b \in Nat /\ d \in Nat /\ e \in Nat /\ a + b + d + e = 1
    BY DEF One, Severities
  <2>2. Len(r) = Len(q) + a + b + d
    <3>1. CASE row.severity = "ignored"
      BY <1>5, <1>7, <3>1 DEF One
    <3>2. CASE row.severity # "ignored"
      <4>1. e = 0
        BY <3>2 DEF One
      <4> HIDE DEF a, b, d, e
      <4>2. QED BY <4>1, <3>2, <2>1, <1>5, <1>6
    <3>3. QED BY <3>1, <3>2
  <2>3. /\ c.total = s.total + 1 /\ c.ok = s.ok + a /\ c.warning = s.warning + b
        /\ c.error = s.error + d /\ c.ignored = s.ignored + e
    BY <1>2
  <2> HIDE DEF a, b, d, e
  <2>4. c.total = n + 1
    BY <2>3, <1>4
  <2>5. /\ s.ok + a \in Nat /\ s.warning + b \in Nat /\ s.error + d \in Nat /\ s.ignored + e \in Nat
        /\ (s.ok + a) + (s.warning + b) + (s.error + d)
             = (s.ok + s.warning + s.error) + (a + b + d)
        /\ (s.ok + s.warning + s.error + s.ignored) + (a + b + d + e)
             = (s.ok + a) + (s.warning + b) + (s.error + d) + (s.ignored + e)
    BY <2>1, <1>3
  <2>6. n + 1 = c.ok + c.warning + c.error + c.ignored
    BY <2>1, <2>3, <2>5, <1>4
  <2>7. Len(q) + a + b + d = Len(q) + (a + b + d)
    BY <2>1, <1>5
  <2>8. Len(r) = c.ok + c.warning + c.error
    BY <2>2, <2>3, <2>5, <2>7, <1>4
  <2>9. QED BY <2>4, <2>6, <2>8
<1>11. c.error >= s.error /\ (row.severity = "error" => c.error > 0)
  BY <1>2, <1>3 DEF One
<1>12. ASSUME NEW k \in 1 .. Len(r)
       PROVE  /\ r[k].severity # "ignored"
              /\ r[k].severity = "error" => c.error > 0
              /\ r[k].severity = "ok" => r[k].target \in c.targetsInvolved
  <2>1. CASE k \in 1 .. Len(q)
    <3>1. r[k] = q[k]
      BY <1>8, <2>1
    <3>2. s.error > 0 => c.error > 0
      BY <1>2, <1>3, <1>11 DEF One
    <3>3. s.targetsInvolved \subseteq c.targetsInvolved
      BY <1>2
    <3>4. QED BY <3>1, <3>2, <3>3, <2>1, <1>15
  <2>2. CASE k \notin 1 .. Len(q)
    <3>1. row.severity # "ignored" /\ k = Len(q) + 1
      BY <1>5, <1>6, <1>7, <2>2
    <3>2. r[k] = row
      BY <3>1, <1>6
    <3>3. QED BY <3>1, <3>2, <1>2, <1>11
  <2>3. QED BY <2>1, <2>2
<1>13. Balanced(Booked(acc, row), n + 1)
  BY <1>10, <1>12 DEF Balanced, r, c
<1>14. QED
  BY <1>8, <1>9, <1>13 DEF q, r

\* What the classification of a whole archive is.
LEMMA ZipIs ==
  ASSUME NEW p, IsProfile(p), NEW entries \in Seq(Clean)
  PROVE  LET z == ClassifyZip(p, entries) IN
         /\ z.items \in Seq(RowsOf(p, entries))
         /\ Balanced(z, Len(entries))
         /\ Entered(p, entries, z, Len(entries))
         /\ z.summary.hasBlockingErrors = (z.summary.error > 0)
         /\ z.summary.ok \in Nat /\ z.summary.warning \in Nat /\ z.summary.error \in Nat
         /\ z.summary.ignored \in Nat
<1> DEFINE L == Len(entries)
           R == RowsOf(p, entries)
           g == Turns(p, entries)
           row(n) == RowOf(p, entries, n)
           S == {n \in 0 .. L : Balanced(g[n], n) /\ Entered(p, entries, g[n], n)}
<1>1. L \in Nat
  OBVIOUS
<1>2. /\ \A n \in 0 .. L : g[n] \in Books(R)
      /\ g[0] = [items |-> <<>>, summary |-> EmptySummary]
      /\ \A n \in 1 .. L : g[n] = Booked(g[n - 1], row(n))
  BY TurnsAre
<1>3. \A n \in 1 .. L : row(n) \in R /\ row(n).severity \in Severities
  BY RowsAreRows
<1>4. ClassifyZip(p, entries) = [g[L] EXCEPT !.summary.hasBlockingErrors = g[L].summary.error > 0]
  BY DEF ClassifyZip
<1> HIDE DEF L, g, R
<1>5. 0 \in S
  <2>1. Balanced(g[0], 0)
    BY <1>2 DEF Balanced, EmptySummary
  <2>2. Entered(p, entries, g[0], 0)
    BY DEF Entered
  <2>3. QED BY <2>1, <2>2, <1>1
<1>6. \A n \in 1 .. L : n - 1 \in S => n \in S
  <2> SUFFICES ASSUME NEW n \in 1 .. L, n - 1 \in S PROVE n \in S
    OBVIOUS
  <2>1. /\ n - 1 \in Nat /\ (n - 1) + 1 = n /\ n \in 0 .. L /\ n - 1 \in 0 .. L
        /\ \A m \in 1 .. n : m = n \/ m \in 1 .. n - 1
    BY <1>1
  <2>2. g[n - 1] \in Books(R) /\ g[n] = Booked(g[n - 1], row(n))
    BY <1>2, <2>1
  <2>3. Balanced(g[n - 1], n - 1) /\ Entered(p, entries, g[n - 1], n - 1)
    OBVIOUS
  <2>4. /\ Balanced(g[n], n)
        /\ \A k \in 1 .. Len(g[n - 1].items) : /\ k \in 1 .. Len(g[n].items)
                                               /\ g[n].items[k] = g[n - 1].items[k]
        /\ row(n).severity # "ignored" => \E k \in 1 .. Len(g[n].items) : g[n].items[k] = row(n)
    <3> HIDE DEF row
    <3>1. QED BY <2>1, <2>2, <2>3, <1>3, BookedKeeps
  <2>5. Entered(p, entries, g[n], n)
    <3> SUFFICES ASSUME NEW m \in 1 .. n, row(m).severity # "ignored"
                 PROVE  \E k \in 1 .. Len(g[n].items) : g[n].items[k] = row(m)
      BY DEF Entered
    <3>1. CASE m = n
      BY <3>1, <2>4
    <3>2. CASE m \in 1 .. n - 1
      <4>1. PICK k \in 1 .. Len(g[n - 1].items) : g[n - 1].items[k] = row(m)
        BY <3>2, <2>3 DEF Entered
      <4>2. QED BY <4>1, <2>4
    <3>3. QED BY <3>1, <3>2, <2>1
  <2>6. QED BY <2>1, <2>4, <2>5
<1> HIDE DEF S
<1>7. 0 .. L \subseteq S
  BY <1>1, <1>5, <1>6, Induction
<1>8. /\ g[L] \in Books(R) /\ Balanced(g[L], L) /\ Entered(p, entries, g[L], L)
  BY <1>1, <1>2, <1>7 DEF S
<1> DEFINE z == ClassifyZip(p, entries)
<1>9. /\ g[L].items \in Seq(R) /\ g[L].summary \in Summaries(R)
      /\ g[L] = [items |-> g[L].items, summary |-> g[L].summary]
  BY <1>8 DEF Books
<1>10. /\ z.items = g[L].items
       /\ z.summary = [g[L].summary EXCEPT !.hasBlockingErrors = g[L].summary.error > 0]
  BY <1>4, <1>9
<1>11. /\ z.summary.hasBlockingErrors = (g[L].summary.error > 0)
       /\ z.summary.total = g[L].summary.total /\ z.summary.ok = g[L].summary.ok
       /\ z.summary.warning = g[L].summary.warning /\ z.summary.error = g[L].summary.error
       /\ z.summary.ignored = g[L].summary.ignored
       /\ z.summary.targetsInvolved = g[L].summary.targetsInvolved
       /\ z.summary.ok \in Nat /\ z.summary.warning \in Nat /\ z.summary.error \in Nat
       /\ z.summary.ignored \in Nat
  BY <1>9, <1>10 DEF Summaries
<1> HIDE DEF z
<1>12. Balanced(z, L)
  BY <1>8, <1>10, <1>11 DEF Balanced
<1>13. Entered(p, entries, z, L)
  BY <1>8, <1>10 DEF Entered
<1>14. QED
  BY <1>9, <1>10, <1>11, <1>12, <1>13 DEF z, L, R

(***************************************************************************)
(* The rows of a task are those of its archive.                             *)
(***************************************************************************)
Unclassed == {"new", "refused", "draft"}
Phases == Unclassed \cup {"classified", "confirmed", "queued", "uploaded", "partial_failed"}

Result(t) == ClassifyZip(profile, archive[t])

RowsOK(t) ==
  /\ IF phase[t] \in Unclassed THEN items[t] = <<>>
     ELSE items[t] = Result(t).items /\ summary[t] = Result(t).summary /\ Insertable(items[t])
  /\ Confirmed(t) => ~summary[t].hasBlockingErrors

RoutingTypes ==
  /\ IsProfile(profile)
  /\ folder \in [Tasks -> Seq(Seq(Names))]
  /\ phase \in [Tasks -> Phases]
  /\ archive \in [Tasks -> Seq(Clean)]
  /\ DOMAIN items = Tasks /\ DOMAIN summary = Tasks

RowsInv == RoutingTypes /\ \A t \in Tasks : RowsOK(t)

LEMMA InitRows == Init => RowsInv
<1> SUFFICES ASSUME Init PROVE RowsInv
  OBVIOUS
<1>1. IsProfile(profile)
  BY RoutingAssumption DEF Init
<1>2. folder \in [Tasks -> Seq(Seq(Names))]
  BY RoutingAssumption DEF Init
<1>3. archive \in [Tasks -> Seq(Clean)]
  BY DEF Init
<1>4. QED
  BY <1>1, <1>2, <1>3 DEF Init, RowsInv, RoutingTypes, RowsOK, Phases, Unclassed, Confirmed

\* A task is classified a second time only if the first time gave it no row.
LEMMA ClassifiedOnce ==
  ASSUME RowsInv, NEW t \in Tasks, ClassifyTask(t)
  PROVE  items[t] = <<>> /\ items'[t] = Result(t).items /\ Insertable(items'[t])
<1> DEFINE new == Result(t).items
<1>1. /\ new \in Seq(RowsOf(profile, archive[t]))
      /\ Insertable(items[t] \o new) /\ items' = [items EXCEPT ![t] = items[t] \o new]
      /\ DOMAIN items = Tasks
  <2>1. archive[t] \in Seq(Clean) /\ IsProfile(profile)
    BY DEF RowsInv, RoutingTypes
  <2>2. QED BY <2>1, ZipIs DEF ClassifyTask, Result, RowsInv, RoutingTypes
<1>2. phase[t] \in Unclassed => items[t] = <<>>
  BY DEF RowsInv, RowsOK
<1>3. phase[t] \notin Unclassed => items[t] = new
  BY DEF RowsInv, RowsOK
<1> HIDE DEF new
<1>4. items[t] = <<>>
  <2> SUFFICES ASSUME items[t] = new, new # <<>> PROVE FALSE
    BY <1>2, <1>3
  <2>1. Len(new) \in Nat /\ Len(new) # 0
    BY <1>1, SequenceFacts
  <2>2. /\ Len(new \o new) = Len(new) + Len(new) /\ DOMAIN (new \o new) = 1 .. Len(new \o new)
        /\ (new \o new)[1] = new[1] /\ (new \o new)[Len(new) + 1] = new[1]
    BY <1>1, <2>1, ConcatProperties
  <2>3. 1 \in DOMAIN (new \o new) /\ Len(new) + 1 \in DOMAIN (new \o new) /\ 1 # Len(new) + 1
    BY <2>1, <2>2
  <2>4. QED BY <2>2, <2>3, <1>1 DEF Insertable
<1>5. <<>> \o new = new
  BY <1>1, ConcatEmptySeq
<1>6. QED BY <1>1, <1>4, <1>5 DEF new

LEMMA NextKeepsRows ==
  ASSUME RowsInv, [Next]_vars
  PROVE  RowsInv'
<1>1. CASE UNCHANGED vars
  BY <1>1 DEF vars, RowsInv, RoutingTypes, RowsOK, Result, Confirmed
<1>2. ASSUME NEW t \in Tasks, TaskStep(t) PROVE RowsInv'
  <2> USE <1>2
  <2>1. profile' = profile /\ folder' = folder
    BY DEF TaskStep, CreateTask, ClassifyTask, ConfirmTask, UploadTask, ApplyResult, Redeliver,
           UploadItem, FailItem
  <2>2. CASE UNCHANGED <<archive, items, summary>>
             /\ phase' \in [Tasks -> Phases]
             /\ \A u \in Tasks : /\ phase[u] \in Unclassed <=> phase'[u] \in Unclassed
                                 /\ Confirmed(u)' => Confirmed(u) \/ ~summary[u].hasBlockingErrors
    BY <2>1, <2>2 DEF RowsInv, RoutingTypes, RowsOK, Result
  <2>3. CASE CreateTask(t)
    <3>1. /\ phase[t] = "new" /\ phase' \in [Tasks -> Phases] /\ phase'[t] \in {"draft", "refused"}
          /\ \A u \in Tasks \ {t} : phase'[u] = phase[u]
          /\ items' = items /\ summary' = summary
      BY <2>3 DEF CreateTask, RowsInv, RoutingTypes, Phases, Unclassed
    <3>2. archive' \in [Tasks -> Seq(Clean)] /\ \A u \in Tasks \ {t} : archive'[u] = archive[u]
      <4>1. CASE Acceptable(folder[t])
        <5> DEFINE names == [k \in DOMAIN folder[t] |-> SafeArchiveName(folder[t][k])]
        <5>1. folder[t] \in Seq(Seq(Names))
          BY DEF RowsInv, RoutingTypes
        <5>2. Len(folder[t]) \in Nat /\ names \in [1 .. Len(folder[t]) -> Clean]
          BY <4>1, <5>1, SafeIsClean DEF Acceptable
        <5> HIDE DEF names
        <5>3. names \in Seq(Clean)
          BY <5>2, SequenceFacts
        <5>4. archive' = archive \/ archive' = [archive EXCEPT ![t] = names]
          BY <2>3 DEF CreateTask, names
        <5>5. QED BY <5>3, <5>4 DEF RowsInv, RoutingTypes
      <4>2. CASE ~Acceptable(folder[t])
        BY <2>3, <4>2 DEF CreateTask, RowsInv, RoutingTypes
      <4>3. QED BY <4>1, <4>2
    <3>3. RoutingTypes'
      BY <2>1, <3>1, <3>2 DEF RowsInv, RoutingTypes
    <3>4. RowsOK(t)'
      BY <3>1 DEF RowsInv, RowsOK, Unclassed, Confirmed
    <3>5. ASSUME NEW u \in Tasks \ {t} PROVE RowsOK(u)'
      BY <2>1, <3>1, <3>2 DEF RowsInv, RowsOK, Confirmed, Result
    <3>6. QED BY <3>3, <3>4, <3>5 DEF RowsInv
  <2>4. CASE ClassifyTask(t)
    <3>1. /\ phase' \in [Tasks -> Phases] /\ phase'[t] = "classified"
          /\ summary'[t] = Result(t).summary /\ archive' = archive
          /\ DOMAIN items' = Tasks /\ DOMAIN summary' = Tasks
          /\ \A u \in Tasks \ {t} : /\ phase'[u] = phase[u] /\ items'[u] = items[u]
                                   /\ summary'[u] = summary[u]
      BY <2>4 DEF ClassifyTask, Result, RowsInv, RoutingTypes, Phases
    <3>2. RoutingTypes'
      BY <2>1, <3>1 DEF RowsInv, RoutingTypes
    <3>3. RowsOK(t)'
      <4>1. Result(t)' = Result(t)
        BY <2>1, <3>1 DEF Result
      <4>2. phase'[t] \notin Unclassed /\ ~Confirmed(t)'
        BY <3>1 DEF Unclassed, Confirmed
      <4>3. QED BY <2>4, <3>1, <4>1, <4>2, ClassifiedOnce DEF RowsOK, Insertable
    <3>4. ASSUME NEW u \in Tasks \ {t} PROVE RowsOK(u)'
      BY <2>1, <3>1 DEF RowsInv, RowsOK, Confirmed, Result
    <3>5. QED BY <3>2, <3>3, <3>4 DEF RowsInv
  <2>5. CASE ConfirmTask(t)
    BY <2>2, <2>5 DEF ConfirmTask, RowsInv, RoutingTypes, Phases, Unclassed, Confirmed
  <2>6. CASE UploadTask(t)
    BY <2>2, <2>6 DEF UploadTask, RowsInv, RoutingTypes, Phases, Unclassed, Confirmed
  <2>7. CASE ApplyResult(t)
    BY <2>2, <2>7 DEF ApplyResult, RowsInv, RoutingTypes, Phases, Unclassed, Confirmed
  <2>8. CASE Redeliver(t)
    BY <2>2, <2>8 DEF Redeliver, RowsInv, RoutingTypes, Phases, Unclassed, Confirmed
  <2>9. CASE \E k \in DOMAIN items[t] : UploadItem(t, k) \/ FailItem(t, k)
    BY <2>2, <2>9 DEF UploadItem, FailItem, RowsInv, RoutingTypes, Confirmed
  <2>10. QED BY <2>3, <2>4, <2>5, <2>6, <2>7, <2>8, <2>9 DEF TaskStep
<1>3. QED BY <1>1, <1>2 DEF Next

LEMMA RowsAlways == Spec => []RowsInv
BY InitRows, NextKeepsRows, PTL DEF Spec

LEMMA ConfirmedLosesNothing == RowsInv => NoFileDropped
<1> SUFFICES ASSUME RowsInv, NEW t \in Tasks, Confirmed(t)
    PROVE  /\ \A m \in DOMAIN archive[t] :
                LET path == DecodeZipFilename(archive[t][m])
                    rows == {k \in DOMAIN items[t] : items[t][k].src = path}
                IN  IF IsIgnored(profile, path) THEN rows = {}
                    ELSE \E k \in rows : rows = {k} /\ NamesTarget(path, items[t][k].target)
           /\ summary[t].total = Len(archive[t])
           /\ summary[t].total = summary[t].ok + summary[t].warning + summary[t].ignored
           /\ summary[t].ok + summary[t].warning = Len(items[t])
           /\ \A k \in DOMAIN items[t] :
                items[t][k].severity = "ok" => items[t][k].target \in summary[t].targetsInvolved
  BY DEF NoFileDropped
<1> DEFINE q == items[t]
           s == summary[t]
           row(m) == RowOf(profile, archive[t], m)
<1>1. /\ archive[t] \in Seq(Clean) /\ IsProfile(profile)
      /\ q = Result(t).items /\ s = Result(t).summary /\ Insertable(q) /\ ~s.hasBlockingErrors
  BY DEF RowsInv, RoutingTypes, RowsOK, Confirmed, Unclassed
<1>2. /\ q \in Seq(RowsOf(profile, archive[t]))
      /\ Balanced(Result(t), Len(archive[t])) /\ Entered(profile, archive[t], Result(t), Len(archive[t]))
      /\ s.hasBlockingErrors = (s.error > 0)
      /\ s.ok \in Nat /\ s.warning \in Nat /\ s.error \in Nat /\ s.ignored \in Nat
  BY <1>1, ZipIs DEF Result
<1>3. /\ s.total = Len(archive[t])
      /\ s.total = s.ok + s.warning + s.error + s.ignored
      /\ Len(q) = s.ok + s.warning + s.error
      /\ \A k \in 1 .. Len(q) : /\ q[k].severity # "ignored"
                                /\ q[k].severity = "error" => s.error > 0
                                /\ q[k].severity = "ok" => q[k].target \in s.targetsInvolved
  BY <1>1, <1>2 DEF Balanced
<1>4. s.error = 0
  <2> HIDE DEF s
  <2>1. ~(s.error > 0)
    BY <1>1, <1>2, Zenon
  <2>2. QED BY <2>1, <1>2
<1>5. DOMAIN archive[t] = 1 .. Len(archive[t]) /\ DOMAIN q = 1 .. Len(q)
  BY <1>1, <1>2
<1>6. \A m \in 1 .. Len(archive[t]) :
        row(m).severity # "ignored" => \E k \in 1 .. Len(q) : q[k] = row(m)
  BY <1>1, <1>2 DEF Entered
<1>7. \A k \in 1 .. Len(q) : \E m \in 1 .. Len(archive[t]) : q[k] = row(m)
  <2>1. \A k \in 1 .. Len(q) : q[k] \in RowsOf(profile, archive[t])
    BY <1>2, SequenceFacts
  <2>2. QED BY <2>1 DEF RowsOf
<1> HIDE DEF q, s
<1>8. ASSUME NEW m \in 1 .. Len(archive[t])
      PROVE  LET path == DecodeZipFilename(archive[t][m])
                 rows == {k \in DOMAIN q : q[k].src = path}
             IN  IF IsIgnored(profile, path) THEN rows = {}
                 ELSE \E k \in rows : rows = {k} /\ NamesTarget(path, q[k].target)
  <2> DEFINE path == DecodeZipFilename(archive[t][m])
             rows == {k \in DOMAIN q : q[k].src = path}
  <2>1. /\ path \in Clean /\ row(m).src = path
        /\ row(m).severity \in Severities
        /\ row(m) = ClassifyFile(profile, path)
    BY <1>1, RowsAreRows DEF RowOf
  <2>2. /\ row(m).severity = "ignored" => IsIgnored(profile, path)
        /\ row(m).severity \in {"ok", "warning"} =>
             /\ ~IsIgnored(profile, path)
             /\ TargetOf(profile, path) # None /\ row(m).target = TargetOf(profile, path)
    BY <2>1, <1>1, FileRow
  <2>3. \A k \in DOMAIN q : q[k].src = path => q[k] = row(m) /\ row(m).severity \in {"ok", "warning"}
    <3> SUFFICES ASSUME NEW k \in 1 .. Len(q), q[k].src = path
                 PROVE  q[k] = row(m) /\ row(m).severity \in {"ok", "warning"}
      BY <1>5
    <3>1. PICK n \in 1 .. Len(archive[t]) : q[k] = row(n)
      BY <1>7
    <3>2. row(n).src = DecodeZipFilename(archive[t][n])
      BY <1>1, RowsAreRows
    <3>3. q[k] = row(m)
      BY <3>1, <3>2 DEF RowOf
    <3>4. q[k].severity # "ignored" /\ q[k].severity # "error"
      BY <1>3, <1>4
    <3>5. QED BY <3>3, <3>4, <2>1 DEF Severities
  <2>4. CASE IsIgnored(profile, path)
    BY <2>2, <2>3, <2>4
  <2>5. CASE ~IsIgnored(profile, path)
    <3>1. PICK k \in DOMAIN q : q[k] = row(m)
      BY <1>5, <1>6, <2>2, <2>5
    <3>2. k \in rows
      BY <3>1, <2>1
    <3>3. rows = {k}
      BY <3>2, <1>1 DEF Insertable, q
    <3>4. NamesTarget(path, q[k].target)
      <4>1. Len(path) \in Nat \ {0}
        BY <2>1, SequenceFacts DEF Clean
      <4>2. TargetOf(profile, path) # None /\ q[k].target = TargetOf(profile, path)
        BY <3>1, <3>2, <2>2, <2>3
      <4>3. QED BY <4>1, <4>2, <1>1, TargetIsNamed
    <3>5. QED BY <3>2, <3>3, <3>4, <2>5
  <2>6. QED BY <2>4, <2>5
<1>9. s.total = s.ok + s.warning + s.ignored /\ s.ok + s.warning = Len(q)
  BY <1>2, <1>3, <1>4
<1>10. \A k \in DOMAIN q : q[k].severity = "ok" => q[k].target \in s.targetsInvolved
  BY <1>3, <1>5
<1>11. QED BY <1>3, <1>5, <1>8, <1>9, <1>10 DEF q, s

\* The first property: a confirmed folder has its rows, and is counted by them.
THEOREM FoldersArriveWhole == Spec => []NoFileDropped
BY RowsAlways, ConfirmedLosesNothing, PTL

(***************************************************************************)
(* The items that are sent.                                                *)
(***************************************************************************)
Unsent == Unclassed \cup {"classified", "confirmed"}

SentOK(t) ==
  /\ outcome[t] \in Seq({"pending", "uploaded", "failed"}) /\ Len(outcome[t]) = Len(items[t])
  /\ DOMAIN answer[t] \subseteq DOMAIN items[t]
  /\ answer[t] \in [DOMAIN answer[t] -> {"none", "uploaded", "failed"}]
  /\ phase[t] \in Unsent => DOMAIN answer[t] = {}
  /\ \A k \in DOMAIN answer[t] :
       /\ items[t][k].severity \in {"ok", "warning"}
       /\ answer[t][k] = "uploaded" => Uploadable(t, k) /\ items[t][k].dst \in DOMAIN sink
       /\ answer[t][k] = "failed" => faults > 0 \/ ~Uploadable(t, k)

SentInv ==
  /\ faults \in Nat
  /\ DOMAIN outcome = Tasks /\ DOMAIN answer = Tasks
  /\ \A t \in Tasks : SentOK(t)

LEMMA InitSent == Init => SentInv
<1> SUFFICES ASSUME Init PROVE SentInv
  OBVIOUS
<1>1. ASSUME NEW t \in Tasks PROVE SentOK(t)
  <2>1. answer[t] = <<>> /\ outcome[t] = <<>> /\ items[t] = <<>>
    BY DEF Init
  <2>2. QED BY <2>1 DEF SentOK
<1>2. faults \in Nat /\ DOMAIN outcome = Tasks /\ DOMAIN answer = Tasks
  BY DEF Init
<1>3. QED BY <1>1, <1>2 DEF SentInv

\* The rows of a task are rows of the members of its archive.
LEMMA ItemsAreRows ==
  ASSUME RowsInv, NEW t \in Tasks
  PROVE  /\ items[t] \in Seq(RowsOf(profile, archive[t]))
         /\ DOMAIN items[t] = 1 .. Len(items[t]) /\ Len(items[t]) \in Nat
         /\ \A k \in DOMAIN items[t] :
              \E m \in DOMAIN archive[t] : items[t][k] = RowOf(profile, archive[t], m)
<1>1. archive[t] \in Seq(Clean) /\ IsProfile(profile)
  BY DEF RowsInv, RoutingTypes
<1>2. items[t] \in Seq(RowsOf(profile, archive[t]))
  <2>1. CASE phase[t] \in Unclassed
    <3>1. items[t] = <<>>
      BY <2>1 DEF RowsInv, RowsOK
    <3>2. \A R : <<>> \in Seq(R)
      OBVIOUS
    <3>3. QED BY <3>1, <3>2
  <2>2. CASE phase[t] \notin Unclassed
    BY <2>2, <1>1, ZipIs DEF RowsInv, RowsOK, Result
  <2>3. QED BY <2>1, <2>2
<1>3. /\ DOMAIN items[t] = 1 .. Len(items[t]) /\ Len(items[t]) \in Nat
      /\ \A k \in DOMAIN items[t] : items[t][k] \in RowsOf(profile, archive[t])
  BY <1>2, SequenceFacts
<1>4. DOMAIN archive[t] = 1 .. Len(archive[t])
  BY <1>1
<1>5. QED BY <1>2, <1>3, <1>4 DEF RowsOf

\* What has been sent stays as it is.
LEMMA SentStays ==
  ASSUME RowsInv, SentInv, [Next]_vars, NEW u \in Tasks, DOMAIN answer[u] # {}
  PROVE  /\ items'[u] = items[u] /\ archive'[u] = archive[u]
         /\ DOMAIN answer'[u] = DOMAIN answer[u]
<1>1. phase[u] \notin Unsent /\ items[u] # <<>>
  BY DEF SentInv, SentOK
<1>2. CASE UNCHANGED vars
  BY <1>2 DEF vars
<1>3. ASSUME NEW t \in Tasks, TaskStep(t)
      PROVE  /\ items'[u] = items[u] /\ archive'[u] = archive[u]
             /\ DOMAIN answer'[u] = DOMAIN answer[u]
  <2> USE DEF RowsInv, RoutingTypes, SentInv
  <2>1. CASE CreateTask(t)
    BY <1>1, <2>1 DEF CreateTask, Unsent, Unclassed
  <2>2. CASE ClassifyTask(t)
    BY <1>1, <2>2, ClassifiedOnce DEF ClassifyTask
  <2>3. CASE UploadTask(t)
    BY <1>1, <2>3 DEF UploadTask, Unsent
  <2>4. CASE ConfirmTask(t) \/ ApplyResult(t)
    BY <2>4 DEF ConfirmTask, ApplyResult
  <2>5. CASE Redeliver(t)
    BY <2>5 DEF Redeliver
  <2>6. CASE \E k \in DOMAIN items[t] : UploadItem(t, k) \/ FailItem(t, k)
    <3>1. PICK k, a : answer' = [answer EXCEPT ![t][k] = a]
      BY <2>6 DEF UploadItem, FailItem
    <3>2. items' = items /\ archive' = archive
      BY <2>6 DEF UploadItem, FailItem
    <3>3. QED BY <3>1, <3>2
  <2>7. QED BY <1>3, <2>1, <2>2, <2>3, <2>4, <2>5, <2>6 DEF TaskStep
<1>4. QED BY <1>2, <1>3 DEF Next

\* Its place, too, and what is under a key stays under some key.
LEMMA PlacesStay ==
  ASSUME RowsInv, SentInv, [Next]_vars, NEW u \in Tasks, NEW k \in DOMAIN answer[u]
  PROVE  /\ items'[u][k] = items[u][k] /\ k \in DOMAIN answer'[u]
         /\ \A path : MemberNamed(u, path)' = MemberNamed(u, path)
         /\ Uploadable(u, k)' = Uploadable(u, k)
<1>1. items'[u] = items[u] /\ archive'[u] = archive[u] /\ DOMAIN answer'[u] = DOMAIN answer[u]
  BY SentStays
<1>2. ASSUME NEW path PROVE MemberNamed(u, path)' = MemberNamed(u, path)
  BY <1>1 DEF MemberNamed, SelectInSeq
<1>3. QED BY <1>1, <1>2 DEF Uploadable

\* A step of one task leaves what the others have sent.
LEMMA SentElsewhere ==
  ASSUME RowsInv, SentInv, NEW t \in Tasks, TaskStep(t)
  PROVE  /\ faults' \in Nat /\ faults' >= faults /\ DOMAIN sink \subseteq DOMAIN sink'
         /\ DOMAIN outcome' = Tasks /\ DOMAIN answer' = Tasks
         /\ \A u \in Tasks \ {t} :
              /\ outcome'[u] = outcome[u] /\ items'[u] = items[u] /\ answer'[u] = answer[u]
              /\ phase'[u] = phase[u] /\ archive'[u] = archive[u]
<1> USE DEF RowsInv, RoutingTypes, SentInv
<1>1. CASE CreateTask(t) \/ ClassifyTask(t) \/ ConfirmTask(t) \/ UploadTask(t) \/ ApplyResult(t)
  BY <1>1 DEF CreateTask, ClassifyTask, ConfirmTask, UploadTask, ApplyResult
<1>2. CASE Redeliver(t)
  BY <1>2 DEF Redeliver
<1>3. CASE \E k \in DOMAIN items[t] : UploadItem(t, k) \/ FailItem(t, k)
  <2>1. PICK k, a : answer' = [answer EXCEPT ![t][k] = a]
    BY <1>3 DEF UploadItem, FailItem
  <2>2. /\ outcome' = outcome /\ items' = items /\ phase' = phase /\ archive' = archive
        /\ faults' \in {faults, faults + 1} /\ DOMAIN sink \subseteq DOMAIN sink'
    BY <1>3 DEF UploadItem, FailItem, PutObject
  <2>3. QED BY <2>1, <2>2
<1>4. QED BY <1>1, <1>2, <1>3 DEF TaskStep

LEMMA SentAsBefore ==
  ASSUME NEW u \in Tasks, SentOK(u), faults \in Nat, faults' \in Nat, faults' >= faults,
         DOMAIN sink \subseteq DOMAIN sink',
         outcome'[u] = outcome[u], items'[u] = items[u], answer'[u] = answer[u],
         archive'[u] = archive[u], phase'[u] \in Unsent => phase[u] \in Unsent
  PROVE  SentOK(u)'
<1>1. \A path : MemberNamed(u, path)' = MemberNamed(u, path)
  BY DEF MemberNamed, SelectInSeq
<1>2. \A k : Uploadable(u, k)' = Uploadable(u, k)
  BY <1>1 DEF Uploadable
<1>3. QED BY <1>2 DEF SentOK

\* A classified task has rows that are pending, and none that is sent.
LEMMA ClassifiedIsPending ==
  ASSUME RowsInv, RowsInv', SentInv, NEW t \in Tasks, ClassifyTask(t)
  PROVE  /\ outcome'[t] = [k \in DOMAIN items'[t] |-> "pending"]
         /\ outcome'[t] \in Seq({"pending", "uploaded", "failed"})
         /\ Len(outcome'[t]) = Len(items'[t])
         /\ answer' = answer /\ DOMAIN answer[t] = {}
<1> DEFINE new == Result(t).items
           Stati == {"pending", "uploaded", "failed"}
           fresh == [k \in DOMAIN new |-> "pending"]
<1>1. /\ items[t] = <<>> /\ items'[t] = new /\ answer' = answer
      /\ outcome' = [outcome EXCEPT ![t] = outcome[t] \o fresh]
      /\ DOMAIN outcome = Tasks
  BY ClassifiedOnce DEF ClassifyTask, Result, SentInv
<1>2. outcome[t] \in Seq(Stati) /\ Len(outcome[t]) = Len(items[t])
      /\ DOMAIN answer[t] \subseteq DOMAIN items[t]
  BY DEF SentInv, SentOK
<1>3. outcome[t] = <<>> /\ DOMAIN answer[t] = {}
  <2>1. Len(items[t]) = 0 /\ DOMAIN items[t] = {}
    BY <1>1
  <2>2. QED BY <2>1, <1>2, SequenceFacts
<1>4. DOMAIN new = 1 .. Len(new) /\ Len(new) \in Nat
  BY <1>1, ItemsAreRows
<1>5. fresh \in [1 .. Len(new) -> Stati]
  BY <1>4
<1> HIDE DEF new
<1>6. fresh \in Seq(Stati) /\ Len(fresh) = Len(new)
  <2> HIDE DEF fresh
  <2>1. QED BY <1>4, <1>5, SequenceFacts
<1>7. outcome'[t] = fresh
  <2> HIDE DEF fresh
  <2>1. <<>> \o fresh = fresh
    BY <1>6, ConcatEmptySeq
  <2>2. QED BY <2>1, <1>1, <1>3
<1>8. QED BY <1>1, <1>3, <1>6, <1>7

LEMMA ClassifyKeepsSent ==
  ASSUME RowsInv, RowsInv', SentInv, NEW t \in Tasks, ClassifyTask(t)
  PROVE  SentOK(t)'
<1>1. answer[t] \in [DOMAIN answer[t] -> {"none", "uploaded", "failed"}]
  BY DEF SentInv, SentOK
<1>2. QED BY <1>1, ClassifiedIsPending DEF SentOK

LEMMA UploadKeepsSent ==
  ASSUME RowsInv, SentInv, NEW t \in Tasks, UploadTask(t)
  PROVE  SentOK(t)'
<1>1. /\ answer'[t] = [k \in Selected(t) |-> "none"]
      /\ outcome'[t] = outcome[t] /\ items'[t] = items[t] /\ phase'[t] = "queued"
  BY DEF UploadTask, SentInv, RowsInv, RoutingTypes
<1>2. \A k \in Selected(t) : k \in DOMAIN items[t] /\ items[t][k].severity \in {"ok", "warning"}
  BY DEF Selected
<1>3. outcome[t] \in Seq({"pending", "uploaded", "failed"}) /\ Len(outcome[t]) = Len(items[t])
  BY DEF SentInv, SentOK
<1>4. "queued" \notin Unsent
  BY DEF Unsent, Unclassed
<1>5. QED BY <1>1, <1>2, <1>3, <1>4 DEF SentOK

LEMMA ApplyKeepsSent ==
  ASSUME RowsInv, SentInv, NEW t \in Tasks, ApplyResult(t)
  PROVE  SentOK(t)'
<1> DEFINE Stati == {"pending", "uploaded", "failed"}
           noted == [k \in DOMAIN items[t] |->
                       IF k \in DOMAIN answer[t] THEN answer[t][k] ELSE outcome[t][k]]
<1>1. /\ outcome'[t] = noted
      /\ items' = items /\ answer' = answer /\ archive' = archive /\ sink' = sink /\ faults' = faults
      /\ phase[t] = "queued" /\ phase'[t] \in {"uploaded", "partial_failed"}
      /\ \A k \in DOMAIN answer[t] : answer[t][k] # "none"
  BY DEF ApplyResult, SentInv, RowsInv, RoutingTypes
<1>2. /\ outcome[t] \in Seq(Stati) /\ Len(outcome[t]) = Len(items[t])
      /\ DOMAIN answer[t] \subseteq DOMAIN items[t]
      /\ answer[t] \in [DOMAIN answer[t] -> {"none", "uploaded", "failed"}]
  BY DEF SentInv, SentOK
<1>3. DOMAIN items[t] = 1 .. Len(items[t]) /\ Len(items[t]) \in Nat
  BY ItemsAreRows
<1>4. noted \in [1 .. Len(items[t]) -> Stati]
  BY <1>1, <1>2, <1>3, SequenceFacts
<1>5. outcome'[t] \in Seq(Stati) /\ Len(outcome'[t]) = Len(items[t])
  <2> HIDE DEF noted
  <2>1. noted \in Seq(Stati) /\ Len(noted) = Len(items[t])
    BY <1>3, <1>4, SequenceFacts
  <2>2. QED BY <1>1, <2>1
<1>6. \A k : Uploadable(t, k)' = Uploadable(t, k)
  BY <1>1 DEF Uploadable, MemberNamed, SelectInSeq
<1>7. phase'[t] \notin Unsent
  BY <1>1 DEF Unsent, Unclassed
<1>8. SentOK(t)
  BY DEF SentInv
<1> HIDE DEF noted
<1>9. QED BY <1>1, <1>5, <1>6, <1>7, <1>8 DEF SentOK

LEMMA RedeliverKeepsSent ==
  ASSUME RowsInv, SentInv, NEW t \in Tasks, Redeliver(t)
  PROVE  SentOK(t)'
<1>1. /\ answer'[t] = [k \in DOMAIN answer[t] |-> "none"]
      /\ outcome' = outcome /\ items' = items /\ phase'[t] = "queued"
  BY DEF Redeliver, SentInv, RowsInv, RoutingTypes
<1>2. "queued" \notin Unsent
  BY DEF Unsent, Unclassed
<1>3. SentOK(t)
  BY DEF SentInv
<1>4. QED BY <1>1, <1>2, <1>3 DEF SentOK

LEMMA ItemKeepsSent ==
  ASSUME RowsInv, SentInv, NEW t \in Tasks, NEW k \in DOMAIN items[t],
         UploadItem(t, k) \/ FailItem(t, k)
  PROVE  SentOK(t)'
<1>1. PICK a \in {"uploaded", "failed"} :
        /\ answer' = [answer EXCEPT ![t][k] = a]
        /\ a = "uploaded" => Uploadable(t, k) /\ items[t][k].dst \in DOMAIN sink'
        /\ a = "failed" => faults' > 0 \/ ~Uploadable(t, k)
  <2>1. CASE UploadItem(t, k)
    <3>1. items[t][k].dst \in DOMAIN sink'
      BY <2>1 DEF UploadItem, PutObject
    <3>2. QED BY <2>1, <3>1 DEF UploadItem
  <2>2. CASE FailItem(t, k)
    <3>1. faults' > 0 \/ ~Uploadable(t, k)
      BY <2>2 DEF FailItem, SentInv
    <3>2. QED BY <2>2, <3>1 DEF FailItem
  <2>3. QED BY <2>1, <2>2
<1>2. /\ outcome' = outcome /\ items' = items /\ phase' = phase /\ archive' = archive
      /\ k \in DOMAIN answer[t]
      /\ faults' \in Nat /\ faults' >= faults /\ faults \in Nat /\ DOMAIN sink \subseteq DOMAIN sink'
  BY DEF UploadItem, FailItem, SentInv, PutObject
<1>3. SentOK(t)
  BY DEF SentInv
<1>4. /\ DOMAIN answer'[t] = DOMAIN answer[t]
      /\ answer'[t] \in [DOMAIN answer[t] -> {"none", "uploaded", "failed"}]
      /\ \A j \in DOMAIN answer[t] : answer'[t][j] = IF j = k THEN a ELSE answer[t][j]
  <2>1. answer'[t] = [answer[t] EXCEPT ![k] = a]
    BY <1>1 DEF SentInv
  <2>2. QED BY <2>1, <1>3 DEF SentOK
<1>5. \A j : Uploadable(t, j)' = Uploadable(t, j)
  BY <1>2 DEF Uploadable, MemberNamed, SelectInSeq
<1>6. ASSUME NEW j \in DOMAIN answer[t]
      PROVE  /\ items[t][j].severity \in {"ok", "warning"}
             /\ answer'[t][j] = "uploaded" => Uploadable(t, j) /\ items[t][j].dst \in DOMAIN sink'
             /\ answer'[t][j] = "failed" => faults' > 0 \/ ~Uploadable(t, j)
  <2>1. CASE j = k
    BY <2>1, <1>1, <1>3, <1>4 DEF SentOK
  <2>2. CASE j # k
    BY <2>2, <1>2, <1>3, <1>4 DEF SentOK
  <2>3. QED BY <2>1, <2>2
<1>7. QED BY <1>2, <1>3, <1>4, <1>5, <1>6 DEF SentOK

LEMMA NextKeepsSent ==
  ASSUME RowsInv, RowsInv', SentInv, [Next]_vars
  PROVE  SentInv'
<1>1. CASE UNCHANGED vars
  <2>1. \A t \in Tasks : SentOK(t)'
    BY <1>1, SentAsBefore DEF vars, SentInv
  <2>2. QED BY <2>1, <1>1 DEF vars, SentInv
<1>2. ASSUME NEW t \in Tasks, TaskStep(t) PROVE SentInv'
  <2>1. /\ faults' \in Nat /\ faults' >= faults /\ DOMAIN sink \subseteq DOMAIN sink'
        /\ DOMAIN outcome' = Tasks /\ DOMAIN answer' = Tasks
        /\ \A u \in Tasks \ {t} :
             /\ outcome'[u] = outcome[u] /\ items'[u] = items[u] /\ answer'[u] = answer[u]
             /\ phase'[u] = phase[u] /\ archive'[u] = archive[u]
    BY <1>2, SentElsewhere
  <2>2. ASSUME NEW u \in Tasks \ {t} PROVE SentOK(u)'
    BY <2>1, SentAsBefore DEF SentInv
  <2>3. SentOK(t)'
    <3>1. CASE CreateTask(t)
      <4>1. /\ phase[t] = "new" /\ items[t] = <<>> /\ DOMAIN answer[t] = {}
            /\ items' = items /\ answer' = answer /\ outcome' = outcome
        BY <3>1 DEF CreateTask, RowsInv, RowsOK, Unclassed, SentInv, SentOK, Unsent
      <4>2. QED BY <4>1 DEF SentInv, SentOK
    <3>2. CASE ClassifyTask(t)
      BY <3>2, ClassifyKeepsSent
    <3>3. CASE ConfirmTask(t)
      BY <3>3, <2>1, SentAsBefore DEF ConfirmTask, Unsent, SentInv
    <3>4. CASE UploadTask(t)
      BY <3>4, UploadKeepsSent
    <3>5. CASE ApplyResult(t)
      BY <3>5, ApplyKeepsSent
    <3>6. CASE Redeliver(t)
      BY <3>6, RedeliverKeepsSent
    <3>7. CASE \E k \in DOMAIN items[t] : UploadItem(t, k) \/ FailItem(t, k)
      BY <3>7, ItemKeepsSent
    <3>8. QED BY <1>2, <3>1, <3>2, <3>3, <3>4, <3>5, <3>6, <3>7 DEF TaskStep
  <2>4. QED BY <2>1, <2>2, <2>3 DEF SentInv
<1>3. QED BY <1>1, <1>2 DEF Next

LEMMA SentAlways == Spec => [](RowsInv /\ SentInv)
<1>1. Init => RowsInv /\ SentInv
  BY InitRows, InitSent
<1>2. RowsInv /\ SentInv /\ [Next]_vars => (RowsInv /\ SentInv)'
  BY NextKeepsRows, NextKeepsSent
<1>3. QED BY <1>1, <1>2, PTL DEF Spec

\* The member that is found has the name, and there is none only if none has it.
LEMMA MemberFound ==
  ASSUME RowsInv, NEW t \in Tasks, NEW path
  PROVE  IF \E m \in DOMAIN archive[t] : archive[t][m] = path
         THEN /\ MemberNamed(t, path) \in DOMAIN archive[t] /\ MemberNamed(t, path) # 0
              /\ archive[t][MemberNamed(t, path)] = path
         ELSE MemberNamed(t, path) = 0
<1> DEFINE I == {m \in 1 .. Len(archive[t]) : archive[t][m] = path}
<1>1. MemberNamed(t, path) = IF I # {} THEN Min(I) ELSE 0
  BY DEF MemberNamed, SelectInSeq
<1>2. DOMAIN archive[t] = 1 .. Len(archive[t])
  BY SequenceFacts DEF RowsInv, RoutingTypes
<1>3. I # {} => Min(I) \in I
  <2>1. I \subseteq Nat
    OBVIOUS
  <2> HIDE DEF I
  <2>2. QED BY <2>1, LeastNumber DEF Min
<1>4. CASE I # {}
  BY <1>1, <1>2, <1>3, <1>4
<1>5. CASE I = {}
  BY <1>1, <1>2, <1>5
<1>6. QED BY <1>4, <1>5

LEMMA FailuresHaveReasons == RowsInv /\ SentInv => FailuresExplained
<1> SUFFICES ASSUME RowsInv, SentInv, NEW t \in Tasks, NEW k \in DOMAIN answer[t],
                    answer[t][k] = "failed", ~(faults > 0)
    PROVE  \/ CategoryOf(profile, items[t][k].type) = None \/ profile.pathTemplate = <<>>
           \/ \E m \in DOMAIN archive[t] :
                /\ DecodeZipFilename(archive[t][m]) = items[t][k].src
                /\ \E c \in ToSet(archive[t][m]) : Script[c] = "gbk"
  BY DEF FailuresExplained
<1>1. /\ k \in DOMAIN items[t] /\ items[t][k].severity \in {"ok", "warning"}
      /\ ~Uploadable(t, k)
  BY DEF SentInv, SentOK
<1>2. PICK m \in DOMAIN archive[t] : items[t][k] = RowOf(profile, archive[t], m)
  BY <1>1, ItemsAreRows
<1>3. IsProfile(profile) /\ archive[t] \in Seq(Clean) /\ m \in 1 .. Len(archive[t])
  BY SequenceFacts DEF RowsInv, RoutingTypes
<1>4. items[t][k].src = DecodeZipFilename(archive[t][m])
  BY <1>2, <1>3, RowsAreRows
<1>5. CASE items[t][k].dst = <<>>
  BY <1>1, <1>2, <1>3, <1>5, FileRow DEF RowOf
<1>6. CASE MemberNamed(t, items[t][k].src) = 0
  <2>1. archive[t][m] # items[t][k].src
    BY <1>6, MemberFound
  <2>2. \E c \in ToSet(archive[t][m]) : Script[c] = "gbk"
    BY <2>1, <1>4 DEF DecodeZipFilename
  <2>3. QED BY <2>2, <1>4
<1>7. QED BY <1>1, <1>5, <1>6 DEF Uploadable

\* Without a fault, what fails fails for a reason that stays.
THEOREM FailuresAreExplained == Spec => []FailuresExplained
BY SentAlways, FailuresHaveReasons, PTL

(***************************************************************************)
(* The bucket and the objects.                                             *)
(***************************************************************************)
\* The bytes of an item: the member of its task that has its name.
Bytes(t, k) == <<t, MemberNamed(t, items[t][k].src)>>

\* Under a key are the bytes of an item that was sent there.
SinkInv ==
  \A key \in DOMAIN sink : \E t \in Tasks : \E k \in DOMAIN answer[t] :
    items[t][k].dst = key /\ sink[key] = Bytes(t, k)

\* Item k of task t is for workspace w.
IsFor(t, k, w) == OwnerTenant[w] = Owner(t) /\ TargetKey[w] = items[t][k].target

\* An object shows an item that was sent, to the workspace that it is for.
ObjectOK(o) ==
  \E t \in Tasks : \E k \in DOMAIN answer[t] : \E w \in Workspaces :
    /\ IsFor(t, k, w) /\ Uploadable(t, k) /\ items[t][k].dst \in DOMAIN sink
    /\ o = NewObject(<<t, k>>, w, items[t][k].dst, items[t][k].dst, Bytes(t, k))

\* What reads uploaded is shown.
ShownOK(t) ==
  \A k \in DOMAIN outcome[t] : outcome[t][k] = "uploaded" =>
    /\ k \in DOMAIN answer[t]
    /\ \A w \in Workspaces : IsFor(t, k, w) =>
         \E o \in objects : o.item = <<t, k>> /\ o.workspace = w

StoreInv ==
  /\ SinkInv
  /\ \A o \in objects : ObjectOK(o)
  /\ \A t \in Tasks : ShownOK(t)

LEMMA InitStore == Init => StoreInv
<1> SUFFICES ASSUME Init PROVE StoreInv
  OBVIOUS
<1>1. SinkInv
  BY DEF Init, SinkInv
<1>2. \A o \in objects : ObjectOK(o)
  BY DEF Init
<1>3. ASSUME NEW t \in Tasks PROVE ShownOK(t)
  <2>1. DOMAIN outcome[t] = {}
    BY DEF Init
  <2>2. QED BY <2>1 DEF ShownOK
<1>4. QED BY <1>1, <1>2, <1>3 DEF StoreInv

\* Objects stay right whatever the step.
LEMMA ObjectStays ==
  ASSUME RowsInv, SentInv, [Next]_vars, NEW o, ObjectOK(o)
  PROVE  ObjectOK(o)'
<1>1. PICK t, k, w :
        /\ t \in Tasks /\ k \in DOMAIN answer[t] /\ w \in Workspaces
        /\ IsFor(t, k, w) /\ Uploadable(t, k) /\ items[t][k].dst \in DOMAIN sink
        /\ o = NewObject(<<t, k>>, w, items[t][k].dst, items[t][k].dst, Bytes(t, k))
  BY DEF ObjectOK
<1>2. /\ items'[t][k] = items[t][k] /\ k \in DOMAIN answer'[t]
      /\ Uploadable(t, k)' /\ Bytes(t, k)' = Bytes(t, k)
  BY <1>1, PlacesStay DEF Bytes
<1>3. DOMAIN sink \subseteq DOMAIN sink'
  BY SentElsewhere DEF Next, vars
<1>4. IsFor(t, k, w)'
  BY <1>1, <1>2 DEF IsFor, Owner
<1>5. QED BY <1>1, <1>2, <1>3, <1>4 DEF ObjectOK

LEMMA SinkStays ==
  ASSUME RowsInv, SentInv, [Next]_vars, NEW key \in DOMAIN sink, SinkInv
  PROVE  \E t \in Tasks : \E k \in DOMAIN answer'[t] :
           items'[t][k].dst = key /\ sink[key] = Bytes(t, k)'
<1>1. PICK t, k : t \in Tasks /\ k \in DOMAIN answer[t] /\ items[t][k].dst = key /\ sink[key] = Bytes(t, k)
  BY DEF SinkInv
<1>2. items'[t][k] = items[t][k] /\ k \in DOMAIN answer'[t] /\ Bytes(t, k)' = Bytes(t, k)
  BY <1>1, PlacesStay DEF Bytes
<1>3. QED BY <1>1, <1>2

\* The apply of a result adds what its items have recorded.
LEMMA ObjectsAdded ==
  ASSUME NEW t \in Tasks, ApplyResult(t)
  PROVE  /\ objects \subseteq objects'
         /\ \A o \in objects' \ objects :
              \E k \in DOMAIN answer[t] : o \in RecordItem(objects, t, k)
BY DEF ApplyResult

\* What the apply of a result adds to the objects is right,
LEMMA RecordedIsOK ==
  ASSUME RowsInv, SentInv, StoreInv, NEW t \in Tasks, ApplyResult(t), NEW o \in objects'
  PROVE  ObjectOK(o)
<1>1. CASE o \in objects
  BY <1>1 DEF StoreInv
<1>2. CASE o \notin objects
  <2>1. PICK k \in DOMAIN answer[t] : o \in RecordItem(objects, t, k)
    BY <1>2, ObjectsAdded
  <2>2. answer[t][k] = "uploaded"
    BY <1>2, <2>1 DEF RecordItem
  <2>3. PICK w \in WorkspaceByTargetKey(Owner(t), items[t][k].target) :
          o = NewObject(<<t, k>>, w, items[t][k].dst, items[t][k].dst, Bytes(t, k))
    BY <1>2, <2>1, <2>2 DEF RecordItem, RecordUploadedItem, Bytes
  <2>4. w \in Workspaces /\ IsFor(t, k, w)
    BY <2>3 DEF WorkspaceByTargetKey, IsFor
  <2>5. Uploadable(t, k) /\ items[t][k].dst \in DOMAIN sink
    BY <2>2 DEF SentInv, SentOK
  <2>6. QED BY <2>3, <2>4, <2>5 DEF ObjectOK
<1>3. QED BY <1>1, <1>2

\* A sent item has a target.
LEMMA SentHasTarget ==
  ASSUME RowsInv, SentInv, NEW t \in Tasks, NEW k \in DOMAIN answer[t]
  PROVE  items[t][k].target # Missing
<1>1. k \in DOMAIN items[t] /\ items[t][k].severity \in {"ok", "warning"}
  BY DEF SentInv, SentOK
<1>2. PICK m \in DOMAIN archive[t] : items[t][k] = RowOf(profile, archive[t], m)
  BY <1>1, ItemsAreRows
<1>3. items[t][k].target # None
  BY <1>1, <1>2, FileRow DEF RowOf, RowsInv, RoutingTypes
<1>4. QED BY <1>3, Zenon DEF None, Missing

\* and it has all that is to be shown: an item has one workspace only.
LEMMA RecordedIsShown ==
  ASSUME RowsInv, SentInv, StoreInv, NEW t \in Tasks, ApplyResult(t),
         NEW k \in DOMAIN answer[t], answer[t][k] = "uploaded",
         NEW w \in Workspaces, IsFor(t, k, w)
  PROVE  \E o \in objects' : o.item = <<t, k>> /\ o.workspace = w
<1>1. RecordItem(objects, t, k) \subseteq objects'
  BY DEF ApplyResult
<1>2. CASE ObjectOfItem(objects, <<t, k>>) = {}
  <2> DEFINE o == NewObject(<<t, k>>, w, items[t][k].dst, items[t][k].dst, Bytes(t, k))
  <2>1. items[t][k].dst # <<>> /\ items[t][k].target # Missing
    BY SentHasTarget DEF SentInv, SentOK, Uploadable
  <2>2. w \in WorkspaceByTargetKey(Owner(t), items[t][k].target)
    BY DEF WorkspaceByTargetKey, IsFor
  <2>3. o \in RecordItem(objects, t, k)
    BY <2>1, <2>2, <1>2 DEF RecordItem, RecordUploadedItem, Bytes
  <2>4. o.item = <<t, k>> /\ o.workspace = w
    BY DEF NewObject
  <2>5. QED BY <2>3, <2>4, <1>1
<1>3. CASE ObjectOfItem(objects, <<t, k>>) # {}
  <2>1. PICK o \in objects : o.item = <<t, k>>
    BY <1>3 DEF ObjectOfItem
  <2>2. PICK u, j, v :
          /\ v \in Workspaces /\ IsFor(u, j, v)
          /\ o = NewObject(<<u, j>>, v, items[u][j].dst, items[u][j].dst, Bytes(u, j))
    BY DEF StoreInv, ObjectOK
  <2>3. u = t /\ j = k /\ o.workspace = v
    BY <2>1, <2>2 DEF NewObject
  <2>4. v = w
    BY <2>2, <2>3, ReadsAssumption DEF UniqueTargetKeys, IsFor
  <2>5. objects \subseteq objects'
    BY ObjectsAdded
  <2>6. QED BY <2>1, <2>3, <2>4, <2>5
<1>4. QED BY <1>2, <1>3

LEMMA NextKeepsSink ==
  ASSUME RowsInv, SentInv, SinkInv, [Next]_vars
  PROVE  SinkInv'
<1> SUFFICES ASSUME NEW key \in DOMAIN sink'
             PROVE  \E t \in Tasks : \E k \in DOMAIN answer'[t] :
                      items'[t][k].dst = key /\ sink'[key] = Bytes(t, k)'
  BY DEF SinkInv
<1>1. CASE key \in DOMAIN sink /\ sink'[key] = sink[key]
  BY <1>1, SinkStays
<1>2. CASE ~(key \in DOMAIN sink /\ sink'[key] = sink[key])
  <2>1. sink' # sink
    BY <1>2
  <2>2. PICK t \in Tasks : TaskStep(t)
    BY <2>1 DEF Next, vars
  <2>3. PICK k \in DOMAIN items[t] : UploadItem(t, k)
    BY <2>1, <2>2 DEF TaskStep, CreateTask, ClassifyTask, ConfirmTask, UploadTask, ApplyResult,
                      Redeliver, FailItem
  <2>4. k \in DOMAIN answer[t] /\ sink' = PutObject(items[t][k].dst, Bytes(t, k))
    BY <2>3 DEF UploadItem, Bytes
  <2>5. key = items[t][k].dst /\ sink'[key] = Bytes(t, k)
    BY <1>2, <2>4 DEF PutObject
  <2>6. items'[t][k] = items[t][k] /\ k \in DOMAIN answer'[t] /\ Bytes(t, k)' = Bytes(t, k)
    BY <2>4, PlacesStay DEF Bytes
  <2>7. QED BY <2>5, <2>6
<1>3. QED BY <1>1, <1>2

\* The objects change where a result is applied, and only more come.
LEMMA OthersKeepObjects ==
  ASSUME [Next]_vars, \A t \in Tasks : ~ApplyResult(t)
  PROVE  objects' = objects
BY DEF Next, vars, TaskStep, CreateTask, ClassifyTask, ConfirmTask, UploadTask, Redeliver,
       UploadItem, FailItem

LEMMA NextKeepsObjects ==
  ASSUME RowsInv, SentInv, StoreInv, [Next]_vars
  PROVE  \A o \in objects' : ObjectOK(o)'
<1> SUFFICES ASSUME NEW o \in objects' PROVE ObjectOK(o)'
  OBVIOUS
<1>1. ObjectOK(o)
  <2>1. CASE \E t \in Tasks : ApplyResult(t)
    BY <2>1, RecordedIsOK
  <2>2. CASE \A t \in Tasks : ~ApplyResult(t)
    BY <2>2, OthersKeepObjects DEF StoreInv
  <2>3. QED BY <2>1, <2>2
<1>2. QED BY <1>1, ObjectStays

\* What read uploaded before a step is shown after it.
LEMMA ShownStays ==
  ASSUME RowsInv, SentInv, StoreInv, [Next]_vars, NEW t \in Tasks,
         NEW k \in DOMAIN outcome[t], outcome[t][k] = "uploaded"
  PROVE  /\ k \in DOMAIN answer'[t]
         /\ \A w \in Workspaces : IsFor(t, k, w)' =>
              \E o \in objects' : o.item = <<t, k>> /\ o.workspace = w
<1>1. k \in DOMAIN answer[t]
  BY DEF StoreInv, ShownOK
<1>2. objects \subseteq objects'
  <2>1. CASE \E u \in Tasks : ApplyResult(u)
    BY <2>1, ObjectsAdded
  <2>2. CASE \A u \in Tasks : ~ApplyResult(u)
    BY <2>2, OthersKeepObjects
  <2>3. QED BY <2>1, <2>2
<1>3. /\ items'[t][k] = items[t][k] /\ k \in DOMAIN answer'[t]
  BY <1>1, PlacesStay
<1>4. \A w \in Workspaces : IsFor(t, k, w)' => IsFor(t, k, w)
  BY <1>3 DEF IsFor, Owner
<1>5. QED BY <1>2, <1>3, <1>4 DEF StoreInv, ShownOK

LEMMA NextKeepsShown ==
  ASSUME RowsInv, RowsInv', SentInv, StoreInv, [Next]_vars, NEW t \in Tasks
  PROVE  ShownOK(t)'
<1> SUFFICES ASSUME NEW k \in DOMAIN outcome'[t], outcome'[t][k] = "uploaded"
             PROVE  /\ k \in DOMAIN answer'[t]
                    /\ \A w \in Workspaces : IsFor(t, k, w)' =>
                         \E o \in objects' : o.item = <<t, k>> /\ o.workspace = w
  BY DEF ShownOK
<1>1. CASE k \in DOMAIN outcome[t] /\ outcome[t][k] = "uploaded"
  BY <1>1, ShownStays
<1>2. CASE ~(k \in DOMAIN outcome[t] /\ outcome[t][k] = "uploaded")
  <2>1. outcome'[t] # outcome[t]
    BY <1>2
  <2>2. outcome' # outcome
    BY <2>1
  <2>3. PICK u \in Tasks : TaskStep(u)
    BY <2>2 DEF Next, vars
  <2>4. u = t
    BY <2>1, <2>3, SentElsewhere
  <2>5. ClassifyTask(t) \/ ApplyResult(t)
    BY <2>2, <2>3, <2>4 DEF TaskStep, CreateTask, ConfirmTask, UploadTask, Redeliver,
                            UploadItem, FailItem
  <2>6. CASE ClassifyTask(t)
    <3>1. outcome'[t] = [j \in DOMAIN items'[t] |-> "pending"]
      BY <2>6, ClassifiedIsPending
    <3>2. QED BY <3>1
  <2>7. CASE ApplyResult(t)
    <3>1. outcome'[t] = [j \in DOMAIN items[t] |->
                           IF j \in DOMAIN answer[t] THEN answer[t][j] ELSE outcome[t][j]]
      BY <2>7 DEF ApplyResult, SentInv
    <3>2. DOMAIN outcome[t] = DOMAIN items[t]
      <4>1. outcome[t] \in Seq({"pending", "uploaded", "failed"}) /\ Len(outcome[t]) = Len(items[t])
        BY DEF SentInv, SentOK
      <4>2. DOMAIN outcome[t] = 1 .. Len(outcome[t])
        BY <4>1, SequenceFacts
      <4>3. QED BY <4>1, <4>2, ItemsAreRows
    <3>3. k \in DOMAIN answer[t] /\ answer[t][k] = "uploaded"
      BY <1>2, <3>1, <3>2
    <3>4. items' = items /\ answer' = answer
      BY <2>7 DEF ApplyResult
    <3>5. ASSUME NEW w \in Workspaces, IsFor(t, k, w)' PROVE IsFor(t, k, w)
      BY <3>4, <3>5 DEF IsFor, Owner
    <3>6. QED BY <2>7, <3>3, <3>4, <3>5, RecordedIsShown
  <2>8. QED BY <2>5, <2>6, <2>7
<1>3. QED BY <1>1, <1>2

LEMMA StoreAlways == Spec => [](RowsInv /\ SentInv /\ StoreInv)
<1>1. Init => StoreInv
  BY InitStore
<1>2. RowsInv /\ RowsInv' /\ SentInv /\ StoreInv /\ [Next]_vars => StoreInv'
  BY NextKeepsSink, NextKeepsObjects, NextKeepsShown DEF StoreInv
<1>3. QED BY <1>1, <1>2, SentAlways, PTL DEF Spec

(***************************************************************************)
(* The readers.                                                            *)
(***************************************************************************)
\* A request has a known role or no actor at all.
LEMMA ActorHasRole ==
  ASSUME NEW h
  PROVE  LET actor == ResolveCurrentActor(h) IN
         actor # NoActor => actor.role \in ValidRoles
<1>1. ParseActorFromHeaders(h) # NoActor => ParseActorFromHeaders(h).role \in ValidRoles
  BY DEF ParseActorFromHeaders
<1>2. QED BY <1>1 DEF ResolveCurrentActor

LEMMA NoActorHasNoRole == NoActor.role \notin ValidRoles /\ NoActor.role \notin HqRoles
<1>1. NoActor.role = Missing
  BY DEF NoActor
<1>2. Missing \notin {"hq_admin", "hq_uploader", "subsidiary_admin", "subsidiary_viewer"}
  BY Zenon DEF Missing
<1>3. QED BY <1>1, <1>2 DEF ValidRoles, HqRoles

LEMMA ReadersAreServed == StoreInv => ReadersSeeTheirOwn
<1> SUFFICES ASSUME StoreInv, NEW h \in Requests
             PROVE  LET actor  == ResolveCurrentActor(h)
                        listed == Listed(objects, actor)
                    IN  /\ listed = UNION {GetObject(objects, actor, o.item) : o \in objects}
                        /\ \A o \in listed : MayRead(actor, o.item[1], o.item[2], o.workspace)
                        /\ \A t \in Tasks : \A k \in DOMAIN outcome[t] : \A w \in Workspaces :
                             outcome[t][k] = "uploaded" /\ MayRead(actor, t, k, w)
                               => \E o \in listed : o.item = <<t, k>> /\ o.workspace = w
  BY DEF ReadersSeeTheirOwn
<1> DEFINE actor == ResolveCurrentActor(h)
           listed == Listed(objects, actor)
           scoped == {o \in objects : InScope(actor, o.workspace)}
<1>1. \A o \in objects : \E t \in Tasks : \E k \in DOMAIN answer[t] :
        o.item = <<t, k>> /\ o.workspace \in Workspaces /\ IsFor(t, k, o.workspace)
  BY DEF StoreInv, ObjectOK, NewObject
<1>2. actor # NoActor => actor.role \in ValidRoles
  BY ActorHasRole
<1> HIDE DEF actor
<1>3. listed = scoped
  BY <1>1 DEF Listed, ListObjects, ListWorkspaces, GetWorkspace
<1>4. UNION {GetObject(objects, actor, o.item) : o \in objects} = scoped
  BY DEF GetObject
<1>5. ASSUME NEW o \in listed
      PROVE  MayRead(actor, o.item[1], o.item[2], o.workspace)
  <2>1. o \in objects /\ InScope(actor, o.workspace)
    BY <1>3
  <2>2. PICK t \in Tasks : \E k \in DOMAIN answer[t] :
          o.item = <<t, k>> /\ o.workspace \in Workspaces /\ IsFor(t, k, o.workspace)
    BY <1>1, <2>1
  <2>3. PICK k \in DOMAIN answer[t] :
          o.item = <<t, k>> /\ o.workspace \in Workspaces /\ IsFor(t, k, o.workspace)
    BY <2>2
  <2>4. o.item[1] = t /\ o.item[2] = k
    BY <2>3
  <2>5. MayRead(actor, t, k, o.workspace)
    BY <1>2, <2>1, <2>3 DEF InScope, MayRead, IsFor
  <2>6. QED BY <2>4, <2>5
<1>6. ASSUME NEW t \in Tasks, NEW k \in DOMAIN outcome[t], NEW w \in Workspaces,
             outcome[t][k] = "uploaded", MayRead(actor, t, k, w)
      PROVE  \E o \in listed : o.item = <<t, k>> /\ o.workspace = w
  <2>1. IsFor(t, k, w)
    BY <1>6 DEF MayRead, IsFor
  <2>2. PICK o \in objects : o.item = <<t, k>> /\ o.workspace = w
    BY <1>6, <2>1 DEF StoreInv, ShownOK
  <2>3. InScope(actor, w)
    BY <1>6, NoActorHasNoRole DEF MayRead, InScope
  <2>4. QED BY <1>3, <2>2, <2>3
<1>7. QED BY <1>3, <1>4, <1>5, <1>6 DEF actor

\* Whatever is uploaded, repeated or failed, readers see the objects of their
\* tenant, all of them and no other.
THEOREM ReadersAreKeptApart == Spec => []ReadersSeeTheirOwn
BY StoreAlways, ReadersAreServed, PTL

(***************************************************************************)
(* The bytes.                                                              *)
(***************************************************************************)
\* A name that was read as GBK does not read as GBK again.  The characters of
\* such a name are nearly always beyond Latin-1, but not all of GBK is.
RegardedOnce ==
  \A c \in Names : Script[c] \in {"plain", "gbk"} => Script[Regarded[c]] # "gbk"

\* Then the name of a row stays what it is when it is decoded again.
LEMMA DecodedOnce ==
  ASSUME RegardedOnce, NEW path \in Clean
  PROVE  DecodeZipFilename(DecodeZipFilename(path)) = DecodeZipFilename(path)
<1> DEFINE read == [i \in DOMAIN path |-> Regarded[path[i]]]
           Taken(x) == /\ \E c \in ToSet(x) : Script[c] = "gbk"
                       /\ \A c \in ToSet(x) : Script[c] \in {"plain", "gbk"}
<1>1. /\ DOMAIN path = 1 .. Len(path)
      /\ \A i \in DOMAIN path : path[i] \in Names /\ path[i] \in ToSet(path)
  BY SequenceFacts DEF Clean, Proper, ToSet
<1>2. ASSUME Taken(path) PROVE ~Taken(read)
  <2>1. ASSUME NEW c \in ToSet(read) PROVE Script[c] # "gbk"
    <3>1. PICK i \in DOMAIN path : c = Regarded[path[i]]
      BY DEF ToSet
    <3>2. path[i] \in Names /\ Script[path[i]] \in {"plain", "gbk"}
      BY <1>1, <1>2
    <3>3. QED BY <3>1, <3>2 DEF RegardedOnce
  <2>2. QED BY <2>1
<1>3. DecodeZipFilename(path) = IF Taken(path) THEN read ELSE path
  BY DEF DecodeZipFilename
<1>4. ~Taken(read) => DecodeZipFilename(read) = read
  BY DEF DecodeZipFilename
<1>5. ~Taken(path) => DecodeZipFilename(path) = path
  BY DEF DecodeZipFilename
<1> HIDE DEF Taken, read
<1>6. QED BY <1>2, <1>3, <1>4, <1>5

\* The member under whose name an item is sent is the one it was made of.
LEMMA BytesAreOwn ==
  ASSUME RegardedOnce, RowsInv, SentInv, NEW t \in Tasks, NEW k \in DOMAIN answer[t],
         Uploadable(t, k)
  PROVE  DecodeZipFilename(archive[t][Bytes(t, k)[2]]) = items[t][k].src
<1>1. k \in DOMAIN items[t]
  BY DEF SentInv, SentOK
<1>2. PICK m \in DOMAIN archive[t] : items[t][k] = RowOf(profile, archive[t], m)
  BY <1>1, ItemsAreRows
<1>3. IsProfile(profile) /\ archive[t] \in Seq(Clean) /\ m \in 1 .. Len(archive[t])
  BY SequenceFacts DEF RowsInv, RoutingTypes
<1>4. archive[t][m] \in Clean
  BY <1>3, SequenceFacts
<1>5. items[t][k].src = DecodeZipFilename(archive[t][m])
  BY <1>2, <1>3, RowsAreRows
<1>6. archive[t][MemberNamed(t, items[t][k].src)] = items[t][k].src
  BY MemberFound DEF Uploadable
<1>7. DecodeZipFilename(items[t][k].src) = items[t][k].src
  BY <1>4, <1>5, DecodedOnce
<1>8. Bytes(t, k)[2] = MemberNamed(t, items[t][k].src)
  BY DEF Bytes
<1>9. QED BY <1>6, <1>7, <1>8

LEMMA ObjectsShowOwnBytes ==
  ASSUME RegardedOnce, RowsInv, SentInv, StoreInv
  PROVE  ShownBytesAreOwn
<1> SUFFICES ASSUME NEW h \in Requests, NEW o \in objects
             PROVE  LET actor == ResolveCurrentActor(h)
                        t == o.item[1]  k == o.item[2]
                    IN  \A shown \in Described(objects, actor, o.item) :
                          /\ shown.sha[1] = t
                          /\ DecodeZipFilename(archive[t][shown.sha[2]]) = items[t][k].src
                          /\ \A key \in DownloadKeys(objects, actor, o.item) :
                               PresignedGet(key) = shown.sha \/ Collides(t, k)
  BY DEF ShownBytesAreOwn
<1> DEFINE actor == ResolveCurrentActor(h)
<1> HIDE DEF actor
<1>1. PICK t, k :
        /\ t \in Tasks /\ k \in DOMAIN answer[t] /\ o.item = <<t, k>>
        /\ Uploadable(t, k) /\ items[t][k].dst \in DOMAIN sink
  BY DEF StoreInv, ObjectOK, NewObject
<1>2. o.item[1] = t /\ o.item[2] = k
  BY <1>1
<1>3. ASSUME NEW a \in objects, a.item = <<t, k>>
      PROVE  a.sha = Bytes(t, k) /\ a.key = items[t][k].dst
  <2>0. ObjectOK(a)
    BY DEF StoreInv
  <2>1. PICK u, j, w :
          /\ u \in Tasks /\ j \in DOMAIN answer[u]
          /\ a = NewObject(<<u, j>>, w, items[u][j].dst, items[u][j].dst, Bytes(u, j))
    BY <2>0 DEF ObjectOK
  <2>2. u = t /\ j = k
    BY <1>3, <2>1 DEF NewObject
  <2>3. QED BY <2>1, <2>2 DEF NewObject
<1>4. \A shown \in Described(objects, actor, o.item) : shown.sha = Bytes(t, k)
  BY <1>1, <1>3 DEF Described, GetObject
<1>5. \A key \in DownloadKeys(objects, actor, o.item) : key = items[t][k].dst
  BY <1>1, <1>3 DEF DownloadKeys, GetObject
<1>6. DecodeZipFilename(archive[t][Bytes(t, k)[2]]) = items[t][k].src
  BY <1>1, BytesAreOwn
<1>7. Bytes(t, k)[1] = t
  BY DEF Bytes
<1>8. PresignedGet(items[t][k].dst) = Bytes(t, k) \/ Collides(t, k)
  <2>1. PICK u, j : /\ u \in Tasks /\ j \in DOMAIN answer[u] /\ items[u][j].dst = items[t][k].dst
                    /\ sink[items[t][k].dst] = Bytes(u, j)
    BY <1>1 DEF StoreInv, SinkInv
  <2>2. CASE u = t /\ j = k
    BY <2>1, <2>2 DEF PresignedGet
  <2>3. CASE ~(u = t /\ j = k)
    BY <2>1, <2>3 DEF Collides
  <2>4. QED BY <2>2, <2>3
<1>9. QED BY <1>2, <1>4, <1>5, <1>6, <1>7, <1>8 DEF actor

\* Where no name reads as GBK twice, what a reader is shown and downloads is
\* the file of the item, or the key is shared with another item.
THEOREM ReadersGetTheFile ==
  ASSUME RegardedOnce
  PROVE  Spec => []ShownBytesAreOwn
<1>1. RowsInv /\ SentInv /\ StoreInv => ShownBytesAreOwn
  BY ObjectsShowOwnBytes
<1>2. QED BY <1>1, StoreAlways, PTL
=============================================================================
