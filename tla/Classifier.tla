----------------------------- MODULE Classifier -----------------------------
(***************************************************************************)
(* The classification of an archive: which target and which document type   *)
(* a file belongs to, where it goes, and the counts that the preview shows  *)
(* and that a confirmation is decided on.                                   *)
(*                                                                         *)
(* A path is the sequence of its components.  What the code computes from   *)
(* the characters of one component (its lower case, its suffix, the words   *)
(* in it) is given by constant functions on components.                     *)
(***************************************************************************)
EXTENDS Naturals, Sequences, FiniteSets, SequencesExt

CONSTANTS
  Names,      \* components of paths, and names of targets
  Lower,      \* str.lower
  Unnumbered, \* a target key without a leading number, dot and spaces
  Ext,        \* the suffix of a file name in lower case, None if it has none
  Script,     \* which characters a component is made of, see Scripts
  Regarded,   \* a component written as Latin-1 bytes and read as GBK
  Segment,    \* the last segment of a stem split at dashes, None if there is none
  WordsIn,    \* the words of the profile that occur in the stem
  Ratio       \* Ratio[n][w]: similarity of word w and the stem of n, 0..100

\* The empty string, which the code takes for no component, target or type.
None == ""

\* plain: ASCII; gbk: with Latin-1 characters whose bytes are also valid GBK;
\* latin: with Latin-1 characters whose bytes are not; wide: with others.
Scripts == {"plain", "gbk", "latin", "wide"}

ASSUME ClassifierAssumption ==
  /\ Lower \in [Names -> Names]
  /\ Unnumbered \in [Names -> Names]
  /\ Script \in [Names -> Scripts]
  /\ Regarded \in [Names -> Names]
  /\ \A c \in Names \ {None} : Regarded[c] # None

(***************************************************************************)
(* The profile.  A section that the file leaves out has its default.        *)
(***************************************************************************)
WithDefaults(raw, defaults) ==
  [f \in DOMAIN defaults |-> IF f \in DOMAIN raw THEN raw[f] ELSE defaults[f]]

\* TargetConfig.
TargetDefaults == [key |-> None, aliases |-> {}, stripNumberPrefix |-> FALSE]

\* ProfileConfig, with the fields of its sections side by side.
ProfileDefaults ==
  [targets |-> <<>>, documentTypes |-> <<>>, suffixPriority |-> <<>>,
   descriptionMapping |-> <<>>, suffixFallback |-> <<>>,
   ignoredFilenames |-> {}, ignoredPrefixes |-> {},
   pathTemplate |-> <<"category", "document_type", "filename">>,
   enableFuzzyMatch |-> TRUE, fuzzyThreshold |-> 70,
   strategy |-> "directory_or_filename", segment |-> Segment, broadcastTarget |-> None]

LoadProfile(raw) ==
  LET profile == WithDefaults(raw, ProfileDefaults) IN
  [profile EXCEPT !.targets =
     [k \in DOMAIN profile.targets |-> WithDefaults(profile.targets[k], TargetDefaults)]]

(***************************************************************************)
(* Names and paths.                                                        *)
(***************************************************************************)
\* _decode_zip_filename: a name with Latin-1 characters is taken for GBK read
\* as Latin-1 if all of it can be, whoever wrote it.
DecodeZipFilename(path) ==
  IF /\ \E c \in ToSet(path) : Script[c] = "gbk"
     /\ \A c \in ToSet(path) : Script[c] \in {"plain", "gbk"}
  THEN [i \in DOMAIN path |-> Regarded[path[i]]]
  ELSE path

\* A path that starts or ends with a slash has an empty component there.
IsDirectory(path) == Last(path) = None
IsPathTraversal(path) == path[1] = None \/ ".." \in ToSet(path)

\* Entry filters: by file name, or by how the path begins.  ignoredPrefixes
\* are the runs of components, from the first on, that begin with a prefix of
\* the profile (a prefix may span slashes).
IsIgnored(p, path) ==
  \/ Last(path) \in p.ignoredFilenames
  \/ \E n \in DOMAIN path : SubSeq(path, 1, n) \in p.ignoredPrefixes

(***************************************************************************)
(* Targets.  None is no target.                                            *)
(***************************************************************************)
\* The segment function of a profile gives the last segment of a stem that
\* its delimiters split, and None for any other stem.
ExtractTargetRaw(p, path) ==
  CASE p.strategy = "broadcast" -> p.broadcastTarget
    [] p.strategy # "broadcast" /\ Len(path) >= 2 -> path[1]
    [] OTHER -> p.segment[path[1]]

\* The target of configuration tc answers to a raw name.
AnswersTo(tc, raw) ==
  \/ Lower[tc.key] = Lower[raw]
  \/ \E a \in tc.aliases : Lower[a] = Lower[raw]
  \/ tc.stripNumberPrefix /\ Lower[Unnumbered[tc.key]] = Lower[raw]

\* The first target of the profile that answers to the raw name.
ResolveTarget(p, raw) ==
  LET k == SelectInSeq(p.targets, LAMBDA tc : AnswersTo(tc, raw))
  IN  IF k = 0 THEN None ELSE p.targets[k].key

\* The target of a file: a broadcast target is not looked up.
TargetOf(p, path) ==
  LET raw == ExtractTargetRaw(p, path)
  IN  IF p.strategy = "broadcast" \/ raw = None THEN raw ELSE ResolveTarget(p, raw)

(***************************************************************************)
(* Document types.  None is no type.                                       *)
(***************************************************************************)
\* The type of the first word that occurs in the stem, 0 if none does.
ExactWord(p, file) ==
  SelectInSeq(p.descriptionMapping, LAMBDA d : d.word \in WordsIn[file])

\* The first of the words with the highest ratio, 0 if no ratio is positive.
BestWord(p, file) ==
  SelectInSeq(p.descriptionMapping, LAMBDA d :
    /\ Ratio[file][d.word] > 0
    /\ \A e \in ToSet(p.descriptionMapping) : Ratio[file][e.word] <= Ratio[file][d.word])

\* Fuzzy matching applies: the best ratio (0 if there is no best word)
\* reaches the threshold.
FuzzyMatches(p, file) ==
  LET k == BestWord(p, file) IN
  /\ p.enableFuzzyMatch
  /\ p.descriptionMapping # <<>>
  /\ p.fuzzyThreshold <= IF k = 0 THEN 0 ELSE Ratio[file][p.descriptionMapping[k].word]

TypeOfWord(p, k) == IF k = 0 THEN None ELSE p.descriptionMapping[k].type

ResolveDocumentType(p, file) ==
  CASE Ext[file] \in DOMAIN p.suffixPriority -> p.suffixPriority[Ext[file]]
    [] Ext[file] \notin DOMAIN p.suffixPriority /\ ExactWord(p, file) # 0
         -> TypeOfWord(p, ExactWord(p, file))
    [] /\ Ext[file] \notin DOMAIN p.suffixPriority
       /\ ExactWord(p, file) = 0
       /\ FuzzyMatches(p, file)
         -> TypeOfWord(p, BestWord(p, file))
    [] OTHER -> IF Ext[file] \in DOMAIN p.suffixFallback
                THEN p.suffixFallback[Ext[file]] ELSE None

\* The category of a type, None if the profile does not describe the type.
CategoryOf(p, type) ==
  IF type # None /\ type \in DOMAIN p.documentTypes THEN p.documentTypes[type] ELSE None

\* The path template names fields; <<>> stands for the empty path.
RenderPath(p, category, type, file) ==
  LET field == [category |-> category, document_type |-> type, filename |-> file]
  IN  [k \in DOMAIN p.pathTemplate |-> field[p.pathTemplate[k]]]

(***************************************************************************)
(* One file.                                                               *)
(***************************************************************************)
Unclassified(path, severity, error) ==
  [src |-> path, file |-> Last(path), target |-> None, type |-> None, category |-> None,
   dst |-> <<>>, severity |-> severity, error |-> error]

\* A file with a target: without a type it is a warning, and without a
\* category it has no path, yet counts as "ok" as long as it has a type.
ClassifyDocument(p, path, target) ==
  LET type     == ResolveDocumentType(p, Last(path))
      category == CategoryOf(p, type)
      rendered == IF category = None THEN <<>> ELSE RenderPath(p, category, type, Last(path))
      escapes  == ".." \in ToSet(rendered)
  IN  [Unclassified(path, "ok", None) EXCEPT
         !.target = target, !.type = type, !.category = category,
         !.dst = IF escapes THEN <<>> ELSE rendered,
         !.severity = CASE escapes -> "error" [] type = None -> "warning" [] OTHER -> "ok",
         !.error = IF escapes THEN "path_render_error" ELSE None]

ClassifyFile(p, path) ==
  CASE IsPathTraversal(path) -> Unclassified(path, "error", "path_traversal")
    [] ~IsPathTraversal(path) /\ IsIgnored(p, path) -> Unclassified(path, "ignored", None)
    [] /\ ~IsPathTraversal(path)
       /\ ~IsIgnored(p, path)
       /\ TargetOf(p, path) = None -> Unclassified(path, "error", "unknown_target")
    [] OTHER -> ClassifyDocument(p, path, TargetOf(p, path))

(***************************************************************************)
(* The archive: the items in its order, and the counts of ClassifySummary.  *)
(***************************************************************************)
EmptySummary ==
  [total |-> 0, ok |-> 0, warning |-> 0, error |-> 0, ignored |-> 0,
   unmatchedTargets |-> 0, unmatchedTypes |-> 0, targetsInvolved |-> {},
   hasBlockingErrors |-> FALSE]

One(condition) == IF condition THEN 1 ELSE 0

\* Mutant of CountItem: an unknown target counts as unmatched, not as an error.
CountItemLenient(s, item) ==
  [s EXCEPT
     !.total = @ + 1,
     !.ok = @ + One(item.severity = "ok"),
     !.warning = @ + One(item.severity = "warning" \/ item.error = "unknown_target"),
     !.error = @ + One(item.severity = "error" /\ item.error # "unknown_target"),
     !.ignored = @ + One(item.severity = "ignored"),
     !.unmatchedTargets = @ + One(item.error = "unknown_target"),
     !.targetsInvolved = @ \cup {t \in {item.target} : item.severity = "ok"}]

CountItem(s, item) ==
  [s EXCEPT
     !.total = @ + 1,
     ![item.severity] = @ + 1,
     !.unmatchedTargets = @ + One(item.error = "unknown_target"),
     !.unmatchedTypes = @ + One(item.severity = "warning"),
     !.targetsInvolved = @ \cup {t \in {item.target} : item.severity = "ok"}]

\* One turn of the loop in classify_zip.
ClassifyEntry(p, acc, entry) ==
  LET path == DecodeZipFilename(entry)
      item == ClassifyFile(p, path)
  IN  IF IsDirectory(path) THEN acc
      ELSE [items |-> IF item.severity = "ignored" THEN acc.items
                      ELSE Append(acc.items, item),
            summary |-> CountItem(acc.summary, item)]

\* What there is after each turn.
Turns(p, entries) ==
  LET turn[n \in 0 .. Len(entries)] ==
        IF n = 0 THEN [items |-> <<>>, summary |-> EmptySummary]
                 ELSE ClassifyEntry(p, turn[n - 1], entries[n])
  IN  turn

ClassifyZip(p, entries) ==
  LET done == Turns(p, entries)[Len(entries)]
  IN  [done EXCEPT !.summary.hasBlockingErrors = done.summary.error > 0]
=============================================================================
