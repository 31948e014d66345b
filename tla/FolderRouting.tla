---------------------------- MODULE FolderRouting ----------------------------
(***************************************************************************)
(* The way of a file from an uploaded folder to the reader of a workspace:  *)
(* the archive that is made of the folder, its classification, the items    *)
(* that are sent, the member that the data plane finds under the name of an *)
(* item, the key it is stored under, the object that a workspace lists, and *)
(* the bytes a reader gets.  Transport, claims and crashes are the matter   *)
(* of other modules: here a sent task is processed, possibly more than      *)
(* once, and its outcome is stored.                                         *)
(***************************************************************************)
EXTENDS Classifier, WorkspaceReads

CONSTANTS
  Tasks,
  Creator,         \* actor headers of the create request
  Profiles,        \* contents of the profile file of a deployment
  Folders,         \* Folders[t]: the lists of file names a browser may send
  MaxFileCount,    \* max_file_count
  Requests,        \* actor headers of read requests
  MaxRoutingFaults \* bound on PUTs that fail and on repeated processing

\* The lists of a profile are sequences, and its template names known fields.
IsProfile(p) ==
  /\ Len(p.targets) \in Nat /\ DOMAIN p.targets = 1 .. Len(p.targets)
  /\ p.pathTemplate \in Seq({"category", "document_type", "filename"})

ASSUME RoutingAssumption ==
  /\ \A t \in Tasks : \A f \in Folders[t] : f \in Seq(Seq(Names))
  /\ \A raw \in Profiles : IsProfile(LoadProfile(raw))
  /\ MaxFileCount \in Nat
  /\ MaxRoutingFaults \in Nat

VARIABLES
  profile,  \* the loaded profile
  folder,   \* the raw names of the parts of the create request
  phase,    \* the state of the task, with "new" and "refused" around create
  archive,  \* the names of the members of the archive, in order
  items,    \* the task_item rows, in the order of classification
  summary,  \* task.summary_json
  outcome,  \* per item: task_item.upload_status
  answer,   \* per item: what the processing of the message has come to
  sink,     \* the bucket: the member whose bytes are under a key
  objects,  \* workspace_object with its physical_object
  faults

vars == <<profile, folder, phase, archive, items, summary, outcome, answer,
          sink, objects, faults>>

Init ==
  /\ profile \in {LoadProfile(raw) : raw \in Profiles}
  /\ folder \in {f \in [Tasks -> UNION {Folders[t] : t \in Tasks}] :
                   \A t \in Tasks : f[t] \in Folders[t]}
  /\ phase = [t \in Tasks |-> "new"]
  /\ archive = [t \in Tasks |-> <<>>]
  /\ items = [t \in Tasks |-> <<>>]
  /\ summary = [t \in Tasks |-> EmptySummary]
  /\ outcome = [t \in Tasks |-> <<>>]
  /\ answer = [t \in Tasks |-> <<>>]
  /\ sink = <<>>
  /\ objects = {}
  /\ faults = 0

\* task.owner_tenant_id.
Owner(t) == ResolveCurrentActor(Creator[t]).tenant

(***************************************************************************)
(* create_task: the archive.                                               *)
(***************************************************************************)
\* Empty components vanish.
Parts(raw) ==
  LET kept[n \in 0 .. Len(raw)] ==
        IF n = 0 THEN <<>>
        ELSE IF raw[n] = None THEN kept[n - 1] ELSE Append(kept[n - 1], raw[n])
  IN  kept[Len(raw)]

\* _safe_archive_name: slashes and backslashes separate components. <<>> is a
\* name that is refused.
SafeArchiveName(raw) ==
  LET parts == Parts(raw) IN
  IF parts # <<>> /\ ".." \notin ToSet(parts) /\ parts[1] # ".internal"
  THEN parts ELSE <<>>

\* _prepare_folder_upload refuses an empty list, one unsafe name, too many files.
Acceptable(names) ==
  /\ names # <<>>
  /\ \A k \in DOMAIN names : SafeArchiveName(names[k]) # <<>>
  /\ Len(names) <= MaxFileCount

CreateTask(t) ==
  /\ phase[t] = "new"
  /\ IF MayWriteTasks(ResolveCurrentActor(Creator[t])) /\ Acceptable(folder[t])
     THEN /\ archive' = [archive EXCEPT ![t] =
                           [k \in DOMAIN folder[t] |-> SafeArchiveName(folder[t][k])]]
          /\ phase' = [phase EXCEPT ![t] = "draft"]
     ELSE /\ phase' = [phase EXCEPT ![t] = "refused"]
          /\ UNCHANGED archive
  /\ UNCHANGED <<profile, folder, items, summary, outcome, answer, sink, objects,
                 faults>>

(***************************************************************************)
(* classify_task and confirm_task.                                         *)
(***************************************************************************)
\* uq_task_item_task_src: two rows of a task have different paths.  Otherwise
\* the insert raises, and the task stays as it is.
Insertable(rows) ==
  \A j, k \in DOMAIN rows : rows[j].src = rows[k].src => j = k

\* The status is not looked at: what keeps a task from being classified twice
\* is the unique key alone, so that a task without a row can be.
ClassifyTask(t) ==
  LET result == ClassifyZip(profile, archive[t]) IN
  /\ phase[t] \notin {"new", "refused"}
  /\ Insertable(items[t] \o result.items)
  /\ items' = [items EXCEPT ![t] = @ \o result.items]
  /\ summary' = [summary EXCEPT ![t] = result.summary]
  /\ outcome' = [outcome EXCEPT ![t] = @ \o [k \in DOMAIN result.items |-> "pending"]]
  /\ phase' = [phase EXCEPT ![t] = "classified"]
  /\ UNCHANGED <<profile, folder, archive, answer, sink, objects, faults>>

ConfirmTask(t) ==
  /\ phase[t] = "classified"
  /\ ~summary[t].hasBlockingErrors
  /\ phase' = [phase EXCEPT ![t] = "confirmed"]
  /\ UNCHANGED <<profile, folder, archive, items, summary, outcome, answer, sink,
                 objects, faults>>

(***************************************************************************)
(* upload_task: the message carries source_path = src_path and dst_path of  *)
(* the pending items of severity ok or warning.                             *)
(***************************************************************************)
Selected(t) ==
  {k \in DOMAIN items[t] : /\ items[t][k].severity \in {"ok", "warning"}
                           /\ outcome[t][k] = "pending"}

UploadTask(t) ==
  /\ phase[t] = "confirmed"
  /\ phase' = [phase EXCEPT ![t] = "queued"]
  /\ answer' = [answer EXCEPT ![t] = [k \in Selected(t) |-> "none"]]
  /\ UNCHANGED <<profile, folder, archive, items, summary, outcome, sink, objects,
                 faults>>

(***************************************************************************)
(* The data plane.                                                         *)
(***************************************************************************)
\* Mutant of MemberNamed: the first member of the file name.
MemberNamedAnywhere(t, path) == SelectInSeq(archive[t], LAMBDA name : Last(name) = Last(path))

\* Resolve: the first member of exactly the name, 0 if there is none.
MemberNamed(t, path) == SelectInSeq(archive[t], LAMBDA name : name = path)

\* Mutant of Uploadable: the message names the file without its directories.
UploadableByName(t, k) ==
  MemberNamed(t, <<items[t][k].file>>) # 0 /\ items[t][k].dst # <<>>

\* Upload puts the bytes under dst_path and nothing else; S3 takes no empty key.
Uploadable(t, k) ==
  MemberNamed(t, items[t][k].src) # 0 /\ items[t][k].dst # <<>>

PutObject(key, content) ==
  [x \in DOMAIN sink \cup {key} |-> IF x = key THEN content ELSE sink[x]]

\* A URL opens the key as it is when the URL is used.
PresignedGet(key) == sink[key]

UploadItem(t, k) ==
  /\ k \in DOMAIN answer[t]
  /\ answer[t][k] = "none"
  /\ Uploadable(t, k)
  /\ sink' = PutObject(items[t][k].dst, <<t, MemberNamed(t, items[t][k].src)>>)
  /\ answer' = [answer EXCEPT ![t][k] = "uploaded"]
  /\ UNCHANGED <<profile, folder, phase, archive, items, summary, outcome, objects,
                 faults>>

FailItem(t, k) ==
  /\ k \in DOMAIN answer[t]
  /\ answer[t][k] = "none"
  /\ IF Uploadable(t, k)
     THEN faults < MaxRoutingFaults /\ faults' = faults + 1
     ELSE UNCHANGED faults
  /\ answer' = [answer EXCEPT ![t][k] = "failed"]
  /\ UNCHANGED <<profile, folder, phase, archive, items, summary, outcome, sink,
                 objects>>

(***************************************************************************)
(* apply_delivery_result, with record_uploaded_item for each uploaded item. *)
(***************************************************************************)
\* The receipt of an upload is its key and the hash of what was sent.
RecordItem(objs, t, k) ==
  IF answer[t][k] # "uploaded" THEN objs
  ELSE RecordUploadedItem(objs, Owner(t), <<t, k>>, items[t][k].target, items[t][k].dst,
                          items[t][k].dst, <<t, MemberNamed(t, items[t][k].src)>>)

ApplyResult(t) ==
  /\ phase[t] = "queued"
  /\ \A k \in DOMAIN answer[t] : answer[t][k] # "none"
  /\ outcome' = [outcome EXCEPT ![t] =
                   [k \in DOMAIN items[t] |-> IF k \in DOMAIN answer[t] THEN answer[t][k] ELSE @[k]]]
  /\ objects' = objects \cup UNION {RecordItem(objects, t, k) : k \in DOMAIN answer[t]}
  /\ phase' = [phase EXCEPT ![t] =
                 IF \E k \in DOMAIN answer[t] : answer[t][k] = "failed"
                 THEN "partial_failed" ELSE "uploaded"]
  /\ UNCHANGED <<profile, folder, archive, items, summary, answer, sink, faults>>

\* The message is delivered once more: every item of it is processed again.
Redeliver(t) ==
  /\ phase[t] \in {"uploaded", "partial_failed"}
  /\ faults < MaxRoutingFaults
  /\ faults' = faults + 1
  /\ phase' = [phase EXCEPT ![t] = "queued"]
  /\ answer' = [answer EXCEPT ![t] = [k \in DOMAIN answer[t] |-> "none"]]
  /\ UNCHANGED <<profile, folder, archive, items, summary, outcome, sink, objects>>

TaskStep(t) ==
  \/ CreateTask(t) \/ ClassifyTask(t) \/ ConfirmTask(t) \/ UploadTask(t)
  \/ ApplyResult(t) \/ Redeliver(t)
  \/ \E k \in DOMAIN items[t] : UploadItem(t, k) \/ FailItem(t, k)

Next == \E t \in Tasks : TaskStep(t)

Spec == Init /\ [][Next]_vars
-----------------------------------------------------------------------------
(***************************************************************************)
(* Properties.                                                             *)
(***************************************************************************)
Confirmed(t) == phase[t] \in {"confirmed", "queued", "uploaded", "partial_failed"}

\* The file name or the top directory of a member names the target of a row.
NamesTarget(path, target) ==
  \/ profile.strategy = "broadcast" /\ target = profile.broadcastTarget
  \/ \E k \in DOMAIN profile.targets :
       /\ profile.targets[k].key = target
       /\ \/ Len(path) > 1 /\ AnswersTo(profile.targets[k], path[1])
          \/ Len(path) = 1 /\ AnswersTo(profile.targets[k], profile.segment[path[1]])

\* Nothing of a confirmed folder is lost on the way to its rows: every member
\* of the archive is filtered out by name or has exactly one row, whose
\* target it names, and the summary on which the confirmation was decided
\* counts exactly these rows and no error (classify_zip, confirm_task).
NoFileDropped ==
  \A t \in Tasks : Confirmed(t) =>
    /\ \A m \in DOMAIN archive[t] :
         LET path == DecodeZipFilename(archive[t][m])
             rows == {k \in DOMAIN items[t] : items[t][k].src = path}
         IN  IF IsIgnored(profile, path) THEN rows = {}
             ELSE \E k \in rows : rows = {k} /\ NamesTarget(path, items[t][k].target)
    /\ summary[t].total = Len(archive[t])
    /\ summary[t].total = summary[t].ok + summary[t].warning + summary[t].ignored
    /\ summary[t].ok + summary[t].warning = Len(items[t])
    /\ \A k \in DOMAIN items[t] :
         items[t][k].severity = "ok" => items[t][k].target \in summary[t].targetsInvolved

\* What a reader may see of an item: the users of the owner with a head
\* office role, and the users with a subsidiary role of the tenant that the
\* workspace of its target is for.
MayRead(actor, t, k, w) ==
  /\ OwnerTenant[w] = Owner(t)
  /\ TargetKey[w] = items[t][k].target
  /\ IF actor.role \in HqRoles THEN actor.tenant = Owner(t)
     ELSE actor.role \in ValidRoles /\ actor.tenant = TargetTenant[w]

\* Listing and getting agree; they show nobody an object that is not of the
\* reader's tenant, as owner or as the named target; and they show each such
\* reader every item that reads uploaded (the separately scoped queries of
\* workspace_repo.py, record_uploaded_item, resolve_current_actor).
ReadersSeeTheirOwn ==
  \A h \in Requests :
    LET actor  == ResolveCurrentActor(h)
        listed == Listed(objects, actor)
    IN  /\ listed = UNION {GetObject(objects, actor, o.item) : o \in objects}
        /\ \A o \in listed : MayRead(actor, o.item[1], o.item[2], o.workspace)
        /\ \A t \in Tasks : \A k \in DOMAIN outcome[t] : \A w \in Workspaces :
             outcome[t][k] = "uploaded" /\ MayRead(actor, t, k, w)
               => \E o \in listed : o.item = <<t, k>> /\ o.workspace = w

\* Another sent item has the same dst_path, which is all of the key.
Collides(t, k) ==
  \E u \in Tasks : \E j \in DOMAIN answer[u] :
    <<u, j>> # <<t, k>> /\ items[u][j].dst = items[t][k].dst

\* The bytes that a reader downloads are the ones whose hash the reader is
\* shown, and they are the file that the item was classified from, unless
\* another item goes to the same dst_path: then the later PUT wins, also across
\* targets and owners (s3.go, record_uploaded_item, presign.py).
ShownBytesAreOwn ==
  \A h \in Requests : \A o \in objects :
    LET actor == ResolveCurrentActor(h)
        t == o.item[1]  k == o.item[2]
    IN  \A shown \in Described(objects, actor, o.item) :
          /\ shown.sha[1] = t
          /\ DecodeZipFilename(archive[t][shown.sha[2]]) = items[t][k].src
          /\ \A key \in DownloadKeys(objects, actor, o.item) :
               PresignedGet(key) = shown.sha \/ Collides(t, k)

\* Without a fault an item fails for one of two reasons that no retry removes:
\* its type has no category, or the path template is empty, so that it has no
\* path; or its name was taken for GBK, so that no member of the archive has
\* the name of the row.
FailuresExplained ==
  \A t \in Tasks : \A k \in DOMAIN answer[t] :
    answer[t][k] = "failed" =>
      \/ faults > 0
      \/ CategoryOf(profile, items[t][k].type) = None \/ profile.pathTemplate = <<>>
      \/ \E m \in DOMAIN archive[t] :
           /\ DecodeZipFilename(archive[t][m]) = items[t][k].src
           /\ \E c \in ToSet(archive[t][m]) : Script[c] = "gbk"
=============================================================================
