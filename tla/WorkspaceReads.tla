--------------------------- MODULE WorkspaceReads ---------------------------
(***************************************************************************)
(* Who reads what: the actor of a request, the rows of workspaces and of    *)
(* the objects in them, and the scoped queries of the read endpoints.       *)
(***************************************************************************)
EXTENDS Naturals, Sequences, FiniteSets

CONSTANTS
  Workspaces,       \* ids of the workspace rows
  OwnerTenant,      \* workspace.owner_tenant_id
  TargetTenant,     \* workspace.target_tenant_id
  TargetKey,        \* workspace.target_key
  AllowDevHeaders,  \* auth_allow_dev_headers
  DefaultActor      \* the default actor; NoActor where it is not enabled

\* The empty string, for a header or a target that there is not.
Missing == ""

NoActor == [tenant |-> Missing, user |-> Missing, role |-> Missing]

HqRoles == {"hq_admin", "hq_uploader"}
ValidRoles == HqRoles \cup {"subsidiary_admin", "subsidiary_viewer"}

\* uq_workspace_owner_target_key.
UniqueTargetKeys ==
  \A v, w \in Workspaces :
    OwnerTenant[v] = OwnerTenant[w] /\ TargetKey[v] = TargetKey[w] => v = w

ASSUME ReadsAssumption == UniqueTargetKeys /\ AllowDevHeaders \in BOOLEAN

(***************************************************************************)
(* The actor.  A refused request has NoActor.                              *)
(***************************************************************************)
\* Empty for a header that is not sent or is blank.
Given(headers) == {f \in DOMAIN headers : headers[f] # Missing}

ParseActorFromHeaders(headers) ==
  IF AllowDevHeaders /\ Given(headers) = DOMAIN headers /\ headers.role \in ValidRoles
  THEN headers ELSE NoActor

\* Any one of the three headers makes the request an explicit one, which the
\* default actor does not complete.
ResolveCurrentActor(headers) ==
  CASE Given(headers) # {} -> ParseActorFromHeaders(headers)
    [] Given(headers) = {} /\ DefaultActor.role \in ValidRoles -> DefaultActor
    [] OTHER -> NoActor

\* require_task_writer.
MayWriteTasks(actor) == actor.role \in HqRoles

\* The condition of workspace_access_scope on a row.
InScope(actor, w) ==
  /\ actor # NoActor
  /\ IF actor.role \in HqRoles THEN OwnerTenant[w] = actor.tenant
     ELSE TargetTenant[w] = actor.tenant

(***************************************************************************)
(* Queries.  A row of workspace_object and its physical_object make one     *)
(* record.  {} stands for the reply 404.                                    *)
(***************************************************************************)
ListWorkspaces(actor) == {w \in Workspaces : InScope(actor, w)}

GetWorkspace(actor, w) == {v \in Workspaces : v = w /\ InScope(actor, v)}

\* list_objects asks for the workspace first and then for all objects of it.
ListObjects(objects, actor, w) ==
  IF GetWorkspace(actor, w) = {} THEN {} ELSE {o \in objects : o.workspace = w}

\* Mutant of GetObject: the scope is left to the listing.
GetObjectUnscoped(objects, actor, item) ==
  {o \in objects : o.item = item /\ actor # NoActor}

\* get_object joins the workspace of the object and filters that.
GetObject(objects, actor, item) ==
  {o \in objects : o.item = item /\ InScope(actor, o.workspace)}

\* Nothing but the item decides: get_object_by_task_item.
ObjectOfItem(objects, item) == {o \in objects : o.item = item}

WorkspaceByTargetKey(owner, key) ==
  {w \in Workspaces : OwnerTenant[w] = owner /\ TargetKey[w] = key}

\* The rows that one uploaded item adds.
NewObject(item, w, key, dst, sha) ==
  [item |-> item, workspace |-> w, key |-> key, dst |-> dst, sha |-> sha]

\* record_uploaded_item: no key, no target or no workspace of it, no object;
\* and an item that has an object keeps it as it is.
RecordUploadedItem(objects, owner, item, target, key, dst, sha) ==
  objects \cup
    {NewObject(item, w, key, dst, sha) :
       w \in {v \in WorkspaceByTargetKey(owner, target) :
                key # <<>> /\ target # Missing /\ ObjectOfItem(objects, item) = {}}}

(***************************************************************************)
(* The endpoints.                                                          *)
(***************************************************************************)
\* A reader lists the workspaces, and then the objects of each.
Listed(objects, actor) == UNION {ListObjects(objects, actor, w) : w \in ListWorkspaces(actor)}

\* What GET of an object returns of it, and the keys that a download URL for it
\* opens.
Described(objects, actor, item) ==
  {[workspace |-> o.workspace, target_tenant |-> TargetTenant[o.workspace],
    dst |-> o.dst, sha |-> o.sha] : o \in GetObject(objects, actor, item)}
DownloadKeys(objects, actor, item) == {o.key : o \in GetObject(objects, actor, item)}
=============================================================================
