----------------------------- MODULE AccessScope -----------------------------
(***************************************************************************)
(* Permissions and data scopes of a principal: what a role may do          *)
(* (authorize), which rows a query lets through (filter_by_data_scope) and *)
(* whether a single row may be used (can_access_resource).  The same rule  *)
(* is written three times, for checks at three places.                     *)
(***************************************************************************)
EXTENDS Integers, FiniteSets

CONSTANTS
  People,           \* identifiers of users
  Self,             \* the one of the request
  Orgs,             \* organizations
  Nil               \* no owner, assignee or organization

VARIABLES
  principal,        \* the user of the request with his roles and organizations
  resource,         \* a row he asks for
  verdict           \* what was asked, and the answers

vars == <<principal, resource, verdict>>

Roles == {"applicant", "approver", "finance", "admin"}
OwnPermissions == {"document:read:own", "document:update:own", "document:submit:own"}
TaskPermissions == {"approval:decide", "approval:read:assigned"}
BusinessPermissions ==
  OwnPermissions \cup TaskPermissions \cup {"document:create", "finance:read:scoped"}
AdminPermissions ==
  {"config:manage", "config:read", "user:read", "user:create", "user:update", "role:read",
   "role:create", "role:update", "permission:read", "role_permission:manage", "user_role:manage"}
Permissions == BusinessPermissions \cup AdminPermissions

(* ROLE_PERMISSIONS *)
RolePermissions ==
  [applicant |-> OwnPermissions \cup {"document:create"}, approver |-> TaskPermissions,
   finance |-> {"finance:read:scoped", "config:read"}, admin |-> AdminPermissions]

Principals == [id: {Self}, roles: SUBSET Roles, orgs: SUBSET Orgs, active: BOOLEAN]
Resources ==
  [kind: {"document", "approval_task", "rule"}, owner: People \cup {Nil},
   assignee: People \cup {Nil}, org: Orgs \cup {Nil}]

Unasked == [op |-> "none"]

Init ==
  /\ principal \in Principals
  /\ resource \in Resources
  /\ verdict = Unasked

(* has_permission *)
HasPermission(p, permission) == \E role \in p.roles : permission \in RolePermissions[role]

(* An administrator stays out of business data. *)
KeptOut(p, permission, configuration) ==
  "admin" \in p.roles /\ ~configuration /\ permission \in BusinessPermissions

(* authorize: the call raises unless all of this holds. *)
Authorized(p, permission, r, configuration) ==
  /\ p.active
  /\ HasPermission(p, permission)
  /\ permission \in OwnPermissions => r.owner = p.id
  /\ permission \in TaskPermissions => r.assignee \in {Nil, p.id}
  /\ permission = "finance:read:scoped" => r.org \in p.orgs \cup {Nil}
  /\ ~KeptOut(p, permission, configuration)

(* can_access_resource *)
CanAccess(p, r, configuration) ==
  /\ p.active
  /\ \/ /\ r.kind = "document"
        /\ \/ "applicant" \in p.roles /\ r.owner = p.id
           \/ "finance" \in p.roles /\ r.org \in p.orgs
     \/ r.kind = "approval_task" /\ "approver" \in p.roles /\ r.assignee = p.id
     \/ r.kind = "rule" /\ configuration /\ "admin" \in p.roles

(* Mutant: finance sees the documents of every organization. *)
DocumentsListedAll(p, r) ==
  IF "applicant" \in p.roles THEN r.owner = p.id ELSE "finance" \in p.roles

(* filter_by_data_scope for documents: an applicant gets his own and no    *)
(* others, whatever other roles he has.                                    *)
DocumentsListed(p, r) ==
  IF "applicant" \in p.roles THEN r.owner = p.id
  ELSE "finance" \in p.roles /\ r.org \in p.orgs

(* filter_by_data_scope; it raises for configuration without the role.     *)
Listed(p, r, configuration) ==
  /\ p.active
  /\ \/ r.kind = "document" /\ DocumentsListed(p, r)
     \/ r.kind = "approval_task" /\ "approver" \in p.roles /\ r.assignee = p.id
     \/ r.kind = "rule" /\ configuration /\ "admin" \in p.roles

Authorize(permission, configuration) ==
  /\ verdict = Unasked
  /\ verdict' = [op |-> "authorize", permission |-> permission, configuration |-> configuration,
                 allowed |-> Authorized(principal, permission, resource, configuration)]
  /\ UNCHANGED <<principal, resource>>

(* A query lets a row through or not, and its use is checked again. *)
Query(configuration) ==
  /\ verdict = Unasked
  /\ verdict' = [op |-> "query", listed |-> Listed(principal, resource, configuration),
                 accessible |-> CanAccess(principal, resource, configuration)]
  /\ UNCHANGED <<principal, resource>>

Next ==
  \/ \E permission \in Permissions, configuration \in BOOLEAN : Authorize(permission, configuration)
  \/ \E configuration \in BOOLEAN : Query(configuration)

Spec == Init /\ [][Next]_vars

(***************************************************************************)
(* Properties.                                                             *)
(***************************************************************************)
TypeOK ==
  /\ principal \in Principals /\ resource \in Resources
  /\ verdict.op \in {"none", "authorize", "query"}

(* The filter of a query and the check of a single row agree: what is      *)
(* listed may be used, and what may be used is listed - except for one who *)
(* is an applicant and in finance too, whose query hides the documents of  *)
(* his organizations.                                                      *)
ListedIsAccessible ==
  verdict.op = "query" =>
    /\ verdict.listed => verdict.accessible
    /\ verdict.accessible /\ ~verdict.listed => {"applicant", "finance"} \subseteq principal.roles

(* More roles allow more, but for the role of an administrator: whatever a *)
(* principal is refused although one of his roles alone allows it, he is   *)
(* refused as an administrator; and as one he is never allowed a business  *)
(* permission for business data.                                           *)
OnlyAdminTakesAway ==
  verdict.op = "authorize" =>
    LET alone(role) == Authorized([principal EXCEPT !.roles = {role}], verdict.permission,
                                  resource, verdict.configuration)
    IN /\ verdict.allowed => \E role \in principal.roles : alone(role)
       /\ ~verdict.allowed /\ (\E role \in principal.roles : alone(role)) => "admin" \in principal.roles
       /\ verdict.allowed /\ verdict.permission \in BusinessPermissions /\ ~verdict.configuration
            => "admin" \notin principal.roles
=============================================================================
