------------------------- MODULE WorkflowTemplates -------------------------
(***************************************************************************)
(* Approval templates and the instances made of them.  An edit and a       *)
(* publication lock the row of the template until they commit; an instance *)
(* is created from the template and its nodes without any lock.  The       *)
(* version_no of a template is 1 for ever, so that nothing but the foreign *)
(* keys of the tasks keeps the nodes of an instance what they were.        *)
(*                                                                         *)
(* The nodes of a template are generations: an edit makes new ones.  Names *)
(* and conditions, which nothing reads, are left out.                      *)
(***************************************************************************)
EXTENDS Integers, FiniteSets

CONSTANTS
  Templates,        \* identifiers (uuid4) of templates
  DocumentTypes,
  Requests,         \* requests that can be in flight
  Instances,        \* identifiers (uuid4) of instances
  MaxEdits,         \* bound: creations and edits of templates
  Nothing

VARIABLES
  template,         \* rows of approval_workflows, with their nodes
  instance,         \* rows of approval_instances, with the nodes of the tasks
  req,              \* what each request is doing
  edits,            \* generations made so far
  retyped           \* history: requests whose template got another type after they found it

vars == <<template, instance, req, edits, retyped>>

Statuses == {"draft", "published", "disabled"}
Rows == [type: DocumentTypes, status: Statuses, nodes: Nat]
None == [op |-> "none", of |-> Nothing, type |-> Nothing, change |-> Nothing, nodes |-> 0]

(* WorkflowPatchCommand: what an edit replaces. *)
Changes == [status: Statuses \cup {Nothing}, type: DocumentTypes \cup {Nothing}, nodes: BOOLEAN]

Init ==
  /\ template = [x \in Templates |-> Nothing]
  /\ instance = [i \in Instances |-> Nothing]
  /\ req = [r \in Requests |-> None]
  /\ edits = 0
  /\ retyped = {}

Becomes(r, op, x, change) ==
  req' = [req EXCEPT ![r] = [op |-> op, of |-> x, type |-> Nothing, change |-> change, nodes |-> 0]]
Ends(r) == req' = [req EXCEPT ![r] = None]

Existing == {x \in Templates : template[x] # Nothing}
Published(x) == template[x].status = "published"

(* _replace_nodes: nodes as they were never there before; their orders     *)
(* differ.                                                                 *)
NewNodes == edits + 1

(* create: a draft and its nodes. *)
Create(x, type) ==
  /\ x \notin Existing
  /\ edits < MaxEdits
  /\ edits' = edits + 1
  /\ template' = [template EXCEPT ![x] =
       [type |-> type, status |-> "draft", nodes |-> NewNodes]]
  /\ UNCHANGED <<instance, req, retyped>>

(* FOR UPDATE: one edit or publication of a template at a time. *)
Unlocked(x) == \A r \in Requests : req[r].op \in {"update", "publish"} => req[r].of # x

(* A published template is edited only by what disables it. *)
MayChange(x, change) == Published(x) => change.status = "disabled"

(* update locks and reads the row. *)
BeginUpdate(r, x, change) ==
  /\ req[r] = None
  /\ x \in Existing /\ Unlocked(x)
  /\ MayChange(x, change)
  /\ Becomes(r, "update", x, change)
  /\ UNCHANGED <<template, instance, edits, retyped>>

(* Mutant: no foreign key. *)
ReferencedNever(nodes) == FALSE

(* A task refers to these nodes. *)
Referenced(nodes) ==
  \E i \in Instances : instance[i] # Nothing /\ instance[i].nodes = nodes

(* The requests that have found the template. *)
Using(x) == {r \in Requests : req[r].op \in {"found", "read", "insert"} /\ req[r].of = x}

(* The row after an edit: what is not given stays. *)
Edited(row, change) ==
  [type |-> IF change.type = Nothing THEN row.type ELSE change.type,
   status |-> IF change.status = Nothing THEN row.status ELSE change.status,
   nodes |-> IF change.nodes THEN NewNodes ELSE row.nodes]

(* update writes the row and _replace_nodes deletes and inserts the nodes; *)
(* nodes that a task refers to cannot be deleted and nothing is written.   *)
Update(r) ==
  /\ req[r].op = "update"
  /\ LET x == req[r].of  change == req[r].change IN
     IF change.nodes /\ Referenced(template[x].nodes)
     THEN UNCHANGED <<template, edits, retyped>>
     ELSE /\ edits < MaxEdits
          /\ edits' = edits + 1
          /\ template' = [template EXCEPT ![x] = Edited(@, change)]
          /\ retyped' = IF change.type \in {Nothing, template[x].type} THEN retyped
                        ELSE retyped \cup Using(x)
  /\ Ends(r)
  /\ UNCHANGED instance

(* publish locks and reads the row, whatever its status. *)
BeginPublish(r, x) ==
  /\ req[r] = None
  /\ x \in Existing /\ Unlocked(x)
  /\ Becomes(r, "publish", x, Nothing)
  /\ UNCHANGED <<template, instance, edits, retyped>>

Publish(r) ==
  /\ req[r].op = "publish"
  /\ template' = [template EXCEPT ![req[r].of].status = "published"]
  /\ Ends(r)
  /\ UNCHANGED <<instance, edits, retyped>>

Fits(x, type) == template[x].type = type /\ Published(x)

(* find_published_for_document: the newest template of a type; updated_at *)
(* decides, any of them may be it.                                         *)
Find(r, type) ==
  /\ req[r] = None
  /\ \E x \in Existing :
       /\ Fits(x, type)
       /\ req' = [req EXCEPT ![r] =
            [op |-> "found", of |-> x, type |-> type, change |-> Nothing, nodes |-> 0]]
  /\ UNCHANGED <<template, instance, edits, retyped>>

(* create_instance reads the template, which must still be published; its  *)
(* type is not looked at again.                                            *)
ReadTemplate(r) ==
  /\ req[r].op = "found"
  /\ Published(req[r].of)
  /\ req' = [req EXCEPT ![r].op = "read"]
  /\ UNCHANGED <<template, instance, edits, retyped>>

(* Then its nodes. *)
ReadNodes(r) ==
  /\ req[r].op = "read"
  /\ req' = [req EXCEPT ![r] = [@ EXCEPT !.op = "insert", !.nodes = template[req[r].of].nodes]]
  /\ UNCHANGED <<template, instance, edits, retyped>>

(* The instance and a task for every node.  The nodes that were read must  *)
(* be there; otherwise, or when a role has no active user, the submission  *)
(* fails.                                                                  *)
Insert(r) ==
  /\ req[r].op = "insert"
  /\ template[req[r].of].nodes = req[r].nodes
  /\ \E i \in Instances :
       /\ instance[i] = Nothing
       /\ instance' = [instance EXCEPT ![i] = [of |-> req[r].of, nodes |-> req[r].nodes]]
  /\ Ends(r)
  /\ retyped' = retyped \ {r}
  /\ UNCHANGED <<template, edits>>

(* A request is rolled back, or its template is not published any more. *)
Fail(r) ==
  /\ req[r] # None
  /\ Ends(r)
  /\ retyped' = retyped \ {r}
  /\ UNCHANGED <<template, instance, edits>>

Request(r) ==
  \/ \E x \in Templates : BeginPublish(r, x) \/ \E change \in Changes : BeginUpdate(r, x, change)
  \/ \E type \in DocumentTypes : Find(r, type)
  \/ Update(r) \/ Publish(r) \/ ReadTemplate(r) \/ ReadNodes(r) \/ Insert(r) \/ Fail(r)

Next ==
  \/ \E x \in Templates, type \in DocumentTypes : Create(x, type)
  \/ \E r \in Requests : Request(r)

Spec == Init /\ [][Next]_vars

(***************************************************************************)
(* Properties.                                                             *)
(***************************************************************************)
TypeOK ==
  /\ template \in [Templates -> Rows \cup {Nothing}]
  /\ instance \in [Instances -> [of: Templates, nodes: Nat] \cup {Nothing}]
  /\ req \in [Requests -> [op: {"none", "update", "publish", "found", "read", "insert"},
                           of: Templates \cup {Nothing}, type: DocumentTypes \cup {Nothing},
                           change: Changes \cup {Nothing}, nodes: Nat]]
  /\ edits \in 0..MaxEdits
  /\ retyped \subseteq Requests

(* The tasks of an instance are the nodes of its template: a template that *)
(* has an instance never gets other nodes, and an instance never gets the  *)
(* nodes of an earlier edit.  All instances of a template so have the same *)
(* nodes, although its version_no does not tell its edits apart.           *)
InstancesKeepNodes ==
  \A i \in Instances : instance[i] # Nothing => template[instance[i].of].nodes = instance[i].nodes

(* While a template is published nothing of it changes, but in the step    *)
(* that disables it; an edit that read the draft before the publication    *)
(* would be such a change.                                                 *)
PublishedFrozen ==
  [][\A x \in Existing :
       Published(x) /\ template'[x] # template[x] => template'[x].status = "disabled"]_vars

(* An instance is made of a template for the type of its document, unless  *)
(* the template was edited between its search and its use: what was found  *)
(* is looked up again by its status, and not by its type.                  *)
MadeForItsType ==
  [][\A r \in Requests :
       req[r].op = "insert" /\ instance' # instance /\ req'[r] # req[r] =>
         template[req[r].of].type = req[r].type \/ r \in retyped]_vars
=============================================================================
