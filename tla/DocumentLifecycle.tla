-------------------------- MODULE DocumentLifecycle --------------------------
(***************************************************************************)
(* One row of financial_documents, its document_versions and its approval  *)
(* instances, as the PostgreSQL services change them.  Workers are the     *)
(* concurrent HTTP requests of the applicant.  Every request uses its own  *)
(* database session; one action is one statement (or commit) at which      *)
(* another request can get in between.                                     *)
(*                                                                         *)
(* PostgreSQL runs READ COMMITTED: an unlocked read returns the last       *)
(* committed row, an UPDATE by primary key waits for the row lock and then *)
(* overwrites whatever has been committed meanwhile.  SQLAlchemy keeps the *)
(* object it has read (`snap') in the session's identity map and writes    *)
(* only the attributes that changed, with values computed from `snap'.     *)
(*                                                                         *)
(* The document is an expense reimbursement, the type that has lines.      *)
(***************************************************************************)
EXTENDS Integers, FiniteSets, TLC

CONSTANTS
  Workers,          \* concurrent requests of the applicant
  Lines,            \* expense lines a document may hold
  Keys,             \* Idempotency-Key values the client sends
  Instances,        \* identifiers (uuid4) of approval instances
  MaxState,         \* bound on document_state_version
  MaxVersion,       \* bound on current_version
  LookupOpensTxn,   \* the analysis repository is the SQL one, as shipped: its
                    \* lookup begins a transaction on the session, and no
                    \* submission gets an instance; FALSE for a repository
                    \* that is injected in its place
  NoKey

ASSUME BoundsAssumption == MaxState \in Nat \ {0} /\ MaxVersion \in Nat \ {0}
ASSUME LinesAssumption == Lines # {}
ASSUME LookupAssumption == LookupOpensTxn \in BOOLEAN
ASSUME NoKeyAssumption == NoKey \notin Keys

VARIABLES
  row,              \* the committed financial_documents row
  versions,         \* the committed document_versions rows
  instance,         \* the committed approval_instances rows
  analysis,         \* analysis_tasks by idempotency key: version bound, or 0
  seen,             \* state version each client has got from a GET, or 0
  pc,               \* where each request is
  snap,             \* the row each request has read into its session
  payload,          \* the line items a request is about to write
  key               \* the Idempotency-Key of a submission

vars == <<row, versions, instance, analysis, seen, pc, snap, payload, key>>
localVars == <<seen, pc, snap, payload, key>>

Statuses == {"draft", "pending_review", "pending_approval", "approved",
             "returned", "rejected", "withdrawn", "voided"}
(* Mutant: a document under review can be edited too. *)
EditableUnderReview == {"draft", "returned", "pending_review"}

Editable == {"draft", "returned"}

(* A line of the JSON payload.  Lines written by a create or a PATCH of the *)
(* document carry no item_id and cannot be addressed one by one.            *)
LineStates == {"absent", "anonymous", "named", "patched"}
Payloads == [Lines -> LineStates]
NoLines == [l \in Lines |-> "absent"]

Row == [status: Statuses, state: 1..MaxState, current: 0..MaxVersion, lines: Payloads]
Versions == [no: 1..MaxVersion, lines: Payloads, key: Keys \cup {NoKey}]

(* create_instance gives every node of the template its task ("complete"); *)
(* the seeded instance has the task of the first of its two nodes only     *)
(* ("partial").                                                            *)
InstanceRows == [status: {"unused", "complete", "partial", "finished"},
                 version: 0..MaxVersion]
Unused == [status |-> "unused", version |-> 0]
Locations == {"idle", "patch", "write", "submit", "analysis", "instance"}

(* validate_expense_total refuses a submission without a line; documents   *)
(* of other types are submitted without any (see DraftAmounts).            *)
Complete(lines) == \E l \in Lines : lines[l] # "absent"

(* The unit of work leaves an attribute out of the UPDATE when the value   *)
(* assigned equals the value loaded.                                       *)
Flushed(loaded, assigned, stored) == IF assigned = loaded THEN stored ELSE assigned

(* A session that holds no document. *)
Empty == [status |-> "draft", state |-> 1, current |-> 0, lines |-> NoLines]

LiveInstances == {i \in Instances : instance[i].status \in {"complete", "partial"}}

(***************************************************************************)
(* Initial states: a draft just created, or the document of                *)
(* seed_demo_data.py, whose first version is in approval.                  *)
(***************************************************************************)
InitRow ==
  \/ /\ \E lines \in [Lines -> {"absent", "anonymous"}] :
          row = [status |-> "draft", state |-> 1, current |-> 0, lines |-> lines]
     /\ versions = {}
     /\ instance = [i \in Instances |-> Unused]
     /\ analysis = [k \in Keys |-> 0]
  \/ /\ row = [status |-> "pending_approval", state |-> 1, current |-> 1, lines |-> NoLines]
     /\ versions = {[no |-> 1, lines |-> [l \in Lines |-> "anonymous"], key |-> NoKey]}
     /\ \E i \in Instances :
          instance = [j \in Instances |->
                        IF j = i THEN [status |-> "partial", version |-> 1] ELSE Unused]
     /\ analysis = [k \in Keys |-> 0]

Init ==
  /\ InitRow
  /\ seen = [w \in Workers |-> 0]
  /\ pc = [w \in Workers |-> "idle"]
  /\ snap = [w \in Workers |-> Empty]
  /\ payload = [w \in Workers |-> NoLines]
  /\ key = [w \in Workers |-> NoKey]

(* GET of the document: the client learns the state version that it will   *)
(* send as expected_state_version.                                         *)
Get(w) ==
  /\ pc[w] = "idle"
  /\ seen' = [seen EXCEPT ![w] = row.state]
  /\ UNCHANGED <<row, versions, instance, analysis, pc, snap, payload, key>>

(* The request is over, answered or not, and its session is closed. *)
Finished(w) ==
  /\ seen' = [seen EXCEPT ![w] = 0]
  /\ pc' = [pc EXCEPT ![w] = "idle"]
  /\ snap' = [snap EXCEPT ![w] = Empty]
  /\ payload' = [payload EXCEPT ![w] = NoLines]
  /\ key' = [key EXCEPT ![w] = NoKey]

(***************************************************************************)
(* Requests that read the row without a lock and write it afterwards.      *)
(***************************************************************************)
(* The bound keeps the model finite. *)
CanBegin(w) == pc[w] = "idle" /\ row.state < MaxState

(* session.get, the check of the status, and the payload to be written. *)
ReadForWrite(w, next, lines) ==
  /\ CanBegin(w)
  /\ row.status \in Editable
  /\ pc' = [pc EXCEPT ![w] = next]
  /\ snap' = [snap EXCEPT ![w] = row]
  /\ payload' = [payload EXCEPT ![w] = lines]
  /\ UNCHANGED <<row, versions, instance, analysis, seen, key>>

(* Mutant: the expected state version is not compared. *)
StateMatchesNot(expected) == expected # 0

StateMatches(expected) == row.state = expected

(* PATCH of the document, with or without line items.  The row is read,    *)
(* then selected FOR UPDATE, but the identity map keeps the object read    *)
(* first, so expected_state_version and status are checked on that object. *)
UpdateDraft(w) ==
  /\ StateMatches(seen[w])
  /\ \E lines \in {row.lines} \cup [Lines -> {"absent", "anonymous"}] :
       ReadForWrite(w, "patch", lines)

AddLineItem(w) ==
  \E l \in Lines :
    /\ row.lines[l] = "absent"
    /\ ReadForWrite(w, "write", [row.lines EXCEPT ![l] = "named"])

UpdateLineItem(w) ==
  \E l \in Lines :
    /\ row.lines[l] \in {"named", "patched"}
    /\ ReadForWrite(w, "write", [row.lines EXCEPT ![l] = "patched"])

DeleteLineItem(w) ==
  \E l \in Lines :
    /\ row.lines[l] \in {"named", "patched"}
    /\ ReadForWrite(w, "write", [row.lines EXCEPT ![l] = "absent"])

(* The flush and the commit of these requests. *)
CommitWrite(w) ==
  /\ pc[w] \in {"patch", "write"}
  /\ row' = [row EXCEPT !.lines = Flushed(snap[w].lines, payload[w], @),
                        !.state = snap[w].state + 1]
  /\ Finished(w)
  /\ UNCHANGED <<versions, instance, analysis>>

(***************************************************************************)
(* Submission: three transactions, one after the other.                    *)
(***************************************************************************)
(* Mutant: the status is not checked. *)
SubmitAcceptedAnyStatus(expected) == StateMatches(expected) /\ Complete(row.lines)

SubmitAccepted(expected) ==
  /\ StateMatches(expected)
  /\ row.status \in Editable
  /\ Complete(row.lines)

(* Checks of submit on the object just read; nothing is locked. *)
Submit(w, k) ==
  /\ CanBegin(w)
  /\ row.current < MaxVersion
  /\ SubmitAccepted(seen[w])
  /\ pc' = [pc EXCEPT ![w] = "submit"]
  /\ snap' = [snap EXCEPT ![w] = row]
  /\ key' = [key EXCEPT ![w] = k]
  /\ UNCHANGED <<row, versions, instance, analysis, seen, payload>>

(* Mutant: no unique constraint on (document_id, version_no). *)
VersionTakenNever(no) == FALSE

VersionTaken(no) == \E v \in versions : v.no = no

(* create_version and its commit: uq_document_versions_document_version    *)
(* refuses a number that exists already, the rest is overwritten.          *)
CommitVersion(w) ==
  LET no == snap[w].current + 1 IN
  /\ pc[w] = "submit"
  /\ ~VersionTaken(no)
  /\ versions' = versions \cup {[no |-> no, lines |-> snap[w].lines, key |-> key[w]]}
  /\ row' = [row EXCEPT !.status = "pending_review",
                        !.current = no,
                        !.state = snap[w].state + 1]
  /\ pc' = [pc EXCEPT ![w] = "analysis"]
  /\ UNCHANGED <<instance, analysis, seen, snap, payload, key>>

CommitVersionFails(w) ==
  /\ pc[w] = "submit"
  /\ VersionTaken(snap[w].current + 1)
  /\ Finished(w)
  /\ UNCHANGED <<row, versions, instance, analysis>>

(* Mutant: the task is not inserted. *)
StartAnalysisSkipped(w) ==
  /\ pc[w] = "analysis"
  /\ ~LookupOpensTxn
  /\ pc' = [pc EXCEPT ![w] = "instance"]
  /\ UNCHANGED <<row, versions, instance, analysis, seen, snap, payload, key>>

(* analysis_service.start.  A known key returns the task it created, for   *)
(* whatever version that was; a new key inserts a task and enqueues it.    *)
StartAnalysis(w) ==
  /\ pc[w] = "analysis"
  /\ ~LookupOpensTxn
  /\ analysis' = [analysis EXCEPT ![key[w]] = IF @ = 0 THEN snap[w].current + 1 ELSE @]
  /\ pc' = [pc EXCEPT ![w] = "instance"]
  /\ UNCHANGED <<row, versions, instance, seen, snap, payload, key>>

(* The lookup has begun a transaction, so the next begin() raises: that of *)
(* start for a new key, that of create_instance_for_document for a known   *)
(* one.                                                                    *)
StartAnalysisFails(w) ==
  /\ pc[w] = "analysis"
  /\ LookupOpensTxn
  /\ Finished(w)
  /\ UNCHANGED <<row, versions, instance, analysis>>

(* The task is committed but the queue is down (RuntimeError). *)
EnqueueFails(w) ==
  /\ pc[w] = "analysis"
  /\ ~LookupOpensTxn
  /\ analysis[key[w]] = 0
  /\ analysis' = [analysis EXCEPT ![key[w]] = snap[w].current + 1]
  /\ Finished(w)
  /\ UNCHANGED <<row, versions, instance>>

CreateInstance(w) ==
  /\ pc[w] = "instance"
  /\ \E i \in Instances :
       /\ instance[i] = Unused
       /\ instance' = [instance EXCEPT ![i] = [status |-> "complete",
                                               version |-> snap[w].current + 1]]
  /\ Finished(w)
  /\ UNCHANGED <<row, versions, analysis>>

(* No published template: create_instance_for_document returns None and    *)
(* the submission succeeds; no approver for a node: ValueError.            *)
NoInstance(w) ==
  /\ pc[w] = "instance"
  /\ Finished(w)
  /\ UNCHANGED <<row, versions, instance, analysis>>

(* The process stops, or the client goes away: open transactions are       *)
(* rolled back, committed ones stay.                                       *)
Crash(w) ==
  /\ pc[w] # "idle"
  /\ Finished(w)
  /\ UNCHANGED <<row, versions, instance, analysis>>

(***************************************************************************)
(* Withdraw and void: the row is locked by the statement that reads it.    *)
(***************************************************************************)
(* Mutant: a document that waits for review can be voided. *)
AllowedWaiting(target) ==
  CASE target = "withdrawn" -> {"pending_review", "reviewing", "draft"}
    [] target = "voided"    -> {"draft", "returned", "rejected", "approved",
                                "pending_review"}

Allowed(target) ==
  CASE target = "withdrawn" -> {"pending_review", "reviewing", "draft"}
    [] target = "voided"    -> {"draft", "returned", "rejected", "approved"}

ChangeStatus(w, target) ==
  /\ CanBegin(w)
  /\ row.status \in Allowed(target)
  /\ row' = [row EXCEPT !.status = target, !.state = @ + 1]
  /\ UNCHANGED <<versions, instance, analysis, localVars>>

(***************************************************************************)
(* The approvers' side, as the applicant's row sees it: apply_decision     *)
(* updates the document of the instance without reading its status, and    *)
(* adds 1 to the state version in the UPDATE itself.                       *)
(***************************************************************************)
Decide(i, status, outcome) ==
  /\ row.state < MaxState
  /\ instance' = [instance EXCEPT ![i].status = outcome]
  /\ row' = [row EXCEPT !.status = status, !.state = @ + 1]
  /\ UNCHANGED <<versions, analysis, localVars>>

(* An approval before the last node goes on to the task of the next node;  *)
(* when that task does not exist, it ends the instance.                    *)
ApproveNode(i) ==
  /\ i \in LiveInstances
  /\ Decide(i, "pending_approval",
            IF instance[i].status = "partial" THEN "finished" ELSE "complete")

(* The seeded instance never reaches its last node. *)
ApproveLast(i) ==
  /\ instance[i].status = "complete"
  /\ Decide(i, "approved", "finished")

SendBack(i) ==
  /\ i \in LiveInstances
  /\ \E status \in {"returned", "rejected"} : Decide(i, status, "finished")

WorkerStep(w) ==
  \/ CommitWrite(w)
  \/ CommitVersion(w)
  \/ CommitVersionFails(w)
  \/ StartAnalysis(w)
  \/ StartAnalysisFails(w)
  \/ EnqueueFails(w)
  \/ CreateInstance(w)
  \/ NoInstance(w)

Request(w) ==
  \/ Get(w)
  \/ UpdateDraft(w)
  \/ AddLineItem(w)
  \/ UpdateLineItem(w)
  \/ DeleteLineItem(w)
  \/ \E k \in Keys : Submit(w, k)
  \/ ChangeStatus(w, "withdrawn")
  \/ ChangeStatus(w, "voided")

Next ==
  \/ \E w \in Workers : Request(w) \/ WorkerStep(w) \/ Crash(w)
  \/ \E i \in Instances : ApproveNode(i) \/ ApproveLast(i) \/ SendBack(i)

Spec == Init /\ [][Next]_vars

(***************************************************************************)
(* Properties.                                                             *)
(***************************************************************************)
(* Every variable holds the kind of value the tables and sessions hold. *)
TypeOK ==
  /\ row \in Row
  /\ versions \subseteq Versions
  /\ instance \in [Instances -> InstanceRows]
  /\ analysis \in [Keys -> 0..MaxVersion]
  /\ seen \in [Workers -> 0..MaxState]
  /\ pc \in [Workers -> Locations]
  /\ snap \in [Workers -> Row]
  /\ payload \in [Workers -> Payloads]
  /\ key \in [Workers -> Keys \cup {NoKey}]

(* The versions of the document are numbered 1 .. current_version, each    *)
(* number once, although submissions compute the number from a row they    *)
(* read without a lock.                                                    *)
VersionNumbering ==
  /\ {v.no : v \in versions} = 1..row.current
  /\ \A u, v \in versions : u.no = v.no => u = v

(* apply_decision never compares the instance's version with the document. *)
(* It need not: an instance that can still be decided is of the latest     *)
(* version, it is the only one, and the applicant cannot edit meanwhile.   *)
LiveInstanceIsCurrent ==
  \A i \in LiveInstances :
    /\ instance[i].version = row.current
    /\ row.status \notin Editable
    /\ \A j \in LiveInstances : j = i

(* No version is put into approval twice, whatever requests are in flight. *)
OneInstancePerVersion ==
  \A i, j \in Instances :
    /\ instance[i].status # "unused"
    /\ instance[j].status # "unused"
    /\ instance[i].version = instance[j].version
    => i = j

(* No version is decided on without an analysis task under the key of its  *)
(* submission; the task is of that very version unless the client has used *)
(* the key for another submission of the document.                         *)
ReviewIsAnalysed ==
  \A i \in Instances, v \in versions :
    instance[i].version = v.no /\ v.key # NoKey
      => /\ analysis[v.key] # 0
         /\ analysis[v.key] # v.no => \E u \in versions : u.key = v.key /\ u.no < v.no

(* What is frozen is what was validated: every version has a line, even    *)
(* when the lines were edited between the check and the commit.            *)
SnapshotsComplete == \A v \in versions : Complete(v.lines)

(***************************************************************************)
(* The inductive invariant.  A version in flight is committed and not yet  *)
(* under review; while one is in flight or under review the document       *)
(* cannot be edited, and every submission that is still to commit has read *)
(* an older row, so the unique constraint will refuse it.                  *)
(***************************************************************************)
InFlight == {w \in Workers : pc[w] \in {"analysis", "instance"}}
Busy == LiveInstances # {} \/ InFlight # {}

SessionsBounded ==
  \A w \in Workers :
    /\ pc[w] \in {"patch", "write", "submit"} => snap[w].state < MaxState
    /\ pc[w] \in {"submit", "analysis", "instance"}
         => snap[w].current < MaxVersion /\ key[w] \in Keys
    /\ pc[w] = "submit" => snap[w].current <= row.current /\ Complete(snap[w].lines)

OneReviewAtATime ==
  /\ \A i \in LiveInstances : instance[i].version = row.current
  /\ \A i, j \in LiveInstances : i = j
  /\ \A w \in InFlight : snap[w].current + 1 = row.current
  /\ \A u, w \in InFlight : u = w
  /\ LiveInstances = {} \/ InFlight = {}

BusyExcludes ==
  Busy => /\ row.status \notin Editable
          /\ \A w \in Workers : pc[w] = "submit" => snap[w].current < row.current

OpenedInOrder ==
  \A i \in Instances : instance[i].status # "unused" =>
    /\ instance[i].version \in 1..row.current
    /\ InFlight # {} => instance[i].version < row.current

Inv ==
  /\ TypeOK
  /\ VersionNumbering
  /\ SessionsBounded
  /\ OneReviewAtATime
  /\ BusyExcludes
  /\ OpenedInOrder
  /\ OneInstancePerVersion
  /\ SnapshotsComplete

(* The submission path implements the ledger of versions. *)
UnderReview == {instance[i].version : i \in LiveInstances}
Reviewing == IF UnderReview = {} THEN 0 ELSE CHOOSE v \in UnderReview : TRUE
Reviewed == {instance[i].version : i \in {j \in Instances : instance[j].status # "unused"}}
Ledger ==
  INSTANCE VersionLedger WITH
    count <- row.current, reviewing <- Reviewing, reviewed <- Reviewed
ImplementsLedger == Ledger!Spec

(* "Uses an optimistic lock": an update or a submission is committed only  *)
(* on the state that its client has seen.                                  *)
OptimisticLock ==
  [][\A w \in Workers :
       pc[w] \in {"patch", "submit"} /\ row' # row /\ pc'[w] # pc[w]
         => row.state = seen[w]]_vars

(* While a document waits for review its lines are those of the version    *)
(* under review.                                                           *)
ReviewedLinesFrozen ==
  row.status = "pending_review" =>
    \A v \in versions : v.no = row.current => v.lines = row.lines

(* A document whose submission stopped before its instance was created can *)
(* be withdrawn and nothing else: no request, not even one that read the   *)
(* row earlier, brings it back to the applicant or to a decision.          *)
StrandedOnlyWithdrawn ==
  [][row.status = "pending_review" /\ LiveInstances = {}
       => row'.status \in {"pending_review", "withdrawn"}]_vars

(* For TLC: requests, keys and instance identifiers are interchangeable.   *)
Interchangeable ==
  Permutations(Workers) \cup Permutations(Keys) \cup Permutations(Instances)
=============================================================================
