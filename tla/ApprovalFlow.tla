---------------------------- MODULE ApprovalFlow ----------------------------
(***************************************************************************)
(* The approval of one document: its instances, their tasks and the        *)
(* decisions of the approvers, as PersistentApprovalService and            *)
(* SqlApprovalRepository take them.  Workers are concurrent HTTP requests. *)
(*                                                                         *)
(* A decision locks the row of its task, then that of the instance, then   *)
(* that of the next task, validates, writes and commits, and only then     *)
(* stores its response in Redis under the idempotency key.  A worker that  *)
(* wants a locked row waits.  The locks of a worker follow from where it   *)
(* is, so they are not variables of their own.                             *)
(***************************************************************************)
EXTENDS Integers, FiniteSets

CONSTANTS
  Workers,          \* concurrent requests of the approvers
  Keys,             \* Idempotency-Key values
  NodeCount,        \* nodes of the published workflow
  MaxInstances      \* bound on the submissions of the document

ASSUME CountsAssumption == NodeCount \in Nat \ {0} /\ MaxInstances \in Nat \ {0}

Nodes == 1..NodeCount
Numbers == 1..MaxInstances
None == "none"

VARIABLES
  opened,           \* instances created so far; the last one is the current one
  task,             \* task_status of the task of each node of each instance
  instance,         \* instance_status and current_node_id
  doc,              \* document_status
  log,              \* document_status_logs rows per task
  winner,           \* the key under which a task was decided
  cache,            \* Redis: the response stored for a task and a key
  pc,               \* where each request is
  req               \* what each request asks for

vars == <<opened, task, instance, doc, log, winner, cache, pc, req>>
tables == <<opened, task, instance, doc, log, winner>>

Decisions == {"approve", "return", "reject"}
TaskStatuses == {"absent", "pending", "approved", "returned", "rejected"}
Decided == {"approved", "returned", "rejected"}
InstanceStatuses == {"unused", "pending", "running", "pending_approval"} \cup Decided
DocStatuses == {"pending_review", "pending_approval"} \cup Decided
Locations == {"idle", "task", "instance", "next", "apply", "cache"}

(* `owner': the actor is the approver of the task.  Whatever somebody else *)
(* asks for is refused, so one such request stands for all.                *)
Requests ==
  {r \in [of: Numbers, node: Nodes, decision: Decisions, key: Keys, owner: BOOLEAN] :
     r.owner \/ r.decision = "approve"}
NoRequest == [of |-> 1, node |-> 1, decision |-> "approve", key |-> None, owner |-> TRUE]

(***************************************************************************)
(* Rows and locks.                                                         *)
(***************************************************************************)
TaskRow(i, n) == <<"task", i, n>>
InstanceRow(i) == <<"instance", i, 0>>

(* The task that lock_for_decision selects after the instance, if any. *)
NextTask(w) ==
  LET i == req[w].of  n == req[w].node + 1 IN
  IF n \in Nodes /\ task[i][n] # "absent" THEN {TaskRow(i, n)} ELSE {}

Owns(w) ==
  UNION {IF pc[w] \in {"instance", "next", "apply"} THEN {TaskRow(req[w].of, req[w].node)} ELSE {},
         IF pc[w] \in {"next", "apply"} THEN {InstanceRow(req[w].of)} ELSE {},
         IF pc[w] = "apply" THEN NextTask(w) ELSE {}}

Wants(w) ==
  CASE pc[w] = "task"     -> {TaskRow(req[w].of, req[w].node)}
    [] pc[w] = "instance" -> {InstanceRow(req[w].of)}
    [] pc[w] = "next"     -> NextTask(w)
    [] OTHER              -> {}

WaitsFor(w, u) == Wants(w) \cap Owns(u) # {}
Granted(w) == \A u \in Workers \ {w} : ~WaitsFor(w, u)

(* The instance of a first submission, with a pending task for every node,  *)
(* or that of seed_demo_data.py, which has the task of its first node only. *)
Init ==
  /\ opened = 1
  /\ \E seeded \in BOOLEAN :
       /\ task = [i \in Numbers |-> [n \in Nodes |->
                    IF i = 1 /\ (n = 1 \/ ~seeded) THEN "pending" ELSE "absent"]]
       /\ instance = [i \in Numbers |->
            [status |-> IF i # 1 THEN "unused" ELSE IF seeded THEN "running" ELSE "pending",
             current |-> 1]]
       /\ doc = IF seeded THEN "pending_approval" ELSE "pending_review"
  /\ log = [i \in Numbers |-> [n \in Nodes |-> 0]]
  /\ winner = [i \in Numbers |-> [n \in Nodes |-> None]]
  /\ cache = [i \in Numbers |-> [n \in Nodes |-> [k \in Keys |-> None]]]
  /\ pc = [w \in Workers |-> "idle"]
  /\ req = [w \in Workers |-> NoRequest]

(***************************************************************************)
(* The applicant submits again: a new instance of the same workflow, with  *)
(* a pending task for every node.  Old tasks are left as they are.         *)
(***************************************************************************)
Resubmit ==
  /\ doc = "returned"
  /\ opened < MaxInstances
  /\ opened' = opened + 1
  /\ doc' = "pending_review"
  /\ task' = [task EXCEPT ![opened + 1] = [n \in Nodes |-> "pending"]]
  /\ instance' = [instance EXCEPT ![opened + 1].status = "pending"]
  /\ UNCHANGED <<log, winner, cache, pc, req>>

(***************************************************************************)
(* One decision.                                                           *)
(***************************************************************************)
(* The request is over: answered, refused, or stopped; its transaction has  *)
(* ended.                                                                   *)
Finished(w) ==
  /\ pc' = [pc EXCEPT ![w] = "idle"]
  /\ req' = [req EXCEPT ![w] = NoRequest]

Decide(w, r) ==
  /\ pc[w] = "idle"
  /\ r.of <= opened
  /\ cache[r.of][r.node][r.key] = None
  /\ pc' = [pc EXCEPT ![w] = "task"]
  /\ req' = [req EXCEPT ![w] = r]
  /\ UNCHANGED <<tables, cache>>

(* A response stored under the key is returned at once.                     *)
Replay(w, r) ==
  /\ pc[w] = "idle"
  /\ cache[r.of][r.node][r.key] # None
  /\ UNCHANGED vars

LockTask(w) ==
  /\ pc[w] = "task"
  /\ Granted(w)
  /\ task[req[w].of][req[w].node] # "absent"
  /\ pc' = [pc EXCEPT ![w] = "instance"]
  /\ UNCHANGED <<tables, cache, req>>

NoTask(w) ==
  /\ pc[w] = "task"
  /\ task[req[w].of][req[w].node] = "absent"
  /\ Finished(w)
  /\ UNCHANGED <<tables, cache>>

LockInstance(w) ==
  /\ pc[w] = "instance"
  /\ Granted(w)
  /\ pc' = [pc EXCEPT ![w] = "next"]
  /\ UNCHANGED <<tables, cache, req>>

(* Nothing to wait for when there is no next node, or no task for it. *)
LockNextTask(w) ==
  /\ pc[w] = "next"
  /\ Granted(w)
  /\ pc' = [pc EXCEPT ![w] = "apply"]
  /\ UNCHANGED <<tables, cache, req>>

(* Mutant: the task need not be that of the current node. *)
AcceptableAnyNode(r) == r.owner /\ task[r.of][r.node] = "pending"

(* Mutant: the task may have been decided already. *)
AcceptableDecided(r) == r.owner /\ instance[r.of].current = r.node

Acceptable(r) ==
  /\ r.owner
  /\ task[r.of][r.node] = "pending"
  /\ instance[r.of].current = r.node

(* Mutant: any approval approves the document. *)
NextStatusEarly(decision, isLast) ==
  IF decision = "return" THEN "returned"
  ELSE IF decision = "reject" THEN "rejected"
  ELSE "approved"

NextDocumentStatus(decision, isLast) ==
  IF decision = "return" THEN "returned"
  ELSE IF decision = "reject" THEN "rejected"
  ELSE IF isLast THEN "approved" ELSE "pending_approval"

Refuse(w) ==
  /\ pc[w] = "apply"
  /\ ~Acceptable(req[w])
  /\ Finished(w)
  /\ UNCHANGED <<tables, cache>>

(* apply_decision and the commit. *)
Apply(w) ==
  LET r == req[w]
      status == NextDocumentStatus(r.decision, r.node = NodeCount)
      goesOn == r.decision = "approve" /\ NextTask(w) # {}
  IN
  /\ pc[w] = "apply"
  /\ Acceptable(r)
  /\ task' = [task EXCEPT ![r.of] =
                [n \in Nodes |->
                   IF n = r.node THEN IF r.decision = "approve" THEN "approved" ELSE status
                   ELSE IF goesOn /\ n = r.node + 1 THEN "pending"
                   ELSE @[n]]]
  /\ instance' = IF goesOn THEN [instance EXCEPT ![r.of].current = r.node + 1]
                           ELSE [instance EXCEPT ![r.of].status = status]
  /\ doc' = status
  /\ log' = [log EXCEPT ![r.of][r.node] = @ + 1]
  /\ winner' = [winner EXCEPT ![r.of][r.node] = r.key]
  /\ pc' = [pc EXCEPT ![w] = "cache"]
  /\ UNCHANGED <<opened, cache, req>>

(* Mutant: the last node is taken to be the one before. *)
ResponseOffByOne(w) ==
  NextDocumentStatus(req[w].decision, req[w].node + 1 = NodeCount)

(* Nobody can have changed the decision on the task meanwhile, so the      *)
(* response built before the commit is the one its row yields.             *)
Response(w) == NextDocumentStatus(req[w].decision, req[w].node = NodeCount)

Store(w) ==
  /\ pc[w] = "cache"
  /\ cache' = [cache EXCEPT ![req[w].of][req[w].node][req[w].key] = Response(w)]
  /\ Finished(w)
  /\ UNCHANGED tables

(* The process stops, or Redis cannot be reached after the commit. *)
Crash(w) ==
  /\ pc[w] # "idle"
  /\ Finished(w)
  /\ UNCHANGED <<tables, cache>>

(* Mutant: nothing ends a deadlock. *)
AbortNever(w) == FALSE

(* PostgreSQL finds two transactions waiting for each other, and aborts one. *)
AbortVictim(w) ==
  /\ \E u \in Workers \ {w} : WaitsFor(w, u) /\ WaitsFor(u, w)
  /\ Finished(w)
  /\ UNCHANGED <<tables, cache>>

Step(w) ==
  \/ LockTask(w)
  \/ NoTask(w)
  \/ LockInstance(w)
  \/ LockNextTask(w)
  \/ Refuse(w)
  \/ Apply(w)
  \/ Store(w)

Next ==
  \/ Resubmit
  \/ \E w \in Workers :
       \/ \E r \in Requests : Decide(w, r) \/ Replay(w, r)
       \/ Step(w)
       \/ AbortVictim(w)
       \/ Crash(w)

Spec == Init /\ [][Next]_vars

(* The event loop runs every request on, PostgreSQL grants row locks in    *)
(* the order of the requests and detects every deadlock.                   *)
FairSpec ==
  Spec /\ \A w \in Workers : SF_vars(Step(w)) /\ WF_vars(AbortVictim(w))

(***************************************************************************)
(* Properties.                                                             *)
(***************************************************************************)
TypeOK ==
  /\ opened \in Numbers
  /\ task \in [Numbers -> [Nodes -> TaskStatuses]]
  /\ instance \in [Numbers -> [status: InstanceStatuses, current: Nodes]]
  /\ doc \in DocStatuses
  /\ log \in [Numbers -> [Nodes -> Nat]]
  /\ winner \in [Numbers -> [Nodes -> Keys \cup {None}]]
  /\ cache \in [Numbers -> [Nodes -> [Keys -> DocStatuses \cup {None}]]]
  /\ pc \in [Workers -> Locations]
  /\ req \in [Workers -> Requests \cup {NoRequest}]

(* Nodes are decided in order, although the tasks of all of them are       *)
(* pending from the start and anybody's request may come first.            *)
DecidedInOrder ==
  \A i \in Numbers, m, n \in Nodes :
    m < n /\ task[i][n] \in Decided => task[i][m] = "approved"

(* A task is decided once, under one key, and logged once, whatever        *)
(* duplicates of its request run at the same time.                         *)
DecidedOnce ==
  \A i \in Numbers, n \in Nodes :
    log[i][n] = IF task[i][n] \in Decided THEN 1 ELSE 0

(* Together: whatever requests, duplicates and crashes interleave, the     *)
(* tasks of an instance are decided one after the other, once each.        *)
ApprovalInv == TypeOK /\ DecidedInOrder /\ DecidedOnce

(* What Redis returns to a repeated request is what its task went through, *)
(* and no second key ever gets a response for the task.                    *)
CachedTruthfully ==
  \A i \in Numbers, n \in Nodes, k \in Keys :
    cache[i][n][k] # None =>
      /\ winner[i][n] = k
      /\ cache[i][n][k] = IF task[i][n] # "approved" THEN task[i][n]
                          ELSE IF n = NodeCount THEN "approved" ELSE "pending_approval"

(* The document is returned, rejected or approved just when the tasks of   *)
(* its last instance say so: a late decision on an older instance never    *)
(* gets through.                                                           *)
DocumentFollowsTasks ==
  LET last == task[opened] IN
  /\ \A n \in Nodes : last[n] \in {"returned", "rejected"} => doc = last[n]
  /\ doc \in {"returned", "rejected"} => \E n \in Nodes : last[n] = doc
  /\ doc = "approved" <=> \A n \in Nodes : last[n] = "approved"

(* An instance that has come to an end is never decided on again.          *)
FinishedStaysFinished ==
  [][\A i \in Numbers :
       instance[i].status \in Decided => instance'[i] = instance[i] /\ task'[i] = task[i]]_vars

(* The decisions implement sequential approval. *)
ApprovedNodes == {n \in Nodes : task[opened][n] = "approved"}
EndedBy(status) == \E n \in Nodes : task[opened][n] = status
Outcome ==
  IF EndedBy("returned") THEN "returned"
  ELSE IF EndedBy("rejected") THEN "rejected"
  ELSE IF ApprovedNodes = Nodes THEN "approved" ELSE "open"
Sequential ==
  INSTANCE SequentialApproval WITH
    round <- opened, approved <- ApprovedNodes, outcome <- Outcome
ImplementsSequential == Sequential!Spec

(* Every request comes to an end, deadlocks included. *)
RequestsEnd == \A w \in Workers : pc[w] # "idle" ~> pc[w] = "idle"
=============================================================================
