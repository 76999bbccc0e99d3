-------------------------- MODULE ApprovalFlowProofs --------------------------
(* Proofs about ApprovalFlow, for any number of requests, keys, nodes and   *)
(* resubmissions.  Locks play no part in them: that a decision validates    *)
(* and writes in one step, under its locks, is what they rest on.           *)
EXTENDS ApprovalFlow, TLAPS

(* The nodes before the current one have approved, those after it wait. *)
CurrentNode ==
  \A i \in Numbers, n \in Nodes :
    /\ n < instance[i].current => task[i][n] = "approved"
    /\ n > instance[i].current => task[i][n] \notin Decided

(* Instances to come have nothing. *)
Unopened ==
  \A i \in Numbers : i > opened =>
    /\ instance[i].status = "unused"
    /\ \A n \in Nodes : task[i][n] = "absent"

(* The current task of a finished instance cannot be decided any more. *)
FinishedDecided ==
  \A i \in Numbers :
    instance[i].status \in Decided => task[i][instance[i].current] \in Decided

IInv ==
  /\ TypeOK
  /\ CurrentNode
  /\ Unopened
  /\ FinishedDecided
  /\ DecidedOnce

LEMMA InitInvariant == Init => IInv
<1> SUFFICES ASSUME Init PROVE IInv
  OBVIOUS
<1> USE CountsAssumption DEF Numbers, Nodes, Decided
<1>1. \A i \in Numbers, n \in Nodes : task[i][n] \in {"pending", "absent"} /\ log[i][n] = 0
  BY DEF Init
<1>2. \A i \in Numbers : instance[i].current = 1 /\ instance[i].status \in {"unused", "pending", "running"}
  BY DEF Init
<1>3. TypeOK
  BY DEF Init, TypeOK, TaskStatuses, InstanceStatuses, DocStatuses, Locations
<1>4. CurrentNode
  BY <1>1, <1>2 DEF CurrentNode
<1>5. Unopened
  BY DEF Init, Unopened
<1>6. FinishedDecided
  BY <1>2 DEF FinishedDecided
<1>7. DecidedOnce
  BY <1>1 DEF DecidedOnce
<1> QED
  BY <1>3, <1>4, <1>5, <1>6, <1>7 DEF IInv

(* What a decision returns is a status of documents and of instances. *)
LEMMA StatusType ==
  ASSUME NEW decision \in Decisions, NEW isLast \in BOOLEAN
  PROVE  /\ NextDocumentStatus(decision, isLast) \in {"pending_approval"} \cup Decided
         /\ decision # "approve" => NextDocumentStatus(decision, isLast) \in {"returned", "rejected"}
BY DEF NextDocumentStatus, Decisions, Decided

LEMMA RequestType ==
  ASSUME TypeOK, NEW w \in Workers
  PROVE  /\ req[w].of \in Numbers /\ req[w].node \in Nodes /\ req[w].decision \in Decisions
         /\ req[w].key \in Keys \cup {None}
<1>1. req[w] \in Requests \cup {NoRequest}
  BY DEF TypeOK
<1>2. CASE req[w] = NoRequest
  BY <1>2, CountsAssumption DEF NoRequest, Numbers, Nodes, Decisions
<1>3. CASE req[w] \in Requests
  BY <1>3 DEF Requests
<1> QED
  BY <1>1, <1>2, <1>3

(* Whatever ends a request without a decision leaves the tables alone. *)
LEMMA UnchangedTables ==
  ASSUME IInv, UNCHANGED tables, TypeOK'
  PROVE  IInv'
<1> USE DEF IInv, tables
<1>1. CurrentNode'
  BY DEF CurrentNode
<1>2. Unopened'
  BY DEF Unopened
<1>3. FinishedDecided'
  BY DEF FinishedDecided
<1>4. DecidedOnce'
  BY DEF DecidedOnce
<1> QED
  BY <1>1, <1>2, <1>3, <1>4

(* The instance of a new submission has never been decided on. *)
LEMMA ResubmitPreserves ==
  ASSUME IInv, Resubmit
  PROVE  IInv'
<1> DEFINE new == opened + 1
<1> USE DEF IInv
<1>1. new \in Numbers /\ opened \in Numbers /\ opened' = new
  BY CountsAssumption DEF Resubmit, TypeOK, Numbers
<1>2. task' = [task EXCEPT ![new] = [n \in Nodes |-> "pending"]]
  BY DEF Resubmit
<1>3. instance' = [instance EXCEPT ![new].status = "pending"]
  BY DEF Resubmit
<1>4. instance[new].status = "unused" /\ \A n \in Nodes : task[new][n] = "absent"
  BY <1>1 DEF Unopened, Numbers
<1>5. TypeOK'
  <2>1. task' \in [Numbers -> [Nodes -> TaskStatuses]]
    BY <1>1, <1>2 DEF TypeOK, TaskStatuses
  <2>2. instance' \in [Numbers -> [status: InstanceStatuses, current: Nodes]]
    BY <1>1, <1>3 DEF TypeOK, InstanceStatuses
  <2>3. doc' \in DocStatuses
    BY DEF Resubmit, DocStatuses
  <2> QED
    BY <1>1, <2>1, <2>2, <2>3 DEF Resubmit, TypeOK
<1>6. instance[new].current \in Nodes /\ \A n \in Nodes : n >= instance[new].current
  <2>1. instance[new].current \in Nodes
    BY <1>1 DEF TypeOK
  <2>2. \A n \in Nodes : ~(n < instance[new].current)
    BY <1>1, <1>4 DEF CurrentNode
  <2> QED
    BY <2>1, <2>2 DEF Nodes
<1>7. CurrentNode'
  <2> SUFFICES ASSUME NEW i \in Numbers, NEW n \in Nodes
               PROVE  /\ n < instance'[i].current => task'[i][n] = "approved"
                      /\ n > instance'[i].current => task'[i][n] \notin Decided
    BY DEF CurrentNode
  <2>1. CASE i = new
    BY <1>1, <1>2, <1>3, <1>6, <2>1 DEF TypeOK, Decided, Nodes
  <2>2. CASE i # new
    BY <1>1, <1>2, <1>3, <2>2 DEF TypeOK, CurrentNode
  <2> QED
    BY <2>1, <2>2
<1>8. Unopened'
  BY <1>1, <1>2, <1>3 DEF Unopened, TypeOK, Numbers
<1>9. FinishedDecided'
  BY <1>1, <1>2, <1>3 DEF FinishedDecided, TypeOK, Decided
<1>10. DecidedOnce'
  BY <1>1, <1>2, <1>4 DEF DecidedOnce, Resubmit, TypeOK, Decided
<1> QED
  BY <1>5, <1>7, <1>8, <1>9, <1>10

(* A decision is taken on the current task of an instance, which is not     *)
(* finished.  It decides this task and no other; either the instance goes   *)
(* on to the next task, or it gets a new status.                            *)
Decision(i, n) ==
  /\ i \in Numbers /\ i <= opened /\ n \in Nodes
  /\ task[i][n] = "pending" /\ instance[i].current = n
  /\ instance[i].status \notin Decided
  /\ task'[i][n] \in Decided
  /\ \A m \in Nodes \ {n} :
       \/ task'[i][m] = task[i][m]
       \/ task'[i][m] = "pending" /\ m = n + 1
  /\ \A j \in Numbers \ {i} : task'[j] = task[j] /\ instance'[j] = instance[j]
  /\ \/ /\ instance'[i].current = n + 1 /\ n + 1 \in Nodes
        /\ instance'[i].status = instance[i].status
        /\ task'[i][n] = "approved"
     \/ /\ instance'[i].current = n
        /\ instance'[i].status \in Decided \cup {"pending_approval"}
  /\ log' = [log EXCEPT ![i][n] = @ + 1]

LEMMA ApplyDecides ==
  ASSUME IInv, NEW w \in Workers, Apply(w)
  PROVE  Decision(req[w].of, req[w].node)
<1> DEFINE i == req[w].of
           n == req[w].node
           status == NextDocumentStatus(req[w].decision, n = NodeCount)
           goesOn == req[w].decision = "approve" /\ NextTask(w) # {}
<1> USE DEF IInv
<1>1. i \in Numbers /\ n \in Nodes /\ req[w].decision \in Decisions
  BY RequestType
<1>2. status \in {"pending_approval"} \cup Decided
      /\ (req[w].decision # "approve" => status \in {"returned", "rejected"})
  BY <1>1, StatusType
<1>3. task[i][n] = "pending" /\ instance[i].current = n
  BY DEF Apply, Acceptable
<1>4. i <= opened
  BY <1>1, <1>3 DEF Unopened, TypeOK, Numbers
<1>5. instance[i].status \notin Decided
  BY <1>1, <1>3 DEF FinishedDecided, Decided
<1>6. goesOn => n + 1 \in Nodes
  BY DEF NextTask
<1>7. task' = [task EXCEPT ![i] =
                [m \in Nodes |->
                   IF m = n THEN IF req[w].decision = "approve" THEN "approved" ELSE status
                   ELSE IF goesOn /\ m = n + 1 THEN "pending"
                   ELSE @[m]]]
  BY DEF Apply
<1>8. instance' = IF goesOn THEN [instance EXCEPT ![i].current = n + 1]
                            ELSE [instance EXCEPT ![i].status = status]
  BY DEF Apply
<1>9. log' = [log EXCEPT ![i][n] = @ + 1]
  BY DEF Apply
<1> HIDE DEF i, n, status, goesOn
<1>10. task'[i][n] \in Decided /\ (goesOn => task'[i][n] = "approved")
  BY <1>1, <1>2, <1>7 DEF TypeOK, Decided, goesOn
<1>11. \A m \in Nodes \ {n} : \/ task'[i][m] = task[i][m]
                              \/ task'[i][m] = "pending" /\ m = n + 1
  BY <1>1, <1>7 DEF TypeOK
<1>12. \A j \in Numbers \ {i} : task'[j] = task[j] /\ instance'[j] = instance[j]
  BY <1>1, <1>7, <1>8 DEF TypeOK
<1>13. \/ /\ instance'[i].current = n + 1 /\ n + 1 \in Nodes
          /\ instance'[i].status = instance[i].status
          /\ task'[i][n] = "approved"
       \/ /\ instance'[i].current = n
          /\ instance'[i].status \in Decided \cup {"pending_approval"}
  BY <1>1, <1>2, <1>3, <1>6, <1>8, <1>10 DEF TypeOK
<1> QED
  BY <1>1, <1>3, <1>4, <1>5, <1>9, <1>10, <1>11, <1>12, <1>13 DEF Decision, i, n

LEMMA ApplyPreserves ==
  ASSUME IInv, NEW w \in Workers, Apply(w)
  PROVE  IInv'
<1> DEFINE i == req[w].of
           n == req[w].node
<1>1. Decision(i, n)
  BY ApplyDecides
<1> USE DEF IInv, Decision
<1>2. opened' = opened
  BY DEF Apply
<1>3. TypeOK'
  <2>1. req[w].decision \in Decisions /\ req[w].key \in Keys \cup {None}
    BY RequestType
  <2>2. NextDocumentStatus(req[w].decision, n = NodeCount) \in {"pending_approval"} \cup Decided
        /\ (req[w].decision # "approve" =>
             NextDocumentStatus(req[w].decision, n = NodeCount) \in {"returned", "rejected"})
    BY <2>1, StatusType
  <2>3. (NextTask(w) # {} => n + 1 \in Nodes)
    BY DEF NextTask
  <2>4. task' \in [Numbers -> [Nodes -> TaskStatuses]]
    BY <1>1, <2>2 DEF Apply, TypeOK, TaskStatuses
  <2>5. instance' \in [Numbers -> [status: InstanceStatuses, current: Nodes]]
    <3> DEFINE status == NextDocumentStatus(req[w].decision, n = NodeCount)
    <3>1. \/ instance' = [instance EXCEPT ![i].current = n + 1] /\ n + 1 \in Nodes
          \/ instance' = [instance EXCEPT ![i].status = status]
      BY <2>3 DEF Apply
    <3>2. status \in InstanceStatuses
      BY <2>2 DEF InstanceStatuses
    <3> HIDE DEF status, i, n
    <3>3. instance \in [Numbers -> [status: InstanceStatuses, current: Nodes]] /\ i \in Numbers
      BY <1>1 DEF TypeOK
    <3> QED
      BY <3>1, <3>2, <3>3
  <2>6. doc' \in DocStatuses /\ opened' \in Numbers
    BY <1>2, <2>2 DEF Apply, TypeOK, DocStatuses
  <2>7. log' \in [Numbers -> [Nodes -> Nat]] /\ winner' \in [Numbers -> [Nodes -> Keys \cup {None}]]
    BY <1>1, <2>1 DEF Apply, TypeOK
  <2>8. pc' \in [Workers -> Locations]
    BY DEF Apply, TypeOK, Locations
  <2> QED
    BY <2>4, <2>5, <2>6, <2>7, <2>8 DEF Apply, TypeOK
<1> HIDE DEF i, n
<1>4. CurrentNode'
  <2> SUFFICES ASSUME NEW j \in Numbers, NEW m \in Nodes
               PROVE  /\ m < instance'[j].current => task'[j][m] = "approved"
                      /\ m > instance'[j].current => task'[j][m] \notin Decided
    BY DEF CurrentNode
  <2>1. CASE j # i
    BY <1>1, <2>1 DEF CurrentNode
  <2>2. CASE j = i
    <3>1. /\ m < n => task[i][m] = "approved"
          /\ m > n => task[i][m] \notin Decided
      BY <1>1 DEF CurrentNode
    <3>2. m < n => task'[i][m] = "approved"
      BY <1>1, <3>1 DEF Nodes
    <3>3. m > n => task'[i][m] \notin Decided
      BY <1>1, <3>1 DEF Nodes, Decided
    <3> QED
      BY <1>1, <2>2, <3>2, <3>3 DEF Nodes
  <2> QED
    BY <2>1, <2>2
<1>5. Unopened'
  BY <1>1, <1>2 DEF Unopened, TypeOK, Numbers
<1>6. FinishedDecided'
  BY <1>1 DEF FinishedDecided
<1>7. DecidedOnce'
  <2> SUFFICES ASSUME NEW j \in Numbers, NEW m \in Nodes
               PROVE  log'[j][m] = IF task'[j][m] \in Decided THEN 1 ELSE 0
    BY DEF DecidedOnce
  <2>1. log[j][m] = IF task[j][m] \in Decided THEN 1 ELSE 0
    BY DEF DecidedOnce
  <2>2. CASE j = i /\ m = n
    BY <1>1, <2>1, <2>2 DEF TypeOK, Decided
  <2>3. CASE j # i
    BY <1>1, <2>1, <2>3 DEF TypeOK
  <2>4. CASE j = i /\ m # n
    <3>1. log'[j][m] = log[j][m]
      <4>1. log' = [log EXCEPT ![i][n] = @ + 1] /\ i \in Numbers
        BY <1>1
      <4>2. log \in [Numbers -> [Nodes -> Nat]]
        BY DEF TypeOK
      <4> QED
        BY <2>4, <4>1, <4>2
    <3>2. task'[i][m] = task[i][m] \/ (task'[i][m] = "pending" /\ m > n)
      <4>1. task'[i][m] = task[i][m] \/ (task'[i][m] = "pending" /\ m = n + 1)
        BY <1>1, <2>4
      <4>2. n \in Nodes
        BY <1>1
      <4> QED
        BY <4>1, <4>2 DEF Nodes
    <3>3. m > n => task[i][m] \notin Decided
      BY <1>1 DEF CurrentNode
    <3> QED
      BY <2>1, <2>4, <3>1, <3>2, <3>3 DEF Decided
  <2> QED
    BY <2>2, <2>3, <2>4
<1> QED
  BY <1>3, <1>4, <1>5, <1>6, <1>7

LEMMA NextPreserves == IInv /\ [Next]_vars => IInv'
<1> SUFFICES ASSUME IInv, [Next]_vars PROVE IInv'
  OBVIOUS
<1> USE DEF IInv
<1>1. CASE UNCHANGED vars
  BY <1>1, UnchangedTables DEF vars, tables, TypeOK
<1>2. CASE Resubmit
  BY <1>2, ResubmitPreserves
<1>3. ASSUME NEW w \in Workers, NEW r \in Requests, Decide(w, r)
      PROVE  IInv'
  BY <1>3, UnchangedTables DEF Decide, TypeOK, Locations, tables
<1>4. ASSUME NEW w \in Workers, Apply(w)
      PROVE  IInv'
  BY <1>4, ApplyPreserves
<1>5. ASSUME NEW w \in Workers,
             LockTask(w) \/ NoTask(w) \/ LockInstance(w) \/ LockNextTask(w) \/ Refuse(w)
             \/ Store(w) \/ AbortVictim(w) \/ Crash(w)
      PROVE  IInv'
  <2>1. UNCHANGED tables
    BY <1>5 DEF LockTask, NoTask, LockInstance, LockNextTask, Refuse, Store, AbortVictim, Crash
  <2>2. TypeOK'
    <3>1. pc' \in [Workers -> Locations]
      BY <1>5 DEF LockTask, NoTask, LockInstance, LockNextTask, Refuse, Store, AbortVictim, Crash,
                  Finished, TypeOK, Locations
    <3>2. req' \in [Workers -> Requests \cup {NoRequest}]
      BY <1>5 DEF LockTask, NoTask, LockInstance, LockNextTask, Refuse, Store, AbortVictim, Crash,
                  Finished, TypeOK
    <3>3. cache' \in [Numbers -> [Nodes -> [Keys -> DocStatuses \cup {None}]]]
      <4>1. CASE Store(w)
        <5>1. Response(w) \in DocStatuses
          BY StatusType, RequestType DEF Response, DocStatuses
        <5> QED
          BY <4>1, <5>1, RequestType DEF Store, TypeOK
      <4> QED
        BY <1>5, <4>1 DEF LockTask, NoTask, LockInstance, LockNextTask, Refuse, AbortVictim, Crash, TypeOK
    <3> QED
      BY <2>1, <3>1, <3>2, <3>3 DEF TypeOK, tables
  <2> QED
    BY <2>1, <2>2, UnchangedTables
<1>6. ASSUME NEW w \in Workers, NEW r \in Requests, Replay(w, r)
      PROVE  IInv'
  BY <1>1, <1>6 DEF Replay
<1> QED
  BY <1>1, <1>2, <1>3, <1>4, <1>5, <1>6 DEF Next, Step

THEOREM Invariance == Spec => []IInv
<1> QED
  BY InitInvariant, NextPreserves, PTL DEF Spec

(* Nodes are decided in order, though the tasks of all of them are pending  *)
(* from the start (SqlApprovalRepository.apply_decision).                   *)
THEOREM NodesDecidedInOrder == Spec => []DecidedInOrder
<1>1. IInv => DecidedInOrder
  <2> SUFFICES ASSUME IInv, NEW i \in Numbers, NEW m \in Nodes, NEW n \in Nodes,
                      m < n, task[i][n] \in Decided
               PROVE  task[i][m] = "approved"
    BY DEF DecidedInOrder
  <2>1. instance[i].current \in Nodes
    BY DEF IInv, TypeOK
  <2> QED
    BY <2>1 DEF IInv, CurrentNode, Nodes
<1> QED
  BY <1>1, Invariance, PTL

(* A task is decided and logged once, whatever duplicates of a request run  *)
(* at the same time, and crash, and are tried again.                        *)
THEOREM TasksDecidedOnce == Spec => []DecidedOnce
<1> QED
  BY Invariance, PTL DEF IInv

(* Every variable keeps its type. *)
THEOREM TypeCorrect == Spec => []TypeOK
<1> QED
  BY Invariance, PTL DEF IInv

(* No decision reaches an instance that has come to an end.                 *)
THEOREM NothingAfterTheEnd == Spec => FinishedStaysFinished
<1> DEFINE Kept == \A i \in Numbers :
                     instance[i].status \in Decided => instance'[i] = instance[i] /\ task'[i] = task[i]
<1>1. IInv /\ [Next]_vars => [Kept]_vars
  <2> SUFFICES ASSUME IInv, Next, NEW i \in Numbers, instance[i].status \in Decided
               PROVE  instance'[i] = instance[i] /\ task'[i] = task[i]
    OBVIOUS
  <2>1. CASE Resubmit
    <3>1. i # opened + 1
      BY CountsAssumption DEF IInv, Unopened, TypeOK, Numbers, Decided
    <3> QED
      BY <2>1, <3>1 DEF Resubmit, IInv, TypeOK
  <2>2. ASSUME NEW w \in Workers, Apply(w)
        PROVE  instance'[i] = instance[i] /\ task'[i] = task[i]
    BY <2>2, ApplyDecides DEF Decision
  <2>3. CASE UNCHANGED tables
    BY <2>3 DEF tables
  <2> QED
    BY <2>1, <2>2, <2>3 DEF Next, Step, Decide, Replay, LockTask, NoTask, LockInstance, LockNextTask,
                            Refuse, Store, AbortVictim, Crash, vars, tables
<1> QED
  BY <1>1, Invariance, PTL DEF Spec, FinishedStaysFinished

(* The tasks of an instance are decided in order and once each.             *)
THEOREM DecisionsSound == Spec => []ApprovalInv
BY TypeCorrect, NodesDecidedInOrder, TasksDecidedOnce, PTL DEF ApprovalInv

(***************************************************************************)
(* The document and its last instance.                                     *)
(***************************************************************************)
(* Older instances were ended by a decision on their current task, so that *)
(* no request can decide on them any more.                                 *)
OlderEnded ==
  \A i \in Numbers : i < opened => task[i][instance[i].current] \in Decided

(* A decision takes the current node n of the last instance further.       *)
DecidesLast(n) ==
  /\ n \in Nodes /\ opened' = opened
  /\ task[opened][n] = "pending"
  /\ \A m \in Nodes : m < n => task[opened][m] = "approved" /\ task'[opened][m] = "approved"
  /\ \A m \in Nodes : m > n => task[opened][m] \notin Decided /\ task'[opened][m] \notin Decided
  /\ \A i \in Numbers \ {opened} : task'[i] = task[i] /\ instance'[i] = instance[i]
  /\ \/ /\ task'[opened][n] = "approved"
        /\ doc' = IF n = NodeCount THEN "approved" ELSE "pending_approval"
     \/ task'[opened][n] \in {"returned", "rejected"} /\ doc' = task'[opened][n]

LEMMA ApplyDecidesLast ==
  ASSUME IInv, OlderEnded, NEW w \in Workers, Apply(w)
  PROVE  req[w].of = opened /\ DecidesLast(req[w].node)
<1> DEFINE i == req[w].of
           n == req[w].node
<1>1. Decision(i, n)
  BY ApplyDecides
<1>2. i = opened
  <2>1. i \in Numbers /\ i <= opened /\ task[i][instance[i].current] = "pending"
    BY <1>1 DEF Decision
  <2>2. ~(i < opened)
    BY <2>1 DEF OlderEnded, Decided
  <2>3. opened \in Numbers
    BY DEF IInv, TypeOK
  <2> HIDE DEF i
  <2> QED BY <2>1, <2>2, <2>3 DEF Numbers
<1>3. n \in Nodes /\ opened' = opened /\ task[opened][n] = "pending"
  BY <1>1, <1>2 DEF Decision, Apply
<1>4. \A m \in Nodes : m < n => task[opened][m] = "approved" /\ task'[opened][m] = "approved"
  BY <1>1, <1>2 DEF Decision, IInv, CurrentNode, Nodes
<1>5. \A m \in Nodes : m > n => task[opened][m] \notin Decided /\ task'[opened][m] \notin Decided
  BY <1>1, <1>2 DEF Decision, IInv, CurrentNode, Nodes, Decided
<1>6. \A j \in Numbers \ {opened} : task'[j] = task[j] /\ instance'[j] = instance[j]
  BY <1>1, <1>2 DEF Decision
<1>7. \/ /\ task'[opened][n] = "approved"
         /\ doc' = IF n = NodeCount THEN "approved" ELSE "pending_approval"
      \/ task'[opened][n] \in {"returned", "rejected"} /\ doc' = task'[opened][n]
  <2>1. req[w].decision \in Decisions /\ i \in Numbers
    BY RequestType DEF IInv
  <2>2. task'[i][n] = IF req[w].decision = "approve" THEN "approved"
                      ELSE NextDocumentStatus(req[w].decision, n = NodeCount)
    BY <1>3, <2>1 DEF Apply, IInv, TypeOK
  <2>3. doc' = NextDocumentStatus(req[w].decision, n = NodeCount)
    BY DEF Apply
  <2>4. CASE req[w].decision = "approve"
    BY <1>2, <2>2, <2>3, <2>4 DEF NextDocumentStatus
  <2>5. CASE req[w].decision # "approve"
    BY <1>2, <2>1, <2>2, <2>3, <2>5 DEF NextDocumentStatus, Decisions
  <2> QED BY <2>4, <2>5
<1> QED
  BY <1>2, <1>3, <1>4, <1>5, <1>6, <1>7 DEF DecidesLast

(* Only the current node of an instance can have ended it. *)
LEMMA EndedAtCurrent ==
  ASSUME IInv, NEW i \in Numbers, NEW n \in Nodes, task[i][n] \in {"returned", "rejected"}
  PROVE  n = instance[i].current
<1>1. instance[i].current \in Nodes
  BY DEF IInv, TypeOK
<1> QED
  BY <1>1 DEF IInv, CurrentNode, Nodes, Decided

LEMMA InitFollows == Init => OlderEnded /\ DocumentFollowsTasks
<1> SUFFICES ASSUME Init PROVE OlderEnded /\ DocumentFollowsTasks
  OBVIOUS
<1>1. opened = 1 /\ opened \in Numbers /\ 1 \in Nodes
  BY CountsAssumption DEF Init, Numbers, Nodes
<1>2. \A n \in Nodes : task[opened][n] \in {"pending", "absent"}
  BY <1>1 DEF Init
<1>3. doc \in {"pending_review", "pending_approval"}
  BY DEF Init
<1>4. OlderEnded
  BY <1>1 DEF OlderEnded, Numbers
<1> QED
  BY <1>1, <1>2, <1>3, <1>4 DEF DocumentFollowsTasks

(* A new submission begins with nothing but pending tasks, and the one it  *)
(* replaces was returned.                                                  *)
LEMMA ResubmitFollows ==
  ASSUME IInv, OlderEnded, DocumentFollowsTasks, Resubmit
  PROVE  OlderEnded' /\ DocumentFollowsTasks'
<1> DEFINE new == opened + 1
<1>1. opened \in Numbers /\ new \in Numbers /\ opened' = new
  BY CountsAssumption DEF Resubmit, IInv, TypeOK, Numbers
<1>2. task' = [task EXCEPT ![new] = [n \in Nodes |-> "pending"]]
      /\ instance' = [instance EXCEPT ![new].status = "pending"]
      /\ doc = "returned" /\ doc' = "pending_review"
  BY DEF Resubmit
<1>3. PICK n \in Nodes : task[opened][n] = "returned"
  BY <1>2 DEF DocumentFollowsTasks
<1>4. task[opened][instance[opened].current] \in Decided
  BY <1>1, <1>3, EndedAtCurrent DEF Decided
<1>5. OlderEnded'
  <2> SUFFICES ASSUME NEW i \in Numbers, i < new
               PROVE  task'[i][instance'[i].current] \in Decided
    BY <1>1 DEF OlderEnded
  <2>1. task'[i] = task[i] /\ instance'[i] = instance[i]
    BY <1>1, <1>2 DEF IInv, TypeOK, Numbers
  <2>2. task[i][instance[i].current] \in Decided
    BY <1>1, <1>4 DEF OlderEnded, Numbers
  <2> QED BY <2>1, <2>2
<1>6. \A m \in Nodes : task'[new][m] = "pending"
  BY <1>1, <1>2 DEF IInv, TypeOK
<1>7. 1 \in Nodes
  BY CountsAssumption DEF Nodes
<1> QED
  BY <1>1, <1>2, <1>5, <1>6, <1>7 DEF DocumentFollowsTasks

LEMMA ApplyFollows ==
  ASSUME IInv, OlderEnded, NEW w \in Workers, Apply(w)
  PROVE  OlderEnded' /\ DocumentFollowsTasks'
<1> DEFINE n == req[w].node
<1>1. DecidesLast(n) /\ opened \in Numbers
  BY ApplyDecidesLast DEF IInv, TypeOK
<1> HIDE DEF n
<1>2. OlderEnded'
  BY <1>1 DEF DecidesLast, OlderEnded, Numbers
<1>3. \A m \in Nodes : m < n \/ m = n \/ m > n
  BY <1>1 DEF DecidesLast, Nodes
<1>4. CASE task'[opened][n] = "approved" /\ n = NodeCount
  <2>1. \A m \in Nodes : task'[opened][m] = "approved"
    BY <1>1, <1>4 DEF DecidesLast, Nodes
  <2> QED
    BY <1>1, <1>2, <1>4, <2>1 DEF DecidesLast, DocumentFollowsTasks
<1>5. CASE task'[opened][n] = "approved" /\ n # NodeCount
  <2>1. n + 1 \in Nodes /\ n + 1 > n
    BY <1>1, <1>5, CountsAssumption DEF DecidesLast, Nodes
  <2>2. task'[opened][n + 1] # "approved" /\ doc' = "pending_approval"
    BY <1>1, <1>5, <2>1 DEF DecidesLast, Decided
  <2>3. \A m \in Nodes : task'[opened][m] \notin {"returned", "rejected"}
    BY <1>1, <1>3, <1>5 DEF DecidesLast, Decided
  <2> QED
    BY <1>1, <1>2, <2>1, <2>2, <2>3 DEF DecidesLast, DocumentFollowsTasks
<1>6. CASE task'[opened][n] \in {"returned", "rejected"}
  <2>1. \A m \in Nodes : task'[opened][m] \in {"returned", "rejected"} => m = n
    BY <1>1, <1>3 DEF DecidesLast, Decided
  <2> QED
    BY <1>1, <1>2, <1>6, <2>1 DEF DecidesLast, DocumentFollowsTasks
<1> QED
  BY <1>1, <1>4, <1>5, <1>6 DEF DecidesLast

(* All other steps leave the tables alone. *)
LEMMA TablesChange ==
  ASSUME [Next]_vars
  PROVE  Resubmit \/ (\E w \in Workers : Apply(w)) \/ UNCHANGED tables
BY DEF Next, Step, Decide, Replay, LockTask, NoTask, LockInstance, LockNextTask, Refuse, Store,
       AbortVictim, Crash, vars, tables

LEMMA NextFollows ==
  ASSUME IInv, OlderEnded, DocumentFollowsTasks, [Next]_vars
  PROVE  OlderEnded' /\ DocumentFollowsTasks'
<1>1. CASE Resubmit
  BY <1>1, ResubmitFollows
<1>2. ASSUME NEW w \in Workers, Apply(w)
      PROVE  OlderEnded' /\ DocumentFollowsTasks'
  BY <1>2, ApplyFollows
<1>3. CASE UNCHANGED tables
  BY <1>3 DEF tables, OlderEnded, DocumentFollowsTasks
<1> QED
  BY <1>1, <1>2, <1>3, TablesChange

THEOREM LastInstanceCounts == Spec => [](OlderEnded /\ DocumentFollowsTasks)
<1>1. Init => OlderEnded /\ DocumentFollowsTasks
  BY InitFollows
<1>2. IInv /\ OlderEnded /\ DocumentFollowsTasks /\ [Next]_vars
        => OlderEnded' /\ DocumentFollowsTasks'
  BY NextFollows
<1> QED
  BY <1>1, <1>2, Invariance, PTL DEF Spec

(* The document is where the tasks of its last instance have brought it,   *)
(* although a decision updates it without a look at which instance is the  *)
(* last (SqlApprovalRepository.apply_decision).                            *)
THEOREM DocumentFollows == Spec => []DocumentFollowsTasks
BY LastInstanceCounts, PTL

(***************************************************************************)
(* The responses in Redis.                                                 *)
(***************************************************************************)
(* What a decided task tells the client who decided it. *)
Told(i, n) ==
  IF task[i][n] # "approved" THEN task[i][n]
  ELSE IF n = NodeCount THEN "approved" ELSE "pending_approval"

(* A request that has committed is the one that decided its task, and the  *)
(* response it is about to store is what the task yields.                  *)
CommittedTruthfully ==
  \A w \in Workers : pc[w] = "cache" =>
    /\ task[req[w].of][req[w].node] \in Decided
    /\ winner[req[w].of][req[w].node] = req[w].key
    /\ Response(w) = Told(req[w].of, req[w].node)

(* Stored responses are statuses of documents, so that their task is       *)
(* decided.                                                                *)
LEMMA CachedDecided ==
  ASSUME TypeOK, CachedTruthfully,
         NEW i \in Numbers, NEW n \in Nodes, NEW k \in Keys, cache[i][n][k] # None
  PROVE  task[i][n] \in Decided
<1>1. cache[i][n][k] \in DocStatuses /\ task[i][n] \in TaskStatuses
  BY DEF TypeOK
<1>2. task[i][n] = "approved" \/ cache[i][n][k] = task[i][n]
  BY DEF CachedTruthfully
<1> QED
  BY <1>1, <1>2 DEF DocStatuses, TaskStatuses, Decided

(* A task that is decided stays as it is, and with it who decided it.      *)
LEMMA DecidedKept ==
  ASSUME IInv, [Next]_vars, NEW i \in Numbers, NEW n \in Nodes, task[i][n] \in Decided
  PROVE  task'[i][n] = task[i][n] /\ winner'[i][n] = winner[i][n]
<1>1. CASE Resubmit
  <2>1. i # opened + 1
    <3>1. i > opened => task[i][n] = "absent"
      BY DEF IInv, Unopened
    <3> QED BY <3>1 DEF IInv, TypeOK, Numbers, Decided
  <2> QED BY <1>1, <2>1 DEF Resubmit, IInv, TypeOK
<1>2. ASSUME NEW w \in Workers, Apply(w)
      PROVE  task'[i][n] = task[i][n] /\ winner'[i][n] = winner[i][n]
  <2> DEFINE j == req[w].of
             m == req[w].node
  <2>1. Decision(j, m)
    BY <1>2, ApplyDecides
  <2>2. ~(i = j /\ n = m)
    BY <2>1 DEF Decision, Decided
  <2>3. winner' = [winner EXCEPT ![j][m] = req[w].key] /\ j \in Numbers /\ m \in Nodes
    BY <1>2, <2>1 DEF Apply, Decision
  <2> HIDE DEF j, m
  <2>4. winner'[i][n] = winner[i][n]
    BY <2>2, <2>3 DEF IInv, TypeOK
  <2>5. CASE i # j
    BY <2>1, <2>4, <2>5 DEF Decision
  <2>6. CASE i = j
    <3>1. task'[i][n] = task[i][n] \/ (task'[i][n] = "pending" /\ n = m + 1)
      BY <2>1, <2>2, <2>6 DEF Decision
    <3>2. n > m => task[i][n] \notin Decided
      BY <2>1, <2>6 DEF Decision, IInv, CurrentNode
    <3> QED BY <2>3, <2>4, <3>1, <3>2 DEF Nodes
  <2> QED BY <2>5, <2>6
<1>3. CASE UNCHANGED tables
  BY <1>3 DEF tables
<1> QED
  BY <1>1, <1>2, <1>3, TablesChange

LEMMA InitCached == Init => CommittedTruthfully /\ CachedTruthfully
BY DEF Init, CommittedTruthfully, CachedTruthfully

(* The request that decides builds its response from what it decides.      *)
LEMMA ApplyCommits ==
  ASSUME IInv, NEW w \in Workers, Apply(w)
  PROVE  /\ req' = req
         /\ task'[req[w].of][req[w].node] \in Decided
         /\ winner'[req[w].of][req[w].node] = req[w].key
         /\ Response(w)' = Told(req[w].of, req[w].node)'
<1> DEFINE i == req[w].of
           n == req[w].node
<1>1. Decision(i, n) /\ req' = req
  BY ApplyDecides DEF Apply
<1>2. i \in Numbers /\ n \in Nodes /\ req[w].decision \in Decisions
  BY RequestType DEF IInv
<1>3. winner'[i][n] = req[w].key
  BY <1>2 DEF Apply, IInv, TypeOK
<1>4. task'[i][n] = IF req[w].decision = "approve" THEN "approved"
                    ELSE NextDocumentStatus(req[w].decision, n = NodeCount)
  BY <1>2 DEF Apply, IInv, TypeOK
<1>5. Response(w)' = NextDocumentStatus(req[w].decision, n = NodeCount)
  BY <1>1 DEF Response
<1>6. Told(i, n)' = IF task'[i][n] # "approved" THEN task'[i][n]
                    ELSE IF n = NodeCount THEN "approved" ELSE "pending_approval"
  BY <1>1 DEF Told
<1>7. Response(w)' = Told(i, n)'
  <2>1. CASE req[w].decision = "approve"
    BY <1>4, <1>5, <1>6, <2>1 DEF NextDocumentStatus
  <2>2. CASE req[w].decision # "approve"
    BY <1>2, <1>4, <1>5, <1>6, <2>2 DEF NextDocumentStatus, Decisions
  <2> QED BY <2>1, <2>2
<1> QED
  BY <1>1, <1>3, <1>7 DEF Decision

LEMMA NextCached ==
  ASSUME IInv, CommittedTruthfully, CachedTruthfully, [Next]_vars
  PROVE  CommittedTruthfully' /\ CachedTruthfully'
<1> USE DEF IInv
<1>1. CommittedTruthfully'
  <2> SUFFICES ASSUME NEW u \in Workers, pc'[u] = "cache"
               PROVE  /\ task'[req'[u].of][req'[u].node] \in Decided
                      /\ winner'[req'[u].of][req'[u].node] = req'[u].key
                      /\ Response(u)' = Told(req[u].of, req[u].node)'
    BY DEF CommittedTruthfully
  <2>1. CASE Apply(u)
    BY <2>1, ApplyCommits
  <2>2. CASE pc[u] = "cache" /\ req'[u] = req[u]
    <3>1. req[u].of \in Numbers /\ req[u].node \in Nodes
      BY RequestType
    <3>2. /\ task[req[u].of][req[u].node] \in Decided
          /\ winner[req[u].of][req[u].node] = req[u].key
          /\ Response(u) = Told(req[u].of, req[u].node)
      BY <2>2 DEF CommittedTruthfully
    <3>3. task'[req[u].of][req[u].node] = task[req[u].of][req[u].node]
          /\ winner'[req[u].of][req[u].node] = winner[req[u].of][req[u].node]
      BY <3>1, <3>2, DecidedKept
    <3>4. Response(u)' = Response(u) /\ Told(req[u].of, req[u].node)' = Told(req[u].of, req[u].node)
      BY <2>2, <3>3 DEF Response, Told
    <3> QED BY <2>2, <3>2, <3>3, <3>4
  <2>3. (pc[u] = "cache" /\ req'[u] = req[u]) \/ Apply(u)
    <3>1. CASE Resubmit \/ UNCHANGED vars
      BY <3>1 DEF Resubmit, vars
    <3>2. ASSUME NEW w \in Workers, NEW r \in Requests, Decide(w, r) \/ Replay(w, r)
          PROVE  pc[u] = "cache" /\ req'[u] = req[u]
      BY <3>2 DEF Decide, Replay, vars, TypeOK
    <3>3. ASSUME NEW w \in Workers, LockTask(w) \/ LockInstance(w) \/ LockNextTask(w)
          PROVE  pc[u] = "cache" /\ req'[u] = req[u]
      BY <3>3 DEF LockTask, LockInstance, LockNextTask, TypeOK
    <3>4. ASSUME NEW w \in Workers,
                 NoTask(w) \/ Refuse(w) \/ Store(w) \/ AbortVictim(w) \/ Crash(w)
          PROVE  pc[u] = "cache" /\ req'[u] = req[u]
      BY <3>4 DEF NoTask, Refuse, Store, AbortVictim, Crash, Finished, TypeOK
    <3>5. ASSUME NEW w \in Workers, Apply(w), w # u
          PROVE  pc[u] = "cache" /\ req'[u] = req[u]
      BY <3>5 DEF Apply, TypeOK
    <3> QED
      BY <3>1, <3>2, <3>3, <3>4, <3>5 DEF Next, Step
  <2> QED BY <2>1, <2>2, <2>3
<1>2. CachedTruthfully'
  <2> SUFFICES ASSUME NEW i \in Numbers, NEW n \in Nodes, NEW k \in Keys, cache'[i][n][k] # None
               PROVE  winner'[i][n] = k /\ cache'[i][n][k] = Told(i, n)'
    BY DEF CachedTruthfully, Told
  <2>1. CASE cache'[i][n][k] = cache[i][n][k]
    <3>1. winner[i][n] = k /\ cache[i][n][k] = Told(i, n) /\ task[i][n] \in Decided
      BY <2>1, CachedDecided DEF CachedTruthfully, Told
    <3>2. task'[i][n] = task[i][n] /\ winner'[i][n] = winner[i][n]
      BY <3>1, DecidedKept
    <3> QED BY <2>1, <3>1, <3>2 DEF Told
  <2>2. ASSUME NEW w \in Workers, Store(w), cache'[i][n][k] # cache[i][n][k]
        PROVE  winner'[i][n] = k /\ cache'[i][n][k] = Told(i, n)'
    <3>1. cache' = [cache EXCEPT ![req[w].of][req[w].node][req[w].key] = Response(w)]
          /\ UNCHANGED tables /\ pc[w] = "cache"
      BY <2>2 DEF Store
    <3>2. req[w].of = i /\ req[w].node = n /\ req[w].key = k /\ cache'[i][n][k] = Response(w)
      BY <2>2, <3>1, RequestType DEF TypeOK
    <3>3. winner[i][n] = k /\ Response(w) = Told(i, n)
      BY <3>1, <3>2 DEF CommittedTruthfully
    <3>4. Told(i, n)' = Told(i, n) /\ winner' = winner
      BY <3>1 DEF tables, Told
    <3> QED BY <3>2, <3>3, <3>4
  <2>3. (\E w \in Workers : Store(w)) \/ UNCHANGED cache
    BY DEF Next, Step, Resubmit, Decide, Replay, LockTask, NoTask, LockInstance, LockNextTask,
           Refuse, Apply, AbortVictim, Crash, vars
  <2> QED BY <2>1, <2>2, <2>3
<1> QED BY <1>1, <1>2

(* A repeated request gets from Redis what its task went through, and no   *)
(* other key gets a response for the task (decide, _store_response).       *)
THEOREM ResponsesTrue == Spec => []CachedTruthfully
<1>1. Init => CommittedTruthfully /\ CachedTruthfully
  BY InitCached
<1>2. IInv /\ CommittedTruthfully /\ CachedTruthfully /\ [Next]_vars
        => CommittedTruthfully' /\ CachedTruthfully'
  BY NextCached
<1> QED
  BY <1>1, <1>2, Invariance, PTL DEF Spec

(***************************************************************************)
(* Sequential approval.                                                    *)
(***************************************************************************)
(* What the outcome of a round is, by what has happened in it.             *)
LEMMA OutcomeOpen ==
  ASSUME NEW n \in Nodes, task[opened][n] \notin Decided,
         \A m \in Nodes : task[opened][m] \notin {"returned", "rejected"}
  PROVE  Outcome = "open"
BY DEF Outcome, EndedBy, ApprovedNodes, Decided

LEMMA OutcomeEnded ==
  ASSUME NEW n \in Nodes, task[opened][n] \in {"returned", "rejected"},
         \A m \in Nodes : task[opened][m] \in {"returned", "rejected"} => m = n
  PROVE  Outcome = task[opened][n]
BY DEF Outcome, EndedBy

(* A set of nodes is a range when it has the nodes up to some number.      *)
LEMMA NodesUpTo ==
  ASSUME NEW set \in SUBSET Nodes, NEW n \in Nodes, NEW k \in {n - 1, n},
         \A m \in Nodes : m \in set <=> m <= k
  PROVE  set = 1..k
<1>1. \A m \in 1..k : m \in Nodes /\ m <= k
  BY CountsAssumption DEF Nodes
<1>2. \A m \in Nodes : m <= k => m \in 1..k
  BY DEF Nodes
<1> QED BY <1>1, <1>2

(* A decision lets the next node approve or sends the document back.       *)
LEMMA DecisionIsSequential ==
  ASSUME IInv, NEW n \in Nodes, DecidesLast(n)
  PROVE  Sequential!ApproveNext \/ Sequential!SendBack
<1>1. \A m \in Nodes : m < n \/ m = n \/ m > n
  BY DEF Nodes
<1>2. Outcome = "open"
  BY <1>1, OutcomeOpen DEF DecidesLast, Decided
<1>3. ApprovedNodes = 1..(n - 1)
  <2>1. \A m \in Nodes : m \in ApprovedNodes <=> m < n
    BY <1>1 DEF DecidesLast, ApprovedNodes, Decided
  <2>2. \A m \in Nodes : m \in ApprovedNodes <=> m <= n - 1
    BY <2>1 DEF Nodes
  <2>3. ApprovedNodes \in SUBSET Nodes
    BY DEF ApprovedNodes
  <2> QED BY <2>2, <2>3, NodesUpTo
<1>4. opened' = opened
  BY DEF DecidesLast
<1>5. CASE task'[opened][n] = "approved"
  <2>1. ApprovedNodes' = 1..n
    <3>1. \A m \in Nodes : m \in ApprovedNodes' <=> m < n \/ m = n
      BY <1>1, <1>4, <1>5 DEF DecidesLast, ApprovedNodes, Decided
    <3>2. \A m \in Nodes : m \in ApprovedNodes' <=> m <= n
      BY <3>1 DEF Nodes
    <3>3. ApprovedNodes' \in SUBSET Nodes
      BY DEF ApprovedNodes
    <3> QED BY <3>2, <3>3, NodesUpTo
  <2>2. \A m \in Nodes : task'[opened][m] \notin {"returned", "rejected"}
    BY <1>1, <1>5 DEF DecidesLast, Decided
  <2>3. Outcome' = IF n = NodeCount THEN "approved" ELSE "open"
    <3>1. CASE n = NodeCount
      BY <1>4, <2>1, <2>2, <3>1 DEF Outcome, EndedBy, Nodes
    <3>2. CASE n # NodeCount
      <4>1. NodeCount \in Nodes /\ NodeCount \notin 1..n
        BY <3>2, CountsAssumption DEF Nodes
      <4>2. ApprovedNodes' # Nodes
        BY <2>1, <4>1
      <4> QED BY <1>4, <2>2, <3>2, <4>2 DEF Outcome, EndedBy
    <3> QED BY <3>1, <3>2
  <2>4. n \in 1..NodeCount
    BY DEF Nodes
  <2> QED
    BY <1>2, <1>3, <1>4, <2>1, <2>3, <2>4 DEF Sequential!ApproveNext
<1>6. CASE task'[opened][n] \in {"returned", "rejected"}
  <2>1. ApprovedNodes' = ApprovedNodes
    BY <1>1, <1>4, <1>6 DEF DecidesLast, ApprovedNodes, Decided
  <2>2. \A m \in Nodes : task'[opened][m] \in {"returned", "rejected"} => m = n
    BY <1>1 DEF DecidesLast, Decided
  <2>3. Outcome' \in {"returned", "rejected"}
    BY <1>4, <1>6, <2>2 DEF Outcome, EndedBy
  <2> QED
    BY <1>2, <1>3, <1>4, <2>1, <2>3 DEF Sequential!SendBack
<1> QED
  BY <1>5, <1>6 DEF DecidesLast

(* A new submission starts over.                                           *)
LEMMA ResubmitStartsOver ==
  ASSUME IInv, DocumentFollowsTasks, Resubmit
  PROVE  Sequential!StartOver
<1> DEFINE new == opened + 1
<1>1. opened \in Numbers /\ new \in Numbers /\ opened' = new /\ doc = "returned"
  BY CountsAssumption DEF Resubmit, IInv, TypeOK, Numbers
<1>2. PICK n \in Nodes : task[opened][n] = "returned"
  BY <1>1 DEF DocumentFollowsTasks
<1>3. Outcome = "returned"
  BY <1>2 DEF Outcome, EndedBy
<1>4. \A m \in Nodes : task'[new][m] = "pending"
  BY <1>1 DEF Resubmit, IInv, TypeOK
<1>5. ApprovedNodes' = {} /\ 1 \in Nodes
  BY <1>1, <1>4, CountsAssumption DEF ApprovedNodes, Nodes
<1>6. Outcome' = "open"
  BY <1>1, <1>4, <1>5 DEF Outcome, EndedBy
<1> QED
  BY <1>1, <1>3, <1>5, <1>6 DEF Sequential!StartOver

(* The decisions on a document, with concurrent and repeated requests and  *)
(* late ones for older instances, implement approval by one node after the *)
(* other, in rounds.                                                       *)
THEOREM SequentialImplemented == Spec => ImplementsSequential
<1>1. Init => Sequential!Init
  <2> SUFFICES ASSUME Init PROVE Sequential!Init
    OBVIOUS
  <2>1. opened = 1 /\ opened \in Numbers /\ 1 \in Nodes
    BY CountsAssumption DEF Init, Numbers, Nodes
  <2>2. \A n \in Nodes : task[opened][n] \in {"pending", "absent"}
    BY <2>1 DEF Init
  <2>3. ApprovedNodes = {}
    BY <2>2 DEF ApprovedNodes
  <2>4. Outcome = "open"
    BY <2>1, <2>2, <2>3 DEF Outcome, EndedBy
  <2> QED BY <2>1, <2>3, <2>4 DEF Sequential!Init
<1>2. IInv /\ OlderEnded /\ DocumentFollowsTasks /\ [Next]_vars => [Sequential!Next]_(Sequential!approval)
  <2> SUFFICES ASSUME IInv, OlderEnded, DocumentFollowsTasks, [Next]_vars
               PROVE  Sequential!Next \/ UNCHANGED Sequential!approval
    OBVIOUS
  <2>1. CASE Resubmit
    BY <2>1, ResubmitStartsOver DEF Sequential!Next
  <2>2. ASSUME NEW w \in Workers, Apply(w)
        PROVE  Sequential!Next
    <3>1. req[w].node \in Nodes /\ DecidesLast(req[w].node)
      BY <2>2, RequestType, ApplyDecidesLast DEF IInv
    <3> QED BY <3>1, DecisionIsSequential DEF Sequential!Next
  <2>3. CASE UNCHANGED tables
    BY <2>3 DEF tables, Sequential!approval, ApprovedNodes, Outcome, EndedBy
  <2> QED BY <2>1, <2>2, <2>3, TablesChange
<1> QED
  BY <1>1, <1>2, Invariance, LastInstanceCounts, PTL DEF Spec, ImplementsSequential, Sequential!Spec
===============================================================================
