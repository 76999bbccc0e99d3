---------------------------- MODULE MemoryApproval ----------------------------
(***************************************************************************)
(* ApprovalService: a sequence of nodes with its approvers in the memory   *)
(* of one process.  A decision runs to its end without a wait, so that it  *)
(* is one step; what makes it hard are decisions repeated under their key, *)
(* out of order, or after the document was returned and submitted again.   *)
(***************************************************************************)
EXTENDS Integers, Sequences, FiniteSets

CONSTANTS
  Approvers,
  Nodes,            \* number of nodes
  ApprovalKeys,     \* idempotency keys
  MaxRounds,        \* bound: times the document is submitted
  NoResponse

VARIABLES
  approver,         \* the approver of each node
  index,            \* current_index
  status,           \* status of each node's task
  document,         \* document_status of the sequence
  response,         \* _idempotent_results
  records,          \* records, with the round they belong to
  round             \* history: how often the document has been submitted

vars == <<approver, index, status, document, response, records, round>>

Decisions == {"approve", "return", "reject"}
TaskStatuses == {"pending", "approved", "returned", "rejected"}

(* assign_sequence *)
Init ==
  /\ approver \in [1..Nodes -> Approvers]
  /\ index = 1
  /\ status = [n \in 1..Nodes |-> "pending"]
  /\ document = "pending"
  /\ response = [n \in 1..Nodes |-> [k \in ApprovalKeys |-> NoResponse]]
  /\ records = <<>>
  /\ round = 1

(* next_document_status *)
NextStatus(decision, last) ==
  IF decision = "return" THEN "returned" ELSE IF decision = "reject" THEN "rejected"
  ELSE IF last THEN "approved" ELSE "pending_approval"

MayDecide(n, actor) == index = n /\ approver[n] = actor

Undecided(n) == status[n] = "pending"

Fresh(n, key) == response[n][key] = NoResponse

(* _decide, for a key that has no response yet; with one, it is answered   *)
(* and nothing changes.                                                    *)
Decide(n, actor, decision, key) ==
  LET last == n = Nodes IN
  /\ Fresh(n, key)
  /\ MayDecide(n, actor)
  /\ Undecided(n)
  /\ IF decision = "approve"
     THEN /\ status' = [m \in 1..Nodes |-> IF m = n THEN "approved" ELSE IF m = n + 1 THEN "pending" ELSE status[m]]
          /\ index' = IF last THEN index ELSE index + 1
          /\ document' = IF last THEN "approved" ELSE document
     ELSE /\ status' = [status EXCEPT ![n] = NextStatus(decision, last)]
          /\ document' = NextStatus(decision, last)
          /\ UNCHANGED index
  /\ records' = Append(records, [node |-> n, actor |-> actor, decision |-> decision, round |-> round])
  /\ response' = [response EXCEPT ![n][key] = [decision |-> decision, status |-> NextStatus(decision, last)]]
  /\ UNCHANGED <<approver, round>>

(* Mutant: the sequence goes on where it was returned. *)
RestartHere == UNCHANGED index

Restart == index' = 1

(* resubmit *)
Resubmit ==
  /\ document = "returned"
  /\ round < MaxRounds
  /\ Restart
  /\ document' = "pending"
  /\ status' = [n \in 1..Nodes |-> "pending"]
  /\ round' = round + 1
  /\ UNCHANGED <<approver, response, records>>

Next ==
  \/ \E n \in 1..Nodes, actor \in Approvers, decision \in Decisions, key \in ApprovalKeys :
       Decide(n, actor, decision, key)
  \/ Resubmit

Spec == Init /\ [][Next]_vars

(***************************************************************************)
(* Properties.                                                             *)
(***************************************************************************)
TypeOK ==
  /\ approver \in [1..Nodes -> Approvers] /\ index \in 1..Nodes
  /\ status \in [1..Nodes -> TaskStatuses]
  /\ document \in {"pending", "approved", "returned", "rejected"}
  /\ response \in [1..Nodes -> [ApprovalKeys ->
       [decision: Decisions, status: {"pending_approval", "approved", "returned", "rejected"}] \cup {NoResponse}]]
  /\ round \in 1..MaxRounds

(* A document is approved only by all approvers, each for his node, in     *)
(* order, and since it was submitted for the last time: approvals of an    *)
(* earlier round do not count.                                             *)
ApprovedByAll ==
  document = "approved" =>
    /\ Len(records) >= Nodes
    /\ \A n \in 1..Nodes :
         records[Len(records) - Nodes + n] =
           [node |-> n, actor |-> approver[n], decision |-> "approve", round |-> round]

(* The end of a sequence is final: no key, no approver and no submission   *)
(* changes anything after it.                                              *)
EndedStays == [][document \notin {"approved", "rejected"}]_vars

(* A response stands for one record and is that record's; the same key     *)
(* never makes two of them.                                                *)
OneRecordPerResponse ==
  \A n \in 1..Nodes :
    Cardinality({k \in ApprovalKeys : response[n][k] # NoResponse})
      = Cardinality({i \in DOMAIN records : records[i].node = n})
=============================================================================
