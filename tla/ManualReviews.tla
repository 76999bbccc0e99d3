---------------------------- MODULE ManualReviews ----------------------------
(***************************************************************************)
(* Rules and reviews of the in-memory risk service: a rule about the       *)
(* amount and one about the supplier, records for the findings that a      *)
(* person has to look at, and the decisions on them, one after another.    *)
(* The record refers to the finding, it does not copy it.                  *)
(***************************************************************************)
EXTENDS RiskRules, Sequences

CONSTANTS
  Reviewers,
  MaxReviews,       \* bound: records
  MaxDecisions      \* bound: decisions

VARIABLES
  finding,          \* of each record, as the record refers to it
  record,           \* its status and who has set it
  said              \* history: what was decided on each record, in order

vars == <<finding, record, said>>

Ids == 1..MaxReviews
NoFinding == [rule |-> None, level |-> "none", status |-> "pending", evidence |-> None]
NoRecord == [status |-> None, reviewer |-> None]

(* evaluate_amount: 10000 is suspicious; evaluate_supplier: so is a name   *)
(* that says so.  Without evidence there is nothing to say.                *)
Judge(rule, suspicious, evidence) ==
  IF ~Complete(evidence)
  THEN [rule |-> rule, level |-> "medium", status |-> "manual_review", evidence |-> None]
  ELSE [rule |-> rule, status |-> "matched", evidence |-> evidence,
        level |-> IF ~suspicious THEN "low" ELSE IF rule = "amount" THEN "high" ELSE "medium"]

(* evaluate_rules: both, for one amount, one supplier and one evidence.    *)
Judged(suspicious, evidence) == {Judge(rule, suspicious[rule], evidence) : rule \in {"amount", "supplier"}}

Init ==
  /\ finding = [id \in Ids |-> NoFinding]
  /\ record = [id \in Ids |-> NoRecord]
  /\ said = [id \in Ids |-> <<>>]

(* create, for a finding of a version *)
Create(id, judged) ==
  /\ record[id] = NoRecord /\ \A other \in 1..(id - 1) : record[other] # NoRecord
  /\ judged.status = "manual_review"
  /\ record' = [record EXCEPT ![id] = [status |-> "pending", reviewer |-> None]]
  /\ finding' = [finding EXCEPT ![id] = judged]
  /\ UNCHANGED said

(* update_review_status: also of what has been decided already.            *)
Decide(id, reviewer, status, evidence) ==
  /\ record[id] # NoRecord /\ Len(said[id]) < MaxDecisions
  /\ record' = [record EXCEPT ![id] = [status |-> status, reviewer |-> reviewer]]
  /\ finding' = IF evidence = None THEN finding ELSE [finding EXCEPT ![id].evidence = evidence]
  /\ said' = [said EXCEPT ![id] = Append(@, [status |-> status, reviewer |-> reviewer, evidence |-> evidence])]

Next ==
  \E id \in Ids :
    \/ \E suspicious \in [{"amount", "supplier"} -> BOOLEAN], evidence \in Fields.evidence :
         \E judged \in Judged(suspicious, evidence) : Create(id, judged)
    \/ \E reviewer \in Reviewers, status \in {"confirmed", "dismissed"}, evidence \in Fields.evidence :
         Decide(id, reviewer, status, evidence)

Spec == Init /\ [][Next]_vars

(***************************************************************************)
(* Properties.                                                             *)
(***************************************************************************)
TypeOK ==
  \A id \in Ids :
    /\ record[id].status \in {None, "pending", "confirmed", "dismissed"}
    /\ record[id].reviewer \in Reviewers \cup {None}
    /\ finding[id].evidence \in Fields.evidence
    /\ Len(said[id]) <= MaxDecisions

(* Of several decisions the last one stands, whoever takes it, in a record *)
(* that its docstring says cannot be overwritten: the record does not tell *)
(* that there was another one.  The evidence that any of them has given    *)
(* stays until another one gives some, so that a decision can rest on the  *)
(* evidence of an earlier, contrary one.                                   *)
LastOneStands ==
  \A id \in Ids : LET n == Len(said[id]) IN
    /\ record[id].status \in {"confirmed", "dismissed"} <=> n > 0
    /\ n > 0 =>
         /\ record[id] = [status |-> said[id][n].status, reviewer |-> said[id][n].reviewer]
         /\ LET given == {m \in 1..n : said[id][m].evidence # None} IN
            given # {} => \E m \in given :
              finding[id].evidence = said[id][m].evidence /\ \A k \in given : k <= m

(* A decision is one about the record, not about the finding: as long as   *)
(* there are records, a person is asked for, and no level is derived.      *)
DecisionsDoNotCount ==
  LET known == {finding[id] : id \in {i \in Ids : record[i] # NoRecord}} IN
  /\ Level(known) = "none"
  /\ known # {} <=> ManualRequired(known)
=============================================================================
