----------------------------- MODULE RiskReview -----------------------------
(***************************************************************************)
(* The findings of a document version: appended by evaluations, reviewed   *)
(* by persons, and taken together to a level.                              *)
(*                                                                         *)
(* An evaluation looks up the newest analysis task and appends its         *)
(* findings in another transaction.  With SqlRiskRepository the lookup     *)
(* leaves a transaction open, which makes the second one fail; with        *)
(* LookupOpensTxn = FALSE the repository is one whose lookup opens none.   *)
(* A review is one transaction, which ends with reading the row again.     *)
(***************************************************************************)
EXTENDS RiskRules, Sequences

CONSTANTS
  Rules,            \* the rules that are looked at, some of RuleCodes
  Contexts,         \* the data that is evaluated
  Requests,
  LookupOpensTxn,
  MaxTasks,         \* bound: analysis tasks of the version
  MaxFindings       \* bound: findings

VARIABLES
  tasks,            \* analysis tasks 1..tasks in the order of started_at
  findings,         \* rows of risk_findings
  req,              \* the task and the findings of each evaluation, and the newest task when it began
  reviewed          \* history: findings that a person has decided

vars == <<tasks, findings, req, reviewed>>

Idle == [task |-> 0, rows |-> <<>>, seen |-> 0]

(* The finding of the demonstration data: its evidence is no Evidence.     *)
Seeded == [rule |-> "line_items", level |-> "low", evidence |-> "foreign", task |-> 1,
           review_status |-> "pending", finding_status |-> None]

Init ==
  /\ \/ tasks = 0 /\ findings = <<>>
     \/ tasks = 1 /\ findings = <<Seeded>>
  /\ req = [r \in Requests |-> Idle]
  /\ reviewed = {}

StartTask ==
  /\ tasks < MaxTasks
  /\ tasks' = tasks + 1
  /\ UNCHANGED <<findings, req, reviewed>>

(* Mutant: the first task. *)
LatestTaskFirst(n) == 1

(* latest_task_id *)
LatestTask(n) == n

(* append_findings: one row. *)
Row(finding, task) ==
  [rule |-> finding.rule, level |-> finding.level, evidence |-> finding.evidence, task |-> task,
   review_status |-> IF finding.status \in {"confirmed", "dismissed", "manual_review"}
                     THEN finding.status ELSE "pending",
   finding_status |-> finding.status]

(* The rows of an evaluation, in the order of the rules. *)
Batch(context, task) == [n \in DOMAIN Rules |-> Row(Finding(context, Rules[n]), task)]

(* evaluate: the lookup, and the rules. *)
BeginEvaluate(r, context) ==
  /\ req[r] = Idle
  /\ tasks > 0
  /\ LET task == LatestTask(tasks) IN
     req' = [req EXCEPT ![r] = [task |-> task, rows |-> Batch(context, task), seen |-> tasks]]
  /\ UNCHANGED <<tasks, findings, reviewed>>

(* append_findings in a transaction of its own. *)
AppendFindings(r) ==
  /\ req[r] # Idle
  /\ ~LookupOpensTxn
  /\ Len(findings) + Len(Rules) <= MaxFindings
  /\ findings' = findings \o req[r].rows
  /\ req' = [req EXCEPT ![r] = Idle]
  /\ UNCHANGED <<tasks, reviewed>>

(* The database fails, or session.begin() raises: nothing is appended. *)
EvaluateFails(r) ==
  /\ req[r] # Idle
  /\ req' = [req EXCEPT ![r] = Idle]
  /\ UNCHANGED <<tasks, findings, reviewed>>

(* A row is read back if its evidence is none or an Evidence. *)
Readable(row) == row.evidence # "foreign"

(* _to_finding *)
Status(row) == IF row.finding_status = None THEN row.review_status ELSE row.finding_status
ToFinding(row) ==
  [rule |-> row.rule, level |-> row.level, status |-> Status(row), evidence |-> row.evidence]

(* update_review_status: evidence is replaced only if some is given. *)
Update(row, status, evidence) ==
  [row EXCEPT !.review_status = status, !.finding_status = status,
              !.evidence = IF evidence = None THEN @ ELSE evidence]

(* review; what cannot be read back is rolled back. *)
Review(n, status, evidence) ==
  LET row == Update(findings[n], status, evidence) IN
  /\ Readable(row)
  /\ findings' = [findings EXCEPT ![n] = row]
  /\ reviewed' = reviewed \cup {n}
  /\ UNCHANGED <<tasks, req>>

(* patch_finding_review_status: no evidence is given. *)
PatchReviewStatus(n, status) == Review(n, status, None)

(* update_manual_review: it looks up the version of the finding first.     *)
UpdateManualReview(n, status, evidence) ==
  /\ ~LookupOpensTxn
  /\ Review(n, status, evidence)

Next ==
  \/ StartTask
  \/ \E r \in Requests :
       (\E context \in Contexts : BeginEvaluate(r, context)) \/ AppendFindings(r) \/ EvaluateFails(r)
  \/ \E n \in DOMAIN findings, status \in {"confirmed", "dismissed"} :
       \/ PatchReviewStatus(n, status)
       \/ \E evidence \in {None, "blank", "complete"} : UpdateManualReview(n, status, evidence)

Spec == Init /\ [][Next]_vars

(***************************************************************************)
(* Properties.                                                             *)
(***************************************************************************)
TypeOK ==
  /\ tasks \in 0..MaxTasks
  /\ findings \in Seq([rule: RuleCodes, level: Levels, evidence: {None, "blank", "complete", "foreign"},
                       task: 1..MaxTasks, review_status: FindingStatuses,
                       finding_status: FindingStatuses \cup {None}])
  /\ \A r \in Requests : req[r].task \in 0..MaxTasks /\ Len(req[r].rows) \in {0, Len(Rules)}
  /\ reviewed \subseteq DOMAIN findings

(* list_by_version: it answers only if every row can be read back.         *)
CanRead == \A n \in DOMAIN findings : Readable(findings[n])
Read == {ToFinding(findings[n]) : n \in DOMAIN findings}
Rank == [none |-> 0, low |-> 1, medium |-> 2, high |-> 3]

(* The level of a version, where it can be read, is that of a finding a    *)
(* person has confirmed on complete evidence, and no such finding has a    *)
(* higher one; what a rule has found, and what was confirmed without       *)
(* evidence, does not count.                                               *)
LevelIsConfirmed ==
  CanRead =>
  LET counts == {n \in reviewed : Status(findings[n]) = "confirmed" /\ findings[n].evidence = "complete"}
  IN /\ \A n \in counts : Rank[findings[n].level] <= Rank[Level(Read)]
     /\ Level(Read) # "none" => \E n \in counts : findings[n].level = Level(Read)

(* A finding that asks for a person does so until one has decided it: what *)
(* was left to a person and never decided is still flagged.                *)
ManualKept ==
  /\ \A n \in DOMAIN findings \ reviewed :
       findings[n].evidence \in {None, "blank"} => Status(findings[n]) = "manual_review"
  /\ CanRead =>
       (ManualRequired(Read) <=> \E n \in DOMAIN findings \ reviewed : Status(findings[n]) = "manual_review")

(* Findings are bound to the newest task, unless one started while they    *)
(* were being computed.                                                    *)
BoundToLatest ==
  [][\A n \in DOMAIN findings' \ DOMAIN findings :
       \/ findings'[n].task = tasks
       \/ \E r \in Requests : req[r] # Idle /\ req'[r] = Idle /\ req[r].seen < tasks]_vars

(* A review decides about a finding and may give it evidence; what the     *)
(* rule has found stays, and no finding is ever lost.                      *)
ReviewLeavesFacts ==
  [][\A n \in DOMAIN findings :
       /\ n \in DOMAIN findings'
       /\ findings'[n].rule = findings[n].rule /\ findings'[n].level = findings[n].level
       /\ findings'[n].task = findings[n].task]_vars
=============================================================================
