---------------------------- MODULE MemoryDocuments ----------------------------
(***************************************************************************)
(* Documents, their versions and their reports in the in-memory services.  *)
(* Their methods run without giving up the thread: each is one step.       *)
(***************************************************************************)
EXTENDS Integers, Sequences

CONSTANTS
  Types,         \* of documents
  MaxDocuments,  \* bound
  MaxReports     \* bound: reports of all versions

VARIABLES
  documents,     \* the repository, in the order of their making
  versions,      \* versions, in the order of their making
  sequences,     \* the last number given, of each type
  reports        \* ReportService.reports

vars == <<documents, versions, sequences, reports>>

Init ==
  /\ documents = <<>> /\ versions = <<>> /\ reports = <<>>
  /\ sequences = [t \in Types |-> 0]

(* next_document_no *)
NextNumber(type) == sequences[type] + 1

CreateDraft(type) ==
  /\ Len(documents) < MaxDocuments
  /\ sequences' = [sequences EXCEPT ![type] = NextNumber(type)]
  /\ documents' = Append(documents,
       [type |-> type, number |-> NextNumber(type), status |-> "draft", current |-> 0, state |-> 1])
  /\ UNCHANGED <<versions, reports>>

Submittable(d) == documents[d].status \in {"draft", "returned"}

(* submit, and resubmit_after_return, which is the same.                   *)
Submit(d, expected) ==
  /\ d \in DOMAIN documents
  /\ documents[d].state = expected /\ Submittable(d)
  /\ documents' = [documents EXCEPT ![d] =
       [type |-> @.type, number |-> @.number, status |-> "pending_review",
        current |-> @.current + 1, state |-> @.state + 1]]
  /\ versions' = Append(versions, [document |-> d, number |-> documents[d].current + 1])
  /\ UNCHANGED <<sequences, reports>>

Draft(v) == [version |-> v, status |-> "draft"]

(* create_draft of ReportService; the version is not looked up.            *)
CreateReport(v) ==
  /\ Len(reports) < MaxReports
  /\ reports' = Append(reports, Draft(v))
  /\ UNCHANGED <<documents, versions, sequences>>

IsFinal(all, v) == \E n \in DOMAIN all : all[n].version = v /\ all[n].status = "succeeded"

Drafts(all, v) == {n \in DOMAIN all : all[n].version = v /\ all[n].status = "draft"}

(* _finalize: the last draft becomes the final report. *)
Finalized(all, v) ==
  IF IsFinal(all, v) \/ Drafts(all, v) = {} THEN all
  ELSE [n \in DOMAIN all |->
          IF n \in Drafts(all, v) /\ \A m \in Drafts(all, v) : m <= n
          THEN [version |-> v, status |-> "succeeded"] ELSE all[n]]

Finalize(v) ==
  /\ reports' = Finalized(reports, v)
  /\ UNCHANGED <<documents, versions, sequences>>

(* finalize_report: the draft is there also if it cannot become final.     *)
FinalizeReport(v) ==
  /\ Len(reports) < MaxReports
  /\ reports' = Finalized(Append(reports, Draft(v)), v)
  /\ UNCHANGED <<documents, versions, sequences>>

Next ==
  \/ \E t \in Types : CreateDraft(t)
  \/ \E d \in 1..MaxDocuments, expected \in 1..2 : Submit(d, expected)
  \/ \E v \in DOMAIN versions : CreateReport(v) \/ Finalize(v) \/ FinalizeReport(v)

Spec == Init /\ [][Next]_vars

(***************************************************************************)
(* Properties.                                                             *)
(***************************************************************************)
TypeOK ==
  /\ \A d \in DOMAIN documents : documents[d].type \in Types /\ documents[d].number \in 1..MaxDocuments
  /\ \A v \in DOMAIN versions : versions[v].document \in DOMAIN documents
  /\ \A n \in DOMAIN reports : reports[n].status \in {"draft", "succeeded"}

(* No two documents of a type have one number.                             *)
NumbersDiffer ==
  \A d, e \in DOMAIN documents :
    documents[d].type = documents[e].type /\ documents[d].number = documents[e].number => d = e

(* A document is submitted once, because nothing in these services returns *)
(* it; its one version has the number and the state it then has.           *)
SubmittedOnce ==
  \A d \in DOMAIN documents :
    LET own == {v \in DOMAIN versions : versions[v].document = d} IN
    IF documents[d].status = "draft" THEN own = {} /\ documents[d].state = 1
    ELSE /\ \A v \in own : versions[v].number = documents[d].current
         /\ \A v, w \in own : v = w
         /\ own # {} /\ documents[d].state = 2

(* A version has one final report, which is never drafted again; drafts    *)
(* that could not become final remain beside it.                           *)
OneFinal ==
  \A m, n \in DOMAIN reports :
    reports[m].status = "succeeded" /\ reports[n].status = "succeeded"
      /\ reports[m].version = reports[n].version => m = n
=============================================================================
