---------------------------- MODULE ReportExport ----------------------------
(***************************************************************************)
(* Reports of document versions and their exports.  The reports are rows   *)
(* of PostgreSQL; an export is a state in Redis, under its identifier, an  *)
(* entry under its idempotency key, and a message to Celery, whose workers *)
(* acknowledge a message after its task has run, or when the child that    *)
(* runs it dies.                                                           *)
(*                                                                         *)
(* The API is one process and start_export waits for nothing once it has   *)
(* found the report; Redis or the broker can fail at each of its calls.    *)
(* The worker's exporter is a port: it returns or fails.                   *)
(***************************************************************************)
EXTENDS Integers, Sequences, FiniteSets

CONSTANTS
  Versions,         \* document versions
  Requests,         \* finalizations that can be in flight
  Keys,             \* idempotency keys
  Tasks,            \* identifiers (uuid4) of exports
  Workers,
  MaxReports,       \* bound: drafts created
  MaxRetries,       \* max_retries of the Celery task
  MaxFaults,        \* bound: calls that fail, workers and children that die
  Nothing

VARIABLES
  reports,          \* rows of review_reports in the order of created_at
  finalizing,       \* the version of each finalization that has seen no final report
  overlapped,       \* history: versions with two finalizations at once
  entry,            \* the export an idempotency key stands for
  export,           \* the state of an export
  messages,         \* messages of an export, by the number of retries
  worker,           \* what each worker is doing
  faults,           \* history: faults so far
  stranded,         \* history: exports given up without a trace in their state
  doubled           \* history: exports with two messages after a crash

vars == <<reports, finalizing, overlapped, entry, export, messages, worker, faults, stranded, doubled>>
reportVars == <<reports, finalizing, overlapped>>

Terminal == {"succeeded", "manual_review"}
Exports == [version: Versions, status: {"running", "failed"} \cup Terminal]
Idle == [at |-> "idle", task |-> Nothing, try |-> 0, export |-> Nothing]

Init ==
  /\ reports = <<>>
  /\ finalizing = [r \in Requests |-> Nothing]
  /\ overlapped = {}
  /\ entry = [k \in Keys |-> Nothing]
  /\ export = [t \in Tasks |-> Nothing]
  /\ messages = [t \in Tasks |-> [n \in 0..MaxRetries |-> 0]]
  /\ worker = [w \in Workers |-> Idle]
  /\ faults = 0
  /\ stranded = {}
  /\ doubled = {}

Of(version, status) ==
  {n \in DOMAIN reports : reports[n] = [version |-> version, status |-> status]}

(* create_draft, called by no route. *)
CreateDraft(version) ==
  /\ Len(reports) < MaxReports
  /\ reports' = Append(reports, [version |-> version, status |-> "draft"])
  /\ UNCHANGED <<finalizing, overlapped, entry, export, messages, worker, faults, stranded, doubled>>

(* Mutant: a final report is no obstacle to another one. *)
NotFinalIgnored(version) == TRUE

(* finalize looks for a final report of the version, without a lock. *)
NotFinal(version) == Of(version, "succeeded") = {}

BeginFinalize(r, version) ==
  /\ finalizing[r] = Nothing
  /\ NotFinal(version)
  /\ finalizing' = [finalizing EXCEPT ![r] = version]
  /\ overlapped' = overlapped \cup ({version} \cap {finalizing[other] : other \in Requests})
  /\ UNCHANGED <<reports, entry, export, messages, worker, faults, stranded, doubled>>

(* It then locks the newest draft: one that waits for the lock takes the   *)
(* newest of those that are left when it gets it.                          *)
NewestDraft(version, n) ==
  /\ n \in Of(version, "draft")
  /\ \A other \in Of(version, "draft") : other <= n

Finalize(r) ==
  /\ finalizing[r] # Nothing
  /\ \/ \E n \in DOMAIN reports :
          /\ NewestDraft(finalizing[r], n)
          /\ reports' = [reports EXCEPT ![n].status = "succeeded"]
     \/ Of(finalizing[r], "draft") = {} /\ UNCHANGED reports
  /\ finalizing' = [finalizing EXCEPT ![r] = Nothing]
  /\ UNCHANGED <<overlapped, entry, export, messages, worker, faults, stranded, doubled>>

HasReport(version) == \E n \in DOMAIN reports : reports[n].version = version

Unused(t) == export[t] = Nothing /\ t \notin stranded /\ \A k \in Keys : entry[k] # t

Messages(t, n, count) == messages' = [messages EXCEPT ![t][n] = @ + count]

(* A fault of the environment. *)
Fault == faults < MaxFaults /\ faults' = faults + 1

(* start_export; a key that is known is answered with its entry, whatever  *)
(* version and format are asked for.                                       *)
Start(key, version, t) ==
  /\ HasReport(version)
  /\ entry[key] = Nothing
  /\ Unused(t) /\ \A n \in 0..MaxRetries : messages[t][n] = 0
  /\ \A w \in Workers : worker[w].task # t
  /\ entry' = [entry EXCEPT ![key] = t]

(* The entry, the state and the message. *)
StartExport(key, version, t) ==
  /\ Start(key, version, t)
  /\ export' = [export EXCEPT ![t] = [version |-> version, status |-> "running"]]
  /\ Messages(t, 0, 1)
  /\ UNCHANGED <<reportVars, worker, faults, stranded, doubled>>

(* Redis fails before the state is set, or the broker before it takes the  *)
(* message: the entry stands for an export that nobody will run.           *)
StartFails(key, version, t) ==
  /\ Start(key, version, t)
  /\ Fault
  /\ \/ UNCHANGED export
     \/ export' = [export EXCEPT ![t] = [version |-> version, status |-> "running"]]
  /\ stranded' = stranded \cup {t}
  /\ UNCHANGED <<reportVars, messages, worker, doubled>>

(* The time to live of an entry or of a state is over. *)
ExpireEntry(key) ==
  /\ entry[key] # Nothing
  /\ entry' = [entry EXCEPT ![key] = Nothing]
  /\ UNCHANGED <<reportVars, export, messages, worker, faults, stranded, doubled>>

ExpireExport(t) ==
  /\ export[t] # Nothing
  /\ export' = [export EXCEPT ![t] = Nothing]
  /\ UNCHANGED <<reportVars, entry, messages, worker, faults, stranded, doubled>>

(* A worker takes a message; it stays his until he acknowledges it. *)
Take(w, t, n) ==
  /\ worker[w] = Idle
  /\ messages[t][n] > 0
  /\ Messages(t, n, -1)
  /\ worker' = [worker EXCEPT ![w] = [at |-> "read", task |-> t, try |-> n, export |-> Nothing]]
  /\ UNCHANGED <<reportVars, entry, export, faults, stranded, doubled>>

Goes(w, at) == worker' = [worker EXCEPT ![w].at = at]
LastTry(w) == worker[w].try >= MaxRetries

(* Mutant: the message of the retry counts as the first one. *)
AgainUncounted(w) ==
  /\ ~LastTry(w)
  /\ Messages(worker[w].task, worker[w].try, 1)
  /\ Goes(w, "acknowledge")
  /\ UNCHANGED stranded

(* Celery sends the message of the next try. *)
Again(w) ==
  /\ ~LastTry(w)
  /\ Messages(worker[w].task, worker[w].try + 1, 1)
  /\ Goes(w, "acknowledge")
  /\ UNCHANGED stranded

(* _final_report_failure without a client: nothing is written. *)
GiveUp(w) ==
  /\ LastTry(w)
  /\ stranded' = stranded \cup {worker[w].task}
  /\ Goes(w, "acknowledge")
  /\ UNCHANGED messages

(* Mutant: what has ended is exported again. *)
EndedNever(state) == FALSE

(* run_report_export is done with an export that has ended. *)
Ended(state) == state.status \in Terminal

(* The state is there and is read. *)
Read(w) ==
  /\ worker[w].at = "read"
  /\ LET state == export[worker[w].task] IN
     /\ state # Nothing
     /\ worker' = [worker EXCEPT ![w] =
          [@ EXCEPT !.at = IF Ended(state) THEN "acknowledge" ELSE "export", !.export = state]]
  /\ UNCHANGED <<reportVars, entry, export, messages, faults, stranded, doubled>>

(* There is no state, or Redis fails. *)
ReadFails(w) ==
  /\ worker[w].at = "read"
  /\ IF export[worker[w].task] = Nothing THEN UNCHANGED faults ELSE Fault
  /\ Again(w) \/ GiveUp(w)
  /\ UNCHANGED <<reportVars, entry, export, doubled>>

(* The exporter returns the content, or fails: the last failure is left to *)
(* a person.                                                               *)
RunExporter(w) ==
  /\ worker[w].at = "export"
  /\ \E status \in {"succeeded", IF LastTry(w) THEN "manual_review" ELSE "failed"} :
       worker' = [worker EXCEPT ![w] =
         [@ EXCEPT !.at = "write", !.export = [worker[w].export EXCEPT !.status = status]]]
  /\ UNCHANGED <<reportVars, entry, export, messages, faults, stranded, doubled>>

Write(w) == export' = [export EXCEPT ![worker[w].task] = worker[w].export]

(* _write_report_state: a failure is tried again, every other end is done. *)
WriteState(w) ==
  /\ worker[w].at = "write"
  /\ Write(w)
  /\ \/ worker[w].export.status = "failed" /\ Again(w)
     \/ worker[w].export.status # "failed" /\ Goes(w, "acknowledge") /\ UNCHANGED <<messages, stranded>>
  /\ UNCHANGED <<reportVars, entry, faults, doubled>>

(* Redis fails: the whole task is tried again; with the last try a state   *)
(* that says manual_review is written, if Redis is back.                   *)
WriteStateFails(w) ==
  /\ worker[w].at = "write"
  /\ Fault
  /\ \/ Again(w) /\ UNCHANGED export
     \/ GiveUp(w) /\ UNCHANGED export
     \/ /\ LastTry(w)
        /\ export' = [export EXCEPT ![worker[w].task] = [worker[w].export EXCEPT !.status = "manual_review"]]
        /\ Goes(w, "acknowledge")
        /\ UNCHANGED <<messages, stranded>>
  /\ UNCHANGED <<reportVars, entry, doubled>>

Acknowledge(w) ==
  /\ worker[w].at = "acknowledge"
  /\ worker' = [worker EXCEPT ![w] = Idle]
  /\ UNCHANGED <<reportVars, entry, export, messages, faults, stranded, doubled>>

(* task_acks_late: what is not acknowledged is delivered again when the    *)
(* whole worker is gone.                                                   *)
Redeliver(w) == Messages(worker[w].task, worker[w].try, 1)

CarriedBeside(w, t) ==
  \/ \E n \in 0..MaxRetries : messages[t][n] > 0
  \/ \E other \in Workers \ {w} : worker[other].task = t

(* The whole worker dies; if it has sent the message of the next try       *)
(* already, there are two of them now.                                     *)
Crash(w) ==
  /\ worker[w] # Idle
  /\ Fault
  /\ Redeliver(w)
  /\ doubled' = doubled \cup {t \in Tasks : worker[w].task = t /\ CarriedBeside(w, t)}
  /\ worker' = [worker EXCEPT ![w] = Idle]
  /\ UNCHANGED <<reportVars, entry, export, stranded>>

(* The child is lost or reaches task_time_limit: its message is            *)
(* acknowledged, since task_reject_on_worker_lost is not set, and the      *)
(* export is left as it is.                                                *)
Killed(w) ==
  /\ worker[w] # Idle
  /\ Fault
  /\ stranded' = stranded \cup (IF worker[w].at = "acknowledge" THEN {} ELSE {worker[w].task})
  /\ worker' = [worker EXCEPT ![w] = Idle]
  /\ UNCHANGED <<reportVars, entry, export, messages, doubled>>

Api ==
  \/ \E v \in Versions : CreateDraft(v)
  \/ \E r \in Requests : (\E v \in Versions : BeginFinalize(r, v)) \/ Finalize(r)
  \/ \E k \in Keys, v \in Versions, t \in Tasks : StartExport(k, v, t) \/ StartFails(k, v, t)

Work(w) ==
  \/ \E t \in Tasks, n \in 0..MaxRetries : Take(w, t, n)
  \/ Read(w) \/ ReadFails(w) \/ RunExporter(w) \/ WriteState(w) \/ Acknowledge(w)

Environment ==
  \/ \E k \in Keys : ExpireEntry(k)
  \/ \E t \in Tasks : ExpireExport(t)
  \/ \E w \in Workers : WriteStateFails(w) \/ Crash(w) \/ Killed(w)

Next == Api \/ (\E w \in Workers : Work(w)) \/ Environment

Spec == Init /\ [][Next]_vars

(* The workers run. *)
FairSpec == Spec /\ \A w \in Workers : WF_vars(Work(w))

(***************************************************************************)
(* Properties.                                                             *)
(***************************************************************************)
TypeOK ==
  /\ reports \in Seq([version: Versions, status: {"draft", "succeeded"}])
  /\ finalizing \in [Requests -> Versions \cup {Nothing}]
  /\ overlapped \subseteq Versions
  /\ entry \in [Keys -> Tasks \cup {Nothing}]
  /\ export \in [Tasks -> Exports \cup {Nothing}]
  /\ messages \in [Tasks -> [0..MaxRetries -> Nat]]
  /\ worker \in [Workers -> [at: {"idle", "read", "export", "write", "acknowledge"},
                             task: Tasks \cup {Nothing}, try: 0..MaxRetries,
                             export: Exports \cup {Nothing}]]
  /\ faults \in 0..MaxFaults
  /\ stranded \subseteq Tasks /\ doubled \subseteq Tasks

(* A version has one final report, unless two requests finalized it at     *)
(* once: the lock on a draft does not protect the search for a final one.  *)
OneFinalReport ==
  \A v \in Versions \ overlapped : Cardinality(Of(v, "succeeded")) <= 1

(* An export that has succeeded stays so until it expires, unless a crash  *)
(* has left two messages, whose tasks can run at once.                     *)
SuccessStands ==
  [][\A t \in Tasks \ doubled :
       (export[t] # Nothing /\ export[t].status = "succeeded")
         => export'[t] \in {export[t], Nothing}]_vars

Carried(t) ==
  \/ \E n \in 0..MaxRetries : messages[t][n] > 0
  \/ \E w \in Workers : worker[w].task = t

Unfinished(t) == export[t] # Nothing /\ export[t].status \notin Terminal

(* An export that has not ended has a message or a worker, unless its      *)
(* start or its last try failed to say so, or the child that ran it died.  *)
UnfinishedCarried == \A t \in Tasks \ stranded : Unfinished(t) => Carried(t)

(* And it comes to an end. *)
ExportsEnd == \A t \in Tasks : Unfinished(t) ~> (~Unfinished(t) \/ t \in stranded)
=============================================================================
