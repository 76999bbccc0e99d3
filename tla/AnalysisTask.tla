---------------------------- MODULE AnalysisTask ----------------------------
(***************************************************************************)
(* One analysis task: its row in analysis_tasks, the Celery messages that  *)
(* name it, the API requests that create and retry it and the Celery       *)
(* workers that run it.                                                    *)
(*                                                                         *)
(* A message carries its number of Celery retries; that and the retry      *)
(* count in the row are different things.  Messages are acknowledged late: *)
(* the broker delivers a message again when its worker dies.  When only    *)
(* the child process that runs the task dies, or is killed at the hard     *)
(* time limit, Celery acknowledges the message and it is gone.  No         *)
(* analysis adapter is configured, so every run fails at its first stage.  *)
(***************************************************************************)
EXTENDS Integers, FiniteSets

CONSTANTS
  Clients,          \* API requests
  Workers,          \* Celery workers
  MaxRequests,      \* bound on the retries asked for by users
  MaxCrashes        \* bound on the workers and the children that die

ASSUME BoundsAssumption == MaxRequests \in Nat /\ MaxCrashes \in Nat

VARIABLES
  row,              \* task_status and retry_count
  messages,         \* waiting messages, by number of Celery retries
  client,           \* where each API request is, and the row it has read
  worker,           \* where each worker is, and its message
  requests,         \* retries asked for
  crashes,
  faulty,           \* history: a failure of the infrastructure has ended a
                    \* chain of messages
  lost              \* history: the message of a child that died is gone

vars == <<row, messages, client, worker, requests, crashes, faulty, lost>>

(* max_retries of the Celery task, and the limit of retry_count. *)
MaxRetries == 3
Attempts == 0..MaxRetries
Stages == {"absent", "queued", "failed", "manual_review"}
Row == [stage: Stages, count: 0..MaxRetries]
Absent == [stage |-> "absent", count |-> 0]
Client == [at: {"idle", "create", "retry", "enqueue"}, seen: Row]
Worker == [at: {"idle", "run", "publish", "again", "done"}, attempt: Attempts]

NoClient == [at |-> "idle", seen |-> Absent]
Free == [at |-> "idle", attempt |-> 0]

Init ==
  /\ row = Absent
  /\ messages = [a \in Attempts |-> 0]
  /\ client = [c \in Clients |-> NoClient]
  /\ worker = [w \in Workers |-> Free]
  /\ requests = 0
  /\ crashes = 0
  /\ faulty = FALSE
  /\ lost = FALSE

Send(attempt) == messages' = [messages EXCEPT ![attempt] = @ + 1]

(***************************************************************************)
(* API requests.  The row is read without a lock and overwritten later.    *)
(***************************************************************************)
(* start: the lookup by idempotency key finds nothing. *)
Start(c) ==
  /\ client[c].at = "idle"
  /\ row.stage = "absent"
  /\ client' = [client EXCEPT ![c].at = "create"]
  /\ UNCHANGED <<row, messages, worker, requests, crashes, faulty, lost>>

Create(c) ==
  /\ client[c].at = "create"
  /\ row.stage = "absent"
  /\ row' = [stage |-> "queued", count |-> 0]
  /\ client' = [client EXCEPT ![c].at = "enqueue"]
  /\ UNCHANGED <<messages, worker, requests, crashes, faulty, lost>>

(* idempotency_key is unique: IntegrityError. *)
CreateRefused(c) ==
  /\ client[c].at = "create"
  /\ row.stage # "absent"
  /\ client' = [client EXCEPT ![c] = NoClient]
  /\ UNCHANGED <<row, messages, worker, requests, crashes, faulty, lost>>

(* retry: only a failed task can be retried. *)
Retry(c) ==
  /\ client[c].at = "idle"
  /\ requests < MaxRequests
  /\ row.stage = "failed"
  /\ requests' = requests + 1
  /\ client' = [client EXCEPT ![c] = [at |-> "retry", seen |-> row]]
  /\ UNCHANGED <<row, messages, worker, crashes, faulty, lost>>

(* The update is not guarded.  At the limit the task is taken over. *)
Update(c) ==
  LET exhausted == client[c].seen.count >= MaxRetries IN
  /\ client[c].at = "retry"
  /\ row' = IF exhausted THEN [stage |-> "manual_review", count |-> client[c].seen.count]
                         ELSE [stage |-> "queued", count |-> client[c].seen.count + 1]
  /\ client' = [client EXCEPT ![c] = IF exhausted THEN NoClient
                                                  ELSE [at |-> "enqueue", seen |-> Absent]]
  /\ UNCHANGED <<messages, worker, requests, crashes, faulty, lost>>

Enqueue(c) ==
  /\ client[c].at = "enqueue"
  /\ Send(0)
  /\ client' = [client EXCEPT ![c] = NoClient]
  /\ UNCHANGED <<row, worker, requests, crashes, faulty, lost>>

(* Redis does not take the event, the broker not the message, or the       *)
(* process stops in between.                                               *)
EnqueueFails(c) ==
  /\ client[c].at = "enqueue"
  /\ client' = [client EXCEPT ![c] = NoClient]
  /\ faulty' = TRUE
  /\ UNCHANGED <<row, messages, worker, requests, crashes, lost>>

(***************************************************************************)
(* Celery workers.                                                         *)
(***************************************************************************)
Final(stage) == stage = "manual_review"

(* A message is delivered.  A task in a final state is left alone. *)
Deliver(w, attempt) ==
  /\ worker[w].at = "idle"
  /\ messages[attempt] > 0
  /\ messages' = [messages EXCEPT ![attempt] = @ - 1]
  /\ worker' = [worker EXCEPT ![w] =
                  [at |-> IF Final(row.stage) THEN "done" ELSE "run", attempt |-> attempt]]
  /\ UNCHANGED <<row, client, requests, crashes, faulty, lost>>

(* Mutant: the count of the message itself. *)
CountAfterSame(attempt) == attempt

(* What the failed run of an attempt writes. *)
CountAfter(attempt) == IF attempt + 1 < MaxRetries THEN attempt + 1 ELSE MaxRetries

(* Mutant: one more retry before a human takes over. *)
StageAfterLate(count) == IF count > MaxRetries THEN "manual_review" ELSE "failed"

StageAfter(count) == IF count >= MaxRetries THEN "manual_review" ELSE "failed"

(* The WHERE clause of update_worker_state. *)
Writable(stage) == ~Final(stage)

(* The run fails, and the failure is persisted.  The database is read      *)
(* again here, so the row is that of this moment.                          *)
Persist(w) ==
  LET count == CountAfter(worker[w].attempt)
      stage == StageAfter(count)
  IN
  /\ worker[w].at = "run"
  /\ \/ /\ Writable(row.stage)
        /\ row' = [stage |-> stage, count |-> count]
        /\ worker' = [worker EXCEPT ![w].at = "publish"]
     \/ /\ ~Writable(row.stage)
        /\ row.stage = stage
        /\ worker' = [worker EXCEPT ![w].at = "publish"]
        /\ UNCHANGED row
     (* Another worker has finished the task: RuntimeError, autoretry. *)
     \/ /\ ~Writable(row.stage)
        /\ row.stage # stage
        /\ worker' = [worker EXCEPT ![w].at = "again"]
        /\ UNCHANGED row
  /\ UNCHANGED <<messages, client, requests, crashes, faulty, lost>>

(* The database cannot be used.  A RuntimeError makes Celery retry, any    *)
(* other error ends the chain of messages.                                 *)
PersistFails(w) ==
  /\ worker[w].at = "run"
  /\ \E next \in {"again", "done"} : worker' = [worker EXCEPT ![w].at = next]
  /\ faulty' = TRUE
  /\ UNCHANGED <<row, messages, client, requests, crashes, lost>>

(* The event goes to Redis after the commit. *)
Publish(w) ==
  /\ worker[w].at = "publish"
  /\ worker' = [worker EXCEPT ![w].at =
                  IF worker[w].attempt < MaxRetries THEN "again" ELSE "done"]
  /\ UNCHANGED <<row, messages, client, requests, crashes, faulty, lost>>

PublishFails(w) ==
  /\ worker[w].at = "publish"
  /\ worker' = [worker EXCEPT ![w].at = "done"]
  /\ faulty' = TRUE
  /\ UNCHANGED <<row, messages, client, requests, crashes, lost>>

(* self.retry, or the autoretry: a message of the next attempt, if any. *)
Again(w) ==
  /\ worker[w].at = "again"
  /\ IF worker[w].attempt < MaxRetries THEN Send(worker[w].attempt + 1) ELSE UNCHANGED messages
  /\ worker' = [worker EXCEPT ![w].at = "done"]
  /\ UNCHANGED <<row, client, requests, crashes, faulty, lost>>

Acknowledge(w) ==
  /\ worker[w].at = "done"
  /\ worker' = [worker EXCEPT ![w] = Free]
  /\ UNCHANGED <<row, messages, client, requests, crashes, faulty, lost>>

(* Mutant: messages are acknowledged when they are delivered. *)
RedeliveredNot(w) == UNCHANGED messages

(* task_acks_late. *)
Redelivered(w) == Send(worker[w].attempt)

Dies(w) ==
  /\ worker[w].at # "idle"
  /\ crashes < MaxCrashes
  /\ crashes' = crashes + 1
  /\ worker' = [worker EXCEPT ![w] = Free]

(* The whole worker dies: its connection to the broker ends. *)
Crash(w) ==
  /\ Dies(w)
  /\ Redelivered(w)
  /\ UNCHANGED <<row, client, requests, faulty, lost>>

(* The child is lost or reaches task_time_limit.  The worker lives on and  *)
(* acknowledges: task_reject_on_worker_lost is not set.                    *)
Killed(w) ==
  /\ Dies(w)
  /\ lost' = (lost \/ worker[w].at # "done")
  /\ UNCHANGED <<row, messages, client, requests, faulty>>

ClientStep(c) == Create(c) \/ CreateRefused(c) \/ Update(c) \/ Enqueue(c)

WorkerStep(w) ==
  \/ \E attempt \in Attempts : Deliver(w, attempt)
  \/ Persist(w)
  \/ Publish(w)
  \/ Again(w)
  \/ Acknowledge(w)

Failure ==
  \/ \E c \in Clients : EnqueueFails(c)
  \/ \E w \in Workers : PersistFails(w) \/ PublishFails(w) \/ Crash(w) \/ Killed(w)

Next ==
  \/ \E c \in Clients : Start(c) \/ Retry(c) \/ ClientStep(c)
  \/ \E w \in Workers : WorkerStep(w)
  \/ Failure

Spec == Init /\ [][Next]_vars

(* Requests that are being served and workers that have something to do go *)
(* on; users need not ask for anything.                                    *)
FairSpec ==
  /\ Spec
  /\ \A c \in Clients : WF_vars(ClientStep(c))
  /\ \A w \in Workers : WF_vars(WorkerStep(w))

(***************************************************************************)
(* Properties.                                                             *)
(***************************************************************************)
TypeOK ==
  /\ row \in Row
  /\ messages \in [Attempts -> Nat]
  /\ client \in [Clients -> Client]
  /\ worker \in [Workers -> Worker]
  /\ requests \in 0..MaxRequests
  /\ crashes \in 0..MaxCrashes
  /\ faulty \in BOOLEAN /\ lost \in BOOLEAN

(* Stage and count always agree, although users and several workers write  *)
(* both from what they know: a failed task has been tried and can still be *)
(* retried, and nobody takes a task over before the limit is reached.      *)
CountsAgree ==
  /\ row.stage = "failed" => row.count \in 1..(MaxRetries - 1)
  /\ row.stage = "manual_review" => row.count = MaxRetries

(* Together: the row can be written by two chains of messages at once, and *)
(* is one that a single chain could have left.                             *)
AnalysisInv == TypeOK /\ CountsAgree

(* Somebody is going to bring the task to an end. *)
InHand ==
  \/ \E attempt \in Attempts : messages[attempt] > 0
  \/ \E w \in Workers : worker[w].at \in {"run", "publish", "again"}
  \/ \E c \in Clients : client[c].at \in {"create", "retry", "enqueue"}

(* Workers may die at any time and messages come twice: as long as the     *)
(* broker, Redis and the database answer, an unfinished task is forgotten  *)
(* only with the message of a child that died.                             *)
StrandedOnlyByFaults ==
  row.stage \in {"queued", "failed"} /\ ~faulty /\ ~lost => InHand

(* A task that has been enqueued reaches the human who takes it over,      *)
(* whatever retries, duplicates and crashes come in between, unless one of *)
(* its messages is lost in those two ways.                                 *)
RunsOut ==
  (\E attempt \in Attempts : messages[attempt] > 0)
    ~> row.stage = "manual_review" \/ faulty \/ lost
=============================================================================
