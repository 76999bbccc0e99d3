------------------------- MODULE AnalysisTaskProofs -------------------------
(***************************************************************************)
(* Proofs about AnalysisTask: whatever the number of API requests, of      *)
(* Celery workers, of retries asked for and of crashes, the row of the     *)
(* task is one a single chain of messages could have left, and an          *)
(* unfinished task is forgotten only after a failure of the infrastructure *)
(* or with the message of a child that died.                               *)
(***************************************************************************)
EXTENDS AnalysisTask, TLAPS

(* A request that is about to queue the task again has read a failed row   *)
(* below the limit, however old what it has read is by now.                *)
RetriesFromFailed ==
  \A c \in Clients :
    client[c].at = "retry" =>
      client[c].seen.stage = "failed" /\ client[c].seen.count \in 1..(MaxRetries - 1)

(* Who certainly leads to another attempt.  A worker that publishes the    *)
(* event of the last attempt does not, nor does a request that may still   *)
(* be refused.                                                             *)
WillGoOn ==
  \/ \E attempt \in Attempts : messages[attempt] > 0
  \/ \E w \in Workers : worker[w].at = "run"
  \/ \E w \in Workers : worker[w].at \in {"publish", "again"} /\ worker[w].attempt < MaxRetries
  \/ \E c \in Clients : client[c].at = "enqueue"

Unfinished == row.stage \in {"queued", "failed"} /\ ~faulty /\ ~lost

NeverForgotten == Unfinished => WillGoOn

(* The inductive invariant; NeverForgotten is inductive beside it. *)
CountsInv == TypeOK /\ CountsAgree /\ RetriesFromFailed

(***************************************************************************)
(* Lemmas about the operators of the model.                                *)
(***************************************************************************)
(* The count that a failed run writes is one of 1..3, and the stage it     *)
(* writes with it says whether the limit is reached.                       *)
LEMMA CountAfterInRange ==
  ASSUME NEW attempt \in Attempts
  PROVE  /\ CountAfter(attempt) \in 1..MaxRetries
         /\ CountAfter(attempt) = MaxRetries <=> attempt >= MaxRetries - 1
  BY DEF CountAfter, Attempts, MaxRetries

LEMMA StageAgrees ==
  ASSUME NEW count \in 1..MaxRetries
  PROVE  /\ StageAfter(count) \in {"failed", "manual_review"}
         /\ StageAfter(count) = "manual_review" <=> count = MaxRetries
  BY DEF StageAfter, MaxRetries

(* The run of the last attempt hands the task over. *)
LEMMA LastAttemptHandsOver ==
  ASSUME NEW attempt \in Attempts, attempt = MaxRetries
  PROVE  StageAfter(CountAfter(attempt)) = "manual_review"
  BY CountAfterInRange, StageAgrees DEF MaxRetries, Attempts

(* Sending a message of some attempt leaves messages well-formed, and at   *)
(* least one of them is waiting.                                           *)
LEMMA SendWaits ==
  ASSUME NEW attempt \in Attempts, messages \in [Attempts -> Nat], Send(attempt)
  PROVE  /\ messages' \in [Attempts -> Nat]
         /\ messages'[attempt] > 0
  BY DEF Send

(***************************************************************************)
(* Types.                                                                  *)
(***************************************************************************)
LEMMA InitType == Init => TypeOK
<1> SUFFICES ASSUME Init PROVE TypeOK
  OBVIOUS
<1>1. row \in Row /\ client \in [Clients -> Client]
  BY DEF Init, Row, Stages, Absent, Client, NoClient, MaxRetries
<1>2. messages \in [Attempts -> Nat] /\ worker \in [Workers -> Worker]
  BY DEF Init, Worker, Free, Attempts, MaxRetries
<1>3. requests \in 0..MaxRequests /\ crashes \in 0..MaxCrashes
  BY BoundsAssumption DEF Init
<1>4. faulty \in BOOLEAN /\ lost \in BOOLEAN
  BY DEF Init
<1> QED BY <1>1, <1>2, <1>3, <1>4 DEF TypeOK

(* Every step keeps the types.  An update reads what the request has seen, *)
(* so it needs RetriesFromFailed: the count stays within the limit.        *)
LEMMA NextType ==
  ASSUME TypeOK, RetriesFromFailed, [Next]_vars
  PROVE  TypeOK'
<1> USE BoundsAssumption
<1>1. ASSUME NEW c \in Clients, Start(c) PROVE TypeOK'
  BY <1>1 DEF Start, TypeOK, Client
<1>2. ASSUME NEW c \in Clients, Retry(c) PROVE TypeOK'
  BY <1>2 DEF Retry, TypeOK, Client
<1>3. ASSUME NEW c \in Clients, Create(c) PROVE TypeOK'
  BY <1>3 DEF Create, TypeOK, Client, Row, Stages, MaxRetries
<1>4. ASSUME NEW c \in Clients, CreateRefused(c) PROVE TypeOK'
  BY <1>4 DEF CreateRefused, TypeOK, Client, NoClient, Absent, Row, Stages, MaxRetries
<1>5. ASSUME NEW c \in Clients, Update(c) PROVE TypeOK'
  <2>1. client[c].seen.count \in 1..(MaxRetries - 1)
    BY <1>5 DEF Update, RetriesFromFailed
  <2>2. /\ row' = [stage |-> "queued", count |-> client[c].seen.count + 1]
        /\ client' = [client EXCEPT ![c] = [at |-> "enqueue", seen |-> Absent]]
    <3>1. ~(client[c].seen.count >= MaxRetries)
      BY <2>1 DEF MaxRetries
    <3> QED BY <1>5, <3>1 DEF Update
  <2>3. row' \in Row
    BY <2>1, <2>2 DEF Row, Stages, MaxRetries
  <2>4. client' \in [Clients -> Client]
    BY <2>2 DEF TypeOK, Client, Absent, Row, Stages, MaxRetries
  <2> QED BY <1>5, <2>3, <2>4 DEF Update, TypeOK
<1>6. ASSUME NEW c \in Clients, Enqueue(c) PROVE TypeOK'
  <2>1. messages' \in [Attempts -> Nat]
    BY <1>6, SendWaits DEF Enqueue, TypeOK, Attempts, MaxRetries
  <2> QED BY <1>6, <2>1 DEF Enqueue, TypeOK, Client, NoClient, Absent, Row, Stages, MaxRetries
<1>7. ASSUME NEW c \in Clients, EnqueueFails(c) PROVE TypeOK'
  BY <1>7 DEF EnqueueFails, TypeOK, Client, NoClient, Absent, Row, Stages, MaxRetries
<1>8. ASSUME NEW w \in Workers, NEW attempt \in Attempts, Deliver(w, attempt) PROVE TypeOK'
  <2>1. messages' \in [Attempts -> Nat]
    BY <1>8 DEF Deliver, TypeOK
  <2>2. worker' \in [Workers -> Worker]
    BY <1>8 DEF Deliver, TypeOK, Worker
  <2> QED BY <1>8, <2>1, <2>2 DEF Deliver, TypeOK
<1>9. ASSUME NEW w \in Workers, Persist(w) PROVE TypeOK'
  <2> DEFINE count == CountAfter(worker[w].attempt)
  <2>1. worker[w].attempt \in Attempts
    BY DEF TypeOK, Worker
  <2>2. count \in 1..MaxRetries /\ StageAfter(count) \in {"failed", "manual_review"}
    BY <2>1, CountAfterInRange, StageAgrees
  <2>3. row' = [stage |-> StageAfter(count), count |-> count] \/ row' = row
    BY <1>9 DEF Persist
  <2>4. row' \in Row
    BY <2>2, <2>3 DEF TypeOK, Row, Stages, MaxRetries
  <2>5. worker' \in [Workers -> Worker]
    BY <1>9 DEF Persist, TypeOK, Worker
  <2> QED BY <1>9, <2>4, <2>5 DEF Persist, TypeOK
<1>10. ASSUME NEW w \in Workers, PersistFails(w) PROVE TypeOK'
  BY <1>10 DEF PersistFails, TypeOK, Worker
<1>11. ASSUME NEW w \in Workers, Publish(w) PROVE TypeOK'
  BY <1>11 DEF Publish, TypeOK, Worker
<1>12. ASSUME NEW w \in Workers, PublishFails(w) PROVE TypeOK'
  BY <1>12 DEF PublishFails, TypeOK, Worker
<1>13. ASSUME NEW w \in Workers, Again(w) PROVE TypeOK'
  <2>1. worker[w].attempt \in Attempts
    BY DEF TypeOK, Worker
  <2>2. messages' \in [Attempts -> Nat]
    <3>1. CASE worker[w].attempt < MaxRetries
      <4>1. worker[w].attempt + 1 \in Attempts
        BY <2>1, <3>1 DEF Attempts, MaxRetries
      <4> QED BY <1>13, <3>1, <4>1, SendWaits DEF Again, TypeOK
    <3>2. CASE ~(worker[w].attempt < MaxRetries)
      BY <1>13, <3>2 DEF Again, TypeOK
    <3> QED BY <3>1, <3>2
  <2> QED BY <1>13, <2>2 DEF Again, TypeOK, Worker
<1>14. ASSUME NEW w \in Workers, Acknowledge(w) PROVE TypeOK'
  BY <1>14 DEF Acknowledge, TypeOK, Worker, Free, Attempts, MaxRetries
<1>15. ASSUME NEW w \in Workers, Crash(w) PROVE TypeOK'
  <2>1. worker[w].attempt \in Attempts
    BY DEF TypeOK, Worker
  <2>2. messages' \in [Attempts -> Nat]
    BY <1>15, <2>1, SendWaits DEF Crash, Dies, Redelivered, TypeOK
  <2>3. crashes' \in 0..MaxCrashes
    BY <1>15 DEF Crash, Dies, TypeOK
  <2> QED
    BY <1>15, <2>2, <2>3 DEF Crash, Dies, TypeOK, Worker, Free, Attempts, MaxRetries
<1>16. ASSUME NEW w \in Workers, Killed(w) PROVE TypeOK'
  BY <1>16 DEF Killed, Dies, TypeOK, Worker, Free, Attempts, MaxRetries
<1>17. CASE UNCHANGED vars
  BY <1>17 DEF vars, TypeOK
<1> QED
  BY <1>1, <1>2, <1>3, <1>4, <1>5, <1>6, <1>7, <1>8, <1>9, <1>10, <1>11, <1>12,
     <1>13, <1>14, <1>15, <1>16, <1>17
  DEF Next, ClientStep, WorkerStep, Failure

(***************************************************************************)
(* Stage and count.                                                        *)
(***************************************************************************)
(* What a request has seen is a failed row when it starts to retry, and is *)
(* changed only when it ends.                                              *)
LEMMA NextSeen ==
  ASSUME TypeOK, CountsAgree, RetriesFromFailed, [Next]_vars
  PROVE  RetriesFromFailed'
<1>1. ASSUME NEW c \in Clients, Start(c) \/ Create(c)
      PROVE  RetriesFromFailed'
  BY <1>1 DEF Start, Create, TypeOK, Client, RetriesFromFailed
<1>2. ASSUME NEW c \in Clients, CreateRefused(c) \/ Enqueue(c) \/ EnqueueFails(c)
      PROVE  RetriesFromFailed'
  BY <1>2 DEF CreateRefused, Enqueue, EnqueueFails, TypeOK, Client, NoClient, RetriesFromFailed
<1>3. ASSUME NEW c \in Clients, Retry(c) PROVE RetriesFromFailed'
  BY <1>3 DEF Retry, TypeOK, Client, CountsAgree, RetriesFromFailed
<1>4. ASSUME NEW c \in Clients, Update(c) PROVE RetriesFromFailed'
  <2>1. client' = [client EXCEPT ![c] = NoClient]
          \/ client' = [client EXCEPT ![c] = [at |-> "enqueue", seen |-> Absent]]
    BY <1>4 DEF Update
  <2> QED BY <2>1 DEF TypeOK, NoClient, RetriesFromFailed
<1>5. CASE UNCHANGED client
  BY <1>5 DEF RetriesFromFailed
<1>6. ASSUME NEW w \in Workers,
             WorkerStep(w) \/ PersistFails(w) \/ PublishFails(w) \/ Crash(w) \/ Killed(w)
      PROVE  UNCHANGED client
  BY <1>6 DEF WorkerStep, Deliver, Persist, Publish, Again, Acknowledge, PersistFails,
              PublishFails, Crash, Killed
<1> QED
  BY <1>1, <1>2, <1>3, <1>4, <1>5, <1>6 DEF Next, ClientStep, Failure, vars

(* The row is written by Create, by Update and by Persist alone.           *)
LEMMA NextCounts ==
  ASSUME TypeOK, CountsAgree, RetriesFromFailed, [Next]_vars
  PROVE  CountsAgree'
<1>1. ASSUME NEW c \in Clients, Create(c) PROVE CountsAgree'
  BY <1>1 DEF Create, CountsAgree
<1>2. ASSUME NEW c \in Clients, Update(c) PROVE CountsAgree'
  <2>1. client[c].seen.count \in 1..(MaxRetries - 1)
    BY <1>2 DEF Update, RetriesFromFailed
  <2>2. row'.stage = "queued"
    BY <1>2, <2>1 DEF Update, MaxRetries
  <2> QED BY <2>2 DEF CountsAgree
<1>3. ASSUME NEW w \in Workers, Persist(w) PROVE CountsAgree'
  <2> DEFINE count == CountAfter(worker[w].attempt)
  <2>1. count \in 1..MaxRetries
    BY CountAfterInRange DEF TypeOK, Worker
  <2>2. row' = [stage |-> StageAfter(count), count |-> count] \/ row' = row
    BY <1>3 DEF Persist
  <2> QED BY <2>1, <2>2, StageAgrees DEF CountsAgree, MaxRetries
<1>4. CASE UNCHANGED row
  BY <1>4 DEF CountsAgree
<1>5. ASSUME NEW c \in Clients,
             Start(c) \/ Retry(c) \/ CreateRefused(c) \/ Enqueue(c) \/ EnqueueFails(c)
      PROVE  UNCHANGED row
  BY <1>5 DEF Start, Retry, CreateRefused, Enqueue, EnqueueFails
<1>6. ASSUME NEW w \in Workers,
             \/ \E attempt \in Attempts : Deliver(w, attempt)
             \/ Publish(w) \/ Again(w) \/ Acknowledge(w)
             \/ PersistFails(w) \/ PublishFails(w) \/ Crash(w) \/ Killed(w)
      PROVE  UNCHANGED row
  BY <1>6 DEF Deliver, Publish, Again, Acknowledge, PersistFails, PublishFails, Crash, Killed
<1> QED
  BY <1>1, <1>2, <1>3, <1>4, <1>5, <1>6 DEF Next, ClientStep, WorkerStep, Failure, vars

(* A failed task has been tried and can be retried, and nobody takes a     *)
(* task over before the limit: stage and count agree in every reachable    *)
(* state, although requests overwrite the row with what they read long     *)
(* ago (update_task_state, update_worker_state).                           *)
THEOREM CountsSound == Spec => []AnalysisInv
<1>1. Init => CountsInv
  BY InitType DEF Init, CountsInv, CountsAgree, RetriesFromFailed, Absent, NoClient
<1>2. CountsInv /\ [Next]_vars => CountsInv'
  BY NextType, NextSeen, NextCounts DEF CountsInv
<1>3. CountsInv => AnalysisInv
  BY DEF CountsInv, AnalysisInv
<1> QED BY <1>1, <1>2, <1>3, PTL DEF Spec

(***************************************************************************)
(* No task is forgotten.                                                   *)
(***************************************************************************)
LEMMA NextGoesOn ==
  ASSUME TypeOK, NeverForgotten, [Next]_vars
  PROVE  NeverForgotten'
<1>1. ASSUME NEW c \in Clients, Start(c) \/ Retry(c) \/ CreateRefused(c)
      PROVE  NeverForgotten'
  <2>1. /\ UNCHANGED <<row, messages, worker, faulty, lost>>
        /\ \A other \in Clients : client[other].at = "enqueue" => client'[other].at = "enqueue"
    BY <1>1 DEF Start, Retry, CreateRefused, TypeOK
  <2> QED BY <2>1 DEF NeverForgotten, Unfinished, WillGoOn
<1>2. ASSUME NEW c \in Clients, Create(c) PROVE NeverForgotten'
  <2>1. client'[c].at = "enqueue"
    BY <1>2 DEF Create, TypeOK, Client
  <2> QED BY <2>1 DEF NeverForgotten, WillGoOn
<1>3. ASSUME NEW c \in Clients, Update(c) PROVE NeverForgotten'
  <2>1. row'.stage = "manual_review" \/ client'[c].at = "enqueue"
    BY <1>3 DEF Update, TypeOK
  <2> QED BY <2>1 DEF NeverForgotten, Unfinished, WillGoOn
<1>4. ASSUME NEW c \in Clients, Enqueue(c) PROVE NeverForgotten'
  <2>1. 0 \in Attempts
    BY DEF Attempts, MaxRetries
  <2>2. messages'[0] > 0
    BY <1>4, <2>1, SendWaits DEF Enqueue, TypeOK
  <2> QED BY <2>1, <2>2 DEF NeverForgotten, WillGoOn
<1>5. ASSUME NEW w \in Workers, NEW attempt \in Attempts, Deliver(w, attempt)
      PROVE  NeverForgotten'
  <2>1. CASE Final(row.stage)
    BY <1>5, <2>1 DEF Deliver, Final, NeverForgotten, Unfinished
  <2>2. CASE ~Final(row.stage)
    <3>1. worker'[w].at = "run"
      BY <1>5, <2>2 DEF Deliver, TypeOK
    <3> QED BY <3>1 DEF NeverForgotten, WillGoOn
  <2> QED BY <2>1, <2>2
<1>6. ASSUME NEW w \in Workers, Persist(w) PROVE NeverForgotten'
  <2> DEFINE stage == StageAfter(CountAfter(worker[w].attempt))
  <2>1. worker[w].attempt \in Attempts
    BY DEF TypeOK, Worker
  <2>2. worker'[w].at \in {"publish", "again"} /\ worker'[w].attempt = worker[w].attempt
    BY <1>6 DEF Persist, TypeOK, Worker
  <2>3. CASE worker[w].attempt < MaxRetries
    BY <2>2, <2>3 DEF NeverForgotten, WillGoOn
  <2>4. CASE worker[w].attempt = MaxRetries
    <3>1. stage = "manual_review"
      BY <2>1, <2>4, LastAttemptHandsOver
    <3>2. row'.stage = "manual_review"
      BY <1>6, <3>1 DEF Persist, Writable, Final
    <3> QED BY <3>2 DEF NeverForgotten, Unfinished
  <2> QED BY <2>1, <2>3, <2>4 DEF Attempts, MaxRetries
<1>7. ASSUME NEW w \in Workers, Publish(w) PROVE NeverForgotten'
  <2>1. worker[w].attempt \in Attempts
    BY DEF TypeOK, Worker
  <2>2. CASE worker[w].attempt < MaxRetries
    <3>1. worker'[w].at = "again" /\ worker'[w].attempt < MaxRetries
      BY <1>7, <2>2 DEF Publish, TypeOK, Worker
    <3> QED BY <3>1 DEF NeverForgotten, WillGoOn
  <2>3. CASE ~(worker[w].attempt < MaxRetries)
    <3>1. \A other \in Workers : other # w => worker'[other] = worker[other]
      BY <1>7 DEF Publish, TypeOK
    <3>2. UNCHANGED <<row, messages, client, faulty, lost>> /\ worker[w].at = "publish"
      BY <1>7 DEF Publish
    <3> QED BY <2>3, <3>1, <3>2 DEF NeverForgotten, Unfinished, WillGoOn
  <2> QED BY <2>2, <2>3
<1>8. ASSUME NEW w \in Workers, Again(w) PROVE NeverForgotten'
  <2>1. worker[w].attempt \in Attempts
    BY DEF TypeOK, Worker
  <2>2. CASE worker[w].attempt < MaxRetries
    <3>1. worker[w].attempt + 1 \in Attempts
      BY <2>1, <2>2 DEF Attempts, MaxRetries
    <3>2. messages'[worker[w].attempt + 1] > 0
      BY <1>8, <2>2, <3>1, SendWaits DEF Again, TypeOK
    <3> QED BY <3>1, <3>2 DEF NeverForgotten, WillGoOn
  <2>3. CASE ~(worker[w].attempt < MaxRetries)
    <3>1. \A other \in Workers : other # w => worker'[other] = worker[other]
      BY <1>8 DEF Again, TypeOK
    <3>2. UNCHANGED <<row, messages, client, faulty, lost>> /\ worker[w].at = "again"
      BY <1>8, <2>3 DEF Again
    <3> QED BY <2>3, <3>1, <3>2 DEF NeverForgotten, Unfinished, WillGoOn
  <2> QED BY <2>2, <2>3
<1>9. ASSUME NEW w \in Workers, Acknowledge(w) PROVE NeverForgotten'
  <2>1. \A other \in Workers : other # w => worker'[other] = worker[other]
    BY <1>9 DEF Acknowledge, TypeOK
  <2>2. UNCHANGED <<row, messages, client, faulty, lost>> /\ worker[w].at = "done"
    BY <1>9 DEF Acknowledge
  <2> QED BY <2>1, <2>2 DEF NeverForgotten, Unfinished, WillGoOn
<1>10. ASSUME NEW w \in Workers, Crash(w) PROVE NeverForgotten'
  <2>1. worker[w].attempt \in Attempts
    BY DEF TypeOK, Worker
  <2>2. messages'[worker[w].attempt] > 0
    BY <1>10, <2>1, SendWaits DEF Crash, Dies, Redelivered, TypeOK
  <2> QED BY <2>1, <2>2 DEF NeverForgotten, WillGoOn
<1>11. ASSUME NEW w \in Workers, PersistFails(w) \/ PublishFails(w) PROVE NeverForgotten'
  BY <1>11 DEF PersistFails, PublishFails, NeverForgotten, Unfinished
<1>12. ASSUME NEW c \in Clients, EnqueueFails(c) PROVE NeverForgotten'
  BY <1>12 DEF EnqueueFails, NeverForgotten, Unfinished
<1>13. ASSUME NEW w \in Workers, Killed(w) PROVE NeverForgotten'
  <2>1. CASE worker[w].at = "done"
    <3>1. \A other \in Workers : other # w => worker'[other] = worker[other]
      BY <1>13 DEF Killed, Dies, TypeOK
    <3>2. UNCHANGED <<row, messages, client, faulty>>
      BY <1>13 DEF Killed
    <3>3. lost' = lost
      BY <1>13, <2>1 DEF Killed, TypeOK
    <3> QED BY <2>1, <3>1, <3>2, <3>3 DEF NeverForgotten, Unfinished, WillGoOn
  <2>2. CASE worker[w].at # "done"
    BY <1>13, <2>2 DEF Killed, NeverForgotten, Unfinished
  <2> QED BY <2>1, <2>2
<1>14. CASE UNCHANGED vars
  BY <1>14 DEF vars, NeverForgotten, Unfinished, WillGoOn
<1> QED
  BY <1>1, <1>2, <1>3, <1>4, <1>5, <1>6, <1>7, <1>8, <1>9, <1>10, <1>11, <1>12, <1>13,
     <1>14
  DEF Next, ClientStep, WorkerStep, Failure

(* As long as the broker, Redis and the database answer, an unfinished     *)
(* task has a message, a worker or a request that goes on with it, however *)
(* often workers die, unless a child died and its message went with it     *)
(* (task_acks_late without task_reject_on_worker_lost, self.retry,         *)
(* enqueue_analysis).                                                      *)
THEOREM NoneForgotten == Spec => []StrandedOnlyByFaults
<1>1. Init => CountsInv /\ NeverForgotten
  BY InitType
  DEF Init, CountsInv, CountsAgree, RetriesFromFailed, NeverForgotten, Unfinished, Absent, NoClient
<1>2. CountsInv /\ NeverForgotten /\ [Next]_vars => CountsInv' /\ NeverForgotten'
  BY NextType, NextSeen, NextCounts, NextGoesOn DEF CountsInv
<1>3. CountsInv /\ NeverForgotten => StrandedOnlyByFaults
  BY DEF NeverForgotten, Unfinished, WillGoOn, StrandedOnlyByFaults, InHand
<1> QED BY <1>1, <1>2, <1>3, PTL DEF Spec
=============================================================================
