---------------------------- MODULE MemoryAnalysis ----------------------------
(***************************************************************************)
(* AnalysisService: analysis tasks and their events in the memory of one   *)
(* process.  Every operation is one step; a worker that reports a failure  *)
(* and users that retry under idempotency keys take turns in any order.    *)
(***************************************************************************)
EXTENDS Integers, Sequences, FiniteSets

CONSTANTS
  Versions,         \* the versions of a document that are analysed
  StartKeys, RetryKeys,
  RetryLimit,       \* automatic retries, 3 in the code
  MaxEvents,        \* bound: events of a task
  NoTask

VARIABLES
  task,             \* the task of each version and key
  events            \* its events

vars == <<task, events>>

Ids == Versions \X StartKeys
Tasks == [stage: {"queued", "failed", "manual_review"}, retries: 0..RetryLimit,
          takeover: BOOLEAN, used: SUBSET RetryKeys]

Init ==
  /\ task = [id \in Ids |-> NoTask]
  /\ events = [id \in Ids |-> <<>>]

Started(id) == task[id] # NoTask

(* _append_event *)
EventId(id) == Len(events[id]) + 1

AppendEvent(id, status) ==
  /\ Len(events[id]) < MaxEvents
  /\ events' = [events EXCEPT ![id] = Append(@, [id |-> EventId(id), status |-> status])]

(* start: one task per version and key; a known key is answered with it.   *)
Start(id) ==
  /\ ~Started(id)
  /\ task' = [task EXCEPT ![id] = [stage |-> "queued", retries |-> 0, takeover |-> FALSE, used |-> {}]]
  /\ AppendEvent(id, "running")

(* mark_failed, whatever the task is doing. *)
MarkFailed(id) ==
  /\ Started(id)
  /\ task' = [task EXCEPT ![id].stage = "failed"]
  /\ AppendEvent(id, "failed")

(* A key that has retried the task is answered with the task as it is.     *)
NewKey(id, key) == key \notin task[id].used

Exhausted(id) == task[id].retries >= RetryLimit

(* retry of a failed task. *)
Retry(id, key) ==
  /\ Started(id) /\ NewKey(id, key)
  /\ task[id].stage = "failed"
  /\ ~Exhausted(id)
  /\ task' = [task EXCEPT ![id] = [stage |-> "queued", retries |-> @.retries + 1,
                                  takeover |-> @.takeover, used |-> @.used \cup {key}]]
  /\ AppendEvent(id, "retrying")

(* retry when there are none left: the task is left to a person, and the   *)
(* key is not kept.                                                        *)
TakeOver(id, key) ==
  /\ Started(id) /\ NewKey(id, key)
  /\ task[id].stage = "failed"
  /\ Exhausted(id)
  /\ task' = [task EXCEPT ![id] = [stage |-> "manual_review", retries |-> @.retries,
                                  takeover |-> TRUE, used |-> @.used]]
  /\ AppendEvent(id, "manual_review")

Next ==
  \E id \in Ids :
    \/ Start(id) \/ MarkFailed(id)
    \/ \E key \in RetryKeys : Retry(id, key) \/ TakeOver(id, key)

Spec == Init /\ [][Next]_vars

(***************************************************************************)
(* Properties.                                                             *)
(***************************************************************************)
TypeOK == task \in [Ids -> Tasks \cup {NoTask}] /\ DOMAIN events = Ids

Count(id, status) == Cardinality({n \in DOMAIN events[id] : events[id][n].status = status})

(* A task is retried once per key and RetryLimit times at most, and left   *)
(* to a person only after that; its events tell as much.                   *)
RetriesCounted ==
  \A id \in Ids : Started(id) =>
    /\ task[id].retries <= RetryLimit
    /\ task[id].retries = Cardinality(task[id].used)
    /\ task[id].retries = Count(id, "retrying")
    /\ task[id].takeover <=> Count(id, "manual_review") > 0
    /\ task[id].takeover => task[id].retries = RetryLimit

(* The events of a task are numbered from one without gap, so that a       *)
(* client that resumes after the last one it has seen misses none.         *)
EventsNumbered ==
  \A id \in Ids : \A n \in DOMAIN events[id] : events[id][n].id = n
=============================================================================
