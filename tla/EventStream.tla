---------------------------- MODULE EventStream ----------------------------
(***************************************************************************)
(* The events of one analysis task: a counter and a list in Redis, written *)
(* by the API process and by workers, and read by clients that resume      *)
(* after the last event they have received.                                *)
(*                                                                         *)
(* A publisher makes three calls (INCR, RPUSH, LTRIM), between which other *)
(* publishers run or it dies.                                              *)
(***************************************************************************)
EXTENDS Integers, Sequences

CONSTANTS
  Publishers,
  Readers,
  Kept,             \* events that LTRIM leaves, 1000 in the code
  MaxEvents         \* bound: events published

VARIABLES
  sequence,         \* the counter
  events,           \* the identifiers in the list, oldest first
  newest,           \* history: the largest identifier that was appended, 0 before the first
  publisher,        \* the identifier each publisher holds, and its next call
  cursor,           \* last_event_id of each reader
  seen,             \* history: what each reader has received
  repeated,         \* history: readers that have received an event twice
  overtaken         \* history: events appended after one with a larger identifier

vars == <<sequence, events, newest, publisher, cursor, seen, repeated, overtaken>>
history == <<cursor, seen, repeated>>

Ready == [call |-> "incr", id |-> 0]

Init ==
  /\ sequence = 0
  /\ events = <<>>
  /\ newest = 0
  /\ publisher = [p \in Publishers |-> Ready]
  /\ cursor = [r \in Readers |-> 0]
  /\ seen = [r \in Readers |-> {}]
  /\ repeated = {}
  /\ overtaken = {}

(* Mutant: the identifier is read before the counter is incremented. *)
NextIdRead == sequence

(* append_atomic: what INCR returns. *)
NextId == sequence + 1

Allocate(p) ==
  /\ publisher[p] = Ready
  /\ sequence < MaxEvents
  /\ sequence' = sequence + 1
  /\ publisher' = [publisher EXCEPT ![p] = [call |-> "push", id |-> NextId]]
  /\ UNCHANGED <<events, newest, history, overtaken>>

(* append: RPUSH. *)
Push(p) ==
  LET id == publisher[p].id IN
  /\ publisher[p].call = "push"
  /\ events' = Append(events, id)
  /\ newest' = IF newest > id THEN newest ELSE id
  /\ overtaken' = IF newest > id THEN overtaken \cup {id} ELSE overtaken
  /\ publisher' = [publisher EXCEPT ![p].call = "trim"]
  /\ UNCHANGED <<sequence, history>>

(* append: LTRIM. *)
Trim(p) ==
  /\ publisher[p].call = "trim"
  /\ events' = IF Len(events) > Kept THEN SubSeq(events, Len(events) - Kept + 1, Len(events)) ELSE events
  /\ publisher' = [publisher EXCEPT ![p] = Ready]
  /\ UNCHANGED <<sequence, newest, history, overtaken>>

(* Redis fails, or the publisher dies, before its next call. *)
Break(p) ==
  /\ publisher[p] # Ready
  /\ publisher' = [publisher EXCEPT ![p] = Ready]
  /\ UNCHANGED <<sequence, events, newest, history, overtaken>>

(* list_after: where the events of the list with a larger identifier are. *)
After(last) == {n \in DOMAIN events : events[n] > last}

(* The client resumes after the event it has received last. *)
ResumeAfter(n) == events[n]

(* stream_analysis_events; the connection may break before all is sent,    *)
(* and the event at n is the last one the client receives.                 *)
Stream(r) ==
  /\ \E n \in After(cursor[r]) :
       LET received == {events[m] : m \in After(cursor[r]) \cap 1..n} IN
       /\ cursor' = [cursor EXCEPT ![r] = ResumeAfter(n)]
       /\ seen' = [seen EXCEPT ![r] = @ \cup received]
       /\ repeated' = IF received \cap seen[r] = {} THEN repeated ELSE repeated \cup {r}
  /\ UNCHANGED <<sequence, events, newest, publisher, overtaken>>

Publish(p) == Allocate(p) \/ Push(p) \/ Trim(p) \/ Break(p)

Next == (\E p \in Publishers : Publish(p)) \/ \E r \in Readers : Stream(r)

Spec == Init /\ [][Next]_vars

(***************************************************************************)
(* Properties.                                                             *)
(***************************************************************************)
TypeOK ==
  /\ sequence \in 0..MaxEvents
  /\ events \in Seq(1..MaxEvents) /\ newest \in 0..MaxEvents
  /\ publisher \in [Publishers -> [call: {"incr", "push", "trim"}, id: 0..MaxEvents]]
  /\ cursor \in [Readers -> 0..MaxEvents]
  /\ seen \in [Readers -> SUBSET (1..MaxEvents)]
  /\ repeated \subseteq Readers /\ overtaken \subseteq 1..MaxEvents

(* A client that resumes misses no event that is still in the list, unless *)
(* the event was appended after one with a larger identifier; and no event *)
(* reaches it twice as long as none has been appended so late.             *)
ResumesWithoutGap ==
  \A r \in Readers :
    /\ \A n \in DOMAIN events : events[n] <= cursor[r] => events[n] \in seen[r] \cup overtaken
    /\ r \in repeated => overtaken # {}
=============================================================================
