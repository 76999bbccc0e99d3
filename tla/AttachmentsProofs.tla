--------------------------- MODULE AttachmentsProofs ---------------------------
(* Proofs about Attachments, for any number of files, requests, workers and *)
(* tries, and for any budget of requests, parses and crashes.               *)
EXTENDS Attachments, FiniteSetTheorems, TLAPS

Uploading(r) == req[r].at \in {"measure", "put", "insert", "cleanup"}
Deleting(r) == req[r].at \in {"mark", "remove", "unmark"}

(* An upload has an identifier of its own, of no row yet, and its object    *)
(* is in the store when the row is inserted.                                *)
UploadsFresh == \A r \in Requests : Uploading(r) => ~Exists(req[r].id)
UploadsApart ==
  \A r, q \in Requests : Uploading(r) /\ Uploading(q) /\ req[r].id = req[q].id => r = q
UploadsPut == \A r \in Requests : req[r].at = "insert" => req[r].id \in objects

(* A deletion has read the row it is about, and that row has not been       *)
(* stored again after it was marked.                                        *)
DeletionsRead ==
  \A r \in Requests : Deleting(r) =>
    /\ Exists(req[r].id)
    /\ req[r].seen.content = row[req[r].id].content
DeletionsParsed ==
  \A r \in Requests : Deleting(r) =>
    \A k \in Keys : req[r].seen.parse = "succeeded" /\ req[r].seen.key = k
                      => <<req[r].id, k>> \in results
DeletionsMark ==
  \A r \in Requests : req[r].at \in {"remove", "unmark"} =>
    row[req[r].id].storage # "stored" \/ req[r].id \in stale
DeletionsFail == \A r \in Requests : req[r].at = "unmark" => req[r].id \in leaked

RequestsInv ==
  /\ UploadsFresh /\ UploadsApart /\ UploadsPut
  /\ DeletionsRead /\ DeletionsParsed /\ DeletionsMark /\ DeletionsFail

(* Parses are of attachments that have a row, whose content a worker that   *)
(* has read it still has.                                                   *)
WorkersInv ==
  /\ \A m \in Messages : messages[m] > 0 => Exists(m[1])
  /\ \A w \in Workers : worker[w].at # "idle" => Exists(worker[w].id)
  /\ \A w \in Workers : worker[w].at = "write" =>
       worker[w].seen.content = row[worker[w].id].content

(* A verdict that is not final is only reached when a try is left.          *)
VerdictsInv ==
  /\ \A w \in Workers : worker[w].at \in {"read", "write", "cache"} =>
       worker[w].verdict \in Failure(worker[w].attempt) \cup {"succeeded"}
  /\ \A w \in Workers : worker[w].at = "cache" /\ worker[w].verdict = "succeeded" =>
       <<worker[w].id, worker[w].key>> \in results
  /\ \A w \in Workers : worker[w].at = "again" /\ ~faulty => worker[w].attempt < MaxRetries

(* Owned: while no request is about to remove it, the object's row is       *)
(* listed and no worker has read that it was deleted.                       *)
Owned(a) ==
  \/ \E r \in Requests : req[r].at \in {"insert", "cleanup", "remove"} /\ req[r].id = a
  \/ /\ Listed(a)
     /\ \A w \in Workers : worker[w].at = "write" /\ worker[w].id = a =>
          worker[w].seen.storage # "deleted"
ObjectsInv == \A a \in objects \ leaked : Owned(a)

(* A parse with this key is going to write the row once more.               *)
Carried(a, k) ==
  \/ \E attempt \in Attempts : messages[<<a, k, attempt>>] > 0
  \/ \E w \in Workers :
       /\ worker[w].at \in {"recognise", "read", "write", "cache", "again"}
       /\ worker[w].id = a /\ worker[w].key = k
       /\ worker[w].at = "cache" => worker[w].verdict \notin Terminal
FailuresInv ==
  \A a \in Live \ (leaked \cup stale), k \in Keys :
    row[a].parse \in {"failed", "queued"} /\ row[a].key = k /\ ~faulty /\ <<a, k>> \notin lost
      => Carried(a, k) \/ cache[<<a, k>>] \in Terminal

(* Attachments that are listed, and those a deletion may bring back.        *)
Doomed == {r \in Requests : Deleting(r)}
Counted == (Live \cup {req[r].id : r \in Doomed}) \ stale
CountInv == Cardinality(Counted) + Cardinality(Admitted) < MaxFiles + Cardinality(Requests)

ParsesInv == WorkersInv /\ VerdictsInv /\ FailuresInv
RowsInv == ContentOnce /\ StoredHasObject /\ SuccessHasResult /\ ObjectsInv

Inv == TypeOK /\ RequestsInv /\ RowsInv /\ ParsesInv /\ CountInv

(***************************************************************************)
(* Types.                                                                  *)
(***************************************************************************)
(* What a request holds, by the place it is at.                             *)
LEMMA RequestTyped ==
  ASSUME TypeOK, NEW r \in Requests
  PROVE  /\ req[r] = NoRequest \/ Uploading(r) \/ Deleting(r)
         /\ req[r] = NoRequest <=> req[r].at = "idle"
         /\ req[r] # NoRequest => req[r].id \in Ids
         /\ Uploading(r) => req[r].content \in Contents
                            /\ req[r] = [at |-> req[r].at, id |-> req[r].id, content |-> req[r].content]
         /\ Deleting(r) => req[r].seen \in Record
                           /\ req[r] = [at |-> req[r].at, id |-> req[r].id, seen |-> req[r].seen]
BY DEF TypeOK, Request, NoRequest, Uploading, Deleting

(* What a request becomes in each of its steps.                             *)
LEMMA RequestMoves ==
  ASSUME TypeOK, NEW r \in Requests, NEW at,
         \/ Uploading(r) /\ at \in {"measure", "put", "insert", "cleanup"}
         \/ Deleting(r) /\ at \in {"mark", "remove", "unmark"},
         req' = [req EXCEPT ![r].at = at]
  PROVE  /\ req' \in [Requests -> Request]
         /\ req'[r].at = at /\ req'[r].id = req[r].id
         /\ Uploading(r) => req'[r].content = req[r].content
         /\ Deleting(r) => req'[r].seen = req[r].seen
         /\ \A q \in Requests \ {r} : req'[q] = req[q]
<1>1. req \in [Requests -> Request]
  BY DEF TypeOK
<1>2. req' = [req EXCEPT ![r] = [req[r] EXCEPT !.at = at]]
  OBVIOUS
<1>3. CASE Uploading(r)
  <2>1. /\ req[r] = [at |-> req[r].at, id |-> req[r].id, content |-> req[r].content]
        /\ req[r].id \in Ids /\ req[r].content \in Contents
    BY <1>3, RequestTyped DEF Uploading, NoRequest
  <2>2. [req[r] EXCEPT !.at = at] = [at |-> at, id |-> req[r].id, content |-> req[r].content]
    BY <2>1
  <2>3. at \in {"measure", "put", "insert", "cleanup"}
    BY <1>3 DEF Uploading, Deleting
  <2>4. [at |-> at, id |-> req[r].id, content |-> req[r].content] \in Request
    BY <2>1, <2>3 DEF Request
  <2> QED
    BY <1>1, <1>2, <1>3, <2>2, <2>4 DEF Uploading, Deleting
<1>4. CASE Deleting(r)
  <2>1. /\ req[r] = [at |-> req[r].at, id |-> req[r].id, seen |-> req[r].seen]
        /\ req[r].id \in Ids /\ req[r].seen \in Record
    BY <1>4, RequestTyped DEF Deleting, NoRequest
  <2>2. [req[r] EXCEPT !.at = at] = [at |-> at, id |-> req[r].id, seen |-> req[r].seen]
    BY <2>1
  <2>3. at \in {"mark", "remove", "unmark"}
    BY <1>4 DEF Uploading, Deleting
  <2>4. [at |-> at, id |-> req[r].id, seen |-> req[r].seen] \in Request
    BY <2>1, <2>3 DEF Request
  <2> QED
    BY <1>1, <1>2, <1>4, <2>2, <2>4 DEF Uploading, Deleting
<1> QED
  BY <1>3, <1>4

(* A worker as it goes on to another place with a verdict.                  *)
Moved(k, at, verdict) ==
  [at |-> at, id |-> k.id, key |-> k.key, attempt |-> k.attempt, verdict |-> verdict]

(* What a worker holds, by the place it is at.                              *)
Parsing(w) == worker[w].at \in {"recognise", "read", "cache", "again", "done"}

(* What a worker holds.                                                     *)
LEMMA WorkerTyped ==
  ASSUME TypeOK, NEW w \in Workers
  PROVE  /\ worker[w] = Free \/ Parsing(w) \/ worker[w].at = "write"
         /\ worker[w] = Free <=> worker[w].at = "idle"
         /\ worker[w] # Free => /\ worker[w].id \in Ids /\ worker[w].key \in Keys
                                /\ worker[w].attempt \in Attempts
                                /\ worker[w].verdict \in ParseStates
         /\ Parsing(w) => worker[w] = Moved(worker[w], worker[w].at, worker[w].verdict)
         /\ worker[w].at = "write" => worker[w].seen \in Record
BY DEF TypeOK, Worker, Free, Parsing, Moved

(* What a worker becomes in each of its steps.                              *)
LEMMA WorkerMoves ==
  ASSUME TypeOK, NEW w \in Workers, worker[w] # Free,
         NEW at \in {"recognise", "read", "cache", "again", "done"},
         NEW verdict \in ParseStates,
         worker' = [worker EXCEPT ![w] = Moved(worker[w], at, verdict)]
  PROVE  /\ worker' \in [Workers -> Worker]
         /\ worker'[w].at = at /\ worker'[w].id = worker[w].id /\ worker'[w].key = worker[w].key
         /\ worker'[w].attempt = worker[w].attempt /\ worker'[w].verdict = verdict
         /\ \A v \in Workers \ {w} : worker'[v] = worker[v]
<1>1. worker \in [Workers -> Worker]
  BY DEF TypeOK
<1>2. /\ worker[w].id \in Ids /\ worker[w].key \in Keys
      /\ worker[w].attempt \in Attempts
  BY WorkerTyped
<1>3. Moved(worker[w], at, verdict) \in Worker
  BY <1>2 DEF Worker, Moved
<1> QED
  BY <1>1, <1>3 DEF Moved

(* The verdicts of a failure.                                               *)
LEMMA FailureTyped ==
  ASSUME NEW attempt \in Attempts
  PROVE  /\ Failure(attempt) \subseteq ParseStates
         /\ "succeeded" \notin Failure(attempt)
         /\ \A verdict \in Failure(attempt) : verdict \notin Terminal => attempt < MaxRetries
BY LimitsAssumption DEF Failure, ParseStates, Terminal, Attempts

(* The updates of the model in these terms.                                 *)
LEMMA WorkerSets ==
  ASSUME TypeOK, NEW w \in Workers, Parsing(w), NEW at
  PROVE  [worker EXCEPT ![w].at = at] =
           [worker EXCEPT ![w] = Moved(worker[w], at, worker[w].verdict)]
<1>1. worker[w] = [at |-> worker[w].at, id |-> worker[w].id, key |-> worker[w].key,
                   attempt |-> worker[w].attempt, verdict |-> worker[w].verdict]
  BY WorkerTyped DEF Moved
<1>2. [worker[w] EXCEPT !.at = at] = Moved(worker[w], at, worker[w].verdict)
  BY <1>1 DEF Moved
<1>3. [worker EXCEPT ![w].at = at] = [worker EXCEPT ![w] = [worker[w] EXCEPT !.at = at]]
  BY DEF TypeOK
<1> QED
  BY <1>2, <1>3

(* What a worker decides when it takes or reads a message.                  *)
LEMMA WorkerDecides ==
  ASSUME TypeOK, NEW w \in Workers, Parsing(w), NEW at, NEW verdict
  PROVE  [worker[w] EXCEPT !.at = at, !.verdict = verdict] = Moved(worker[w], at, verdict)
<1>1. worker[w] = [at |-> worker[w].at, id |-> worker[w].id, key |-> worker[w].key,
                   attempt |-> worker[w].attempt, verdict |-> worker[w].verdict]
  BY WorkerTyped DEF Moved
<1>2. [worker[w] EXCEPT !.at = at] = Moved(worker[w], at, worker[w].verdict)
  BY <1>1 DEF Moved
<1>3. [worker[w] EXCEPT !.at = at, !.verdict = verdict] =
        [Moved(worker[w], at, worker[w].verdict) EXCEPT !.verdict = verdict]
  BY <1>2
<1> QED
  BY <1>3 DEF Moved

(* A worker whose save failed saves a failure instead of a success, or its  *)
(* task has ended.                                                          *)
LEMMA SaveFailsTo ==
  ASSUME TypeOK, NEW w \in Workers, SaveFails(w)
  PROVE  \E at \in {"read", "again", "done"}, verdict \in ParseStates :
           /\ worker' = [worker EXCEPT ![w] = Moved(worker[w], at, verdict)]
           /\ at = "read" => verdict \in Failure(worker[w].attempt)
<1>1. worker[w].attempt \in Attempts /\ worker[w].verdict \in ParseStates
  BY WorkerTyped DEF SaveFails, Free
<1>2. CASE worker[w].verdict = "succeeded"
  <2>1. PICK next \in Instead(worker[w]) : worker' = [worker EXCEPT ![w] = next]
    BY <1>2 DEF SaveFails
  <2>2. PICK verdict \in Failure(worker[w].attempt) :
          next = Moved(worker[w], "read", verdict)
    BY <2>1 DEF Instead, At, Moved
  <2> QED
    BY <1>1, <2>1, <2>2, FailureTyped
<1>3. CASE worker[w].verdict # "succeeded"
  <2>1. PICK at \in {"again", "done"} : worker' = [worker EXCEPT ![w] = At(worker[w], at)]
    BY <1>3 DEF SaveFails
  <2>2. At(worker[w], at) = Moved(worker[w], at, worker[w].verdict)
    BY DEF At, Moved
  <2> QED
    BY <1>1, <2>1, <2>2
<1> QED
  BY <1>2, <1>3

(* Every step keeps the types.                                              *)
LEMMA TypeStep ==
  ASSUME TypeOK, WorkersInv, Next
  PROVE  TypeOK'
<1>1. ASSUME NEW r \in Requests, NEW a \in Ids, Delete(r, a)
      PROVE  TypeOK'
  BY <1>1 DEF Delete, TypeOK, Request, Serve, Listed, Exists, Rows, Absent, workerVars
<1>2. ASSUME NEW r \in Requests, NEW c \in Contents, Upload(r, c)
      PROVE  TypeOK'
  BY <1>2 DEF Upload, TypeOK, Request, Serve, Unused, workerVars
<1>3. ASSUME NEW a \in Ids, NEW k \in Keys, Parse(a, k)
      PROVE  TypeOK'
  BY <1>3, LimitsAssumption DEF Parse, TypeOK, Send, Messages, Attempts, requestVars
<1>4. ASSUME NEW r \in Requests, Measure(r)
      PROVE  TypeOK'
  <2>1. req' \in [Requests -> Request]
    <3>1. CASE HasRoom(Cardinality(Live))
      <4>1. req' = [req EXCEPT ![r].at = "put"]
        BY <1>4, <3>1 DEF Measure
      <4> QED
        BY <1>4, <4>1, RequestMoves DEF Measure, Uploading
    <3>2. CASE ~HasRoom(Cardinality(Live))
      BY <1>4, <3>2 DEF Measure, TypeOK, Request
    <3> QED
      BY <3>1, <3>2
  <2> QED
    BY <1>4, <2>1 DEF Measure, TypeOK, workerVars
<1>5. ASSUME NEW r \in Requests, Put(r)
      PROVE  TypeOK'
  <2>1. req' \in [Requests -> Request] /\ req[r].id \in Ids
    BY <1>5, RequestMoves, RequestTyped DEF Put, Uploading
  <2> QED
    BY <1>5, <2>1 DEF Put, TypeOK, workerVars
<1>6. ASSUME NEW r \in Requests, Insert(r)
      PROVE  TypeOK'
  BY <1>6 DEF Insert, TypeOK, Request, NoRequest, Rows, Record, ParseStates, None, workerVars
<1>7. ASSUME NEW r \in Requests, InsertFails(r)
      PROVE  TypeOK'
  <2>1. req' \in [Requests -> Request]
    BY <1>7, RequestMoves DEF InsertFails, Uploading
  <2> QED
    BY <1>7, <2>1 DEF InsertFails, TypeOK, workerVars
<1>8. ASSUME NEW r \in Requests, Cleanup(r)
      PROVE  TypeOK'
  BY <1>8 DEF Cleanup, TypeOK, Request, Removed, workerVars
<1>9. ASSUME NEW r \in Requests, Mark(r)
      PROVE  TypeOK'
  BY <1>9 DEF Mark, TypeOK, Request, Rows, Record, NoRequest, Marked, workerVars
<1>10. ASSUME NEW r \in Requests, Remove(r)
      PROVE  TypeOK'
  BY <1>10 DEF Remove, TypeOK, Request, Removed, workerVars
<1>11. ASSUME NEW r \in Requests, Unmark(r)
      PROVE  TypeOK'
  <2>1. req[r].seen \in Record
    BY <1>11, RequestTyped DEF Unmark, Deleting
  <2>2. [req[r].seen EXCEPT !.storage = "failed"] \in Rows
    BY <2>1 DEF Rows, Record
  <2> QED
    BY <1>11, <2>2 DEF Unmark, TypeOK, Request, workerVars
<1>12. ASSUME NEW r \in Requests, PutFails(r)
      PROVE  TypeOK'
  BY <1>12 DEF PutFails, TypeOK, Request, NoRequest, workerVars
<1>13. ASSUME NEW r \in Requests, CleanupFails(r)
      PROVE  TypeOK'
  BY <1>13 DEF CleanupFails, TypeOK, Request, NoRequest, workerVars
<1>14. ASSUME NEW r \in Requests, RemoveFails(r)
      PROVE  TypeOK'
  <2>1. req' \in [Requests -> Request] /\ req[r].id \in Ids
    BY <1>14, RequestMoves, RequestTyped DEF RemoveFails, Deleting
  <2> QED
    BY <1>14, <2>1 DEF RemoveFails, TypeOK, workerVars
<1>15. ASSUME NEW r \in Requests, Stop(r)
      PROVE  TypeOK'
  BY <1>15 DEF Stop, TypeOK, Request, workerVars
<1>16. ASSUME NEW w \in Workers, NEW m \in Messages, Take(w, m)
      PROVE  TypeOK'
  <2>1. m[1] \in Ids /\ m[2] \in Keys /\ m[3] \in Attempts
    BY DEF Messages
  <2>2. messages' \in [Messages -> Nat]
    BY <1>16 DEF Take, TypeOK
  <2>3. [at |-> "recognise", id |-> m[1], key |-> m[2], attempt |-> m[3], verdict |-> "pending"]
          \in Worker
    BY <2>1 DEF Worker, ParseStates
  <2>4. worker' \in [Workers -> Worker]
    BY <1>16, <2>3 DEF Take, TypeOK
  <2> QED
    BY <1>16, <2>2, <2>4 DEF Take, TypeOK, requestVars
<1>17. ASSUME NEW w \in Workers, NEW m \in Messages, TakeUncached(w, m)
      PROVE  TypeOK'
  BY <1>17 DEF TakeUncached, TypeOK, Worker, Messages, ParseStates, requestVars
<1>18. ASSUME NEW w \in Workers, Recognise(w)
      PROVE  TypeOK'
  <2>1. worker[w] # Free /\ worker[w].attempt \in Attempts /\ Parsing(w)
    BY <1>18, WorkerTyped DEF Recognise, Parsing, Free
  <2>2. PICK verdict \in Failure(worker[w].attempt) \cup {"succeeded"} :
          worker' = [worker EXCEPT ![w] = [@ EXCEPT !.at = "read", !.verdict = verdict]]
    BY <1>18 DEF Recognise
  <2>3. verdict \in ParseStates
    BY <2>1, FailureTyped DEF ParseStates, Terminal
  <2>4. worker' = [worker EXCEPT ![w] = Moved(worker[w], "read", verdict)]
    <3>1. [worker[w] EXCEPT !.at = "read", !.verdict = verdict] =
            Moved(worker[w], "read", verdict)
      BY <2>1, WorkerDecides
    <3> QED
      BY <2>2, <3>1
  <2>5. worker' \in [Workers -> Worker]
    BY <2>1, <2>3, <2>4, WorkerMoves
  <2> QED
    BY <1>18, <2>5 DEF Recognise, TypeOK, requestVars
<1>19. ASSUME NEW w \in Workers, Read(w)
      PROVE  TypeOK'
  BY <1>19 DEF Read, TypeOK, WorkersInv, Worker, Free, Exists, Rows, Absent, requestVars
<1>20. ASSUME NEW w \in Workers, Write(w)
      PROVE  TypeOK'
  <2>1. /\ worker[w] # Free /\ worker[w].id \in Ids /\ worker[w].key \in Keys
        /\ worker[w].verdict \in ParseStates /\ worker[w].seen \in Record
    BY <1>20, WorkerTyped DEF Write, Free
  <2>2. [worker[w].seen EXCEPT !.parse = worker[w].verdict, !.key = worker[w].key] \in Rows
    BY <2>1 DEF Rows, Record
  <2>3. row' \in [Ids -> Rows]
    BY <1>20, <2>1, <2>2 DEF Write, TypeOK
  <2>4. results' \subseteq Ids \X Keys /\ stale' \subseteq Ids
    BY <1>20, <2>1 DEF Write, TypeOK, AppendResult
  <2>5. worker' = [worker EXCEPT ![w] = Moved(worker[w], "cache", worker[w].verdict)]
    BY <1>20 DEF Write, At, Moved
  <2>6. worker' \in [Workers -> Worker]
    BY <2>1, <2>5, WorkerMoves
  <2> QED
    BY <1>20, <2>3, <2>4, <2>6 DEF Write, TypeOK, requestVars
<1>21. ASSUME NEW w \in Workers, SaveFails(w)
      PROVE  TypeOK'
  <2>1. /\ worker[w] # Free /\ worker[w].attempt \in Attempts
        /\ worker[w].verdict \in ParseStates
    BY <1>21, WorkerTyped DEF SaveFails, Free
  <2>2. PICK at \in {"read", "again", "done"}, verdict \in ParseStates :
          worker' = [worker EXCEPT ![w] = Moved(worker[w], at, verdict)]
    BY <1>21, SaveFailsTo
  <2>3. worker' \in [Workers -> Worker]
    BY <2>1, <2>2, WorkerMoves
  <2> QED
    BY <1>21, <2>3 DEF SaveFails, TypeOK, requestVars
<1>22. ASSUME NEW w \in Workers, SetCache(w)
      PROVE  TypeOK'
  BY <1>22 DEF SetCache, TypeOK, Worker, Free, AfterCache, requestVars, Terminal, ParseStates
<1>23. ASSUME NEW w \in Workers, Again(w)
      PROVE  TypeOK'
  <2>1. /\ worker[w] # Free /\ worker[w].id \in Ids /\ worker[w].key \in Keys
        /\ worker[w].attempt \in Attempts /\ worker[w].verdict \in ParseStates
        /\ Parsing(w)
    BY <1>23, WorkerTyped DEF Again, Free, Parsing
  <2>2. worker' = [worker EXCEPT ![w] = Moved(worker[w], "done", worker[w].verdict)]
    BY <1>23, <2>1, WorkerSets DEF Again
  <2>3. worker' \in [Workers -> Worker]
    BY <2>1, <2>2, WorkerMoves
  <2>4. messages' \in [Messages -> Nat]
    <3>1. CASE worker[w].attempt < MaxRetries
      <4>1. <<worker[w].id, worker[w].key, worker[w].attempt + 1>> \in Messages
        BY <2>1, <3>1, LimitsAssumption DEF Messages, Attempts
      <4>2. messages' = [messages EXCEPT
                 ![<<worker[w].id, worker[w].key, worker[w].attempt + 1>>] = @ + 1]
        BY <1>23, <3>1 DEF Again, Send
      <4> QED
        BY <4>1, <4>2 DEF TypeOK
    <3>2. CASE ~(worker[w].attempt < MaxRetries)
      BY <1>23, <3>2 DEF Again, TypeOK
    <3> QED
      BY <3>1, <3>2
  <2> QED
    BY <1>23, <2>3, <2>4 DEF Again, TypeOK, requestVars
<1>24. ASSUME NEW w \in Workers, Acknowledge(w)
      PROVE  TypeOK'
  BY <1>24 DEF Acknowledge, TypeOK, Worker, requestVars
<1>25. ASSUME NEW w \in Workers, Crash(w)
      PROVE  TypeOK'
  BY <1>25 DEF Crash, Dies, TypeOK, Worker, Send, Messages, requestVars
<1>26. ASSUME NEW w \in Workers, Killed(w)
      PROVE  TypeOK'
  <2>1. worker[w].at # "done" => worker[w].id \in Ids /\ worker[w].key \in Keys
    BY <1>26, WorkerTyped DEF Killed, Dies, TypeOK, Worker, Free
  <2> QED
    BY <1>26, <2>1 DEF Killed, Dies, TypeOK, Worker, requestVars
<1> QED
  BY <1>1, <1>2, <1>3, <1>4, <1>5, <1>6, <1>7, <1>8, <1>9, <1>10, <1>11, <1>12, <1>13, <1>14,
     <1>15, <1>16, <1>17, <1>18, <1>19, <1>20, <1>21, <1>22, <1>23, <1>24, <1>25, <1>26
  DEF Next, RequestStep, WorkerStep, Fault

(***************************************************************************)
(* Rows.                                                                   *)
(***************************************************************************)
(* Steps of requests, and of workers and of what is sent to them.          *)
RequestNext ==
  \/ \E r \in Requests, a \in Ids : Delete(r, a)
  \/ \E r \in Requests, c \in Contents : Upload(r, c)
  \/ \E r \in Requests : RequestStep(r)
  \/ \E r \in Requests : PutFails(r) \/ CleanupFails(r) \/ RemoveFails(r) \/ Stop(r)

WorkerNext(w) ==
  \/ WorkerStep(w) \/ SaveFails(w) \/ Crash(w) \/ Killed(w)
  \/ \E m \in Messages : TakeUncached(w, m)

(* A row that exists is never taken out of the table, and keeps its file.   *)
LEMMA RowsKept ==
  ASSUME Inv, Next, NEW a \in Ids
  PROVE  /\ Exists(a) => row'[a].storage # "absent"
         /\ Exists(a) => row'[a].content = row[a].content
<1> USE DEF Inv, RequestsInv, ParsesInv
<1>1. ASSUME NEW r \in Requests, Insert(r)
      PROVE  Exists(a) => row'[a] = row[a]
  <2>1. ~Exists(req[r].id)
    BY <1>1 DEF Insert, UploadsFresh, Uploading
  <2> QED
    BY <1>1, <2>1 DEF Insert, TypeOK
<1>2. ASSUME NEW r \in Requests, Mark(r) \/ Unmark(r), a = req[r].id
      PROVE  row'[a].storage # "absent" /\ row'[a].content = row[a].content
  <2>1. req[r].seen \in Record /\ req[r].seen.content = row[a].content
    BY <1>2, RequestTyped DEF Mark, Unmark, Deleting, DeletionsRead
  <2> QED
    BY <1>2, <2>1 DEF Mark, Unmark, Marked, TypeOK, Record
<1>3. ASSUME NEW r \in Requests, Mark(r) \/ Unmark(r), a # req[r].id
      PROVE  row'[a] = row[a]
  BY <1>3 DEF Mark, Unmark, TypeOK
<1>4. ASSUME NEW w \in Workers, Write(w), a = worker[w].id
      PROVE  row'[a].storage # "absent" /\ row'[a].content = row[a].content
  <2>1. worker[w].seen \in Record /\ worker[w].seen.content = row[a].content
    BY <1>4, WorkerTyped DEF Write, WorkersInv
  <2> QED
    BY <1>4, <2>1 DEF Write, TypeOK, Record
<1>5. ASSUME NEW w \in Workers, Write(w), a # worker[w].id
      PROVE  row'[a] = row[a]
  BY <1>5 DEF Write, TypeOK
<1>6. CASE UNCHANGED row
  BY <1>6 DEF Exists
<1>7. \/ UNCHANGED row
      \/ \E r \in Requests : Insert(r) \/ Mark(r) \/ Unmark(r)
      \/ \E w \in Workers : Write(w)
  BY
  DEF Next, RequestStep, WorkerStep, Fault, Delete, Upload, Parse, Measure, Put, InsertFails,
     Cleanup,
     Remove, PutFails, CleanupFails, RemoveFails, Stop, Take, TakeUncached, Recognise, Read, SaveFails,
     SetCache, Again, Acknowledge, Crash, Killed
<1> QED
  BY <1>1, <1>2, <1>3, <1>4, <1>5, <1>6, <1>7 DEF Exists


(***************************************************************************)
(* Requests, and the rows and objects they write.                          *)
(***************************************************************************)
LEMMA RequestsStep ==
  ASSUME Inv, TypeOK', RequestNext
  PROVE  RequestsInv' /\ RowsInv' /\ ParsesInv'
<1> USE DEF Inv, RequestsInv, RowsInv, ParsesInv
<1>0. \A a \in Ids : Exists(a) => row'[a].storage # "absent" /\ row'[a].content = row[a].content
  BY RowsKept DEF Next, RequestNext, Fault
<1>1. ASSUME NEW r \in Requests, NEW a \in Ids, Delete(r, a)
      PROVE  RequestsInv' /\ RowsInv' /\ ParsesInv'
  <2>1. req[r].at = "idle" /\ Exists(a)
    BY <1>1 DEF Delete, Serve, NoRequest, Listed
  <2>2. /\ req'[r].at = "mark" /\ req'[r].id = a /\ req'[r].seen = row[a]
        /\ \A q \in Requests \ {r} : req'[q] = req[q]
    BY <1>1 DEF Delete, Serve, TypeOK
  <2>3. UploadsFresh' /\ UploadsApart' /\ UploadsPut'
    BY <1>1, <2>1, <2>2
    DEF Delete, UploadsFresh, UploadsApart, UploadsPut, Uploading, Deleting, Exists, workerVars
  <2>4. DeletionsRead' /\ DeletionsParsed' /\ DeletionsMark' /\ DeletionsFail'
    BY <1>1, <2>1, <2>2
   
    DEF Delete, DeletionsRead, DeletionsParsed, DeletionsMark, DeletionsFail, Uploading, Deleting,
       Exists, workerVars, SuccessHasResult
  <2>5. ContentOnce' /\ StoredHasObject' /\ SuccessHasResult'
    BY <1>1, <2>1, <2>2
   
    DEF Delete, ContentOnce, StoredHasObject, SuccessHasResult, Uploading, Deleting, Exists,
       workerVars, TypeOK
  <2>6. WorkersInv' /\ VerdictsInv'
    BY <1>0, <1>1, WorkerTyped
    DEF Delete, WorkersInv, VerdictsInv, workerVars, Exists, Messages, Free
  <2>7. FailuresInv'
    BY <1>1, <2>1, <2>2
    DEF Delete, FailuresInv, Carried, Live, Listed, Exists, workerVars
  <2>8. ObjectsInv'
    BY <1>1, <2>1, <2>2, WorkerTyped
    DEF Delete, ObjectsInv, Owned, Listed, Exists, workerVars
  <2> QED
    BY <2>3, <2>4, <2>5, <2>6, <2>7, <2>8
<1>2. ASSUME NEW r \in Requests, NEW c \in Contents, Upload(r, c)
      PROVE  RequestsInv' /\ RowsInv' /\ ParsesInv'
  <2>1. req[r].at = "idle"
    BY <1>2 DEF Upload, Serve, NoRequest
  <2>2. PICK x \in Unused : req' = [req EXCEPT ![r] = [at |-> "measure", id |-> x, content |-> c]]
    BY <1>2 DEF Upload, Serve
  <2>3. /\ req'[r].at = "measure" /\ req'[r].id = x
        /\ \A q \in Requests \ {r} : req'[q] = req[q]
    BY <2>2 DEF TypeOK
  <2>4. ~Exists(x) /\ \A q \in Requests : req[q].at # "idle" => req[q].id # x
    BY <2>2, RequestTyped DEF Unused, InFlight
  <2>5. UploadsFresh' /\ UploadsApart' /\ UploadsPut'
    BY <1>2, <2>1, <2>2, <2>3, <2>4
    DEF Upload, UploadsFresh, UploadsApart, UploadsPut, Uploading, Deleting, Exists, workerVars
  <2>6. DeletionsRead' /\ DeletionsParsed' /\ DeletionsMark' /\ DeletionsFail'
    BY <1>2, <2>1, <2>2, <2>3, <2>4
   
    DEF Upload, DeletionsRead, DeletionsParsed, DeletionsMark, DeletionsFail, Uploading, Deleting,
       Exists, workerVars
  <2>7. ContentOnce' /\ StoredHasObject' /\ SuccessHasResult'
    BY <1>2, <2>1, <2>2, <2>3, <2>4
   
    DEF Upload, ContentOnce, StoredHasObject, SuccessHasResult, Uploading, Deleting, Exists,
       workerVars, TypeOK
  <2>8. WorkersInv' /\ VerdictsInv'
    BY <1>0, <1>2, WorkerTyped
    DEF Upload, WorkersInv, VerdictsInv, workerVars, Exists, Messages, Free
  <2>9. FailuresInv'
    BY <1>2, <2>1, <2>2, <2>3, <2>4
    DEF Upload, FailuresInv, Carried, Live, Listed, Exists, workerVars
  <2>10. ObjectsInv'
    BY <1>2, <2>1, <2>2, <2>3, <2>4, WorkerTyped
    DEF Upload, ObjectsInv, Owned, Listed, Exists, workerVars
  <2> QED
    BY <2>5, <2>6, <2>7, <2>8, <2>9, <2>10
<1>3. ASSUME NEW r \in Requests, Measure(r)
      PROVE  RequestsInv' /\ RowsInv' /\ ParsesInv'
  <2>1. Uploading(r)
    BY <1>3 DEF Measure, Uploading
  <2>2. /\ req'[r].at \in {"put", "idle"} /\ (req'[r].at = "put" => req'[r].id = req[r].id)
        /\ \A q \in Requests \ {r} : req'[q] = req[q]
    <3>1. CASE HasRoom(Cardinality(Live))
      <4>1. req' = [req EXCEPT ![r].at = "put"]
        BY <1>3, <3>1 DEF Measure
      <4> QED
        BY <2>1, <4>1, RequestMoves
    <3>2. CASE ~HasRoom(Cardinality(Live))
      BY <1>3, <3>2 DEF Measure, TypeOK, NoRequest
    <3> QED
      BY <3>1, <3>2
  <2>3. UploadsFresh' /\ UploadsApart' /\ UploadsPut'
    BY <1>3, <2>1, <2>2
    DEF Measure, UploadsFresh, UploadsApart, UploadsPut, Uploading, Deleting, Exists, workerVars
  <2>4. DeletionsRead' /\ DeletionsParsed' /\ DeletionsMark' /\ DeletionsFail'
    BY <1>3, <2>1, <2>2
   
    DEF Measure, DeletionsRead, DeletionsParsed, DeletionsMark, DeletionsFail, Uploading,
       Deleting, Exists, workerVars
  <2>5. ContentOnce' /\ StoredHasObject' /\ SuccessHasResult'
    BY <1>3, <2>1, <2>2
   
    DEF Measure, ContentOnce, StoredHasObject, SuccessHasResult, Uploading, Deleting, Exists,
       workerVars, TypeOK
  <2>6. WorkersInv' /\ VerdictsInv'
    BY <1>0, <1>3, WorkerTyped
    DEF Measure, WorkersInv, VerdictsInv, workerVars, Exists, Messages, Free
  <2>7. FailuresInv'
    BY <1>3, <2>1, <2>2
    DEF Measure, FailuresInv, Carried, Live, Listed, Exists, workerVars
  <2>8. ObjectsInv'
    BY <1>3, <2>1, <2>2, WorkerTyped
    DEF Measure, ObjectsInv, Owned, Listed, Exists, workerVars
  <2> QED
    BY <2>3, <2>4, <2>5, <2>6, <2>7, <2>8
<1>4. ASSUME NEW r \in Requests, Put(r)
      PROVE  RequestsInv' /\ RowsInv' /\ ParsesInv'
  <2>1. Uploading(r)
    BY <1>4 DEF Put, Uploading
  <2>2. /\ req'[r].at = "insert" /\ req'[r].id = req[r].id
        /\ \A q \in Requests \ {r} : req'[q] = req[q]
    BY <1>4, <2>1, RequestMoves DEF Put, Uploading, Deleting
  <2>3. UploadsFresh' /\ UploadsApart' /\ UploadsPut'
    BY <1>4, <2>1, <2>2
    DEF Put, UploadsFresh, UploadsApart, UploadsPut, Uploading, Deleting, Exists, workerVars
  <2>4. DeletionsRead' /\ DeletionsParsed' /\ DeletionsMark' /\ DeletionsFail'
    BY <1>4, <2>1, <2>2
   
    DEF Put, DeletionsRead, DeletionsParsed, DeletionsMark, DeletionsFail, Uploading, Deleting,
       Exists, workerVars
  <2>5. ContentOnce' /\ StoredHasObject' /\ SuccessHasResult'
    BY <1>4, <2>1, <2>2
   
    DEF Put, ContentOnce, StoredHasObject, SuccessHasResult, Uploading, Deleting, Exists,
       workerVars, TypeOK
  <2>6. WorkersInv' /\ VerdictsInv'
    BY <1>0, <1>4, WorkerTyped DEF Put, WorkersInv, VerdictsInv, workerVars, Exists, Messages, Free
  <2>7. FailuresInv'
    BY <1>4, <2>1, <2>2
    DEF Put, FailuresInv, Carried, Live, Listed, Exists, workerVars
  <2>8. ObjectsInv'
    BY <1>4, <2>1, <2>2, WorkerTyped
    DEF Put, ObjectsInv, Owned, Listed, Exists, workerVars
  <2> QED
    BY <2>3, <2>4, <2>5, <2>6, <2>7, <2>8
<1>5. ASSUME NEW r \in Requests, Insert(r)
      PROVE  RequestsInv' /\ RowsInv' /\ ParsesInv'
  <2>1. req[r].at # "idle"
    BY <1>5, RequestTyped DEF Insert, NoRequest
  <2>2. /\ req'[r].at = "idle"
        /\ \A q \in Requests \ {r} : req'[q] = req[q]
    BY <1>5 DEF Insert, TypeOK, NoRequest
  <2>3. /\ req[r].id \in Ids
        /\ row'[req[r].id] = [content |-> req[r].content, storage |-> "stored",
                              parse |-> "pending", key |-> None]
        /\ \A a \in Ids \ {req[r].id} : row'[a] = row[a]
        /\ ~Exists(req[r].id) /\ req[r].id \in objects
    BY <1>5, <2>1, RequestTyped DEF Insert, TypeOK, UploadsFresh, UploadsPut, Uploading, NoRequest
  <2>4. UploadsFresh' /\ UploadsApart' /\ UploadsPut'
    BY <1>5, <2>1, <2>2, <2>3
    DEF Insert, UploadsFresh, UploadsApart, UploadsPut, Uploading, Deleting, Exists, workerVars
  <2>5. DeletionsRead' /\ DeletionsParsed' /\ DeletionsMark' /\ DeletionsFail'
    BY <1>5, <2>1, <2>2, <2>3
   
    DEF Insert, DeletionsRead, DeletionsParsed, DeletionsMark, DeletionsFail, Uploading, Deleting,
       Exists, workerVars, UploadsFresh
  <2>6. ContentOnce' /\ StoredHasObject' /\ SuccessHasResult'
    BY <1>5, <2>1, <2>2, <2>3
   
    DEF Insert, ContentOnce, StoredHasObject, SuccessHasResult, Uploading, Deleting, Exists,
       workerVars, TypeOK, Unique
  <2>7. WorkersInv' /\ VerdictsInv'
    BY <1>0, <1>5, WorkerTyped
    DEF Insert, WorkersInv, VerdictsInv, workerVars, Exists, Messages, Free
  <2>8. FailuresInv'
    <3>1. UNCHANGED <<messages, worker, cache, stale, faulty, lost, leaked>>
      BY <1>5 DEF Insert, workerVars
    <3>2. ASSUME NEW a \in (Live \ (leaked \cup stale))', NEW k \in Keys,
                 row'[a].parse \in {"failed", "queued"}, row'[a].key = k, ~faulty',
                 <<a, k>> \notin lost'
          PROVE  Carried(a, k)' \/ cache'[<<a, k>>] \in Terminal
      <4>1. a \in Ids /\ a # req[r].id /\ row'[a] = row[a]
        BY <2>3, <3>2 DEF Live
      <4>2. Carried(a, k) \/ cache[<<a, k>>] \in Terminal
        BY <3>1, <3>2, <4>1 DEF FailuresInv, Live, Listed, Exists
      <4> QED
        BY <3>1, <4>2 DEF Carried
    <3> QED
      BY <3>2 DEF FailuresInv
  <2>9. ObjectsInv'
    BY <1>5, <2>1, <2>2, <2>3, WorkerTyped
    DEF Insert, ObjectsInv, Owned, Listed, Exists, workerVars, WorkersInv
  <2> QED
    BY <2>4, <2>5, <2>6, <2>7, <2>8, <2>9
<1>6. ASSUME NEW r \in Requests, InsertFails(r)
      PROVE  RequestsInv' /\ RowsInv' /\ ParsesInv'
  <2>1. Uploading(r)
    BY <1>6 DEF InsertFails, Uploading
  <2>2. /\ req'[r].at = "cleanup" /\ req'[r].id = req[r].id
        /\ \A q \in Requests \ {r} : req'[q] = req[q]
    BY <1>6, <2>1, RequestMoves DEF InsertFails, Uploading, Deleting
  <2>3. UploadsFresh' /\ UploadsApart' /\ UploadsPut'
    BY <1>6, <2>1, <2>2
    DEF InsertFails, UploadsFresh, UploadsApart, UploadsPut, Uploading, Deleting, Exists, workerVars
  <2>4. DeletionsRead' /\ DeletionsParsed' /\ DeletionsMark' /\ DeletionsFail'
    BY <1>6, <2>1, <2>2
   
    DEF InsertFails, DeletionsRead, DeletionsParsed, DeletionsMark, DeletionsFail, Uploading,
       Deleting, Exists, workerVars
  <2>5. ContentOnce' /\ StoredHasObject' /\ SuccessHasResult'
    BY <1>6, <2>1, <2>2
   
    DEF InsertFails, ContentOnce, StoredHasObject, SuccessHasResult, Uploading, Deleting, Exists,
       workerVars, TypeOK
  <2>6. WorkersInv' /\ VerdictsInv'
    BY <1>0, <1>6, WorkerTyped
    DEF InsertFails, WorkersInv, VerdictsInv, workerVars, Exists, Messages, Free
  <2>7. FailuresInv'
    BY <1>6, <2>1, <2>2
    DEF InsertFails, FailuresInv, Carried, Live, Listed, Exists, workerVars
  <2>8. ObjectsInv'
    BY <1>6, <2>1, <2>2, WorkerTyped
    DEF InsertFails, ObjectsInv, Owned, Listed, Exists, workerVars
  <2> QED
    BY <2>3, <2>4, <2>5, <2>6, <2>7, <2>8
<1>7. ASSUME NEW r \in Requests, Cleanup(r)
      PROVE  RequestsInv' /\ RowsInv' /\ ParsesInv'
  <2>1. req[r].at # "idle"
    BY <1>7, RequestTyped DEF Cleanup, NoRequest
  <2>2. /\ req'[r].at = "idle"
        /\ \A q \in Requests \ {r} : req'[q] = req[q]
    BY <1>7 DEF Cleanup, TypeOK, NoRequest
  <2>3. UploadsFresh' /\ UploadsApart' /\ UploadsPut'
    BY <1>7, <2>1, <2>2
   
    DEF Cleanup, UploadsFresh, UploadsApart, UploadsPut, Uploading, Deleting, Exists, workerVars,
       Removed, DeletionsRead
  <2>4. DeletionsRead' /\ DeletionsParsed' /\ DeletionsMark' /\ DeletionsFail'
    BY <1>7, <2>1, <2>2
   
    DEF Cleanup, DeletionsRead, DeletionsParsed, DeletionsMark, DeletionsFail, Uploading,
       Deleting, Exists, workerVars, Removed
  <2>5. ContentOnce' /\ StoredHasObject' /\ SuccessHasResult'
    BY <1>7, <2>1, <2>2
   
    DEF Cleanup, ContentOnce, StoredHasObject, SuccessHasResult, Uploading, Deleting, Exists,
       workerVars, Removed, TypeOK, UploadsFresh
  <2>6. WorkersInv' /\ VerdictsInv'
    BY <1>0, <1>7, WorkerTyped
    DEF Cleanup, WorkersInv, VerdictsInv, workerVars, Exists, Messages, Free
  <2>7. FailuresInv'
    BY <1>7, <2>1, <2>2
    DEF Cleanup, FailuresInv, Carried, Live, Listed, Exists, workerVars
  <2>8. ObjectsInv'
    BY <1>7, <2>1, <2>2, WorkerTyped
    DEF Cleanup, ObjectsInv, Owned, Listed, Exists, workerVars, Removed
  <2> QED
    BY <2>3, <2>4, <2>5, <2>6, <2>7, <2>8
<1>8. ASSUME NEW r \in Requests, Mark(r)
      PROVE  RequestsInv' /\ RowsInv' /\ ParsesInv'
  <2>1. Deleting(r)
    BY <1>8 DEF Mark, Deleting
  <2>2. /\ req'[r].at = "remove" /\ req'[r].id = req[r].id /\ req'[r].seen = req[r].seen
        /\ \A q \in Requests \ {r} : req'[q] = req[q]
    BY <1>8, <2>1, RequestMoves DEF Mark, Uploading, Deleting
  <2>3. /\ req[r].id \in Ids /\ req[r].seen \in Record
        /\ row'[req[r].id] = [req[r].seen EXCEPT !.storage = "deleted"]
        /\ \A a \in Ids \ {req[r].id} : row'[a] = row[a]
    BY <1>8, <2>1, RequestTyped DEF Mark, Marked, TypeOK, Deleting, NoRequest
  <2>4. /\ row'[req[r].id].storage = "deleted" /\ row'[req[r].id].parse = req[r].seen.parse
        /\ row'[req[r].id].content = req[r].seen.content /\ row'[req[r].id].key = req[r].seen.key
    BY <2>3 DEF Record
  <2>5. UploadsFresh' /\ UploadsApart' /\ UploadsPut'
    BY <1>8, <2>1, <2>2, <2>3, <2>4
   
    DEF Mark, UploadsFresh, UploadsApart, UploadsPut, Uploading, Deleting, Exists, workerVars,
       Marked, DeletionsRead
  <2>6. DeletionsRead' /\ DeletionsParsed' /\ DeletionsMark' /\ DeletionsFail'
    BY <1>8, <2>1, <2>2, <2>3, <2>4
   
    DEF Mark, DeletionsRead, DeletionsParsed, DeletionsMark, DeletionsFail, Uploading, Deleting,
       Exists, workerVars, Marked
  <2>7. ContentOnce' /\ StoredHasObject' /\ SuccessHasResult'
    BY <1>8, <2>1, <2>2, <2>3, <2>4
   
    DEF Mark, ContentOnce, StoredHasObject, SuccessHasResult, Uploading, Deleting, Exists,
       workerVars, Marked, TypeOK, DeletionsRead, DeletionsParsed
  <2>8. WorkersInv' /\ VerdictsInv'
    BY <1>0, <1>8, WorkerTyped DEF Mark, WorkersInv, VerdictsInv, workerVars, Exists, Messages, Free
  <2>9. FailuresInv'
    BY <1>8, <2>1, <2>2, <2>3, <2>4
    DEF Mark, FailuresInv, Carried, Live, Listed, Exists, workerVars
  <2>10. ObjectsInv'
    BY <1>8, <2>1, <2>2, <2>3, <2>4, WorkerTyped
    DEF Mark, ObjectsInv, Owned, Listed, Exists, workerVars
  <2> QED
    BY <2>5, <2>6, <2>7, <2>8, <2>9, <2>10
<1>9. ASSUME NEW r \in Requests, Remove(r)
      PROVE  RequestsInv' /\ RowsInv' /\ ParsesInv'
  <2>1. req[r].at # "idle"
    BY <1>9, RequestTyped DEF Remove, NoRequest
  <2>2. /\ req'[r].at = "idle"
        /\ \A q \in Requests \ {r} : req'[q] = req[q]
    BY <1>9 DEF Remove, TypeOK, NoRequest
  <2>3. UploadsFresh' /\ UploadsApart' /\ UploadsPut'
    BY <1>9, <2>1, <2>2
   
    DEF Remove, UploadsFresh, UploadsApart, UploadsPut, Uploading, Deleting, Exists, workerVars,
       Removed, DeletionsRead
  <2>4. DeletionsRead' /\ DeletionsParsed' /\ DeletionsMark' /\ DeletionsFail'
    BY <1>9, <2>1, <2>2
   
    DEF Remove, DeletionsRead, DeletionsParsed, DeletionsMark, DeletionsFail, Uploading, Deleting,
       Exists, workerVars, Removed
  <2>5. ContentOnce' /\ StoredHasObject' /\ SuccessHasResult'
    BY <1>9, <2>1, <2>2
   
    DEF Remove, ContentOnce, StoredHasObject, SuccessHasResult, Uploading, Deleting, Exists,
       workerVars, Removed, TypeOK, DeletionsMark
  <2>6. WorkersInv' /\ VerdictsInv'
    BY <1>0, <1>9, WorkerTyped
    DEF Remove, WorkersInv, VerdictsInv, workerVars, Exists, Messages, Free
  <2>7. FailuresInv'
    BY <1>9, <2>1, <2>2
    DEF Remove, FailuresInv, Carried, Live, Listed, Exists, workerVars
  <2>8. ObjectsInv'
    BY <1>9, <2>1, <2>2, WorkerTyped
    DEF Remove, ObjectsInv, Owned, Listed, Exists, workerVars, Removed
  <2> QED
    BY <2>3, <2>4, <2>5, <2>6, <2>7, <2>8
<1>10. ASSUME NEW r \in Requests, Unmark(r)
      PROVE  RequestsInv' /\ RowsInv' /\ ParsesInv'
  <2>1. req[r].at # "idle"
    BY <1>10, RequestTyped DEF Unmark, NoRequest
  <2>2. /\ req'[r].at = "idle"
        /\ \A q \in Requests \ {r} : req'[q] = req[q]
    BY <1>10 DEF Unmark, TypeOK, NoRequest
  <2>3. /\ req[r].id \in Ids /\ req[r].seen \in Record
        /\ row'[req[r].id] = [req[r].seen EXCEPT !.storage = "failed"]
        /\ \A a \in Ids \ {req[r].id} : row'[a] = row[a]
    BY <1>10, <2>1, RequestTyped DEF Unmark, TypeOK, Deleting, NoRequest
  <2>4. /\ row'[req[r].id].storage = "failed" /\ row'[req[r].id].parse = req[r].seen.parse
        /\ row'[req[r].id].content = req[r].seen.content /\ row'[req[r].id].key = req[r].seen.key
    BY <2>3 DEF Record
  <2>5. UploadsFresh' /\ UploadsApart' /\ UploadsPut'
    BY <1>10, <2>1, <2>2, <2>3, <2>4
   
    DEF Unmark, UploadsFresh, UploadsApart, UploadsPut, Uploading, Deleting, Exists, workerVars,
       DeletionsRead
  <2>6. DeletionsRead' /\ DeletionsParsed' /\ DeletionsMark' /\ DeletionsFail'
    BY <1>10, <2>1, <2>2, <2>3, <2>4
   
    DEF Unmark, DeletionsRead, DeletionsParsed, DeletionsMark, DeletionsFail, Uploading, Deleting,
       Exists, workerVars
  <2>7. ContentOnce' /\ StoredHasObject' /\ SuccessHasResult'
    BY <1>10, <2>1, <2>2, <2>3, <2>4
   
    DEF Unmark, ContentOnce, StoredHasObject, SuccessHasResult, Uploading, Deleting, Exists,
       workerVars, TypeOK, DeletionsRead, DeletionsParsed
  <2>8. WorkersInv' /\ VerdictsInv'
    BY <1>0, <1>10, WorkerTyped
    DEF Unmark, WorkersInv, VerdictsInv, workerVars, Exists, Messages, Free
  <2>9. FailuresInv'
    BY <1>10, <2>1, <2>2, <2>3, <2>4
    DEF Unmark, FailuresInv, Carried, Live, Listed, Exists, workerVars, DeletionsFail
  <2>10. ObjectsInv'
    BY <1>10, <2>1, <2>2, <2>3, <2>4, WorkerTyped
    DEF Unmark, ObjectsInv, Owned, Listed, Exists, workerVars, DeletionsFail
  <2> QED
    BY <2>5, <2>6, <2>7, <2>8, <2>9, <2>10
<1>11. ASSUME NEW r \in Requests, PutFails(r)
      PROVE  RequestsInv' /\ RowsInv' /\ ParsesInv'
  <2>1. req[r].at # "idle"
    BY <1>11, RequestTyped DEF PutFails, NoRequest
  <2>2. /\ req'[r].at = "idle"
        /\ \A q \in Requests \ {r} : req'[q] = req[q]
    BY <1>11 DEF PutFails, TypeOK, NoRequest
  <2>3. UploadsFresh' /\ UploadsApart' /\ UploadsPut'
    BY <1>11, <2>1, <2>2
    DEF PutFails, UploadsFresh, UploadsApart, UploadsPut, Uploading, Deleting, Exists, workerVars
  <2>4. DeletionsRead' /\ DeletionsParsed' /\ DeletionsMark' /\ DeletionsFail'
    BY <1>11, <2>1, <2>2
   
    DEF PutFails, DeletionsRead, DeletionsParsed, DeletionsMark, DeletionsFail, Uploading,
       Deleting, Exists, workerVars
  <2>5. ContentOnce' /\ StoredHasObject' /\ SuccessHasResult'
    BY <1>11, <2>1, <2>2
   
    DEF PutFails, ContentOnce, StoredHasObject, SuccessHasResult, Uploading, Deleting, Exists,
       workerVars, TypeOK
  <2>6. WorkersInv' /\ VerdictsInv'
    BY <1>0, <1>11, WorkerTyped
    DEF PutFails, WorkersInv, VerdictsInv, workerVars, Exists, Messages, Free
  <2>7. FailuresInv'
    BY <1>11, <2>1, <2>2
    DEF PutFails, FailuresInv, Carried, Live, Listed, Exists, workerVars
  <2>8. ObjectsInv'
    BY <1>11, <2>1, <2>2, WorkerTyped
    DEF PutFails, ObjectsInv, Owned, Listed, Exists, workerVars
  <2> QED
    BY <2>3, <2>4, <2>5, <2>6, <2>7, <2>8
<1>12. ASSUME NEW r \in Requests, CleanupFails(r)
      PROVE  RequestsInv' /\ RowsInv' /\ ParsesInv'
  <2>1. req[r].at # "idle"
    BY <1>12, RequestTyped DEF CleanupFails, NoRequest
  <2>2. /\ req'[r].at = "idle"
        /\ \A q \in Requests \ {r} : req'[q] = req[q]
    BY <1>12 DEF CleanupFails, TypeOK, NoRequest
  <2>3. UploadsFresh' /\ UploadsApart' /\ UploadsPut'
    BY <1>12, <2>1, <2>2
   
    DEF CleanupFails, UploadsFresh, UploadsApart, UploadsPut, Uploading, Deleting, Exists,
       workerVars
  <2>4. DeletionsRead' /\ DeletionsParsed' /\ DeletionsMark' /\ DeletionsFail'
    BY <1>12, <2>1, <2>2
   
    DEF CleanupFails, DeletionsRead, DeletionsParsed, DeletionsMark, DeletionsFail, Uploading,
       Deleting, Exists, workerVars
  <2>5. ContentOnce' /\ StoredHasObject' /\ SuccessHasResult'
    BY <1>12, <2>1, <2>2
   
    DEF CleanupFails, ContentOnce, StoredHasObject, SuccessHasResult, Uploading, Deleting, Exists,
       workerVars, TypeOK
  <2>6. WorkersInv' /\ VerdictsInv'
    BY <1>0, <1>12, WorkerTyped
    DEF CleanupFails, WorkersInv, VerdictsInv, workerVars, Exists, Messages, Free
  <2>7. FailuresInv'
    BY <1>12, <2>1, <2>2
    DEF CleanupFails, FailuresInv, Carried, Live, Listed, Exists, workerVars
  <2>8. ObjectsInv'
    BY <1>12, <2>1, <2>2, WorkerTyped
    DEF CleanupFails, ObjectsInv, Owned, Listed, Exists, workerVars
  <2> QED
    BY <2>3, <2>4, <2>5, <2>6, <2>7, <2>8
<1>13. ASSUME NEW r \in Requests, RemoveFails(r)
      PROVE  RequestsInv' /\ RowsInv' /\ ParsesInv'
  <2>1. Deleting(r)
    BY <1>13 DEF RemoveFails, Deleting
  <2>2. /\ req'[r].at = "unmark" /\ req'[r].id = req[r].id /\ req'[r].seen = req[r].seen
        /\ \A q \in Requests \ {r} : req'[q] = req[q]
    BY <1>13, <2>1, RequestMoves DEF RemoveFails, Uploading, Deleting
  <2>3. UploadsFresh' /\ UploadsApart' /\ UploadsPut'
    BY <1>13, <2>1, <2>2
   
    DEF RemoveFails, UploadsFresh, UploadsApart, UploadsPut, Uploading, Deleting, Exists,
       workerVars, Removed, DeletionsRead
  <2>4. DeletionsRead' /\ DeletionsParsed' /\ DeletionsMark' /\ DeletionsFail'
    BY <1>13, <2>1, <2>2
   
    DEF RemoveFails, DeletionsRead, DeletionsParsed, DeletionsMark, DeletionsFail, Uploading,
       Deleting, Exists, workerVars, Removed
  <2>5. ContentOnce' /\ StoredHasObject' /\ SuccessHasResult'
    BY <1>13, <2>1, <2>2
   
    DEF RemoveFails, ContentOnce, StoredHasObject, SuccessHasResult, Uploading, Deleting, Exists,
       workerVars, Removed, TypeOK, DeletionsMark
  <2>6. WorkersInv' /\ VerdictsInv'
    BY <1>0, <1>13, WorkerTyped
    DEF RemoveFails, WorkersInv, VerdictsInv, workerVars, Exists, Messages, Free
  <2>7. FailuresInv'
    BY <1>13, <2>1, <2>2
    DEF RemoveFails, FailuresInv, Carried, Live, Listed, Exists, workerVars
  <2>8. ObjectsInv'
    BY <1>13, <2>1, <2>2, WorkerTyped
    DEF RemoveFails, ObjectsInv, Owned, Listed, Exists, workerVars, Removed
  <2> QED
    BY <2>3, <2>4, <2>5, <2>6, <2>7, <2>8
<1>14. ASSUME NEW r \in Requests, Stop(r)
      PROVE  RequestsInv' /\ RowsInv' /\ ParsesInv'
  <2>1. req[r].at # "idle"
    BY <1>14, RequestTyped DEF Stop, NoRequest
  <2>2. /\ req'[r].at = "idle"
        /\ \A q \in Requests \ {r} : req'[q] = req[q]
    BY <1>14 DEF Stop, TypeOK, NoRequest
  <2>3. UploadsFresh' /\ UploadsApart' /\ UploadsPut'
    BY <1>14, <2>1, <2>2
    DEF Stop, UploadsFresh, UploadsApart, UploadsPut, Uploading, Deleting, Exists, workerVars
  <2>4. DeletionsRead' /\ DeletionsParsed' /\ DeletionsMark' /\ DeletionsFail'
    BY <1>14, <2>1, <2>2
   
    DEF Stop, DeletionsRead, DeletionsParsed, DeletionsMark, DeletionsFail, Uploading, Deleting,
       Exists, workerVars
  <2>5. ContentOnce' /\ StoredHasObject' /\ SuccessHasResult'
    BY <1>14, <2>1, <2>2
   
    DEF Stop, ContentOnce, StoredHasObject, SuccessHasResult, Uploading, Deleting, Exists,
       workerVars, TypeOK
  <2>6. WorkersInv' /\ VerdictsInv'
    BY <1>0, <1>14, WorkerTyped
    DEF Stop, WorkersInv, VerdictsInv, workerVars, Exists, Messages, Free
  <2>7. FailuresInv'
    BY <1>14, <2>1, <2>2
    DEF Stop, FailuresInv, Carried, Live, Listed, Exists, workerVars
  <2>8. ObjectsInv'
    BY <1>14, <2>1, <2>2, WorkerTyped
    DEF Stop, ObjectsInv, Owned, Listed, Exists, workerVars
  <2> QED
    BY <2>3, <2>4, <2>5, <2>6, <2>7, <2>8
<1> QED
  BY <1>1, <1>2, <1>3, <1>4, <1>5, <1>6, <1>7, <1>8, <1>9, <1>10, <1>11, <1>12, <1>13, <1>14
  DEF RequestNext, RequestStep
(* Every step keeps what is known of the workers.                           *)
LEMMA WorkersStep ==
  ASSUME Inv, TypeOK', NEW w \in Workers, WorkerNext(w)
  PROVE  RequestsInv' /\ RowsInv' /\ ParsesInv'
<1> USE DEF Inv, RequestsInv, RowsInv, ParsesInv
<1>0. \A a \in Ids : Exists(a) => row'[a].storage # "absent" /\ row'[a].content = row[a].content
  BY RowsKept DEF Next, WorkerNext, Fault
<1>1. ASSUME NEW m \in Messages, Take(w, m)
      PROVE  RequestsInv' /\ RowsInv' /\ ParsesInv'
  <2>1. m[1] \in Ids /\ m[2] \in Keys /\ m[3] \in Attempts /\ m = <<m[1], m[2], m[3]>>
    BY DEF Messages
  <2>2. /\ messages[m] > 0 /\ worker[w].at = "idle"
        /\ \A l \in Messages \ {m} : messages'[l] = messages[l]
        /\ messages'[m] = messages[m] - 1 /\ messages[m] \in Nat
    BY <1>1 DEF Take, TypeOK, Free
  <2>3. /\ \A v \in Workers \ {w} : worker'[v] = worker[v]
        /\ \/ worker'[w] = worker[w] /\ cache[<<m[1], m[2]>>] \in Terminal
           \/ worker'[w].at = "recognise" /\ worker'[w].id = m[1] /\ worker'[w].key = m[2]
    BY <1>1 DEF Take, TypeOK
  <2>4. UNCHANGED <<row, results, cache, left, stale, faulty, lost, req, objects, leaked>>
    BY <1>1 DEF Take, requestVars
  <2>5. WorkersInv'
    BY <1>0, <2>1, <2>2, <2>3, <2>4, WorkerTyped DEF WorkersInv, Exists, Messages
  <2>6. VerdictsInv'
    BY <2>1, <2>2, <2>3, <2>4, WorkerTyped DEF VerdictsInv
  <2>7. ASSUME NEW a \in Ids, NEW k \in Keys, Carried(a, k)
        PROVE  Carried(a, k)' \/ cache[<<a, k>>] \in Terminal
    <3>1. CASE a = m[1] /\ k = m[2]
      BY <2>3, <3>1 DEF Carried
    <3>2. ASSUME NEW attempt \in Attempts, messages[<<a, k, attempt>>] > 0, ~(a = m[1] /\ k = m[2])
          PROVE  Carried(a, k)'
      <4>1. <<a, k, attempt>> \in Messages /\ <<a, k, attempt>> # m
        BY <2>1, <3>2 DEF Messages
      <4>2. messages'[<<a, k, attempt>>] > 0
        BY <2>2, <3>2, <4>1
      <4> QED
        BY <4>2 DEF Carried
    <3>3. ASSUME NEW v \in Workers,
                 worker[v].at \in {"recognise", "read", "write", "cache", "again"},
                 worker[v].id = a /\ worker[v].key = k,
                 worker[v].at = "cache" => worker[v].verdict \notin Terminal
          PROVE  Carried(a, k)'
      BY <2>2, <2>3, <3>3 DEF Carried
    <3> QED
      BY <2>7, <3>1, <3>2, <3>3 DEF Carried
  <2>8. FailuresInv'
    BY <2>4, <2>7 DEF FailuresInv, Live, Listed, Exists
  <2>9. ObjectsInv'
    BY <2>1, <2>2, <2>3, <2>4, WorkerTyped DEF ObjectsInv, Owned, Listed, Exists
  <2>10. RequestsInv' /\ ContentOnce' /\ StoredHasObject' /\ SuccessHasResult'
    BY <2>4
    DEF UploadsFresh, UploadsApart, UploadsPut, DeletionsRead, DeletionsParsed, DeletionsMark,
    DeletionsFail, Uploading, Deleting, ContentOnce, StoredHasObject, SuccessHasResult, Exists
  <2> QED
    BY <2>5, <2>6, <2>8, <2>9, <2>10
<1>2. ASSUME NEW m \in Messages, TakeUncached(w, m)
      PROVE  RequestsInv' /\ RowsInv' /\ ParsesInv'
  <2>1. m[1] \in Ids /\ m[2] \in Keys /\ m[3] \in Attempts /\ m = <<m[1], m[2], m[3]>>
    BY DEF Messages
  <2>2. /\ messages[m] > 0 /\ worker[w].at = "idle"
        /\ \A l \in Messages \ {m} : messages'[l] = messages[l]
        /\ messages'[m] = messages[m] - 1 /\ messages[m] \in Nat
    BY <1>2 DEF TakeUncached, TypeOK, Free
  <2>3. /\ \A v \in Workers \ {w} : worker'[v] = worker[v]
        /\ worker'[w].at = "recognise" /\ worker'[w].id = m[1] /\ worker'[w].key = m[2]
    BY <1>2 DEF TakeUncached, TypeOK
  <2>4. UNCHANGED <<row, results, cache, left, stale, faulty, lost, req, objects, leaked>>
    BY <1>2 DEF TakeUncached, requestVars
  <2>5. WorkersInv'
    BY <1>0, <2>1, <2>2, <2>3, <2>4, WorkerTyped DEF WorkersInv, Exists, Messages
  <2>6. VerdictsInv'
    BY <2>1, <2>2, <2>3, <2>4, WorkerTyped DEF VerdictsInv
  <2>7. ASSUME NEW a \in Ids, NEW k \in Keys, Carried(a, k)
        PROVE  Carried(a, k)' \/ cache[<<a, k>>] \in Terminal
    <3>1. CASE a = m[1] /\ k = m[2]
      BY <2>3, <3>1 DEF Carried
    <3>2. ASSUME NEW attempt \in Attempts, messages[<<a, k, attempt>>] > 0, ~(a = m[1] /\ k = m[2])
          PROVE  Carried(a, k)'
      <4>1. <<a, k, attempt>> \in Messages /\ <<a, k, attempt>> # m
        BY <2>1, <3>2 DEF Messages
      <4>2. messages'[<<a, k, attempt>>] > 0
        BY <2>2, <3>2, <4>1
      <4> QED
        BY <4>2 DEF Carried
    <3>3. ASSUME NEW v \in Workers,
                 worker[v].at \in {"recognise", "read", "write", "cache", "again"},
                 worker[v].id = a /\ worker[v].key = k,
                 worker[v].at = "cache" => worker[v].verdict \notin Terminal
          PROVE  Carried(a, k)'
      BY <2>2, <2>3, <3>3 DEF Carried
    <3> QED
      BY <2>7, <3>1, <3>2, <3>3 DEF Carried
  <2>8. FailuresInv'
    BY <2>4, <2>7 DEF FailuresInv, Live, Listed, Exists
  <2>9. ObjectsInv'
    BY <2>1, <2>2, <2>3, <2>4, WorkerTyped DEF ObjectsInv, Owned, Listed, Exists
  <2>10. RequestsInv' /\ ContentOnce' /\ StoredHasObject' /\ SuccessHasResult'
    BY <2>4
    DEF UploadsFresh, UploadsApart, UploadsPut, DeletionsRead, DeletionsParsed, DeletionsMark,
    DeletionsFail, Uploading, Deleting, ContentOnce, StoredHasObject, SuccessHasResult, Exists
  <2> QED
    BY <2>5, <2>6, <2>8, <2>9, <2>10
<1>3. ASSUME Recognise(w)
      PROVE  RequestsInv' /\ RowsInv' /\ ParsesInv'
  <2>1. worker[w].at = "recognise" /\ worker[w] # Free /\ Parsing(w)
        /\ worker[w].attempt \in Attempts
    BY <1>3, WorkerTyped DEF Recognise, Parsing, Free
  <2>2. PICK verdict \in Failure(worker[w].attempt) \cup {"succeeded"} :
          worker' = [worker EXCEPT ![w] = [@ EXCEPT !.at = "read", !.verdict = verdict]]
    BY <1>3 DEF Recognise
  <2>3. verdict \in ParseStates
    BY <2>1, FailureTyped DEF ParseStates, Terminal
  <2>4. [worker[w] EXCEPT !.at = "read", !.verdict = verdict] =
          Moved(worker[w], "read", verdict)
    BY <2>1, WorkerDecides
  <2>5. worker' = [worker EXCEPT ![w] = Moved(worker[w], "read", verdict)]
    BY <2>2, <2>4
  <2>6. /\ worker'[w].at = "read" /\ worker'[w].verdict = verdict
        /\ worker'[w].id = worker[w].id /\ worker'[w].key = worker[w].key
        /\ worker'[w].attempt = worker[w].attempt
        /\ \A v \in Workers \ {w} : worker'[v] = worker[v]
    BY <2>1, <2>3, <2>5, WorkerMoves
  <2>7. UNCHANGED <<row, results, messages, cache, left, stale, faulty, lost, req, objects, leaked>>
    BY <1>3 DEF Recognise, requestVars
  <2>8. WorkersInv'
    BY <1>0, <2>1, <2>2, <2>3, <2>4, <2>5, <2>6, <2>7, WorkerTyped DEF WorkersInv, Exists
  <2>9. VerdictsInv'
    BY <2>1, <2>2, <2>3, <2>4, <2>5, <2>6, <2>7, WorkerTyped DEF VerdictsInv
  <2>10. FailuresInv'
    BY <2>1, <2>2, <2>3, <2>4, <2>5, <2>6, <2>7, WorkerTyped
    DEF FailuresInv, Carried, Live, Listed, Exists
  <2>11. ObjectsInv'
    BY <2>1, <2>2, <2>3, <2>4, <2>5, <2>6, <2>7, WorkerTyped DEF ObjectsInv, Owned, Listed, Exists
  <2>12. RequestsInv' /\ ContentOnce' /\ StoredHasObject' /\ SuccessHasResult'
    BY <2>7
    DEF UploadsFresh, UploadsApart, UploadsPut, DeletionsRead, DeletionsParsed, DeletionsMark,
    DeletionsFail, Uploading, Deleting, ContentOnce, StoredHasObject, SuccessHasResult, Exists
  <2> QED
    BY <2>8, <2>9, <2>10, <2>11, <2>12
<1>4. ASSUME Read(w)
      PROVE  RequestsInv' /\ RowsInv' /\ ParsesInv'
  <2>1. worker[w].at = "read" /\ worker[w].id \in Ids
    BY <1>4, WorkerTyped DEF Read, Free
  <2>2. /\ worker'[w].at = "write" /\ worker'[w].verdict = worker[w].verdict
        /\ worker'[w].id = worker[w].id /\ worker'[w].key = worker[w].key
        /\ worker'[w].attempt = worker[w].attempt /\ worker'[w].seen = row[worker[w].id]
        /\ \A v \in Workers \ {w} : worker'[v] = worker[v]
    BY <1>4 DEF Read, TypeOK
  <2>3. UNCHANGED <<row, results, messages, cache, left, stale, faulty, lost, req, objects, leaked>>
    BY <1>4 DEF Read, requestVars
  <2>4. WorkersInv'
    BY <1>0, <2>1, <2>2, <2>3, WorkerTyped DEF WorkersInv, Exists
  <2>5. VerdictsInv'
    BY <2>1, <2>2, <2>3, WorkerTyped DEF VerdictsInv
  <2>6. FailuresInv'
    BY <2>1, <2>2, <2>3, WorkerTyped DEF FailuresInv, Carried, Live, Listed, Exists
  <2>7. ObjectsInv'
    BY <2>1, <2>2, <2>3, WorkerTyped DEF ObjectsInv, Owned, Listed, Exists
  <2>8. RequestsInv' /\ ContentOnce' /\ StoredHasObject' /\ SuccessHasResult'
    BY <2>3
    DEF UploadsFresh, UploadsApart, UploadsPut, DeletionsRead, DeletionsParsed, DeletionsMark,
    DeletionsFail, Uploading, Deleting, ContentOnce, StoredHasObject, SuccessHasResult, Exists
  <2> QED
    BY <2>4, <2>5, <2>6, <2>7, <2>8
<1>5. ASSUME Write(w)
      PROVE  RequestsInv' /\ RowsInv' /\ ParsesInv'
  <2>1. /\ worker[w].at = "write" /\ worker[w].id \in Ids /\ worker[w].key \in Keys
        /\ worker[w].verdict \in ParseStates /\ worker[w].seen \in Record /\ worker[w] # Free
    BY <1>5, WorkerTyped DEF Write, Free
  <2>2. worker' = [worker EXCEPT ![w] = Moved(worker[w], "cache", worker[w].verdict)]
    BY <1>5 DEF Write, At, Moved
  <2>3. /\ worker'[w].at = "cache" /\ worker'[w].verdict = worker[w].verdict
        /\ worker'[w].id = worker[w].id /\ worker'[w].key = worker[w].key
        /\ worker'[w].attempt = worker[w].attempt
        /\ \A v \in Workers \ {w} : worker'[v] = worker[v]
    BY <2>1, <2>2, WorkerMoves
  <2>4. /\ row'[worker[w].id] = [worker[w].seen EXCEPT !.parse = worker[w].verdict, !.key = worker[w].key]
        /\ \A a \in Ids \ {worker[w].id} : row'[a] = row[a]
    BY <1>5, <2>1 DEF Write, TypeOK
  <2>5. /\ row'[worker[w].id].storage = worker[w].seen.storage
        /\ row'[worker[w].id].parse = worker[w].verdict /\ row'[worker[w].id].key = worker[w].key
    BY <2>1, <2>4 DEF Record
  <2>6. /\ stale \subseteq stale' /\ results \subseteq results'
        /\ worker[w].seen.storage = row[worker[w].id].storage \/ worker[w].id \in stale'
        /\ worker[w].verdict = "succeeded" => <<worker[w].id, worker[w].key>> \in results'
        /\ UNCHANGED <<messages, cache, left, faulty, lost, req, objects, leaked>>
    BY <1>5 DEF Write, AppendResult, requestVars
  <2>7. WorkersInv'
    <3>1. \A v \in Workers : worker[v].at # "idle" => worker[v].id \in Ids /\ Exists(worker[v].id)
      BY WorkerTyped DEF WorkersInv, Free
    <3>2. \A l \in Messages : l[1] \in Ids
      BY DEF Messages
    <3> QED
      BY <1>0, <2>1, <2>3, <2>6, <3>1, <3>2 DEF WorkersInv, Exists
  <2>8. VerdictsInv'
    BY <2>1, <2>2, <2>3, <2>4, <2>5, <2>6, WorkerTyped DEF VerdictsInv
  <2>9. FailuresInv'
    <3>1. ASSUME NEW a \in Ids, NEW k \in Keys, a # worker[w].id, Carried(a, k)
          PROVE  Carried(a, k)'
      BY <2>3, <2>6, <3>1 DEF Carried
    <3>2. ASSUME NEW a \in Ids, NEW k \in Keys, a = worker[w].id, k = worker[w].key,
                 worker[w].verdict \notin Terminal
          PROVE  Carried(a, k)'
      BY <2>1, <2>3, <3>2 DEF Carried
    <3>3. ASSUME NEW a \in Ids, NEW k \in Keys, a # worker[w].id,
                 a \in Live' \ (leaked \cup stale)',
                 row'[a].parse \in {"failed", "queued"}, row'[a].key = k, ~faulty', <<a, k>> \notin lost'
          PROVE  Carried(a, k)' \/ cache'[<<a, k>>] \in Terminal
      BY <2>4, <2>6, <3>1, <3>3 DEF FailuresInv, Live, Listed, Exists
    <3>4. ASSUME NEW k \in Keys, row'[worker[w].id].parse \in {"failed", "queued"},
                 row'[worker[w].id].key = k
          PROVE  /\ k = worker[w].key
                 /\ worker[w].verdict \notin Terminal
      BY <2>5, <3>4 DEF Terminal
    <3>5. ASSUME NEW a \in (Live \ (leaked \cup stale))', NEW k \in Keys,
                 row'[a].parse \in {"failed", "queued"}, row'[a].key = k, ~faulty', <<a, k>> \notin lost'
          PROVE  Carried(a, k)' \/ cache'[<<a, k>>] \in Terminal
      <4>1. a \in Ids /\ a \in Live' \ (leaked \cup stale)
        BY <2>6, <3>5 DEF Live
      <4>2. CASE a = worker[w].id
        BY <3>2, <3>4, <3>5, <4>1, <4>2
      <4>3. CASE a # worker[w].id
        BY <3>3, <3>5, <4>1, <4>3
      <4> QED
        BY <4>2, <4>3
    <3> QED
      BY <3>5 DEF FailuresInv
  <2>10. ObjectsInv'
    <3>1. worker[w].seen.storage # "absent"
      BY <2>1 DEF Record
    <3>2. ASSUME NEW a \in objects \ leaked
          PROVE  Owned(a)'
      <4>1. Owned(a) /\ a \in Ids
        BY DEF ObjectsInv, TypeOK
      <4>2. CASE \E r \in Requests : req[r].at \in {"insert", "cleanup", "remove"} /\ req[r].id = a
        BY <2>6, <4>2 DEF Owned
      <4>3. CASE /\ Listed(a)
                 /\ \A v \in Workers : worker[v].at = "write" /\ worker[v].id = a =>
                      worker[v].seen.storage # "deleted"
        <5>1. row'[a].storage # "absent" /\ row'[a].storage # "deleted"
          BY <2>1, <2>4, <2>5, <3>1, <4>1, <4>3 DEF Listed, Exists
        <5>2. \A v \in Workers : worker'[v].at = "write" /\ worker'[v].id = a =>
                worker'[v].seen.storage # "deleted"
          BY <2>3, <4>3
        <5> QED
          BY <5>1, <5>2 DEF Owned, Listed, Exists
      <4> QED
        BY <4>1, <4>2, <4>3 DEF Owned
    <3> QED
      BY <2>6, <3>2 DEF ObjectsInv
  <2>11. /\ \A a \in Ids : row'[a].storage # "absent" <=> row[a].storage # "absent"
         /\ \A a \in Ids : row'[a].content = row[a].content
    <3>1. Exists(worker[w].id) /\ worker[w].seen.content = row[worker[w].id].content
      BY <2>1 DEF WorkersInv
    <3>2. worker[w].seen.storage # "absent"
      BY <2>1 DEF Record
    <3>3. row'[worker[w].id].content = worker[w].seen.content
      BY <2>1, <2>4 DEF Record
    <3> QED
      BY <2>1, <2>4, <2>5, <3>1, <3>2, <3>3 DEF Exists
  <2>12. \A r \in Requests : Uploading(r) \/ Deleting(r) => req[r].id \in Ids
    BY RequestTyped DEF Uploading, Deleting, NoRequest
  <2>13. UploadsFresh' /\ UploadsApart' /\ UploadsPut'
    BY <2>6, <2>11, <2>12 DEF UploadsFresh, UploadsApart, UploadsPut, Uploading, Exists
  <2>14. DeletionsRead' /\ DeletionsFail'
    BY <2>6, <2>11, <2>12 DEF DeletionsRead, DeletionsFail, Deleting, Exists
  <2>15. DeletionsParsed'
    BY <2>6 DEF DeletionsParsed, Deleting
  <2>16. \A a \in Ids : row'[a].storage = row[a].storage \/ a \in stale'
    BY <2>4, <2>5, <2>6
  <2>17. DeletionsMark'
    BY <2>6, <2>12, <2>16 DEF DeletionsMark, Deleting
  <2>18. ContentOnce'
    BY <2>11 DEF ContentOnce, Exists
  <2>19. StoredHasObject'
    BY <2>6, <2>16 DEF StoredHasObject
  <2>20. SuccessHasResult'
    BY <2>4, <2>5, <2>6, <2>11 DEF SuccessHasResult, Exists
  <2> QED
    BY <2>7, <2>8, <2>9, <2>10, <2>13, <2>14, <2>15, <2>17, <2>18, <2>19, <2>20
<1>6. ASSUME SaveFails(w)
      PROVE  RequestsInv' /\ RowsInv' /\ ParsesInv'
  <2>1. /\ worker[w].at \in {"read", "write"} /\ worker[w] # Free
        /\ worker[w].attempt \in Attempts /\ worker[w].verdict \in ParseStates
    BY <1>6, WorkerTyped DEF SaveFails, Free
  <2>2. PICK at \in {"read", "again", "done"}, verdict \in ParseStates :
          /\ worker' = [worker EXCEPT ![w] = Moved(worker[w], at, verdict)]
          /\ at = "read" => verdict \in Failure(worker[w].attempt)
    BY <1>6, SaveFailsTo
  <2>3. /\ worker'[w].at = at /\ worker'[w].verdict = verdict
        /\ worker'[w].id = worker[w].id /\ worker'[w].key = worker[w].key
        /\ worker'[w].attempt = worker[w].attempt
        /\ \A v \in Workers \ {w} : worker'[v] = worker[v]
    BY <2>1, <2>2, WorkerMoves
  <2>4. faulty' /\ UNCHANGED <<row, results, messages, cache, left, stale, lost, req, objects, leaked>>
    BY <1>6 DEF SaveFails, requestVars
  <2>5. WorkersInv'
    BY <1>0, <2>1, <2>2, <2>3, <2>4, WorkerTyped DEF WorkersInv, Exists
  <2>6. VerdictsInv'
    BY <2>1, <2>2, <2>3, <2>4, WorkerTyped DEF VerdictsInv
  <2>7. FailuresInv'
    BY <2>1, <2>2, <2>3, <2>4, WorkerTyped DEF FailuresInv, Carried, Live, Listed, Exists
  <2>8. ObjectsInv'
    BY <2>1, <2>2, <2>3, <2>4, WorkerTyped DEF ObjectsInv, Owned, Listed, Exists
  <2>9. RequestsInv' /\ ContentOnce' /\ StoredHasObject' /\ SuccessHasResult'
    BY <2>4
    DEF UploadsFresh, UploadsApart, UploadsPut, DeletionsRead, DeletionsParsed, DeletionsMark,
    DeletionsFail, Uploading, Deleting, ContentOnce, StoredHasObject, SuccessHasResult, Exists
  <2> QED
    BY <2>5, <2>6, <2>7, <2>8, <2>9
<1>7. ASSUME SetCache(w)
      PROVE  RequestsInv' /\ RowsInv' /\ ParsesInv'
  <2>1. /\ worker[w].at = "cache" /\ worker[w] # Free /\ Parsing(w)
        /\ worker[w].id \in Ids /\ worker[w].key \in Keys /\ worker[w].attempt \in Attempts
        /\ worker[w].verdict \in ParseStates
    BY <1>7, WorkerTyped DEF SetCache, Free, Parsing
  <2>2. AfterCache(worker[w]) \in {"again", "done"}
    BY DEF AfterCache
  <2>3. worker' = [worker EXCEPT ![w] = Moved(worker[w], AfterCache(worker[w]), worker[w].verdict)]
    BY <1>7, <2>1, WorkerSets DEF SetCache
  <2>4. /\ worker'[w].at = AfterCache(worker[w]) /\ worker'[w].verdict = worker[w].verdict
        /\ worker'[w].id = worker[w].id /\ worker'[w].key = worker[w].key
        /\ worker'[w].attempt = worker[w].attempt
        /\ \A v \in Workers \ {w} : worker'[v] = worker[v]
    BY <2>1, <2>2, <2>3, WorkerMoves
  <2>5. /\ worker[w].verdict \notin Terminal => AfterCache(worker[w]) = "again"
        /\ AfterCache(worker[w]) = "again" => worker[w].attempt < MaxRetries
    BY <2>1, FailureTyped, LimitsAssumption DEF AfterCache, VerdictsInv, Terminal, Attempts
  <2>6. \A a \in Ids, k \in Keys :
          \/ cache'[<<a, k>>] = cache[<<a, k>>]
          \/ a = worker[w].id /\ k = worker[w].key /\ cache'[<<a, k>>] = worker[w].verdict
    BY <1>7, <2>1 DEF SetCache, TypeOK
  <2>7. UNCHANGED <<row, results, messages, left, stale, faulty, lost, req, objects, leaked>>
    BY <1>7 DEF SetCache, requestVars
  <2>8. \A a \in Ids, k \in Keys : cache'[<<a, k>>] = "succeeded" =>
          cache[<<a, k>>] = "succeeded" \/ <<a, k>> \in results
    BY <2>1, <2>6 DEF VerdictsInv
  <2>9. WorkersInv'
    BY <1>0, <2>1, <2>2, <2>3, <2>4, <2>5, <2>6, <2>7, <2>8, WorkerTyped DEF WorkersInv, Exists
  <2>10. VerdictsInv'
    BY <2>1, <2>2, <2>3, <2>4, <2>5, <2>6, <2>7, <2>8, WorkerTyped DEF VerdictsInv
  <2>11. FailuresInv'
    BY <2>1, <2>2, <2>3, <2>4, <2>5, <2>6, <2>7, <2>8, WorkerTyped
    DEF FailuresInv, Carried, Live, Listed, Exists
  <2>12. ObjectsInv'
    BY <2>1, <2>2, <2>3, <2>4, <2>5, <2>6, <2>7, <2>8, WorkerTyped
    DEF ObjectsInv, Owned, Listed, Exists
  <2>13. RequestsInv' /\ ContentOnce' /\ StoredHasObject' /\ SuccessHasResult'
    BY <2>8, <2>7
    DEF UploadsFresh, UploadsApart, UploadsPut, DeletionsRead, DeletionsParsed, DeletionsMark,
    DeletionsFail, Uploading, Deleting, ContentOnce, StoredHasObject, SuccessHasResult, Exists
  <2> QED
    BY <2>9, <2>10, <2>11, <2>12, <2>13
<1>8. ASSUME Again(w)
      PROVE  RequestsInv' /\ RowsInv' /\ ParsesInv'
  <2>1. /\ worker[w].at = "again" /\ worker[w] # Free /\ Parsing(w)
        /\ worker[w].id \in Ids /\ worker[w].key \in Keys /\ worker[w].attempt \in Attempts
        /\ worker[w].verdict \in ParseStates
    BY <1>8, WorkerTyped DEF Again, Free, Parsing
  <2>2. worker' = [worker EXCEPT ![w] = Moved(worker[w], "done", worker[w].verdict)]
    BY <1>8, <2>1, WorkerSets DEF Again
  <2>3. /\ worker'[w].at = "done" /\ worker'[w].verdict = worker[w].verdict
        /\ worker'[w].id = worker[w].id /\ worker'[w].key = worker[w].key
        /\ worker'[w].attempt = worker[w].attempt
        /\ \A v \in Workers \ {w} : worker'[v] = worker[v]
    BY <2>1, <2>2, WorkerMoves
  <2>4. /\ \A l \in Messages : messages'[l] > 0 => messages[l] > 0 \/ l[1] = worker[w].id
        /\ \A l \in Messages : messages[l] > 0 => messages'[l] > 0
        /\ ~faulty =>
             \E attempt \in Attempts : messages'[<<worker[w].id, worker[w].key, attempt>>] > 0
    <3>1. CASE worker[w].attempt < MaxRetries
      <4>1. /\ worker[w].attempt + 1 \in Attempts
            /\ <<worker[w].id, worker[w].key, worker[w].attempt + 1>> \in Messages
        BY <2>1, <3>1, LimitsAssumption DEF Messages, Attempts
      <4>2. messages' = [messages EXCEPT
                 ![<<worker[w].id, worker[w].key, worker[w].attempt + 1>>] = @ + 1]
        BY <1>8, <3>1 DEF Again, Send
      <4>3. \A l \in Messages : messages[l] \in Nat
        BY DEF TypeOK
      <4>4. messages'[<<worker[w].id, worker[w].key, worker[w].attempt + 1>>] > 0
        BY <4>1, <4>2, <4>3 DEF TypeOK
      <4>5. \A l \in Messages : l # <<worker[w].id, worker[w].key, worker[w].attempt + 1>>
              => messages'[l] = messages[l]
        BY <4>1, <4>2 DEF TypeOK
      <4> QED
        BY <4>1, <4>4, <4>5
    <3>2. CASE ~(worker[w].attempt < MaxRetries)
      BY <1>8, <2>1, <3>2 DEF Again, VerdictsInv
    <3> QED
      BY <3>1, <3>2
  <2>5. UNCHANGED <<row, results, cache, left, stale, faulty, lost, req, objects, leaked>>
    BY <1>8 DEF Again, requestVars
  <2>6. WorkersInv'
    BY <1>0, <2>1, <2>2, <2>3, <2>4, <2>5, WorkerTyped DEF WorkersInv, Exists, Messages
  <2>7. VerdictsInv'
    BY <2>1, <2>2, <2>3, <2>4, <2>5, WorkerTyped DEF VerdictsInv
  <2>8. FailuresInv'
    BY <2>1, <2>2, <2>3, <2>4, <2>5, WorkerTyped
    DEF FailuresInv, Carried, Live, Listed, Exists, Messages
  <2>9. ObjectsInv'
    BY <2>1, <2>2, <2>3, <2>4, <2>5, WorkerTyped DEF ObjectsInv, Owned, Listed, Exists
  <2>10. RequestsInv' /\ ContentOnce' /\ StoredHasObject' /\ SuccessHasResult'
    BY <2>5
    DEF UploadsFresh, UploadsApart, UploadsPut, DeletionsRead, DeletionsParsed, DeletionsMark,
    DeletionsFail, Uploading, Deleting, ContentOnce, StoredHasObject, SuccessHasResult, Exists
  <2> QED
    BY <2>6, <2>7, <2>8, <2>9, <2>10
<1>9. ASSUME Acknowledge(w)
      PROVE  RequestsInv' /\ RowsInv' /\ ParsesInv'
  <2>1. /\ worker[w].at = "done" /\ worker'[w].at = "idle"
        /\ \A v \in Workers \ {w} : worker'[v] = worker[v]
    BY <1>9 DEF Acknowledge, TypeOK, Free
  <2>2. UNCHANGED <<row, results, messages, cache, left, stale, faulty, lost, req, objects, leaked>>
    BY <1>9 DEF Acknowledge, requestVars
  <2>3. WorkersInv'
    BY <1>0, <2>1, <2>2, WorkerTyped DEF WorkersInv, Exists
  <2>4. VerdictsInv'
    BY <2>1, <2>2, WorkerTyped DEF VerdictsInv
  <2>5. FailuresInv'
    BY <2>1, <2>2, WorkerTyped DEF FailuresInv, Carried, Live, Listed, Exists
  <2>6. ObjectsInv'
    BY <2>1, <2>2, WorkerTyped DEF ObjectsInv, Owned, Listed, Exists
  <2>7. RequestsInv' /\ ContentOnce' /\ StoredHasObject' /\ SuccessHasResult'
    BY <2>2
    DEF UploadsFresh, UploadsApart, UploadsPut, DeletionsRead, DeletionsParsed, DeletionsMark,
    DeletionsFail, Uploading, Deleting, ContentOnce, StoredHasObject, SuccessHasResult, Exists
  <2> QED
    BY <2>3, <2>4, <2>5, <2>6, <2>7
<1>10. ASSUME Crash(w)
      PROVE  RequestsInv' /\ RowsInv' /\ ParsesInv'
  <2>1. /\ worker[w].at # "idle" /\ worker'[w].at = "idle"
        /\ worker[w].id \in Ids /\ worker[w].key \in Keys /\ worker[w].attempt \in Attempts
        /\ \A v \in Workers \ {w} : worker'[v] = worker[v]
    BY <1>10, WorkerTyped DEF Crash, Dies, TypeOK, Free
  <2>2. /\ \A l \in Messages : messages'[l] > 0 => messages[l] > 0 \/ l[1] = worker[w].id
        /\ \A l \in Messages : messages[l] > 0 => messages'[l] > 0
        /\ \E attempt \in Attempts : messages'[<<worker[w].id, worker[w].key, attempt>>] > 0
    <3>1. <<worker[w].id, worker[w].key, worker[w].attempt>> \in Messages
      BY <2>1 DEF Messages
    <3>2. messages' = [messages EXCEPT ![<<worker[w].id, worker[w].key, worker[w].attempt>>] = @ + 1]
      BY <1>10 DEF Crash, Send
    <3>3. \A l \in Messages : messages[l] \in Nat
      BY DEF TypeOK
    <3>4. messages'[<<worker[w].id, worker[w].key, worker[w].attempt>>] > 0
      BY <3>1, <3>2, <3>3 DEF TypeOK
    <3>5. \A l \in Messages : l # <<worker[w].id, worker[w].key, worker[w].attempt>>
            => messages'[l] = messages[l]
      BY <3>1, <3>2 DEF TypeOK
    <3> QED
      BY <2>1, <3>1, <3>4, <3>5
  <2>3. UNCHANGED <<row, results, cache, stale, faulty, lost, req, objects, leaked>>
    BY <1>10 DEF Crash, requestVars
  <2>4. WorkersInv'
    BY <1>0, <2>1, <2>2, <2>3, WorkerTyped DEF WorkersInv, Exists, Messages
  <2>5. VerdictsInv'
    BY <2>1, <2>2, <2>3, WorkerTyped DEF VerdictsInv
  <2>6. FailuresInv'
    BY <2>1, <2>2, <2>3, WorkerTyped DEF FailuresInv, Carried, Live, Listed, Exists, Messages
  <2>7. ObjectsInv'
    BY <2>1, <2>2, <2>3, WorkerTyped DEF ObjectsInv, Owned, Listed, Exists
  <2>8. RequestsInv' /\ ContentOnce' /\ StoredHasObject' /\ SuccessHasResult'
    BY <2>3
    DEF UploadsFresh, UploadsApart, UploadsPut, DeletionsRead, DeletionsParsed, DeletionsMark,
    DeletionsFail, Uploading, Deleting, ContentOnce, StoredHasObject, SuccessHasResult, Exists
  <2> QED
    BY <2>4, <2>5, <2>6, <2>7, <2>8
<1>11. ASSUME Killed(w)
       PROVE  RequestsInv' /\ RowsInv' /\ ParsesInv'
  <2>1. /\ worker[w].at # "idle" /\ worker'[w].at = "idle"
        /\ \A v \in Workers \ {w} : worker'[v] = worker[v]
    BY <1>11, WorkerTyped DEF Killed, Dies, TypeOK, Free
  <2>2. UNCHANGED <<row, results, messages, cache, stale, faulty, req, objects, leaked>>
    BY <1>11 DEF Killed, requestVars
  <2>3. lost \subseteq lost' /\ (worker[w].at # "done" => <<worker[w].id, worker[w].key>> \in lost')
    BY <1>11 DEF Killed
  <2>4. WorkersInv'
    BY <1>0, <2>1, <2>2, WorkerTyped DEF WorkersInv, Exists
  <2>5. VerdictsInv'
    BY <2>1, <2>2, WorkerTyped DEF VerdictsInv
  <2>6. FailuresInv'
    <3>1. ASSUME NEW a \in Ids, NEW k \in Keys, Carried(a, k), <<a, k>> \notin lost'
          PROVE  Carried(a, k)'
      BY <2>1, <2>2, <2>3, <3>1 DEF Carried
    <3>2. ASSUME NEW a \in (Live \ (leaked \cup stale))', NEW k \in Keys,
                 row'[a].parse \in {"failed", "queued"}, row'[a].key = k, ~faulty',
                 <<a, k>> \notin lost'
          PROVE  Carried(a, k)' \/ cache'[<<a, k>>] \in Terminal
      <4>1. /\ a \in Live \ (leaked \cup stale) /\ a \in Ids
            /\ row[a].parse \in {"failed", "queued"} /\ row[a].key = k /\ ~faulty
            /\ <<a, k>> \notin lost
        BY <2>2, <2>3, <3>2 DEF Live, Listed, Exists
      <4>2. Carried(a, k) \/ cache[<<a, k>>] \in Terminal
        BY <4>1 DEF FailuresInv
      <4> QED
        BY <2>2, <3>1, <3>2, <4>1, <4>2
    <3> QED
      BY <3>2 DEF FailuresInv
  <2>7. ObjectsInv'
    BY <2>1, <2>2, WorkerTyped DEF ObjectsInv, Owned, Listed, Exists
  <2>8. RequestsInv' /\ ContentOnce' /\ StoredHasObject' /\ SuccessHasResult'
    BY <2>2
    DEF UploadsFresh, UploadsApart, UploadsPut, DeletionsRead, DeletionsParsed, DeletionsMark,
    DeletionsFail, Uploading, Deleting, ContentOnce, StoredHasObject, SuccessHasResult, Exists
  <2> QED
    BY <2>4, <2>5, <2>6, <2>7, <2>8
<1> QED
  BY <1>1, <1>2, <1>3, <1>4, <1>5, <1>6, <1>7, <1>8, <1>9, <1>10, <1>11 DEF WorkerNext, WorkerStep

(***************************************************************************)
(* The size of a version.                                                  *)
(***************************************************************************)
LEMMA CountedTyped == TypeOK => Counted \subseteq Ids
  BY RequestTyped DEF Counted, Live, Doomed, Deleting, NoRequest

(* ... in the next state, too.                                              *)
LEMMA CountedTypedNext == (TypeOK => Counted \subseteq Ids)'
  BY CountedTyped, PTL

(* Finitely many attachments are counted.                                   *)
LEMMA CountedFinite ==
  ASSUME TypeOK
  PROVE  /\ Counted \subseteq Ids /\ IsFiniteSet(Counted) /\ Cardinality(Counted) \in Nat
         /\ Live \subseteq Ids /\ IsFiniteSet(Live) /\ Cardinality(Live) \in Nat
         /\ IsFiniteSet(Admitted) /\ Cardinality(Admitted) \in Nat
         /\ IsFiniteSet(Doomed) /\ Cardinality(Doomed) \in Nat
         /\ Cardinality(Requests) \in Nat
<1>1. Counted \subseteq Ids /\ Live \subseteq Ids
  BY CountedTyped DEF Live
<1>2. Admitted \subseteq Requests /\ Doomed \subseteq Requests
  BY DEF Admitted, Doomed
<1> QED
  BY <1>1, <1>2, IdsAssumption, FS_Subset, FS_CardinalityType

(* An attachment is counted if it is listed or about to be brought back.    *)
LEMMA CountedMeans ==
  ASSUME NEW a \in Ids
  PROVE  a \in Counted <=> /\ Listed(a) \/ \E r \in Requests : Deleting(r) /\ req[r].id = a
                           /\ a \notin stale
BY DEF Counted, Live, Doomed

(* There are no more attachments about to be deleted than requests.         *)
LEMMA CountedBound ==
  ASSUME TypeOK
  PROVE  Cardinality(Counted) <= Cardinality(Live) + Cardinality(Doomed)
<1> DEFINE id == [r \in Doomed |-> req[r].id]
           Ends == {req[r].id : r \in Doomed}
<1>1. id \in Surjection(Doomed, Ends)
  BY DEF Surjection
<1>2. IsFiniteSet(Ends) /\ Cardinality(Ends) <= Cardinality(Doomed) /\ Cardinality(Ends) \in Nat
  BY <1>1, CountedFinite, FS_Surjection, FS_CardinalityType
<1>3. IsFiniteSet(Live \cup Ends) /\ Cardinality(Live \cup Ends) \in Nat
  BY <1>2, CountedFinite, FS_Union, FS_CardinalityType
<1>4. Cardinality(Live \cup Ends) <= Cardinality(Live) + Cardinality(Ends)
  <2>1. /\ IsFiniteSet(Live \cap Ends) /\ Cardinality(Live \cap Ends) \in Nat
    BY CountedFinite, FS_Subset, FS_CardinalityType
  <2>2. Cardinality(Live \cup Ends) = Cardinality(Live) + Cardinality(Ends) - Cardinality(Live \cap Ends)
    BY <1>2, CountedFinite, FS_Union
  <2> QED
    BY <1>2, <2>1, <2>2, CountedFinite
<1>5. Counted \subseteq Live \cup Ends
  BY DEF Counted
<1>6. Cardinality(Counted) <= Cardinality(Live \cup Ends)
  BY <1>3, <1>5, FS_Subset
<1> QED
  BY <1>2, <1>3, <1>4, <1>6, CountedFinite

(* Nothing is counted or admitted that was not before.                      *)
LEMMA CountShrinks ==
  ASSUME TypeOK, TypeOK', CountInv, Counted' \subseteq Counted, Admitted' \subseteq Admitted
  PROVE  CountInv'
<1>1. Cardinality(Counted') <= Cardinality(Counted) /\ Cardinality(Counted') \in Nat
  BY CountedFinite, FS_Subset, FS_CardinalityType
<1>2. Cardinality(Admitted') <= Cardinality(Admitted) /\ Cardinality(Admitted') \in Nat
  BY CountedFinite, FS_Subset, FS_CardinalityType
<1> QED
  BY <1>1, <1>2, CountedFinite, LimitsAssumption DEF CountInv

(* An upload is admitted: the version was below its limit, and the others   *)
(* that count are those of other requests.                                  *)
LEMMA CountMeasure ==
  ASSUME Inv, TypeOK', NEW r \in Requests, Measure(r)
  PROVE  CountInv'
<1>1. TypeOK /\ CountInv
  BY DEF Inv
<1>2. Uploading(r) /\ row' = row /\ stale' = stale
  BY DEF Measure, Uploading, workerVars
<1>3. CASE HasRoom(Cardinality(Live))
  <2>1. req' = [req EXCEPT ![r].at = "put"]
    BY <1>3 DEF Measure
  <2>2. /\ req'[r].at = "put" /\ \A q \in Requests \ {r} : req'[q] = req[q]
    BY <1>1, <1>2, <2>1, RequestMoves
  <2>3. Counted' = Counted /\ Doomed' = Doomed
    <3>1. \A q \in Requests : /\ Deleting(q)' <=> Deleting(q)
                              /\ Deleting(q) => req'[q].id = req[q].id
      BY <1>2, <2>2 DEF Deleting, Uploading
    <3> QED
      BY <1>2, <3>1 DEF Counted, Live, Listed, Exists, Doomed
  <2>4. Cardinality(Counted) <= MaxFiles - 1 + Cardinality(Doomed)
    BY <1>1, <1>3, CountedBound, CountedFinite, LimitsAssumption DEF HasRoom
  <2>5. Cardinality(Admitted') + Cardinality(Doomed') <= Cardinality(Requests)
    <3>1. Admitted' \cap Doomed' = {} /\ Admitted' \cup Doomed' \subseteq Requests
      BY DEF Admitted, Doomed, Deleting
    <3>2. /\ IsFiniteSet(Admitted') /\ Cardinality(Admitted') \in Nat
          /\ IsFiniteSet(Doomed') /\ Cardinality(Doomed') \in Nat
      BY <3>1, IdsAssumption, FS_Subset, FS_CardinalityType
    <3>3. Cardinality(Admitted' \cup Doomed') = Cardinality(Admitted') + Cardinality(Doomed')
      BY <3>1, <3>2, FS_Union, FS_EmptySet
    <3>4. Cardinality(Admitted' \cup Doomed') <= Cardinality(Requests)
      BY <3>1, IdsAssumption, FS_Subset
    <3> QED
      BY <3>3, <3>4
  <2> QED
    <3>1. Cardinality(Admitted') \in Nat
      BY IdsAssumption, FS_Subset, FS_CardinalityType DEF Admitted
    <3> QED
      BY <1>1, <2>3, <2>4, <2>5, <3>1, CountedFinite, LimitsAssumption DEF CountInv
<1>4. CASE ~HasRoom(Cardinality(Live))
  <2>1. req'[r].at = "idle" /\ \A q \in Requests \ {r} : req'[q] = req[q]
    BY <1>1, <1>4 DEF Measure, NoRequest, TypeOK
  <2>2. \A q \in Requests : /\ Deleting(q)' <=> Deleting(q)
                            /\ Deleting(q) => req'[q].id = req[q].id
    BY <1>2, <2>1 DEF Deleting, Uploading
  <2>3. Counted' = Counted
    BY <1>2, <2>2 DEF Counted, Live, Listed, Exists, Doomed
  <2>4. Admitted' \subseteq Admitted
    BY <2>1 DEF Admitted
  <2> QED
    BY <1>1, <2>3, <2>4, CountShrinks
<1> QED
  BY <1>3, <1>4

(* A row is inserted for an upload that was admitted.                       *)
LEMMA CountInsert ==
  ASSUME Inv, TypeOK', NEW r \in Requests, Insert(r)
  PROVE  CountInv'
<1>1. TypeOK /\ CountInv
  BY DEF Inv
<1>2. /\ req[r].at = "insert" /\ req'[r].at = "idle" /\ \A q \in Requests \ {r} : req'[q] = req[q]
      /\ \A a \in Ids \ {req[r].id} : row'[a] = row[a]
      /\ stale' = stale
  BY <1>1 DEF Insert, NoRequest, TypeOK, workerVars
<1>3. Counted' \subseteq Counted \cup {req[r].id}
  <2>1. ASSUME NEW a \in Ids, a # req[r].id, a \in Counted'
        PROVE  a \in Counted
    <3>1. Listed(a)' => Listed(a)
      BY <1>2, <2>1 DEF Listed, Exists
    <3>2. \A q \in Requests : Deleting(q)' => Deleting(q) /\ req'[q].id = req[q].id
      BY <1>2 DEF Deleting
    <3> QED
      BY <1>2, <2>1, <3>1, <3>2 DEF Counted, Live, Doomed
  <2> QED
    BY <2>1, CountedTypedNext
<1>4. Admitted' = Admitted \ {r} /\ r \in Admitted
  BY <1>2 DEF Admitted
<1>5. Cardinality(Counted') <= Cardinality(Counted) + 1 /\ Cardinality(Counted') \in Nat
  <2>1. /\ IsFiniteSet(Counted \cup {req[r].id})
        /\ Cardinality(Counted \cup {req[r].id}) <= Cardinality(Counted) + 1
    <3>1. IsFiniteSet(Counted) /\ Cardinality(Counted) \in Nat
      BY <1>1, CountedFinite
    <3>2. /\ IsFiniteSet(Counted \cup {req[r].id})
          /\ Cardinality(Counted \cup {req[r].id}) =
               IF req[r].id \in Counted THEN Cardinality(Counted) ELSE Cardinality(Counted) + 1
      BY <3>1, FS_AddElement
    <3> QED
      BY <3>1, <3>2
  <2>2. Cardinality(Counted') <= Cardinality(Counted \cup {req[r].id})
    BY <1>3, <2>1, FS_Subset
  <2>3. Cardinality(Counted \cup {req[r].id}) \in Nat /\ Cardinality(Counted') \in Nat
    BY <1>3, <2>1, FS_CardinalityType, FS_Subset
  <2> QED
    BY <1>1, <2>1, <2>2, <2>3, CountedFinite
<1>6. Cardinality(Admitted') = Cardinality(Admitted) - 1
  BY <1>1, <1>4, CountedFinite, FS_RemoveElement
<1> QED
  BY <1>1, <1>5, <1>6, CountedFinite, LimitsAssumption DEF CountInv

(* Every other step lets nothing count that did not.                        *)
LEMMA CountOther ==
  ASSUME Inv, TypeOK', RequestNext, ~(\E r \in Requests : Measure(r) \/ Insert(r))
  PROVE  CountInv'
<1> USE DEF Inv
<1>1. SUFFICES Counted' \subseteq Counted /\ Admitted' \subseteq Admitted
  BY CountShrinks
<1>2. \A a \in Ids : a \in Counted' <=> /\ Listed(a)' \/ \E r \in Requests : Deleting(r)' /\ req'[r].id = a
                                       /\ a \notin stale'
  BY DEF Counted, Live, Doomed
<1>3. Counted' \subseteq Ids
  BY CountedTypedNext
<1>4. ASSUME NEW r \in Requests, NEW a \in Ids, Delete(r, a)
      PROVE  Counted' \subseteq Counted /\ Admitted' \subseteq Admitted
  <2>1. req[r].at = "idle" /\ Exists(a)
    BY <1>4 DEF Delete, Serve, NoRequest, Listed
  <2>2. /\ req'[r].at = "mark" /\ req'[r].id = a /\ req'[r].seen = row[a]
        /\ \A q \in Requests \ {r} : req'[q] = req[q]
    BY <1>4 DEF Delete, Serve, TypeOK
  <2>3. Counted' \subseteq Counted
    BY <1>2, <1>3, <1>4, <2>1, <2>2, CountedMeans, RequestTyped
    DEF Delete, Listed, Exists, Deleting, Uploading, workerVars
  <2>4. Admitted' \subseteq Admitted
    BY <1>4, <2>1, <2>2 DEF Delete, Admitted
  <2> QED
    BY <2>3, <2>4
<1>5. ASSUME NEW r \in Requests, NEW c \in Contents, Upload(r, c)
      PROVE  Counted' \subseteq Counted /\ Admitted' \subseteq Admitted
  <2>1. req[r].at = "idle"
    BY <1>5 DEF Upload, Serve, NoRequest
  <2>2. PICK x \in Unused : req' = [req EXCEPT ![r] = [at |-> "measure", id |-> x, content |-> c]]
    BY <1>5 DEF Upload, Serve
  <2>3. /\ req'[r].at = "measure" /\ req'[r].id = x
        /\ \A q \in Requests \ {r} : req'[q] = req[q]
    BY <2>2 DEF TypeOK
  <2>4. ~Exists(x) /\ \A q \in Requests : req[q].at # "idle" => req[q].id # x
    BY <2>2, RequestTyped DEF Unused, InFlight
  <2>5. Counted' \subseteq Counted
    BY <1>2, <1>3, <1>5, <2>1, <2>2, <2>3, <2>4, CountedMeans, RequestTyped
    DEF Upload, Listed, Exists, Deleting, Uploading, workerVars
  <2>6. Admitted' \subseteq Admitted
    BY <1>5, <2>1, <2>2, <2>3, <2>4 DEF Upload, Admitted
  <2> QED
    BY <2>5, <2>6
<1>6. ASSUME NEW r \in Requests, Put(r)
      PROVE  Counted' \subseteq Counted /\ Admitted' \subseteq Admitted
  <2>1. Uploading(r)
    BY <1>6 DEF Put, Uploading
  <2>2. /\ req'[r].at = "insert" /\ req'[r].id = req[r].id
        /\ \A q \in Requests \ {r} : req'[q] = req[q]
    BY <1>6, <2>1, RequestMoves DEF Put, Uploading, Deleting
  <2>3. Counted' \subseteq Counted
    BY <1>2, <1>3, <1>6, <2>1, <2>2, CountedMeans, RequestTyped
    DEF Put, Listed, Exists, Deleting, Uploading, workerVars
  <2>4. Admitted' \subseteq Admitted
    BY <1>6, <2>1, <2>2 DEF Put, Admitted
  <2> QED
    BY <2>3, <2>4
<1>7. ASSUME NEW r \in Requests, InsertFails(r)
      PROVE  Counted' \subseteq Counted /\ Admitted' \subseteq Admitted
  <2>1. Uploading(r)
    BY <1>7 DEF InsertFails, Uploading
  <2>2. /\ req'[r].at = "cleanup" /\ req'[r].id = req[r].id
        /\ \A q \in Requests \ {r} : req'[q] = req[q]
    BY <1>7, <2>1, RequestMoves DEF InsertFails, Uploading, Deleting
  <2>3. Counted' \subseteq Counted
    BY <1>2, <1>3, <1>7, <2>1, <2>2, CountedMeans, RequestTyped
    DEF InsertFails, Listed, Exists, Deleting, Uploading, workerVars
  <2>4. Admitted' \subseteq Admitted
    BY <1>7, <2>1, <2>2 DEF InsertFails, Admitted
  <2> QED
    BY <2>3, <2>4
<1>8. ASSUME NEW r \in Requests, Cleanup(r)
      PROVE  Counted' \subseteq Counted /\ Admitted' \subseteq Admitted
  <2>1. req[r].at # "idle"
    BY <1>8, RequestTyped DEF Cleanup, NoRequest
  <2>2. /\ req'[r].at = "idle"
        /\ \A q \in Requests \ {r} : req'[q] = req[q]
    BY <1>8 DEF Cleanup, TypeOK, NoRequest
  <2>3. Counted' \subseteq Counted
    BY <1>2, <1>3, <1>8, <2>1, <2>2, CountedMeans, RequestTyped
    DEF Cleanup, Listed, Exists, Deleting, Uploading, workerVars
  <2>4. Admitted' \subseteq Admitted
    BY <1>8, <2>1, <2>2 DEF Cleanup, Admitted
  <2> QED
    BY <2>3, <2>4
<1>9. ASSUME NEW r \in Requests, Mark(r)
      PROVE  Counted' \subseteq Counted /\ Admitted' \subseteq Admitted
  <2>1. Deleting(r)
    BY <1>9 DEF Mark, Deleting
  <2>2. /\ req'[r].at = "remove" /\ req'[r].id = req[r].id /\ req'[r].seen = req[r].seen
        /\ \A q \in Requests \ {r} : req'[q] = req[q]
    BY <1>9, <2>1, RequestMoves DEF Mark, Uploading, Deleting
  <2>3. /\ req[r].id \in Ids /\ req[r].seen \in Record
        /\ row'[req[r].id] = [req[r].seen EXCEPT !.storage = "deleted"]
        /\ \A a \in Ids \ {req[r].id} : row'[a] = row[a]
    BY <1>9, <2>1, RequestTyped DEF Mark, Marked, TypeOK, Deleting, NoRequest
  <2>4. /\ row'[req[r].id].storage = "deleted" /\ row'[req[r].id].parse = req[r].seen.parse
        /\ row'[req[r].id].content = req[r].seen.content /\ row'[req[r].id].key = req[r].seen.key
    BY <2>3 DEF Record
  <2>5. Counted' \subseteq Counted
    BY <1>2, <1>3, <1>9, <2>1, <2>2, <2>3, <2>4, CountedMeans, RequestTyped
    DEF Mark, Listed, Exists, Deleting, Uploading, workerVars
  <2>6. Admitted' \subseteq Admitted
    BY <1>9, <2>1, <2>2, <2>3, <2>4 DEF Mark, Admitted
  <2> QED
    BY <2>5, <2>6
<1>10. ASSUME NEW r \in Requests, Remove(r)
      PROVE  Counted' \subseteq Counted /\ Admitted' \subseteq Admitted
  <2>1. req[r].at # "idle"
    BY <1>10, RequestTyped DEF Remove, NoRequest
  <2>2. /\ req'[r].at = "idle"
        /\ \A q \in Requests \ {r} : req'[q] = req[q]
    BY <1>10 DEF Remove, TypeOK, NoRequest
  <2>3. Counted' \subseteq Counted
    BY <1>2, <1>3, <1>10, <2>1, <2>2, CountedMeans, RequestTyped
    DEF Remove, Listed, Exists, Deleting, Uploading, workerVars
  <2>4. Admitted' \subseteq Admitted
    BY <1>10, <2>1, <2>2 DEF Remove, Admitted
  <2> QED
    BY <2>3, <2>4
<1>11. ASSUME NEW r \in Requests, Unmark(r)
      PROVE  Counted' \subseteq Counted /\ Admitted' \subseteq Admitted
  <2>1. req[r].at # "idle"
    BY <1>11, RequestTyped DEF Unmark, NoRequest
  <2>2. /\ req'[r].at = "idle"
        /\ \A q \in Requests \ {r} : req'[q] = req[q]
    BY <1>11 DEF Unmark, TypeOK, NoRequest
  <2>3. /\ req[r].id \in Ids /\ req[r].seen \in Record
        /\ row'[req[r].id] = [req[r].seen EXCEPT !.storage = "failed"]
        /\ \A a \in Ids \ {req[r].id} : row'[a] = row[a]
    BY <1>11, <2>1, RequestTyped DEF Unmark, TypeOK, Deleting, NoRequest
  <2>4. /\ row'[req[r].id].storage = "failed" /\ row'[req[r].id].parse = req[r].seen.parse
        /\ row'[req[r].id].content = req[r].seen.content /\ row'[req[r].id].key = req[r].seen.key
    BY <2>3 DEF Record
  <2>5. Counted' \subseteq Counted
    BY <1>2, <1>3, <1>11, <2>1, <2>2, <2>3, <2>4, CountedMeans, RequestTyped
    DEF Unmark, Listed, Exists, Deleting, Uploading, workerVars
  <2>6. Admitted' \subseteq Admitted
    BY <1>11, <2>1, <2>2, <2>3, <2>4 DEF Unmark, Admitted
  <2> QED
    BY <2>5, <2>6
<1>12. ASSUME NEW r \in Requests, PutFails(r)
      PROVE  Counted' \subseteq Counted /\ Admitted' \subseteq Admitted
  <2>1. req[r].at # "idle"
    BY <1>12, RequestTyped DEF PutFails, NoRequest
  <2>2. /\ req'[r].at = "idle"
        /\ \A q \in Requests \ {r} : req'[q] = req[q]
    BY <1>12 DEF PutFails, TypeOK, NoRequest
  <2>3. Counted' \subseteq Counted
    BY <1>2, <1>3, <1>12, <2>1, <2>2, CountedMeans, RequestTyped
    DEF PutFails, Listed, Exists, Deleting, Uploading, workerVars
  <2>4. Admitted' \subseteq Admitted
    BY <1>12, <2>1, <2>2 DEF PutFails, Admitted
  <2> QED
    BY <2>3, <2>4
<1>13. ASSUME NEW r \in Requests, CleanupFails(r)
      PROVE  Counted' \subseteq Counted /\ Admitted' \subseteq Admitted
  <2>1. req[r].at # "idle"
    BY <1>13, RequestTyped DEF CleanupFails, NoRequest
  <2>2. /\ req'[r].at = "idle"
        /\ \A q \in Requests \ {r} : req'[q] = req[q]
    BY <1>13 DEF CleanupFails, TypeOK, NoRequest
  <2>3. Counted' \subseteq Counted
    BY <1>2, <1>3, <1>13, <2>1, <2>2, CountedMeans, RequestTyped
    DEF CleanupFails, Listed, Exists, Deleting, Uploading, workerVars
  <2>4. Admitted' \subseteq Admitted
    BY <1>13, <2>1, <2>2 DEF CleanupFails, Admitted
  <2> QED
    BY <2>3, <2>4
<1>14. ASSUME NEW r \in Requests, RemoveFails(r)
      PROVE  Counted' \subseteq Counted /\ Admitted' \subseteq Admitted
  <2>1. Deleting(r)
    BY <1>14 DEF RemoveFails, Deleting
  <2>2. /\ req'[r].at = "unmark" /\ req'[r].id = req[r].id /\ req'[r].seen = req[r].seen
        /\ \A q \in Requests \ {r} : req'[q] = req[q]
    BY <1>14, <2>1, RequestMoves DEF RemoveFails, Uploading, Deleting
  <2>3. Counted' \subseteq Counted
    BY <1>2, <1>3, <1>14, <2>1, <2>2, CountedMeans, RequestTyped
    DEF RemoveFails, Listed, Exists, Deleting, Uploading, workerVars
  <2>4. Admitted' \subseteq Admitted
    BY <1>14, <2>1, <2>2 DEF RemoveFails, Admitted
  <2> QED
    BY <2>3, <2>4
<1>15. ASSUME NEW r \in Requests, Stop(r)
      PROVE  Counted' \subseteq Counted /\ Admitted' \subseteq Admitted
  <2>1. req[r].at # "idle"
    BY <1>15, RequestTyped DEF Stop, NoRequest
  <2>2. /\ req'[r].at = "idle"
        /\ \A q \in Requests \ {r} : req'[q] = req[q]
    BY <1>15 DEF Stop, TypeOK, NoRequest
  <2>3. Counted' \subseteq Counted
    BY <1>2, <1>3, <1>15, <2>1, <2>2, CountedMeans, RequestTyped
    DEF Stop, Listed, Exists, Deleting, Uploading, workerVars
  <2>4. Admitted' \subseteq Admitted
    BY <1>15, <2>1, <2>2 DEF Stop, Admitted
  <2> QED
    BY <2>3, <2>4
<1> QED
  BY <1>4, <1>5, <1>6, <1>7, <1>8, <1>9, <1>10, <1>11, <1>12, <1>13, <1>14, <1>15
  DEF RequestNext, RequestStep

(* A worker that changes the storage status it has read makes it stale.     *)
LEMMA CountWorker ==
  ASSUME Inv, TypeOK', NEW w \in Workers, WorkerNext(w)
  PROVE  CountInv'
<1> USE DEF Inv
<1>1. SUFFICES Counted' \subseteq Counted /\ Admitted' \subseteq Admitted
  BY CountShrinks
<1>2. CASE Write(w)
  <2>1. /\ worker[w].id \in Ids /\ worker[w].seen \in Record
        /\ UNCHANGED req
    BY <1>2, WorkerTyped DEF Write, Free, requestVars
  <2>2. /\ row'[worker[w].id] = [worker[w].seen EXCEPT !.parse = worker[w].verdict, !.key = worker[w].key]
        /\ \A a \in Ids \ {worker[w].id} : row'[a] = row[a]
    BY <1>2, <2>1 DEF Write, TypeOK
  <2>3. row'[worker[w].id].storage = worker[w].seen.storage
    BY <2>1, <2>2 DEF Record
  <2>4. stale \subseteq stale' /\ (worker[w].seen.storage = row[worker[w].id].storage \/ worker[w].id \in stale')
    BY <1>2 DEF Write
  <2>5. \A a \in Ids : row'[a].storage = row[a].storage \/ a \in stale'
    BY <2>2, <2>3, <2>4
  <2>6. Counted' \subseteq Counted
    BY <2>1, <2>4, <2>5 DEF Counted, Live, Listed, Exists, Doomed, Deleting
  <2>7. Admitted' = Admitted
    BY <2>1 DEF Admitted
  <2> QED
    BY <2>6, <2>7
<1>3. CASE UNCHANGED <<row, stale, req>>
  BY <1>3 DEF Counted, Live, Listed, Exists, Doomed, Deleting, Admitted
<1>4. Write(w) \/ UNCHANGED <<row, stale, req>>
  BY DEF WorkerNext, WorkerStep, Take, TakeUncached, Recognise, Read, SaveFails, SetCache, Again,
     Acknowledge, Crash, Killed, requestVars
<1> QED
  BY <1>2, <1>3, <1>4

(* Every step keeps what is known of the parses.                            *)
LEMMA ParseStep ==
  ASSUME Inv, TypeOK', NEW a \in Ids, NEW k \in Keys, Parse(a, k)
  PROVE  RequestsInv' /\ RowsInv' /\ ParsesInv' /\ CountInv'
<1> USE DEF Inv, RequestsInv, RowsInv, ParsesInv
<1>1. /\ UNCHANGED <<row, results, worker, cache, stale, faulty, lost, req, objects, leaked>>
      /\ Exists(a)
  BY DEF Parse, Listed, requestVars
<1>2. /\ \A l \in Messages : messages'[l] > 0 => messages[l] > 0 \/ l[1] = a
      /\ \A l \in Messages : messages[l] > 0 => messages'[l] > 0
  <2>1. <<a, k, 0>> \in Messages
    BY LimitsAssumption DEF Messages, Attempts
  <2>2. messages \in [Messages -> Nat]
    BY DEF TypeOK
  <2>3. messages' = [messages EXCEPT ![<<a, k, 0>>] = @ + 1]
    BY DEF Parse, Send
  <2>4. \A l \in Messages : l # <<a, k, 0>> => messages'[l] = messages[l]
    BY <2>1, <2>2, <2>3
  <2>5. messages'[<<a, k, 0>>] = messages[<<a, k, 0>>] + 1 /\ <<a, k, 0>>[1] = a
    BY <2>1, <2>2, <2>3
  <2>6. messages[<<a, k, 0>>] \in Nat
    BY <2>1, <2>2
  <2> QED
    BY <2>1, <2>4, <2>5, <2>6
<1>3. RequestsInv' /\ ContentOnce' /\ StoredHasObject' /\ SuccessHasResult'
  BY <1>1 DEF UploadsFresh, UploadsApart, UploadsPut, DeletionsRead, DeletionsParsed, DeletionsMark,
     DeletionsFail, Uploading, Deleting, ContentOnce, StoredHasObject, SuccessHasResult, Exists
<1>4. WorkersInv' /\ VerdictsInv'
  BY <1>1, <1>2 DEF WorkersInv, VerdictsInv, Exists
<1>5. FailuresInv'
  BY <1>1, <1>2 DEF FailuresInv, Carried, Live, Listed, Exists, Messages
<1>6. ObjectsInv'
  BY <1>1 DEF ObjectsInv, Owned, Listed, Exists
<1>7. CountInv'
  BY <1>1 DEF CountInv, Counted, Live, Listed, Exists, Doomed, Deleting, Admitted
<1> QED
  BY <1>3, <1>4, <1>5, <1>6, <1>7

(***************************************************************************)
(* The theorems.                                                           *)
(***************************************************************************)
LEMMA InitInv == Init => Inv
<1> SUFFICES ASSUME Init PROVE Inv
  OBVIOUS
<1>1. TypeOK
  BY BudgetsAssumption
  DEF Init, TypeOK, Rows, Absent, Request, NoRequest, Worker, Free, Messages, None
<1>2. RequestsInv /\ ContentOnce /\ StoredHasObject /\ SuccessHasResult /\ ObjectsInv
  BY DEF Init, RequestsInv, UploadsFresh, UploadsApart, UploadsPut, DeletionsRead, DeletionsParsed,
     DeletionsMark, DeletionsFail, Uploading, Deleting, NoRequest, ContentOnce, StoredHasObject,
     SuccessHasResult, ObjectsInv, Exists, Absent, None
<1>3. ParsesInv
  BY DEF Init, ParsesInv, WorkersInv, VerdictsInv, FailuresInv, Live, Listed, Exists, Absent, Free
<1>4. CountInv
  <2>1. Counted = {} /\ Admitted = {}
    BY DEF Init, Counted, Live, Listed, Exists, Absent, Doomed, Deleting, Admitted, NoRequest
  <2> QED
    BY <1>1, <2>1, FS_EmptySet, CountedFinite, LimitsAssumption DEF CountInv
<1> QED
  BY <1>1, <1>2, <1>3, <1>4 DEF Inv, RowsInv

(* Every step keeps the invariant.                                          *)
LEMMA NextInv == Inv /\ [Next]_vars => Inv'
<1> SUFFICES ASSUME Inv, [Next]_vars PROVE Inv'
  OBVIOUS
<1>1. CASE Next
  <2>1. TypeOK'
    BY <1>1, TypeStep DEF Inv, ParsesInv
  <2>2. CASE RequestNext
    <3>1. CountInv'
      BY <2>1, <2>2, CountMeasure, CountInsert, CountOther
    <3> QED
      BY <2>1, <2>2, <3>1, RequestsStep DEF Inv
  <2>3. ASSUME NEW w \in Workers, WorkerNext(w)
        PROVE  Inv'
    BY <1>1, <2>1, <2>3, WorkersStep, CountWorker DEF Inv
  <2>4. ASSUME NEW a \in Ids, NEW k \in Keys, Parse(a, k)
        PROVE  Inv'
    BY <2>1, <2>4, ParseStep DEF Inv
  <2> QED
    BY <1>1, <2>2, <2>3, <2>4 DEF Next, Fault, RequestNext, WorkerNext
<1>2. CASE UNCHANGED vars
  <2>1. UNCHANGED <<row, objects, results, req, messages, worker, cache, left, leaked, stale, faulty, lost>>
    BY <1>2 DEF vars
  <2>2. TypeOK' /\ ContentOnce' /\ StoredHasObject' /\ SuccessHasResult'
    BY <2>1 DEF Inv, RowsInv, TypeOK, ContentOnce, StoredHasObject, SuccessHasResult, Exists
  <2>3. RequestsInv'
    BY <2>1
    DEF Inv, RequestsInv, UploadsFresh, UploadsApart, UploadsPut, DeletionsRead, DeletionsParsed,
       DeletionsMark, DeletionsFail, Uploading, Deleting, Exists
  <2>4. ParsesInv' /\ ObjectsInv'
    BY <2>1 DEF Inv, RowsInv, ParsesInv, WorkersInv, VerdictsInv, FailuresInv, Carried, ObjectsInv,
       Owned, Live, Listed, Exists
  <2>5. CountInv'
    BY <2>1 DEF Inv, CountInv, Counted, Live, Listed, Exists, Doomed, Deleting, Admitted
  <2> QED
    BY <2>2, <2>3, <2>4, <2>5 DEF Inv, RowsInv
<1> QED
  BY <1>1, <1>2

(* Of attachments that are uploaded, deleted and parsed at the same time,   *)
(* for any number of requests, workers and tries.                           *)
THEOREM Invariance == Spec => []Inv
  BY InitInv, NextInv, PTL DEF Spec

(* The version stays within its limit but for the requests in flight, it    *)
(* has a file once, and what it lists as stored is in the file store.       *)
THEOREM RowsKeepLimits == Spec => []AttachmentInv
<1>1. Inv => AttachmentInv
  <2> SUFFICES ASSUME Inv PROVE VersionBounded
    BY DEF Inv, RowsInv, AttachmentInv
  <2>1. Cardinality(Live \ stale) <= Cardinality(Counted) /\ Cardinality(Live \ stale) \in Nat
    <3>1. Live \ stale \subseteq Counted
      BY DEF Counted
    <3> QED
      BY <3>1, CountedFinite, FS_Subset, FS_CardinalityType DEF Inv
  <2> QED
    BY <2>1, CountedFinite, LimitsAssumption DEF Inv, CountInv, VersionBounded
<1> QED
  BY <1>1, Invariance, PTL

(* No object is left in the file store that no row lists and no request is  *)
(* going to insert or remove, unless the file store or a request failed.    *)
THEOREM NothingLeftOver == Spec => []ObjectsOwned
<1>1. Inv => ObjectsOwned
  BY DEF Inv, RowsInv, ObjectsInv, Owned, ObjectsOwned
<1> QED
  BY <1>1, Invariance, PTL

(* A success in the row or in the cache has its result; a failure in the    *)
(* row is tried again, or its parse has come to an end in the cache, or its *)
(* message is gone with the child that worked on it (task_acks_late without *)
(* task_reject_on_worker_lost).                                             *)
THEOREM ParsesTold == Spec => []ParseTold
<1>1. Inv => ParseTold
  <2> SUFFICES ASSUME Inv PROVE FailureInHand
    BY DEF Inv, RowsInv, ParseTold
  <2>1. \A a \in Ids, k \in Keys : Carried(a, k) => InHand(a, k)
    BY WorkerTyped DEF Carried, InHand, Inv
  <2> QED
    BY <2>1 DEF Inv, ParsesInv, FailuresInv, FailureInHand, Live
<1> QED
  BY <1>1, Invariance, PTL
=============================================================================
