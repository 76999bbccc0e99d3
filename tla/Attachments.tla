----------------------------- MODULE Attachments -----------------------------
(***************************************************************************)
(* The attachments of one version of a document: their rows in the         *)
(* database, their objects in the file store, the API requests that upload *)
(* and delete them and the Celery workers that have them parsed.           *)
(*                                                                         *)
(* A request or a worker reads a row, calls the file store or the OCR      *)
(* service, and writes the whole row back later.  Nothing is locked in     *)
(* between.  A request that ends without a change of state is no step: a   *)
(* download, the answer to a duplicate, or a refusal, also that of a       *)
(* document whose status, which others change at any time, is not draft,   *)
(* withdrawn or returned when it is read.                                  *)
(***************************************************************************)
EXTENDS Integers, FiniteSets

CONSTANTS
  Ids,              \* attachments that can be created
  Contents,         \* files, told apart by their hash; all of one size
  Keys,             \* values of the header Idempotency-Key
  Requests,         \* API requests that can be in flight
  Workers,          \* Celery workers
  MaxFiles,         \* max_version_size, in files
  MaxRetries,       \* max_retries of the Celery task, 3 in the code
  Budgets           \* bounds on the uploads and deletions served, on the
                    \* parses asked for and on the workers and children that die

VARIABLES
  row,              \* document_attachments
  objects,          \* attachments whose object is in the file store
  results,          \* attachment_parse_results, by attachment and key
  req,              \* where each API request is, and what it has read
  messages,         \* waiting Celery messages: how many of each
  worker,           \* where each worker is, and what it has read
  cache,            \* status of a parse in Redis
  left,             \* what is left of the budget
  leaked,           \* history: attachments hit by a failure of a request
  stale,            \* history: attachments whose storage_status a worker
                    \* has overwritten with one that was out of date
  faulty,           \* history: the database failed a worker
  lost              \* history: parses, by attachment and key, whose message
                    \* went with a child that died

ASSUME IdsAssumption == IsFiniteSet(Ids) /\ IsFiniteSet(Requests)
ASSUME KeysAssumption == "none" \notin Keys
ASSUME LimitsAssumption == MaxFiles \in Nat \ {0} /\ MaxRetries \in Nat
ASSUME BudgetsAssumption == Budgets \subseteq [served: Nat, parses: Nat, crashes: Nat]

requestVars == <<req, objects, leaked>>
workerVars == <<messages, worker, cache, results, stale, faulty, lost>>
vars == <<row, objects, results, req, messages, worker, cache, left,
          leaked, stale, faulty, lost>>

(***************************************************************************)
(* Rows.                                                                   *)
(***************************************************************************)
None == "none"
Terminal == {"succeeded", "manual_review"}
ParseStates == {"pending", "queued", "failed"} \cup Terminal
Record == [content: Contents, storage: {"stored", "deleted", "failed"},
           parse: ParseStates, key: Keys \cup {None}]
Absent == [storage |-> "absent"]
Rows == Record \cup {Absent}

Exists(a) == row[a].storage # "absent"
Listed(a) == Exists(a) /\ row[a].storage # "deleted"
Live == {a \in Ids : Listed(a)}

Attempts == 0..MaxRetries
Messages == Ids \X Keys \X Attempts

NoRequest == [at |-> "idle"]
Free == [at |-> "idle"]

Request ==
  [at: {"measure", "put", "insert", "cleanup"}, id: Ids, content: Contents]
    \cup [at: {"mark", "remove", "unmark"}, id: Ids, seen: Record]
    \cup {NoRequest}
Worker ==
  [at: {"recognise", "read", "cache", "again", "done"}, id: Ids, key: Keys,
   attempt: Attempts, verdict: ParseStates]
    \cup [at: {"write"}, id: Ids, key: Keys, attempt: Attempts,
          verdict: ParseStates, seen: Record]
    \cup {Free}

Init ==
  /\ row = [a \in Ids |-> Absent]
  /\ objects = {}
  /\ results = {}
  /\ req = [r \in Requests |-> NoRequest]
  /\ messages = [m \in Messages |-> 0]
  /\ worker = [w \in Workers |-> Free]
  /\ cache = [p \in Ids \X Keys |-> None]
  /\ left \in Budgets
  /\ leaked = {}
  /\ stale = {}
  /\ faulty = FALSE
  /\ lost = {}

(***************************************************************************)
(* Upload.                                                                 *)
(***************************************************************************)
Serve(r, record) ==
  /\ req[r] = NoRequest
  /\ left.served > 0
  /\ left' = [left EXCEPT !.served = @ - 1]
  /\ req' = [req EXCEPT ![r] = record]

InFlight == {r \in Requests : req[r] # NoRequest}

(* uuid4(): any attachment that does not exist yet is as good as another.  *)
Unused == {a \in Ids \ leaked : ~Exists(a) /\ \A r \in InFlight : req[r].id # a}

(* find_by_hash leaves out the attachments that are deleted. *)
FindByHash(c) == {a \in Live : row[a].content = c}

(* The status of the document, the hash. *)
Upload(r, c) ==
  /\ FindByHash(c) = {}
  /\ Unused # {}
  /\ Serve(r, [at |-> "measure", id |-> CHOOSE a \in Unused : TRUE, content |-> c])
  /\ UNCHANGED <<row, objects, leaked>>
  /\ UNCHANGED workerVars

(* sum of the sizes, with the new file, against max_version_size *)
HasRoom(n) == n < MaxFiles

(* The size of the version, the scan. *)
Measure(r) ==
  /\ req[r].at = "measure"
  /\ req' = [req EXCEPT ![r] = IF HasRoom(Cardinality(Live)) THEN [@ EXCEPT !.at = "put"]
                                                             ELSE NoRequest]
  /\ UNCHANGED <<row, objects, leaked, left>>
  /\ UNCHANGED workerVars

Put(r) ==
  /\ req[r].at = "put"
  /\ objects' = objects \cup {req[r].id}
  /\ req' = [req EXCEPT ![r].at = "insert"]
  /\ UNCHANGED <<row, leaked, left>>
  /\ UNCHANGED workerVars

(* The file store fails; it may have kept the object nevertheless. *)
PutFails(r) ==
  /\ req[r].at = "put"
  /\ objects' \in {objects, objects \cup {req[r].id}}
  /\ leaked' = leaked \cup {req[r].id}
  /\ req' = [req EXCEPT ![r] = NoRequest]
  /\ UNCHANGED <<row, left>>
  /\ UNCHANGED workerVars

(* uq_document_attachments_version_hash covers deleted attachments too. *)
Unique(c) == \A a \in Ids : Exists(a) => row[a].content # c

Insert(r) ==
  /\ req[r].at = "insert"
  /\ Unique(req[r].content)
  /\ row' = [row EXCEPT ![req[r].id] = [content |-> req[r].content, storage |-> "stored",
                                        parse |-> "pending", key |-> None]]
  /\ req' = [req EXCEPT ![r] = NoRequest]
  /\ UNCHANGED <<objects, leaked, left>>
  /\ UNCHANGED workerVars

(* The file is there already, the database fails, or the transaction has   *)
(* been begun by the lookups before.                                       *)
InsertFails(r) ==
  /\ req[r].at = "insert"
  /\ req' = [req EXCEPT ![r].at = "cleanup"]
  /\ UNCHANGED <<row, objects, leaked, left>>
  /\ UNCHANGED workerVars

(* Mutant: the object is left in the store. *)
RemovedNot(a) == objects

(* storage.delete *)
Removed(a) == objects \ {a}

Cleanup(r) ==
  /\ req[r].at = "cleanup"
  /\ objects' = Removed(req[r].id)
  /\ req' = [req EXCEPT ![r] = NoRequest]
  /\ UNCHANGED <<row, leaked, left>>
  /\ UNCHANGED workerVars

CleanupFails(r) ==
  /\ req[r].at = "cleanup"
  /\ leaked' = leaked \cup {req[r].id}
  /\ req' = [req EXCEPT ![r] = NoRequest]
  /\ UNCHANGED <<row, objects, left>>
  /\ UNCHANGED workerVars

(***************************************************************************)
(* Deletion: the row first, then the object.                               *)
(***************************************************************************)
Delete(r, a) ==
  /\ Listed(a)
  /\ Serve(r, [at |-> "mark", id |-> a, seen |-> row[a]])
  /\ UNCHANGED <<row, objects, leaked>>
  /\ UNCHANGED workerVars

(* Mutant: the update leaves out storage_status. *)
MarkedNot(record) == record

Marked(record) == [record EXCEPT !.storage = "deleted"]

(* save writes every column of the record that was read. *)
Mark(r) ==
  /\ req[r].at = "mark"
  /\ row' = [row EXCEPT ![req[r].id] = Marked(req[r].seen)]
  /\ req' = [req EXCEPT ![r].at = "remove"]
  /\ UNCHANGED <<objects, leaked, left>>
  /\ UNCHANGED workerVars

Remove(r) ==
  /\ req[r].at = "remove"
  /\ objects' = Removed(req[r].id)
  /\ req' = [req EXCEPT ![r] = NoRequest]
  /\ UNCHANGED <<row, leaked, left>>
  /\ UNCHANGED workerVars

(* The file store fails; it may have removed the object nevertheless. *)
RemoveFails(r) ==
  /\ req[r].at = "remove"
  /\ objects' \in {objects, objects \ {req[r].id}}
  /\ leaked' = leaked \cup {req[r].id}
  /\ req' = [req EXCEPT ![r].at = "unmark"]
  /\ UNCHANGED <<row, left>>
  /\ UNCHANGED workerVars

Unmark(r) ==
  /\ req[r].at = "unmark"
  /\ row' = [row EXCEPT ![req[r].id] = [req[r].seen EXCEPT !.storage = "failed"]]
  /\ req' = [req EXCEPT ![r] = NoRequest]
  /\ UNCHANGED <<objects, leaked, left>>
  /\ UNCHANGED workerVars

(* The process of the API stops, or the database fails a deletion. *)
Stop(r) ==
  /\ req[r] # NoRequest
  /\ leaked' = leaked \cup {req[r].id}
  /\ req' = [req EXCEPT ![r] = NoRequest]
  /\ UNCHANGED <<row, objects, left>>
  /\ UNCHANGED workerVars

(***************************************************************************)
(* Parsing.                                                                *)
(***************************************************************************)
Send(m) == messages' = [messages EXCEPT ![m] = @ + 1]

(* POST .../parse: nothing is written, and the key may have been used. *)
Parse(a, k) ==
  /\ Listed(a)
  /\ left.parses > 0
  /\ left' = [left EXCEPT !.parses = @ - 1]
  /\ Send(<<a, k, 0>>)
  /\ UNCHANGED <<row, results, worker, cache, stale, faulty, lost>>
  /\ UNCHANGED requestVars

(* The cache is read; an error counts as a miss. *)
Take(w, m) ==
  /\ worker[w] = Free
  /\ messages[m] > 0
  /\ messages' = [messages EXCEPT ![m] = @ - 1]
  /\ \/ worker' = [worker EXCEPT ![w] = [at |-> "recognise", id |-> m[1], key |-> m[2],
                                         attempt |-> m[3], verdict |-> "pending"]]
        /\ cache[<<m[1], m[2]>>] \notin Terminal
     \/ UNCHANGED worker
        /\ cache[<<m[1], m[2]>>] \in Terminal
  /\ UNCHANGED <<row, results, cache, left, stale, faulty, lost>>
  /\ UNCHANGED requestVars

TakeUncached(w, m) ==
  /\ worker[w] = Free
  /\ messages[m] > 0
  /\ cache[<<m[1], m[2]>>] \in Terminal
  /\ messages' = [messages EXCEPT ![m] = @ - 1]
  /\ worker' = [worker EXCEPT ![w] = [at |-> "recognise", id |-> m[1], key |-> m[2],
                                      attempt |-> m[3], verdict |-> "pending"]]
  /\ UNCHANGED <<row, results, cache, left, stale, faulty, lost>>
  /\ UNCHANGED requestVars

(* Mutant: one attempt more than Celery makes. *)
FailureLate(attempt) == IF attempt > MaxRetries THEN {"manual_review"} ELSE {"failed", "queued"}

(* attachment_parse_state; an exception without a text counts as none. *)
Failure(attempt) == IF attempt >= MaxRetries THEN {"manual_review"} ELSE {"failed", "queued"}

(* get_request does not look at storage_status: OCR fails when the object  *)
(* is gone, and may fail otherwise.                                        *)
Recognise(w) ==
  /\ worker[w].at = "recognise"
  /\ \E verdict \in Failure(worker[w].attempt) \cup
                    (IF worker[w].id \in objects THEN {"succeeded"} ELSE {}) :
       worker' = [worker EXCEPT ![w] = [@ EXCEPT !.at = "read", !.verdict = verdict]]
  /\ UNCHANGED <<row, results, messages, cache, left, stale, faulty, lost>>
  /\ UNCHANGED requestVars

(* _save reads the row in one transaction ... *)
Read(w) ==
  LET k == worker[w] IN
  /\ k.at = "read"
  /\ worker' = [worker EXCEPT ![w] = [at |-> "write", id |-> k.id, key |-> k.key,
                 attempt |-> k.attempt, verdict |-> k.verdict, seen |-> row[k.id]]]
  /\ UNCHANGED <<row, results, messages, cache, left, stale, faulty, lost>>
  /\ UNCHANGED requestVars

At(k, place) == [at |-> place, id |-> k.id, key |-> k.key, attempt |-> k.attempt,
                 verdict |-> k.verdict]

(* append_parse_result, once for every key *)
AppendResult(a, k) == results \cup {<<a, k>>}

(* ... and writes all of it, with the result, in another. *)
Write(w) ==
  LET k == worker[w] IN
  /\ k.at = "write"
  /\ row' = [row EXCEPT ![k.id] = [k.seen EXCEPT !.parse = k.verdict, !.key = k.key]]
  /\ results' = IF k.verdict = "succeeded" THEN AppendResult(k.id, k.key) ELSE results
  /\ stale' = IF k.seen.storage # row[k.id].storage THEN stale \cup {k.id} ELSE stale
  /\ worker' = [worker EXCEPT ![w] = At(k, "cache")]
  /\ UNCHANGED <<messages, cache, left, faulty, lost>>
  /\ UNCHANGED requestVars

(* After a success that cannot be saved, a failure is saved instead. *)
Instead(k) == {[At(k, "read") EXCEPT !.verdict = verdict] : verdict \in Failure(k.attempt)}

(* The database fails.  When it is a failure that cannot be saved, the     *)
(* exception leaves the task; Celery retries some of them by itself.       *)
SaveFails(w) ==
  LET k == worker[w] IN
  /\ k.at \in {"read", "write"}
  /\ faulty' = TRUE
  /\ \/ /\ k.verdict = "succeeded"
        /\ \E next \in Instead(k) : worker' = [worker EXCEPT ![w] = next]
     \/ /\ k.verdict # "succeeded"
        /\ \E next \in {"again", "done"} : worker' = [worker EXCEPT ![w] = At(k, next)]
  /\ UNCHANGED <<row, results, messages, cache, left, stale, lost>>
  /\ UNCHANGED requestVars

(* Mutant: the task fails without a retry. *)
AfterCacheDone(k) == "done"

AfterCache(k) == IF k.verdict = "succeeded" \/ k.attempt >= MaxRetries THEN "done" ELSE "again"

(* _cache_set_nonfatal: an error changes nothing. *)
SetCache(w) ==
  LET k == worker[w] IN
  /\ k.at = "cache"
  /\ cache' \in {cache, [cache EXCEPT ![<<k.id, k.key>>] = k.verdict]}
  /\ worker' = [worker EXCEPT ![w].at = AfterCache(k)]
  /\ UNCHANGED <<row, results, messages, left, stale, faulty, lost>>
  /\ UNCHANGED requestVars

(* self.retry, or the autoretry *)
Again(w) ==
  LET k == worker[w] IN
  /\ k.at = "again"
  /\ IF k.attempt < MaxRetries THEN Send(<<k.id, k.key, k.attempt + 1>>) ELSE UNCHANGED messages
  /\ worker' = [worker EXCEPT ![w].at = "done"]
  /\ UNCHANGED <<row, results, cache, left, stale, faulty, lost>>
  /\ UNCHANGED requestVars

Acknowledge(w) ==
  /\ worker[w].at = "done"
  /\ worker' = [worker EXCEPT ![w] = Free]
  /\ UNCHANGED <<row, results, messages, cache, left, stale, faulty, lost>>
  /\ UNCHANGED requestVars

Dies(w) ==
  /\ worker[w] # Free
  /\ left.crashes > 0
  /\ left' = [left EXCEPT !.crashes = @ - 1]
  /\ worker' = [worker EXCEPT ![w] = Free]

(* task_acks_late: the message comes again when the whole worker dies.     *)
Crash(w) ==
  /\ Dies(w)
  /\ Send(<<worker[w].id, worker[w].key, worker[w].attempt>>)
  /\ UNCHANGED <<row, results, cache, stale, faulty, lost>>
  /\ UNCHANGED requestVars

(* A child that is lost or reaches task_time_limit has its message         *)
(* acknowledged: task_reject_on_worker_lost is not set.                    *)
Killed(w) ==
  LET k == worker[w] IN
  /\ Dies(w)
  /\ lost' = lost \cup (IF k.at = "done" THEN {} ELSE {<<k.id, k.key>>})
  /\ UNCHANGED <<row, results, messages, cache, stale, faulty>>
  /\ UNCHANGED requestVars

RequestStep(r) ==
  \/ Measure(r) \/ Put(r) \/ Insert(r) \/ InsertFails(r) \/ Cleanup(r)
  \/ Mark(r) \/ Remove(r) \/ Unmark(r)

WorkerStep(w) ==
  \/ \E m \in Messages : Take(w, m)
  \/ Recognise(w) \/ Read(w) \/ Write(w) \/ SetCache(w) \/ Again(w) \/ Acknowledge(w)

Fault ==
  \/ \E r \in Requests : PutFails(r) \/ CleanupFails(r) \/ RemoveFails(r) \/ Stop(r)
  \/ \E w \in Workers : SaveFails(w) \/ Crash(w) \/ Killed(w) \/ \E m \in Messages : TakeUncached(w, m)

Next ==
  \/ \E r \in Requests, a \in Ids : Delete(r, a)
  \/ \E r \in Requests, c \in Contents : Upload(r, c)
  \/ \E a \in Ids, k \in Keys : Parse(a, k)
  \/ \E r \in Requests : RequestStep(r)
  \/ \E w \in Workers : WorkerStep(w)
  \/ Fault

Spec == Init /\ [][Next]_vars

(* Workers go on with what they have, and take what is waiting. *)
FairSpec == Spec /\ \A w \in Workers : WF_vars(WorkerStep(w))

(***************************************************************************)
(* Properties.                                                             *)
(***************************************************************************)
TypeOK ==
  /\ row \in [Ids -> Rows]
  /\ objects \subseteq Ids
  /\ results \subseteq Ids \X Keys
  /\ req \in [Requests -> Request]
  /\ messages \in [Messages -> Nat]
  /\ worker \in [Workers -> Worker]
  /\ cache \in [Ids \X Keys -> ParseStates \cup {None}]
  /\ left \in [served: Nat, parses: Nat, crashes: Nat]
  /\ leaked \subseteq Ids /\ stale \subseteq Ids
  /\ faulty \in BOOLEAN
  /\ lost \subseteq Ids \X Keys

(* Uploads of the same file that are in flight together all pass the look- *)
(* up of its hash: the version has the file once nevertheless, and it is   *)
(* never uploaded again after a deletion.                                  *)
ContentOnce ==
  \A a, b \in Ids : Exists(a) /\ Exists(b) /\ row[a].content = row[b].content => a = b

(* Uploads that are past the check of the size.                            *)
Admitted == {r \in Requests : req[r].at \in {"put", "insert"}}

(* Every upload checks the size of the version before the others are       *)
(* inserted, and a deletion that fails brings its attachment back: the     *)
(* limit is exceeded by less than the number of requests, not counting     *)
(* what a late worker has brought back.                                    *)
VersionBounded ==
  Cardinality(Live \ stale) + Cardinality(Admitted) < MaxFiles + Cardinality(Requests)

(* An attachment that is listed as stored can be downloaded and parsed,    *)
(* unless a worker has brought it back with a row it had read before the   *)
(* deletion.                                                               *)
StoredHasObject ==
  \A a \in Ids : row[a].storage = "stored" /\ a \notin stale => a \in objects

(* Together: requests and workers that act on what they read earlier leave *)
(* rows that keep to the limits of a version and can be served.            *)
AttachmentInv == TypeOK /\ ContentOnce /\ VersionBounded /\ StoredHasObject

(* Every object has a row that is listed, or a request that is going to    *)
(* insert the row or to remove the object: only failures leave rubbish.    *)
ObjectsOwned ==
  \A a \in objects \ leaked :
    \/ Listed(a)
    \/ \E r \in Requests : req[r].at \in {"insert", "cleanup", "remove"} /\ req[r].id = a

(* A parse said to have succeeded, in the row or in the cache, has its     *)
(* result, whatever the other parses of the attachment write.              *)
SuccessHasResult ==
  \A a \in Ids, k \in Keys :
    \/ Exists(a) /\ row[a].parse = "succeeded" /\ row[a].key = k
    \/ cache[<<a, k>>] = "succeeded"
    => <<a, k>> \in results

(* Somebody is going to have the attachment parsed with this key.          *)
InHand(a, k) ==
  \/ \E attempt \in Attempts : messages[<<a, k, attempt>>] > 0
  \/ \E w \in Workers : worker[w] # Free /\ worker[w].at # "done"
                          /\ worker[w].id = a /\ worker[w].key = k

(* A failed parse is tried again, or its key has come to an end in the     *)
(* cache: then a late worker has written over the row, and the failure     *)
(* stands in it for ever.  It also does when its message went with a child.*)
FailureInHand ==
  \A a \in Live \ (leaked \cup stale), k \in Keys :
    row[a].parse \in {"failed", "queued"} /\ row[a].key = k /\ ~faulty /\ <<a, k>> \notin lost
      => InHand(a, k) \/ cache[<<a, k>>] \in Terminal

(* Together: what the row and the cache say of a parse can be relied on.   *)
ParseTold == SuccessHasResult /\ FailureInHand

(* A parse that has been asked for has a result in the end, or is taken    *)
(* over by a human, although messages come twice and workers die, unless   *)
(* its message is lost with a child.                                       *)
ParseEnds ==
  \A a \in Ids, k \in Keys :
    (\E attempt \in Attempts : messages[<<a, k, attempt>>] > 0)
      ~> \/ <<a, k>> \in results
         \/ row[a].storage # "absent" /\ row[a].parse = "manual_review"
         \/ cache[<<a, k>>] = "manual_review"
         \/ faulty \/ <<a, k>> \in lost

(* For TLC: uploads and deletions against each other, a deletion against a *)
(* parse, a worker that dies, two parses of one attachment at once.        *)
MCBudgets == {[served |-> 4, parses |-> 0, crashes |-> 0],
              [served |-> 2, parses |-> 1, crashes |-> 0],
              [served |-> 1, parses |-> 1, crashes |-> 1],
              [served |-> 1, parses |-> 2, crashes |-> 0]}
=============================================================================
