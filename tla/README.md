# Models and proofs of the financial document review system

TLA+ models of the server of the financial document review system (FastAPI,
SQLAlchemy on PostgreSQL, Celery, Redis, Milvus), model-checked with TLC, with
proofs checked by TLAPS.  All paths are relative to the repository (`src/`).
`PROJECT.json` lists the runs, the mutants, the theorems, the hazards and, for
every definition that models code, the lines it stands for.

The repository holds the program twice: `交付物/后端/` is a copy, file by file
the same, of `app/`, `engines/`, `alembic/` and `seed_demo_data.py`, and some
files of it are once more under `交付物/文件存储/`.  The models refer to the
original; what they say holds of the copies too.

## 1. The system

| Component | State | Operations | Hard part |
|---|---|---|---|
| Documents (`persistent_document_service.py`, `sql_document_repository.py`) | `financial_documents` (status, state version, current version, amounts, payload), `document_versions` | create, copy, update, line items, submit, withdraw, void, list | rows are read without a lock and written later; a submission is three transactions; edits are validated in part |
| Document numbers (`_next_document_no`) | `document_no`, unique per type | count under an advisory lock | the count stands for the next number |
| Approval (`persistent_approval_service.py`, `sql_approval_repository.py`) | `approval_instances`, `approval_tasks`, status logs, responses in Redis | decide: approve, return, reject; list | row locks in two orders, duplicates, a cache written after the commit |
| Workflow templates (`sql_workflow_repository.py`) | templates, nodes, status | create, update, publish, instantiate | a template changes while instances are made of it |
| Analysis tasks (`persistent_analysis_service.py`, `analysis_tasks.py`) | `analysis_tasks`, Celery messages, events in Redis | start, retry, run, persist a failure, stream events | retries by users and by Celery at once, redelivered and lost messages, stale updates |
| Attachments (`persistent_attachment_service.py`, `attachment_tasks.py`) | rows, stored objects, parse results | upload, delete, parse | duplicate detection before insert, a worker that writes back what it read |
| File storage (`local_storage.py`, `minio_storage.py`, `engines/security`) | objects, links, records of the development router | admit, put, link, read, delete | a link outlives the access it was made for; a crash between object and record |
| Reports (`persistent_report_service.py`, `report_tasks.py`) | reports, export status in Redis | draft, finalize, export | two drafts finalized at once, a status that is not atomic |
| Review sessions (`sql_session_repository.py`) | sessions, messages | add message, close | closing races a message |
| Authentication (`auth_service.py`, `postgres_auth_service.py`) | users, tokens, limiter in Redis or in memory, audit events | log in, refresh, log out, manage users | limiter counters, revocation in whole seconds |
| Permissions and data scopes (`permission_service.py`, `engines/auth`) | none | authorize, filter a query, check a row | one rule written three times |
| Risk rules and reviews (`engines/risk`, `persistent_risk_service.py`, `manual_review_service.py`) | findings, reviews | evaluate, review, derive a level | lookups and inserts in two transactions, decisions about records and not findings |
| Retrieval and audit log (`engines/model/rag`, `sql_audit_repository.py`) | the log | embed, search, rerank, log, list | providers that come and go; pages of a list that grows |
| OCR (`engines/ocr`) | temporary files, one pipeline | recognize | threads that overlap, a disk that fails |
| Registries (`engines/common`) | what is registered | register, look up | names with blanks, an allowlist |
| Configuration and support data (`routers/support.py`) | rules and parameters in process memory, prices | idempotent writes | cached responses, restarts |
| In-memory services | dictionaries of one process | those of documents, approvals, analyses, attachments, reports, reviews | repeated, late and out of order calls |
| Units of work (`app/db/uow.py`) | one session | enter, commit, roll back, leave | coroutines that share the object |
| Requests, health and errors (`app/main.py`, `health_service.py`) | the id of a request | middleware, exception handlers, readiness probe | errors at each layer, dependencies that come and go |
| Migrations and demonstration data (`alembic/`, `seed_demo_data.py`) | the schema, the seeded rows | upgrade, downgrade, seed | one migration rebuilds everything; rows under keys that are taken |

How they interact.  A submission commits a version, then starts an analysis
task, which is committed and sent to Celery, and then creates an approval
instance from the published template of the document type.  A decision of an
approver updates its task, its instance and, without reading it, the status of
the document.  Nothing else connects documents and approvals: withdrawing a
document does not touch its instance, and a decision does not look at the
document.  The PRD (`财务评审文档/01-PRD/财务单据智能风险审核系统-PRD.md`, line 424) wants the
tasks of a withdrawn document cancelled; as the program is composed the
difference does not show, since a submission fails before there is an instance
(fact 2) and a seeded document that waits (`pending_approval`) cannot be
withdrawn; with an injected repository it would.  Attachments, findings,
sessions and reports refer to a version by its id and read its row; none of
them writes to it.

What makes the components correct, in short: versions are numbered without gap
and frozen, only the current version is ever decided on, nodes are decided in
order and once, a document number identifies its document, an analysis task is
forgotten only through a fault that can be named, a block of logins comes in
time and ends, a stored row has its object, an export ends but for such a
fault, a version has one final report, a client of a list or an event stream
misses nothing that was there.

### Facts about the code that shape the models

1. *Reads without a lock.*  The pool gives every request its own session
   (`app/db/engine.py`).  PostgreSQL runs READ COMMITTED: an unlocked read sees
   the last commit, and an UPDATE by primary key waits for the row lock and
   overwrites.  The session keeps the object it read first in its identity map.
   `update_draft` reads the row, then selects it FOR UPDATE, but the second
   statement does not refresh the attributes, so its check of
   `expected_state_version` is a check of the first read.
2. *A lookup begins a transaction.*  `session.execute` starts a transaction if
   there is none, and `session.begin()` then raises.  With the SQL analysis
   repository, `start` therefore always fails after its lookup
   (`persistent_analysis_service.py:103-110`), after the version was committed;
   with the SQL risk repository an evaluation never stores its findings
   (`persistent_risk_service.py`).  The constant `LookupOpensTxn` of
   `DocumentLifecycle` and `RiskReview` tells whether the repository is that
   one, or one whose lookup opens no transaction (the services take their
   repository as a parameter).  With `TRUE`, the repositories the application
   injects, no submission gets an approval instance.  What the models say of
   instances after a submission (`LiveInstanceIsCurrent`, `ReviewIsAnalysed`
   and `ImplementsLedger` beyond the seeded instance, `StartAnalysis` that
   succeeds) and of stored findings (`BoundToLatest`) is about the services
   with an injected repository of the other kind.  The PostgreSQL
   authentication backend has the same effect on every write of a request; the
   models assume the other one where the request writes.
3. *Celery acknowledges late* (`celery_app.py:16`).  A message is delivered
   again when the whole worker dies, connection and all.  The worker is a
   prefork pool (`deploy/run_service.sh:30`), and `task_reject_on_worker_lost`
   is not set: when only the child that runs a task is lost, or is killed at
   `task_time_limit` (`celery_app.py:23`), the worker acknowledges the message
   and nobody runs the task again.  `Crash` is the first of these and `Killed`
   the second, in `AnalysisTask`, `Attachments` and `ReportExport`.
4. *The API is one process* (`deploy/run_service.sh`): a method that awaits
   nothing is one step, calls to Redis through the synchronous client included.

## 2. Modules

| Module | What it is |
|---|---|
| `DocumentLifecycle` | one document: its row, versions and approval instances under concurrent requests of the applicant and decisions of approvers |
| `VersionLedger` | what the submission path promises: versions are appended one at a time, never during a review, and reviewed once |
| `ApprovalFlow` | the instances, tasks and decisions of one document, with row locks, the response cache and crashes |
| `SequentialApproval` | what approval promises: rounds in which the nodes approve one after the other |
| `DocumentNumbering` | document numbers under concurrent creations, copies and updates |
| `AnalysisTask` | one analysis task: API requests, Celery messages and workers |
| `LoginLimiter` | the counters of failed logins in Redis under concurrent logins |
| `Attachments` | the attachments of one version: rows, objects, uploads, deletions and parse workers |
| `SupportServices` | `ReviewSessions`, `ReportExport`, `WorkflowTemplates`, `ConfigWrites`, `TokenLifecycle` and `EventStream` side by side |
| `EngineServices` | twenty parts: `StatelessCalls` (with `RiskRules`), `RiskReview`, `ManualReviews`, `MemoryApproval`, `MemoryAnalysis`, `MemoryDocuments`, `MemoryAttachments`, `MemoryAuth`, `Retrieval`, `RagQuery`, `AccessScope`, `WorkLists`, `DraftAmounts`, `OcrFiles`, `StoredFiles`, `Registries`, `RequestHandling`, `UnitsOfWork`, `SchemaMigrations`, `DemoSeed` |
| `MCEngineServices` | data for TLC |
| `...Proofs` | theorems about `DocumentLifecycle`, `ApprovalFlow`, `DocumentNumbering`, `AnalysisTask`, `LoginLimiter`, `Attachments`, `SupportServices` and `EngineServices` |

### Composition

`DocumentLifecycle` composes what shares the row of a document: requests,
analysis tasks and approval instances.  It has the decisions of approvers as
single steps; `ApprovalFlow` has their statements and locks, and shows that
they implement such single decisions.

`SupportServices` and `EngineServices` compose components that share nothing:
no variable of one part occurs in another.  A step of one part commutes with
every step of the others, so that a property of one part holds in the whole if
it holds of the part alone.  A behaviour therefore lets one part (`part`) take
all the steps, while the others rest in an initial state; the reachable states
are the sum of those of the parts and not their product.  The properties of
the composition are conjunctions over the parts, grouped by what they are
about.

### DocumentLifecycle

`row`, `versions`, `instance` and `analysis` are the committed tables; `pc`,
`snap`, `payload` and `key` are the sessions of the requests in flight; `seen`
is the state version a client has got from a GET and sends as
`expected_state_version`.  Requests that write after an unlocked read are two
actions: the read with its checks (`UpdateDraft`, `AddLineItem`,
`UpdateLineItem`, `DeleteLineItem`, `Submit`) and the commit (`CommitWrite`,
`CommitVersion`).  A commit writes what the session computed from `snap`, and
leaves out the attributes that did not change, as the unit of work does
(`Flushed`).  `Submit` goes on with `StartAnalysis` or one of its failures and
with `CreateInstance` or `NoInstance`.  `ChangeStatus` (withdraw, void) locks
the row by the statement that reads it, and is one action.  The approvers are
`ApproveNode`, `ApproveLast` and `SendBack`, each one transaction that ends in
the unconditional update of the document.  `Crash` ends a request anywhere.

The payload is abstracted to which lines are there and how they were written:
lines of a create or an update of the document have no `item_id` and cannot be
addressed.  The document is an expense reimbursement: `Complete` is that its
submission needs a line, which is asked of that type only
(`persistent_document_service.py:395-397`).  Amounts and the other types are
those of `DraftAmounts`.

### ApprovalFlow

One action per statement at which a decision can wait: the lock of its task,
of the instance, of the next task; then the checks and writes with the commit
(`Apply`, or `Refuse`), then the response in Redis (`Store`).  The locks a
request holds follow from where it is (`Owns`, `Wants`).  `AbortVictim` is the
deadlock detector of PostgreSQL.  `log` counts the status logs of a task and
`winner` remembers the key under which it was decided.  The initial states are
an instance of a first submission, with a pending task for every node, and the
seeded instance, which has the first task only.

### DocumentNumbering

`Count` takes the advisory lock and computes the number, `Commit` inserts or
updates the row and releases it, `Rollback` is the unique constraint or a
failure.  An update of the type counts after the row itself was flushed
(autoflush), so the row is part of its own count.  `updated` remembers that
some type or date has been updated: until then the count is the last number,
afterwards only the unique constraint keeps numbers apart: a date that was
updated keeps its old number, the next number computed may be taken, and every
creation of that type and date then fails (`sql_document_repository.py:365`
calls the number conflict-free).

### AnalysisTask

`messages` counts the waiting messages by their number of Celery retries.  A
worker takes a message, leaves a finished task alone, fails (no analysis
adapter is configured: `_unconfigured_stage` always raises), writes the failure
with the guarded update of `update_worker_state`, publishes an event, sends the
message of the next attempt and acknowledges its own.  `Crash` puts the message
back; `Killed` does not, and `lost` remembers that a chain was cut off in this
way (fact 3).  API requests read the row and overwrite it later, unguarded.
`faulty` remembers that Redis, the broker or the database failed at a point
where the code gives up.  The API part is that of a repository whose lookups
open no transaction (fact 2).

### LoginLimiter

The limiter of the PostgreSQL backend.  `Check` reads the counters before the
user is looked up; after the wait comes `Fail`, `Succeed` or `Abandon`.  By
fact 4 each of these is one step; `FailPartly` and the shorter choices of
`Succeed` are those in which a call to Redis fails or the process dies on the
way.  `lost` remembers that a new counter missed its EXPIRE.  `Expire` is
Redis; the length of the window is abstracted.

### Attachments

A request or worker that reads a row, calls the store or the OCR service and
writes the row back is two or three actions.  `leaked`, `stale` and `faulty`
remember what can make a promise fail: an object whose removal failed, a row
that a worker wrote over after it had changed, a failure that the code
swallows; `lost` has the parses whose message was acknowledged for a killed
child.  `ObjectsOwned`, `ParseTold` and `VersionBounded` name these as their
exceptions; everything else is guaranteed.  `MCBudgets` bounds uploads,
deletions, parses and crashes together, in four profiles.  A second deletion is
refused with 422 (`04-SPEC/10-方法级SPEC-附件管理与解析.md:72` wants it to
succeed).

### SupportServices

- `ReviewSessions`: a message is two steps, read and write; a close too.
  `raced` are the sessions one request has written over: their version falls
  behind, and a message accepted before a close opens the session again.
- `ReportExport`: the search for a final report takes no lock, so that two
  finalizations at once can make two final reports (`overlapped`).  An export
  is an entry under its key, a state and a message, each a call of its own;
  workers retry, die and have messages again, or are killed and have not:
  `stranded` has the exports that this, or a failure to write the state, leaves
  running for ever.
- `WorkflowTemplates`: the nodes of a template are generations.  An instance
  reads the template, then its nodes, then inserts; only the foreign key of
  the tasks keeps an edit from deleting nodes that are used.
- `ConfigWrites`: idempotent writes to process memory, forgotten by a restart;
  prices in PostgreSQL.
- `TokenLifecycle`: time in ticks, two to a second, because a revocation lasts
  whole seconds: a token that was logged out may be accepted in its last
  second.
- `EventStream`: INCR, RPUSH and LTRIM are three steps; `newest` remembers the
  largest identifier that was appended, and `overtaken` are the events appended
  after one with a larger identifier, which a client that resumes behind the
  larger one never gets, even when LTRIM has removed it since.

### EngineServices

- `StatelessCalls`: one call and its answer: the ten rules over contexts that
  differ from an unsuspicious one in one or two fields (`RiskRules`), the
  comparison with a reference range, the payload of each document type, and
  reciprocal rank fusion, whose result is checked against the ranks of its
  lists.  Of the rules it is said that findings alone decide no level, and
  that a person is asked for only where evidence or data are missing.  Only
  the payloads are reached from a request; nothing calls `evaluate_rules`,
  `compare_amount` and `rrf`.
- `RiskReview`: the task is looked up before the rules run, the findings are
  written in another transaction; the list of findings answers if every row can
  be read, and fails on one whose evidence is of another shape, as a seeded
  row's (`CanRead`, `sql_risk_repository.py:127-128`).  `ManualReviews`:
  decisions in memory; a later one overwrites an earlier one, although the
  docstring of the record promises the opposite
  (`manual_review_service.py:10`), and leaves the finding as it was, so that it
  asks for a person for ever.  This is a disagreement of code and docstring:
  `LastOneStands` pins what the code does and is no promise.  Nothing in the
  application creates such a record, so that no request meets it.
- `MemoryApproval`, `MemoryAnalysis`, `MemoryDocuments`, `MemoryAttachments`,
  `MemoryAuth`: each method is one step; what is hard are repeated, late and
  out of order calls, the scanner, store and repository that fail, and the
  sliding window of the limiter.
- `Retrieval`: search, rerank and the row of the audit log, with a client that
  pages through the log.  `RagQuery`: the providers a query needs, which are
  not configured, not installed or out of order.  A reranker without an address
  is noticed only when there is something to rerank.  The pages assume that no
  two rows of the log, or of a list of tasks, have the same `created_at`: each
  row reads the clock for itself, and the queries order by nothing else
  (`sql_audit_repository.py:61`, `sql_approval_repository.py:244`), so that
  rows of the same microsecond could be told in either order.
  `AnsweredIsLogged` is about the order of steps: the row of the log is
  committed before the answer is sent.  Page and position of a chunk are never
  asked of Milvus, so that `page_or_location` of a hit is always empty; the
  model leaves it out.
- `AccessScope`: every set of roles and every row, with one organization to be
  in or not; `WorkLists`: pages of the task and the document list.
- `DraftAmounts`: total, lines and payload of a draft through edits,
  submissions and returns.
- `OcrFiles`, `StoredFiles`: temporary files, the pipeline, and files from
  their admission to the end of their links.  In development the links point
  to a route that does not exist and the list ignores the document; the model
  has what is stored.
- `RequestHandling`: the layers of the application and what each makes of an
  error.  The handlers of `main.py:39-41` answer with the id of the request in
  the body; an `HTTPException`, which nearly all routers raise, is none of
  theirs and has it in the header only, and an exception that nobody expected
  in the body only.  `ErrorsNamed` is that one of the two always has it.
- `Registries`, `UnitsOfWork`, `SchemaMigrations`, `DemoSeed` as the table of
  section 1 says.

## 3. Runs

| Run | Bounds | What it shows |
|---|---|---|
| `DocumentConcurrent` | an injected analysis repository (fact 2), 2 requests, 1 line, 2 keys, 3 instances, 2 versions, state version up to 5 | numbering, reviews bound to the current version, one review per version, analysis before review, complete snapshots, the ledger, documents without a review are only withdrawn, and the inductive invariant of the proofs |
| `DocumentSequential` | 1 request, SQL analysis repository | what holds when requests come one at a time: the optimistic lock works, reviewed lines are frozen |
| `ApprovalDuplicates` | 2 requests, 2 keys, 2 nodes, 1 instance | order, at most one decision per task, true cached responses, every request ends |
| `ApprovalResubmitted` | 2 requests, 1 key, 2 nodes, 2 instances | the document has the outcome of its last instance, late requests for the first change nothing; sequential approval is implemented |
| `NumberingConcurrent` | 2 requests, 3 documents, 2 types, 2 dates | a number identifies its document and names its type; until the first update no computed number is taken, and there is no gap |
| `AnalysisRetried` | 2 API requests, 2 workers, 2 retries by users, 1 crash or killed child | stage and count agree; the task is not forgotten, and is taken over in the end, unless broker, Redis or database fail where the code gives up or a message goes with its child |
| `LoginLimited` | 3 logins, 2 users behind 1 address, limit 2 | the limit is exceeded by less than the logins in flight, counters expire, a block ends |
| `AttachmentsStale` | 3 files, 2 requests, 2 workers, 2 tries of a parse, room for 1 file | rows agree with objects and results but for the named cases; every parse ends unless a failure is swallowed or its child is killed |
| `ServicesConcurrent` | 2 requests, workers or publishers in each part; 2 faults of exports; 4 events, 3 kept | the six parts of `SupportServices`, each property with the overlaps and the killed children it names |
| `EnginesAndMemory` | 2 of what acts in each part, 2 or 3 of what it makes | the twenty parts of `EngineServices` |
| `OptimisticLockFails` | 2 requests | violated: two updates of one state are both committed, the check being made on an unlocked read |
| `ErrorsWithoutId` | 1 request, 2 dependencies, 1 outage | violated: an error raised as `HTTPException` has a body without the id of the request |

The last two show where the code does not do what its documents say; each
checks one property, and TLC finds a counterexample.  The first race has two
more faces: with `Workers = {w1, w2}` in `DocumentSequential.cfg` a line item
request changes lines under review (`ReviewedLinesFrozen`), and a submission
revives a voided document.

Why the bounds are enough.  The races are between two writers of one row: two
requests, and in `DocumentConcurrent` an approver besides.  Two versions and
three instances (one may be seeded) allow a full round of submission, return
and new submission, with a late writer from before the first.  A state version
of 5 leaves every order of such a round with one withdrawal or edit in it.  Two
nodes are a first and a last one; a deadlock needs two neighbouring nodes.
Three documents over two types and two dates leave any two of them alike or not
in either respect, and one more to be numbered after them.  One crash of a
worker duplicates a chain of messages, one killed child cuts it off, and two
retries by users add two more chains.  Three logins at a limit of two can all
pass the check at the last permitted failure.  With room for one file, two
uploads are enough to exceed the size of a version; two tries of a parse are a
try and a retry, and two workers one that is late.  In `ServicesConcurrent` two
requests overlap, a third event is the last one kept and a fourth the one that
LTRIM removes, and a token lives two whole seconds in seven ticks.  In
`EnginesAndMemory` two revisions of anything are an old and a new one, pages
hold one row, so that every row is at a border; a reciprocal rank needs three
hits in two lists to have one behind both.

What may stop (`CHECK_DEADLOCK FALSE`): in `AnalysisRetried` a task that a human
has taken over has no further message; in `LoginLimited` nobody can log in and
nothing expires when every user has a full counter that lost its EXPIRE; in
`AttachmentsStale`, `ServicesConcurrent` and `EnginesAndMemory` requests stop
when a bound on what they make is reached, and a call that keeps nothing has
been answered.

### Fairness

`DocumentLifecycle`, `DocumentNumbering` and `EngineServices` are checked for
safety only.

`ApprovalFlow` (`FairSpec`): strong fairness of each request's steps, because a
lock request is enabled and disabled again while others hold the row;
PostgreSQL queues lock requests in order, so a request that is granted a lock
infinitely often is granted it.  Weak fairness of the deadlock detector, which
runs whenever a wait exceeds `deadlock_timeout`.

`AnalysisTask` (`FairSpec`): weak fairness of API requests that have been
accepted (the event loop runs them on) and of Celery workers (they take
messages as long as there are any).  Users are not forced to do anything, and
crashes are bounded, as no schedule helps a task whose worker always dies.
Nothing brings back the message of a killed child, so that the liveness
properties name it as an exception beside the failures that are swallowed.
`Attachments` and `ReportExport` (`FairSpec`, `Works` in `SupportServices`):
the same for their workers.

`LoginLimiter` (`FairSpec`): weak fairness of `Expire`, as Redis deletes a key
whose time is over.  Logins are not forced to go on.

## 4. Proofs

All proofs are for every value of the constants, under the assumptions named
in the modules, which TLC evaluates in the runs.

`DocumentLifecycleProofs`, for every number of requests, lines, keys,
instances, versions and states:

- `TypeCorrect`, `VersionsNumbered`, `LiveInstancesCurrent`,
  `VersionsReviewedOnce`, `VersionsComplete`: the parts of `Inv`;
- `LedgerImplemented`: `Spec => Ledger!Spec`, under the mapping
  `count <- row.current`, `reviewing <- Reviewing`, `reviewed <- Reviewed`;
- `ReviewsAnalysed`: a version that came into approval has an analysis task
  under the key of its submission, its own or that of an earlier version;
- `StrandedStay`: a document in review without a live instance is only ever
  withdrawn;
- `LinesFrozen` and `LockOptimistic`: with one request of the applicant at a
  time (`OneAtATime`), reviewed lines are frozen and the optimistic lock works.

None of the first is inductive.  That the number `snap.current + 1` is free or
refused depends on what else is in flight, so `Inv` adds

- `SessionsBounded`: what sessions hold came from a row of the past;
- `OneReviewAtATime`: a version in flight (committed, not yet with an
  instance) or a live instance, never both and never two, and either is of the
  current version;
- `BusyExcludes`: meanwhile the document is not editable, and every submission
  still to commit has read an older `current_version`, so that the unique
  constraint refuses it.  This is the heart of the argument: no lock protects
  the submission, the constraint on `(document_id, version_no)` does;
- `OpenedInOrder`: instances are of existing versions, older than one in flight.

`Invariance` proves `Spec => []Inv` with one step per action and one per
conjunct the action can disturb; the theorems are its corollaries, and the
refinement adds the effect of each action on the mapping.  `ReviewsAnalysed`
needs a second invariant on top of `Inv`, `AnalysisFollows`: a session in
flight carries the key of the version it has committed, and has a task for it
once it is about to create the instance; a task belongs to a version that
exists.

The last two assume what the run `DocumentSequential` has, a single request at
a time; with two they are false (`OptimisticLockFails`, section 3).  They are
not about one actor, as approvers decide meanwhile.  `ReadIsCurrent` says that
a request still has the row it has read: it has read an editable document, by
`BusyExcludes` nothing is then under review, and so no decision can come
between.

`ApprovalFlowProofs`:

- `TypeCorrect`, `NodesDecidedInOrder`, `TasksDecidedOnce`,
  `NothingAfterTheEnd`, and together `DecisionsSound`.  `IInv` adds to the
  invariants that the nodes before the current one have approved and those
  after it wait (`CurrentNode`), that instances to come have nothing
  (`Unopened`), and that the current task of a finished instance is decided
  (`FinishedDecided`).  `ApplyDecides` is the lemma about the one action that
  matters: a decision is taken on the current, pending task of an unfinished
  instance, and decides this task alone.  The locks are not needed for it,
  because the check and the write are one step of the model; the locks are what
  makes them one step in the code;
- `DocumentFollows`: the status of the document is the outcome of its last
  instance.  `OlderEnded` is the strengthening: the current tasks of older
  instances are decided, so that a late request never gets to write the
  status, which it would do without reading it;
- `ResponsesTrue`: `CommittedTruthfully` says of a request between its commit
  and its write to Redis that it is the one that decided its task, and that no
  later decision changes what it is about to store;
- `SequentialImplemented`: `Spec => ImplementsSequential`, the refinement of
  `SequentialApproval`: a decision is its `ApproveNext` or `SendBack`, a
  resubmission its `StartOver`, and every other step is a stutter.

`DocumentNumberingProofs` proves type correctness and, with updates included,
`NumbersUnique`: a number identifies its document and names its type.  The
invariant adds that what a request is about to write names its own type
(`WantedIdentify`), and uses the unique constraint for the rest.
`NumbersGapless` and `NumbersFree` hold until the first update.  Their invariant
`Dense` is about the lock instead: who has counted is alone with its type and
date (`CountedAlone`) and holds the number after the last (`WantsNext`), and the
numbers carry the date of their rows (`NumbersDated`).

`AnalysisTaskProofs` proves `CountsSound` and `NoneForgotten`.  Stage and count
agree although a request writes what it has read long before, because a request
that is about to queue the task again has read a failed row below the limit
(`RetriesFromFailed`).  `StrandedOnlyByFaults` says that an unfinished task has
a message, a worker or a request, unless a failure was swallowed (`faulty`) or
a message acknowledged for a killed child (`lost`): without `lost` it is false
as soon as one child is killed.  It counts anybody who works on the task; that
is not inductive, since some of them will not go on: a worker that publishes
the event of the last attempt, a request that may be refused.  `WillGoOn`
leaves these out, and `NeverForgotten` says that an unfinished task has one of
the others.

`LoginLimiterProofs` proves `LimitHolds` and `CountersEnd`.  `AttemptsBounded`
is inductive because it counts the logins in flight together with the failures:
a failure moves a login from one to the other, and a check admits one only below
the limit.

`AttachmentsProofs` proves `RowsKeepLimits`, `NothingLeftOver` and
`ParsesTold`, for every number of files, contents, requests, workers, tries and
profiles of `MCBudgets`.  `Inv` adds to what the runs check

- what requests hold: an upload has an identifier nobody else has, and its
  object is there when its row is inserted; a deletion has read a row with the
  content of today, and from its mark on the row is no longer stored
  (`RequestsInv`);
- what workers hold: the content they parse is that of the row, a verdict of
  success has a result, and a message that is sent again has a try left unless
  something failed (`WorkersInv`, `VerdictsInv`);
- who owns an object (`ObjectsInv`): a request that will insert or remove it, or
  a row, *and no worker is about to write back a row read when it was deleted*.
  Without the last half the invariant breaks one step later;
- who carries a failed parse (`FailuresInv`), other than those whose message is
  `lost` with a killed child: a message, or a worker in any step
  but the write of its row, since that worker may find that it has nothing to
  do;
- the size of a version (`CountInv`): the stored rows, the rows about to be
  marked as deleted and the uploads that have been admitted are together less
  than the limit and the number of requests.  An upload counts the rows and
  admits itself in one step, and each request admits one upload, hence the
  excess; deletions have to be counted because one that fails restores its row.

`SupportServicesProofs` has a section for each part, from an invariant of the
part alone, and one for the whole.  `PartsBehave` is the argument of section 2
about composition: a behaviour of the whole is one of each part.  The theorems
`ServicesKept`, `ChangesCounted`, `FinalOnce`, `ExportsCarried`, `NodesKept`,
`NoGap` and the action property `NoOtherStep` follow.  What the parts add:

- `SessionsInv`: the row a request has read is one of the past, so its state
  version is at most that of today; a request that creates a session is alone
  with it.  `SessionsLate` says of every message in flight to a session that is
  closed now that it was read before, which is why only those reopen it;
- `ReportsInv`: a version that was not finalized twice at once has one final
  report or one request that saw none (`ReportsFinal`).  An export without a
  crash behind it is in one place (`ReportsAlone`): one message, or one worker
  whose export is not finished, hence nobody takes back a success.  That it is
  carried (`ReportsCarried`) does not need this and holds after crashes too,
  for every export but those that are `stranded`;
- `TemplatesInv`: a request that edits or publishes is alone with its template,
  from the row lock (`TemplatesHeld`); what was found for a type still has it
  unless it was edited since (`TemplatesFound`).  That instances keep their
  nodes needs neither, only the foreign key: an edit of nodes that are used is
  refused when it is made, not when it begins;
- `ConfigInv`: the cache has an entry for exactly the scopes and keys that were
  applied (`ConfigCached`); the version of a rule counts the publications among
  them, for which finite sets and their cardinalities are reasoned about;
- `TokensInv`: the revocation of a token reaches into its last second
  (`TokensRevoked`), from the lemma `SecondsWhole` about whole seconds.  A
  request that is late is so because permissions have changed and not because
  its token was revoked, and permission versions only grow (`TokensHeld`), so
  that the check of the user after the wait refuses it;
- `EventsInv`: the list is sorted but for the overtaken events (`EventsSorted`),
  and no client has received anything after its cursor unless something was
  overtaken (`EventsSeen`).

The constants that stand for none (`Nothing`) are assumed to differ from what
they stand beside, and bounds to be numbers; `TokensAssumption` also has a
second of at least one tick, `ConfigAssumption` that the retrieval version is
one of the parameters, as it is in `_SYSTEM_PARAMETERS`.

`EngineServicesProofs` has a section for each of the twenty parts, again from an
invariant of the part alone (`SequenceInv` to `AmountsInv`, together `Inv`), and
one for the whole: `PartsStep` shows that a step of the whole is one of a single
part, `PartsBehave` that a behaviour of the whole is one of each.  The theorems
are `TypeCorrect`, `EvidenceTold`, `MemoryKept`, `FilesKept`, `DatabaseKept`,
`AnswersTold`, `PagesTold`, `ScopesTold`, `AmountsTold` and the action property
`NoOtherStep`.  What the invariants add to what the run checks:

- approvals in memory (`SequenceInv`): the last records are the approvals of the
  nodes before the current one, in this round (`SequenceTail`), hence an
  approved sequence ends in one of every node; per node there are as many
  records as keys that have been answered;
- documents and versions in memory (`DraftsInv`): no number is beyond the
  counter of its type, and a version is the only one of a submitted document;
- retrieval (`RetrievalInv`): a row of the log that was there at first and has
  not been shown has its place after the pages so far (`RetrievalPassed`), since
  new rows come before it and places only grow;
- work lists (`ListsInv`): rows do leave a list of a status, and those that the
  reader has passed by are at most as many as have left it (`ListsPassed`);
- amounts (`AmountsInv`): a version without a payload of its type adds up, and
  the last version is the one under review (`AmountsSubmitted`);
- recognitions (`OcrInv`): no two threads have one file, pipelines made and
  about to be made are one more than the races (`OcrOwners`, `OcrCounts`);
- migrations (`SchemaInv`): the tables of each revision (`SchemaAt`), and that
  who holds the lock is somewhere between its revision and another one
  (`RunOK`); seeds (`SeedInv`): every statement before the next one has found
  its row, inserted it or skipped it, and what was inserted refers to what is
  visible (`SeederOK`), so that a commit is of all tables;
- probes (`RequestsInv`) and queries (`QueryInv`): what was found up or down
  was so at some time since the request began, and the id of the request is in
  the header or the body of each answer to an error; a stage is reached only
  past the ones before it;
- logins in memory (`LoginsInv`): the failures a key still has in its list are,
  for every time, as many as the audit log tells after its last success;
- evaluations (`ReviewInv`): an evaluation in flight has the rows of the newest
  task that it saw; manual decisions (`ManualInv`): the record has the status of
  the last decision, the finding the evidence of the last that gave one;
- sessions (`UnitsInv`): who is inside is alone with the session, unless
  somebody has replaced it (`UnitsAlone`).

`CallsInv` (what rules alone decide, comparisons, payloads, fusion),
`ScopesInv`, `RegistriesInv`, `StorageInv`, `UploadsInv` and `AnalysesInv` are
their properties, said of each answer, row, name, key or task.  The one on
calls needs the most: that fusion of ranks puts no hit before one that both
lists have higher is shown for every number of hits and every `K`, from the
monotony of `1 / (K + rank)` and from `OrderPlaces`: whoever is in a total
order, counted with those before him, has a place of his own, and no place is
empty.

Sums, denominators and chains of changes (`Total`, `Denominator`, `Changed`,
`RowsCompared`) are recursive functions, and `CHOOSE` gives a function only if
there is one.  `SumExists` and its relatives construct it, by `Induction` over
a set of numbers: the set of those for which there is no prefix would have a
least member.  `SumIs` tells a sum by its steps, which is what the theorems on
amounts use.

Each part has its assumptions on the constants in `EngineServices`
(`SequenceAssumption` to `AmountsAssumption`): bounds are natural numbers, and
at least one where the code begins with one; `Nothing` is none of the values it
stands beside; there are finitely many threads; the rules are a sequence of the
codes of the rules; the filters of a list are among `all` and `pending`.

### Only model-checked

Everything temporal under fairness (`RequestsEnd`, `RunsOut`, `BlockEnds`,
`ParseEnds`, `ExportsEnd`), which is outside of what the prover does.  No
invariant and no action property of a passing run is without a theorem.

## 5. Not modelled

- The front end, deployment files, logging and the evaluation scripts: they
  have no state of the program.
- External services: PostgreSQL, Redis, Celery, Milvus, MinIO, the scanner,
  PaddleOCR, the embedding and reranking services.  They are modelled by their
  outcomes and failures where the code calls them.
- The success path of an analysis: it needs an adapter that is not configured
  and is not in the repository; the contracts of language models
  (`engines/model/contracts.py`) have no implementation.
- Operations nothing calls: `mark_failed` of the analysis service,
  `mark_parse_*` of the attachment service.  `resubmit` and
  `assign_sequence` of the in-memory approval, called by tests only, are
  modelled; so are `compare_amount`, `evaluate_rules`, `rrf`,
  `ManualReviewService.create` and `UnitOfWork`, which nothing in the
  application calls either.
- Queries that change nothing and whose order and completeness no property is
  about: the filters of the audit log, reports, prices, templates.  The export
  of the audit log (`routers/audit.py`) reads the in-memory service, which no
  request of the PostgreSQL backend writes.
- The offline mode of Alembic: it prints SQL, and stops at migration 0004,
  which reads the database (`alembic/env.py:1` promises offline SQL).
- Time zones: `approval_tasks.created_at` and `processed_at` are columns
  without one, while the code writes values with one.  Where a value of the
  wrong kind makes a statement fail, the models have the failure of the
  statement and not its cause.
- The order of the history of approvals, by `node_order` alone, which mixes
  the rounds of a resubmitted document: it is what is shown, nothing depends
  on it.

Also left out is what the whole program does when several of its parts fail
together: the parts share no state (section 2), but do share a database, and a
database that is down is a failure of each of them.
