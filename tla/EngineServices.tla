--------------------------- MODULE EngineServices ---------------------------
(***************************************************************************)
(* The engines, the in-memory services and what lies around them: calls    *)
(* that keep nothing (rules, comparisons, payloads, fusion of ranks), the  *)
(* review of findings, approvals, analyses, documents, attachments and     *)
(* logins of the in-memory services, retrieval with its audit log, data    *)
(* scopes, lists, amounts of drafts, text recognition, file storage, the   *)
(* registries, requests, sessions, migrations and demonstration data.      *)
(*                                                                         *)
(* As in SupportServices, no two parts share state; a behaviour lets one   *)
(* part take steps, while the others rest in an initial state.             *)
(***************************************************************************)
EXTENDS Integers, Sequences, FiniteSets

CONSTANTS
  Nothing, Requests,
  MaxChanges, Rules, Contexts, LookupOpensTxn, MaxTasks, MaxFindings,
  Approvers, Nodes, ApprovalKeys, MaxRounds,
  AnalysedVersions, StartKeys, RetryKeys, RetryLimit, MaxEvents,
  Types, MaxDocuments, MaxReports, Contents, MaxRecords, MaxSize,
  Chunks, MaxTop, PageSize, MaxLog, Errors,
  People, Self, Orgs, MaxAmount, MaxLines, MaxSubmissions,
  Threads, MaxRecognitions, MaxText, Things, Seeders, MaxSeeds,
  Migrators, Names, Address, MaxAttempts, Window, Second, Life, MaxTime, MaxAudited, MaxPermission,
  Files, LinkLife, MaxStored, MaxFileTime, Writers, Owners, Reader, MaxRows, Filters,
  MaxPaid, MaxDetails, Dependencies, Given, Made, MaxOutages, Coroutines, MaxSessions, Hits, MaxHits, K,
  Reviewers, MaxReviews, MaxDecisions, MaxFlips

VARIABLES
  part,                                            \* the part that takes steps
  asked, answer,
  tasks, findings, evaluationReq, reviewed,
  approver, index, nodeStatus, outcome, response, decisions, round,
  analysis, events,
  documents, versions, sequences, reports,
  versionStatus, attachments, objects, orphans,
  reranker, call, clock, log, answers, reader,
  principal, resource, verdict,
  doc, submissions,
  pipeline, thread, files, runs, left, raced, texts,
  actions, providers, accepted,
  taken, seeded, seeder,
  revision, tables, holder, run,
  authClock, account, failures, tokens, revokedTill, audited,
  backend, fileClock, stored, kept, links, withdrawn, lost,
  listClock, making, rows, listReader,
  up, wasUp, wasDown, outages, request, probed, httpResponse,
  current, inside, opened, pending, closed, committed,
  finding, record, said,
  settings, serviceUp, serviceDown, serviceOutages, stage, anyHits, ragOutcome

callsVars == <<asked, answer>>
reviewVars == <<tasks, findings, evaluationReq, reviewed>>
sequenceVars == <<approver, index, nodeStatus, outcome, response, decisions, round>>
analysesVars == <<analysis, events>>
draftsVars == <<documents, versions, sequences, reports>>
filesVars == <<versionStatus, attachments, objects, orphans>>
retrievalVars == <<reranker, call, clock, log, answers, reader>>
accessVars == <<principal, resource, verdict>>
amountsVars == <<doc, submissions>>
ocrVars == <<pipeline, thread, files, runs, left, raced, texts>>
registriesVars == <<actions, providers, accepted>>
seedVars == <<taken, seeded, seeder>>
schemaVars == <<revision, tables, holder, run>>
authVars == <<authClock, account, failures, tokens, revokedTill, audited>>
storageVars == <<backend, fileClock, stored, kept, links, withdrawn, lost>>
listsVars == <<listClock, making, rows, listReader>>
requestsVars == <<up, wasUp, wasDown, outages, request, probed, httpResponse>>
unitsVars == <<current, inside, opened, pending, closed, committed>>
manualVars == <<finding, record, said>>
queryVars == <<settings, serviceUp, serviceDown, serviceOutages, stage, anyHits, ragOutcome>>
vars == <<part, callsVars, reviewVars, sequenceVars, analysesVars, draftsVars, filesVars,
          retrievalVars, accessVars, amountsVars, ocrVars, registriesVars, seedVars,
          schemaVars, authVars, storageVars, listsVars, requestsVars, unitsVars,
          manualVars, queryVars>>

InCalls == INSTANCE StatelessCalls WITH None <- Nothing, Chunks <- Hits
InReview == INSTANCE RiskReview WITH None <- Nothing, req <- evaluationReq
InSequence == INSTANCE MemoryApproval WITH
  status <- nodeStatus, document <- outcome, records <- decisions, NoResponse <-
  Nothing
InAnalyses == INSTANCE MemoryAnalysis WITH
  task <- analysis, Versions <- AnalysedVersions, NoTask <- Nothing
InDrafts == INSTANCE MemoryDocuments
InFiles == INSTANCE MemoryAttachments WITH status <- versionStatus, records <- attachments
InRetrieval == INSTANCE Retrieval WITH Unscored <- Nothing
InAccess == INSTANCE AccessScope WITH Nil <- Nothing
InAmounts == INSTANCE DraftAmounts WITH Absent <- Nothing
InOcr == INSTANCE OcrFiles WITH MaxRuns <- MaxRecognitions
InRegistries == INSTANCE Registries WITH None <- Nothing
InSeed == INSTANCE DemoSeed WITH Runs <- Seeders, MaxRuns <- MaxSeeds
InSchema == INSTANCE SchemaMigrations WITH Runs <- Migrators, Nobody <- Nothing
InAuth == INSTANCE MemoryAuth WITH clock <- authClock, Unknown <- Nothing
InStorage == INSTANCE StoredFiles WITH
  clock <- fileClock, objects <- stored, records <- kept, MaxTime <- MaxFileTime,
  Absent <- Nothing
InLists == INSTANCE WorkLists WITH
  clock <- listClock, reader <- listReader, Idle <- Nothing
InHttp == INSTANCE RequestHandling WITH None <- Nothing, response <- httpResponse
InUnits == INSTANCE UnitsOfWork WITH Users <- Coroutines, Nobody <- Nothing
InManual == INSTANCE ManualReviews WITH None <- Nothing
InQuery == INSTANCE RagQuery WITH
  None <- Nothing, up <- serviceUp, wasDown <- serviceDown, outages <- serviceOutages,
  outcome <- ragOutcome, hits <- anyHits, MaxOutages <- MaxFlips

(* The bounds are numbers, the constants that stand for none differ from   *)
(* what they stand beside, and there are finitely many threads.            *)
ASSUME SequenceAssumption ==
  /\ Nodes \in Nat \ {0} /\ MaxRounds \in Nat \ {0}
  /\ Nothing \notin [decision: InSequence!Decisions,
                     status: {"pending_approval", "approved", "returned", "rejected"}]
ASSUME AnalysesAssumption == RetryLimit \in Nat /\ Nothing \notin InAnalyses!Tasks
ASSUME DraftsAssumption == MaxDocuments \in Nat
ASSUME OcrAssumption == IsFiniteSet(Threads) /\ MaxRecognitions \in Nat /\ MaxText \in Nat
ASSUME RegistriesAssumption ==
  /\ Nothing \notin Things /\ Nothing \notin InRegistries!Categories
  /\ Nothing \notin [handler: Things, category: InRegistries!Categories]
ASSUME StorageAssumption ==
  /\ LinkLife \in Nat /\ MaxStored \in Nat /\ MaxFileTime \in Nat
  /\ Nothing \notin Files /\ Nothing \notin Nat
ASSUME UnitsAssumption == MaxSessions \in Nat /\ Nothing \notin Nat
ASSUME SchemaAssumption == Nothing \notin Migrators
ASSUME SeedAssumption == MaxSeeds \in Nat
ASSUME RequestsAssumption ==
  /\ MaxOutages \in Nat /\ Given # Nothing /\ Made # Nothing
  /\ Nothing \notin {"route", "health_ready", "ok", "unavailable"}
  /\ Nothing \notin [status: Nat, body: {Given, Made, Nothing}, header: {Given, Made, Nothing},
                     details: SUBSET Dependencies]
ASSUME QueryAssumption == MaxFlips \in Nat /\ Nothing \notin InQuery!Codes \cup {"success"}
ASSUME UploadsAssumption == MaxSize \in Nat
ASSUME LoginsAssumption ==
  /\ MaxAttempts \in Nat /\ Window \in Nat /\ Second \in Nat \ {0} /\ Life \in Nat
  /\ MaxTime \in Nat /\ MaxAudited \in Nat /\ MaxPermission \in Nat \ {0}
  /\ Nothing \notin [version: 1..MaxPermission, active: BOOLEAN]
ASSUME ReviewAssumption ==
  /\ MaxTasks \in Nat \ {0} /\ Rules \in Seq(InReview!RuleCodes)
  /\ \A context \in Contexts : context.evidence \in InReview!Fields.evidence
  /\ Nothing \notin {"blank", "complete", "foreign"} \cup InReview!FindingStatuses
ASSUME ManualAssumption == MaxDecisions \in Nat /\ Nothing \notin InManual!FindingStatuses
ASSUME CallsAssumption ==
  /\ MaxAmount \in Nat /\ Nothing \notin Int \cup Int \X Int
  /\ MaxChanges \in Nat /\ MaxHits \in Nat /\ K \in Nat
ASSUME ListsAssumption ==
  /\ PageSize \in Nat /\ MaxRows \in Nat /\ Filters \subseteq {"all", "pending"}
  /\ Nothing \notin [at: 1..MaxRows, owner: Owners, status: {"pending", "approved"}]
ASSUME RetrievalAssumption == MaxTop \in Nat /\ PageSize \in Nat /\ MaxLog \in Nat
ASSUME AmountsAssumption == MaxAmount \in Nat /\ MaxLines \in Nat /\ MaxSubmissions \in Nat

Parts == {"calls", "review", "sequence", "analyses", "drafts", "files", "retrieval",
          "access", "amounts", "ocr", "registries", "seed", "schema", "auth",
          "storage", "lists", "requests", "units", "manual", "query"}

(* Of several initial states, a part that rests takes one. *)
Init ==
  /\ part \in Parts
  /\ InCalls!Init
  /\ InReview!Init
  /\ part # "review" => tasks = 0
  /\ InSequence!Init
  /\ part # "sequence" => approver = [n \in 1..Nodes |-> CHOOSE a \in Approvers : TRUE]
  /\ InAnalyses!Init
  /\ InDrafts!Init
  /\ InFiles!Init
  /\ part # "files" => versionStatus = "draft"
  /\ InRetrieval!Init
  /\ part # "retrieval" => ~reranker
  /\ InAccess!Init
  /\ part # "access" => principal = (CHOOSE p \in InAccess!Principals : TRUE)
                         /\ resource = (CHOOSE r \in InAccess!Resources : TRUE)
  /\ InAmounts!Init
  /\ part # "amounts" => doc = InAmounts!Drafted("batch", 1, InAmounts!Payload(<<1>>, Nothing))
  /\ InOcr!Init
  /\ InRegistries!Init
  /\ InSeed!Init
  /\ part # "seed" => taken = {}
  /\ InSchema!Init
  /\ InAuth!Init
  /\ InStorage!Init
  /\ part # "storage" => backend = "minio"
  /\ InLists!Init
  /\ InHttp!Init
  /\ InUnits!Init
  /\ InManual!Init
  /\ InQuery!Init
  /\ part # "query" => settings = [enabled |-> TRUE, urls |-> {}, reranks |-> FALSE, packages |-> {}]
                     /\ serviceDown = {}

(* The part whose turn it is takes a step of its own, all others rest.     *)
Next ==
  /\ UNCHANGED part
  /\ IF part = "calls" THEN InCalls!Next ELSE UNCHANGED callsVars
  /\ IF part = "review" THEN InReview!Next ELSE UNCHANGED reviewVars
  /\ IF part = "sequence" THEN InSequence!Next ELSE UNCHANGED sequenceVars
  /\ IF part = "analyses" THEN InAnalyses!Next ELSE UNCHANGED analysesVars
  /\ IF part = "drafts" THEN InDrafts!Next ELSE UNCHANGED draftsVars
  /\ IF part = "files" THEN InFiles!Next ELSE UNCHANGED filesVars
  /\ IF part = "retrieval" THEN InRetrieval!Next ELSE UNCHANGED retrievalVars
  /\ IF part = "access" THEN InAccess!Next ELSE UNCHANGED accessVars
  /\ IF part = "amounts" THEN InAmounts!Next ELSE UNCHANGED amountsVars
  /\ IF part = "ocr" THEN InOcr!Next ELSE UNCHANGED ocrVars
  /\ IF part = "registries" THEN InRegistries!Next ELSE UNCHANGED registriesVars
  /\ IF part = "seed" THEN InSeed!Next ELSE UNCHANGED seedVars
  /\ IF part = "schema" THEN InSchema!Next ELSE UNCHANGED schemaVars
  /\ IF part = "auth" THEN InAuth!Next ELSE UNCHANGED authVars
  /\ IF part = "storage" THEN InStorage!Next ELSE UNCHANGED storageVars
  /\ IF part = "lists" THEN InLists!Next ELSE UNCHANGED listsVars
  /\ IF part = "requests" THEN InHttp!Next ELSE UNCHANGED requestsVars
  /\ IF part = "units" THEN InUnits!Next ELSE UNCHANGED unitsVars
  /\ IF part = "manual" THEN InManual!Next ELSE UNCHANGED manualVars
  /\ IF part = "query" THEN InQuery!Next ELSE UNCHANGED queryVars

Spec == Init /\ [][Next]_vars

(***************************************************************************)
(* Properties: those of the parts.                                         *)
(***************************************************************************)
(* Every part keeps its types; a text is no longer than it may be.         *)
TypeOK ==
  /\ part \in Parts
  /\ part = "calls" => InCalls!TypeOK
  /\ part = "review" => InReview!TypeOK
  /\ part = "sequence" => InSequence!TypeOK
  /\ part = "analyses" => InAnalyses!TypeOK
  /\ part = "drafts" => InDrafts!TypeOK
  /\ part = "files" => InFiles!TypeOK
  /\ part = "retrieval" => InRetrieval!TypeOK
  /\ part = "access" => InAccess!TypeOK
  /\ part = "amounts" => InAmounts!TypeOK
  /\ part = "ocr" => InOcr!TypeOK
  /\ part = "registries" => InRegistries!TypeOK
  /\ part = "seed" => InSeed!TypeOK
  /\ part = "schema" => InSchema!TypeOK
  /\ part = "auth" => InAuth!TypeOK
  /\ part = "storage" => InStorage!TypeOK
  /\ part = "lists" => InLists!TypeOK
  /\ part = "requests" => InHttp!TypeOK
  /\ part = "units" => InUnits!TypeOK
  /\ part = "manual" => InManual!TypeOK
  /\ part = "query" => InQuery!TypeOK

(* What is said of a version rests on what persons have confirmed, on      *)
(* evidence, and not on what rules alone have found; the last decision of  *)
(* several stands, although the docstring of the record says otherwise.    *)
EvidenceDecides ==
  /\ part = "calls" => InCalls!NothingDecidedAlone
  /\ part = "review" => InReview!LevelIsConfirmed /\ InReview!ManualKept
  /\ part = "manual" => InManual!LastOneStands /\ InManual!DecisionsDoNotCount

(* The in-memory services keep their histories: an approval has a decision *)
(* of each node in its round, a retry its key and its event, a document    *)
(* its number, version and final report, a record its object; the limiter  *)
(* of logins counts what the audit log tells.                              *)
MemoryConsistent ==
  /\ part = "sequence" => InSequence!ApprovedByAll /\ InSequence!OneRecordPerResponse
  /\ part = "analyses" => InAnalyses!RetriesCounted /\ InAnalyses!EventsNumbered
  /\ part = "drafts" =>
       /\ InDrafts!NumbersDiffer
       /\ InDrafts!SubmittedOnce
       /\ InDrafts!OneFinal
  /\ part = "files" => InFiles!OnceAndBounded /\ InFiles!ObjectPerRecord
  /\ part = "auth" => InAuth!AttemptsLimited

(* What is answered is ranked and logged, and turning the pages of the log *)
(* to the end misses no row; turning those of the tasks or the documents   *)
(* misses as many of a status as have left it meanwhile.                   *)
PagesMissNothing ==
  /\ part = "retrieval" =>
       /\ InRetrieval!RankedByScore
       /\ InRetrieval!AnsweredIsLogged
       /\ InRetrieval!PagesMissNothing
  /\ part = "lists" => InLists!MissedAsDecided
  /\ part = "calls" => InCalls!FusedAgrees

(* The filter of a query and the check of a row agree, but for one case;   *)
(* more roles allow more, but for that of an administrator.                *)
ListedIsAccessible ==
  /\ part = "access" => InAccess!ListedIsAccessible /\ InAccess!OnlyAdminTakesAway
  /\ part = "lists" => InLists!ShownOpens

(* A submitted version adds up, in the one list of lines it has, or has a  *)
(* payload that nothing compares; only a first version is compared         *)
(* rightly. A payload is accepted by the model of its own type; the        *)
(* difference that a comparison gives agrees with its status.              *)
SubmittedAddsUp ==
  /\ part = "amounts" =>
       /\ InAmounts!SubmittedAddsUp
       /\ InAmounts!OneListOfLines
       /\ InAmounts!ComparesFirstVersionOnly
  /\ part = "calls" => InCalls!AcceptedFits /\ InCalls!DifferenceReads

(* A temporary file has a thread, or the disk has failed; a pipeline is    *)
(* made again only by threads that overlap; what was registered is found   *)
(* for good. A stored file has a record, or a process has died; a session  *)
(* is closed, or somebody has replaced it.                                 *)
FilesAccounted ==
  /\ part = "ocr" => InOcr!FilesAccounted /\ InOcr!MadeOnce
  /\ part = "registries" => InRegistries!RegisteredForGood
  /\ part = "storage" => InStorage!ReadableIsFit /\ InStorage!RecordsAndObjects
  /\ part = "units" => InUnits!OwnSessions

(* The tables are those of the revision, and an upgrade can go on from     *)
(* there; there is all of the demonstration data or none, and the script   *)
(* fails only where a key is somebody else's.                              *)
DatabaseWhole ==
  /\ part = "schema" => InSchema!SchemaWhole /\ InSchema!UpgradeNeverStuck
  /\ part = "seed" => InSeed!SeededWhole /\ InSeed!RejectedOnlyIfTaken

(* What a probe reports was so while it looked, and an error names its     *)
(* request in the header or the body; that of a query names what is at     *)
(* fault.                                                                  *)
AnswersTrue ==
  /\ part = "requests" => InHttp!ProbeWasTrue /\ InHttp!ErrorsNamed
  /\ part = "query" => InQuery!CodeIsTrue /\ InQuery!SuccessNeedsAll

(* What no step does: store findings with an older analysis than the       *)
(* newest that its evaluation could see, change the facts of a finding in  *)
(* a review, go on with an approval sequence that has ended, accept a      *)
(* token that has been refused, and take a rebuilt database below its      *)
(* revision.                                                               *)
StepsAllowed ==
  /\ InReview!BoundToLatest /\ InReview!ReviewLeavesFacts
  /\ InSequence!EndedStays
  /\ InAuth!RefusedForGood
  /\ InSchema!RebuiltGoesUp
=============================================================================
