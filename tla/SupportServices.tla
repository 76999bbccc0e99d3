--------------------------- MODULE SupportServices ---------------------------
(***************************************************************************)
(* The services around documents and approvals: review sessions, reports   *)
(* and their exports, approval templates, configuration, tokens, and the   *)
(* events of analysis tasks.                                               *)
(*                                                                         *)
(* No two of them write or read the same state: a step of one commutes     *)
(* with every step of the others, and a property of one of them holds in   *)
(* the whole if it holds of the part alone.  A behaviour therefore lets    *)
(* one part take steps and the others rest, and the behaviours of all      *)
(* parts are checked side by side.                                         *)
(***************************************************************************)
EXTENDS Integers

CONSTANTS
  Nothing, Requests,
  Users, Sessions, MaxVersions, MaxChanges,
  Versions, ReportKeys, Tasks, Workers, MaxReports, MaxRetries, MaxFaults,
  Templates, DocumentTypes, Instances, MaxEdits,
  Rules, SupplierRules, Parameters, RagVersion, ConfigKeys, Values, Default, MaxWrites, Prices,
  TokenUsers, Tokens, Second, Life, MaxTime, MaxPermissionVersion,
  Publishers, Readers, Kept, MaxEvents

VARIABLES
  part,                                                       \* the part that takes steps
  submitted, session, exchanges, closes, sessionReq, late, raced,
  reports, finalizing, overlapped, entry, export, messages, worker, faults, stranded, doubled,
  template, instance, templateReq, edits, retyped,
  rule, supplier, parameter, ragVersion, cache, applied, price,
  now, user, token, revokedUntil, loggedOut, tokenReq,
  sequence, events, newest, publisher, cursor, seen, repeated, overtaken

sessionVars == <<submitted, session, exchanges, closes, sessionReq, late, raced>>
reportVars == <<reports, finalizing, overlapped, entry, export, messages, worker, faults, stranded, doubled>>
templateVars == <<template, instance, templateReq, edits, retyped>>
configVars == <<rule, supplier, parameter, ragVersion, cache, applied, price>>
tokenVars == <<now, user, token, revokedUntil, loggedOut, tokenReq>>
eventVars == <<sequence, events, newest, publisher, cursor, seen, repeated, overtaken>>
vars == <<part, sessionVars, reportVars, templateVars, configVars, tokenVars, eventVars>>

InSessions == INSTANCE ReviewSessions WITH req <- sessionReq, NoSession <- Nothing
InReports == INSTANCE ReportExport WITH Keys <- ReportKeys
InTemplates == INSTANCE WorkflowTemplates WITH req <- templateReq
InConfig == INSTANCE ConfigWrites WITH Keys <- ConfigKeys
InTokens == INSTANCE TokenLifecycle WITH
  req <- tokenReq, Users <- TokenUsers, MaxVersion <- MaxPermissionVersion, Nobody <- Nothing
InEvents == INSTANCE EventStream

(* The bounds are numbers, the constants that stand for none differ from   *)
(* what they stand beside, and the retrieval version is a parameter.       *)
ASSUME SessionsAssumption ==
  MaxVersions \in Nat /\ Nothing \notin Sessions /\ Nothing \notin InSessions!Rows
ASSUME ReportsAssumption ==
  /\ MaxRetries \in Nat /\ MaxFaults \in Nat
  /\ Nothing \notin Versions /\ Nothing \notin Tasks /\ Nothing \notin InReports!Exports
ASSUME TemplatesAssumption ==
  /\ MaxEdits \in Nat
  /\ Nothing \notin InTemplates!Rows /\ Nothing \notin [of: Templates, nodes: Nat]
  /\ Nothing \notin InTemplates!Statuses
ASSUME ConfigAssumption ==
  Prices \in Nat /\ Nothing \notin InConfig!Entries /\ RagVersion \in Parameters
ASSUME TokensAssumption ==
  /\ Second \in Nat \ {0} /\ Life \in Nat /\ MaxTime \in Nat /\ MaxPermissionVersion \in Nat \ {0}
  /\ Nothing \notin InTokens!Issued
ASSUME EventsAssumption == Kept \in Nat /\ MaxEvents \in Nat

Parts == {"sessions", "reports", "templates", "config", "tokens", "events"}

Init ==
  /\ part \in Parts
  /\ InSessions!Init /\ InReports!Init /\ InTemplates!Init
  /\ InConfig!Init /\ InTokens!Init /\ InEvents!Init

SessionStep ==
  /\ part = "sessions" /\ InSessions!Next
  /\ UNCHANGED <<part, reportVars, templateVars, configVars, tokenVars, eventVars>>

ReportStep ==
  /\ part = "reports" /\ InReports!Next
  /\ UNCHANGED <<part, sessionVars, templateVars, configVars, tokenVars, eventVars>>

TemplateStep ==
  /\ part = "templates" /\ InTemplates!Next
  /\ UNCHANGED <<part, sessionVars, reportVars, configVars, tokenVars, eventVars>>

ConfigStep ==
  /\ part = "config" /\ InConfig!Next
  /\ UNCHANGED <<part, sessionVars, reportVars, templateVars, tokenVars, eventVars>>

TokenStep ==
  /\ part = "tokens" /\ InTokens!Next
  /\ UNCHANGED <<part, sessionVars, reportVars, templateVars, configVars, eventVars>>

EventStep ==
  /\ part = "events" /\ InEvents!Next
  /\ UNCHANGED <<part, sessionVars, reportVars, templateVars, configVars, tokenVars>>

Next == SessionStep \/ ReportStep \/ TemplateStep \/ ConfigStep \/ TokenStep \/ EventStep

(* The workers that export reports run. *)
Works(w) ==
  /\ part = "reports" /\ InReports!Work(w)
  /\ UNCHANGED <<part, sessionVars, templateVars, configVars, tokenVars, eventVars>>

Spec == Init /\ [][Next]_vars
FairSpec == Spec /\ \A w \in Workers : WF_vars(Works(w))

(***************************************************************************)
(* Properties: those of the parts.                                         *)
(***************************************************************************)
(* Every part keeps its types.                                             *)
TypeOK ==
  /\ part \in Parts
  /\ part = "sessions" => InSessions!TypeOK
  /\ part = "reports" => InReports!TypeOK
  /\ part = "templates" => InTemplates!TypeOK
  /\ part = "config" => InConfig!TypeOK
  /\ part = "tokens" => InTokens!TypeOK
  /\ part = "events" => InEvents!TypeOK

(* Types are kept and price ranges never upside down; a configuration      *)
(* write is made once per key, and what is shown is what is used; a token  *)
(* that was logged out is refused until its last second, and no request is *)
(* accepted whose token was refused before it began.                       *)
ServicesInv ==
  /\ TypeOK
  /\ part = "config" => InConfig!AppliedOnce /\ InConfig!ShownIsUsed
  /\ part = "tokens" => InTokens!RevokedToTheEnd /\ InTokens!LateRefused

(* The version of a session counts its changes, but for overwritten ones.  *)
VersionCounts == part = "sessions" => InSessions!VersionCounts

(* A version has one final report, unless it was finalized twice at once.  *)
OneFinalReport == part = "reports" => InReports!OneFinalReport

(* The tasks of an instance are the nodes of its template.                 *)
InstancesKeepNodes == part = "templates" => InTemplates!InstancesKeepNodes

(* A client that resumes misses no event that was appended in its turn.    *)
ResumesWithoutGap == part = "events" => InEvents!ResumesWithoutGap

(* What no step does, but for the overlaps that each of them names: open a *)
(* closed session, take an export back from its success, change a template *)
(* that is published, make an instance of a template for another type, and *)
(* change the answer to an idempotency key.                                *)
StepsAllowed ==
  /\ InSessions!ReopenedOnlyByOverlap
  /\ InReports!SuccessStands
  /\ InTemplates!PublishedFrozen /\ InTemplates!MadeForItsType
  /\ InConfig!AnswersKept

(* An export that has not ended has a message or a worker, and it comes to *)
(* an end, unless its start or its last try failed to say so, or the       *)
(* process that ran it was killed.                                         *)
ExportsEnd == [](part = "reports" => InReports!UnfinishedCarried) /\ InReports!ExportsEnd
=============================================================================
