--------------------------- MODULE ReviewSessions ---------------------------
(***************************************************************************)
(* Review sessions in PostgreSQL: a row with a status and a state_version, *)
(* and its messages.  A request reads the row of its own user without a    *)
(* lock and later writes, in the same transaction, values computed from    *)
(* what it has read: the updates of two requests are serialised by the row *)
(* lock, their reads are not.                                              *)
(*                                                                         *)
(* A message and its reply are written together and are one exchange; what *)
(* they say is left out.                                                   *)
(***************************************************************************)
EXTENDS Integers, FiniteSets

CONSTANTS
  Users,
  Sessions,         \* identifiers (uuid4) of sessions
  Requests,         \* requests that can be in flight
  MaxVersions,      \* bound: versions submitted of the document
  MaxChanges,       \* bound: writes to one session
  NoSession

VARIABLES
  submitted,        \* versions 1..submitted of the document exist
  session,          \* the rows of review_sessions
  exchanges,        \* pairs of messages of each session
  closes,           \* history: how often each session has been closed
  req,              \* what each request is doing, with the row it has read
  late,             \* history: requests in flight when a session was last closed
  raced             \* history: sessions written over a row that had changed

vars == <<submitted, session, exchanges, closes, req, late, raced>>

Statuses == {"open", "waiting_human", "closed"}
Rows == [user: Users, version: 1..MaxVersions, status: Statuses, state: Nat \ {0}]

NoRequest == [op |-> "none", s |-> NoSession, row |-> NoSession]

Exists(s) == session[s] # NoSession
InFlight(s) == {r \in Requests : req[r].s = s}
Becomes(r, request) == req' = [req EXCEPT ![r] = request]
Ends(r) == Becomes(r, NoRequest) /\ late' = [s \in Sessions |-> late[s] \ {r}]
Changes(s) == exchanges[s] + closes[s]

Init ==
  /\ submitted = 0
  /\ session = [s \in Sessions |-> NoSession]
  /\ exchanges = [s \in Sessions |-> 0]
  /\ closes = [s \in Sessions |-> 0]
  /\ req = [r \in Requests |-> NoRequest]
  /\ late = [s \in Sessions |-> {}]
  /\ raced = {}

(* The owner of the document submits a version of it. *)
Submit ==
  /\ submitted < MaxVersions
  /\ submitted' = submitted + 1
  /\ UNCHANGED <<session, exchanges, closes, req, late, raced>>

(* resolve_version: the version that is asked for, which create looks up, *)
(* or the newest version of the document.                                  *)
Resolved(version, newest) ==
  /\ version \in 1..submitted
  /\ newest => version = submitted

(* The row that create inserts. *)
NewRow(user, version) == [user |-> user, version |-> version, status |-> "open", state |-> 1]

(* create_session, from the request to the version it is bound to. *)
Resolve(r, user, version, newest) ==
  /\ req[r] = NoRequest
  /\ Resolved(version, newest)
  /\ \E s \in Sessions :
       /\ ~Exists(s) /\ InFlight(s) = {}
       /\ Becomes(r, [op |-> "create", s |-> s, row |-> NewRow(user, version)])
  /\ UNCHANGED <<submitted, session, exchanges, closes, late, raced>>

(* create: the insert and its commit. *)
Create(r) ==
  /\ req[r].op = "create"
  /\ session' = [session EXCEPT ![req[r].s] = req[r].row]
  /\ Ends(r)
  /\ UNCHANGED <<submitted, exchanges, closes, raced>>

(* The row of a session, which only its own user finds. *)
Found(s, user) == Exists(s) /\ session[s].user = user

(* The status is looked at when the row is read. *)
Open(s) == session[s].status # "closed"

(* add_message and close read the row. *)
Begin(r, op, s, user) ==
  /\ req[r] = NoRequest
  /\ Found(s, user)
  /\ Cardinality(InFlight(s)) + Changes(s) < MaxChanges
  /\ Becomes(r, [op |-> op, s |-> s, row |-> session[s]])
  /\ UNCHANGED <<submitted, session, exchanges, closes, late, raced>>

BeginMessage(r, s, user) == Begin(r, "message", s, user) /\ Open(s)

(* close does not look at the status: a session can be closed again. *)
BeginClose(r, s, user) == Begin(r, "close", s, user)

(* Mutant: closing leaves the version alone. *)
WriteOverKept(r, status) ==
  LET row == req[r].row IN
  session' = [session EXCEPT ![req[r].s] =
    [@ EXCEPT !.status = status, !.state = row.state + (IF status = "closed" THEN 0 ELSE 1)]]

(* The update: a new status, and the version that was read plus one. *)
WriteOver(r, status) ==
  LET row == req[r].row IN
  session' = [session EXCEPT ![req[r].s] = [@ EXCEPT !.status = status, !.state = row.state + 1]]

Overtaken(r) == session[req[r].s] # req[r].row

Raced(r) == raced' = IF Overtaken(r) THEN raced \cup {req[r].s} ELSE raced

(* add_message: the two messages and the update, and their commit. *)
Message(r) ==
  /\ req[r].op = "message"
  /\ exchanges' = [exchanges EXCEPT ![req[r].s] = @ + 1]
  /\ WriteOver(r, "waiting_human")
  /\ Raced(r)
  /\ Ends(r)
  /\ UNCHANGED <<submitted, closes>>

(* close: the update and its commit; no message is written. *)
Close(r) ==
  /\ req[r].op = "close"
  /\ WriteOver(r, "closed")
  /\ closes' = [closes EXCEPT ![req[r].s] = @ + 1]
  /\ late' = [late EXCEPT ![req[r].s] = InFlight(req[r].s) \ {r}]
  /\ Raced(r)
  /\ Becomes(r, NoRequest)
  /\ UNCHANGED <<submitted, exchanges>>

(* The database fails: the transaction is rolled back. *)
Fail(r) ==
  /\ req[r] # NoRequest
  /\ Ends(r)
  /\ UNCHANGED <<submitted, session, exchanges, closes, raced>>

Request(r) ==
  \/ \E user \in Users, version \in 1..MaxVersions, newest \in BOOLEAN :
       Resolve(r, user, version, newest)
  \/ \E s \in Sessions, user \in Users : BeginMessage(r, s, user) \/ BeginClose(r, s, user)
  \/ Create(r) \/ Message(r) \/ Close(r) \/ Fail(r)

Next == Submit \/ \E r \in Requests : Request(r)

Spec == Init /\ [][Next]_vars

(***************************************************************************)
(* Properties.                                                             *)
(***************************************************************************)
TypeOK ==
  /\ submitted \in 0..MaxVersions
  /\ session \in [Sessions -> Rows \cup {NoSession}]
  /\ exchanges \in [Sessions -> Nat] /\ closes \in [Sessions -> Nat]
  /\ req \in [Requests -> [op: {"none", "create", "message", "close"},
                           s: Sessions \cup {NoSession}, row: Rows \cup {NoSession}]]
  /\ late \in [Sessions -> SUBSET Requests]
  /\ raced \subseteq Sessions

(* A closed session is opened again by nothing but a message that was      *)
(* accepted before and is written after the close.                         *)
ReopenedOnlyByOverlap ==
  [][\A s \in Sessions :
       Exists(s) /\ session[s].status = "closed" /\ session'[s].status # "closed" =>
         \E r \in late[s] : req[r].op = "message" /\ req'[r] = NoRequest]_vars

(* The version counts the changes of a session; it falls behind only where *)
(* one request has written over the changes of another.                    *)
VersionCounts ==
  \A s \in Sessions : Exists(s) =>
    /\ session[s].state <= 1 + Changes(s)
    /\ s \notin raced => session[s].state = 1 + Changes(s)
=============================================================================
