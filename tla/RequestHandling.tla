--------------------------- MODULE RequestHandling ---------------------------
(***************************************************************************)
(* One request through the layers of the application, and what it is       *)
(* answered with: the middleware gives it an id, its handler returns or    *)
(* raises, and the exception handlers make an error of what was raised:    *)
(* those of the application one that has the id of the request, the one    *)
(* FastAPI brings for HTTPException one that has not.  The handler may be  *)
(* the readiness probe, which looks at the database and at Redis while     *)
(* these come and go.                                                      *)
(***************************************************************************)
EXTENDS Integers, Sequences, FiniteSets

CONSTANTS
  Dependencies,     \* "database" and "redis"
  Given, Made,      \* ids of requests: the client's, the middleware's
  MaxOutages,       \* bound: changes of a dependency
  None

VARIABLES
  up,               \* the dependencies that are available
  wasUp, wasDown,   \* history: those that were so since the probe began
  outages,          \* changes that have happened
  request,          \* its handler, the id that the client gave, the id it has
  probed,           \* what each check has found: "ok", "unavailable" or None
  response          \* status, the id in the header and in the body, the details

vars == <<up, wasUp, wasDown, outages, request, probed, response>>

NoRequest == [handler |-> None, given |-> None, id |-> None]

Init ==
  /\ up = Dependencies /\ wasUp = {} /\ wasDown = {} /\ outages = 0
  /\ request = NoRequest
  /\ probed = [d \in Dependencies |-> None]
  /\ response = None

(* dispatch: X-Request-ID of the client or a new one.                      *)
Receive(handler, given) ==
  /\ request = NoRequest
  /\ request' = [handler |-> handler, given |-> given, id |-> IF given = None THEN Made ELSE given]
  /\ wasUp' = up /\ wasDown' = Dependencies \ up
  /\ UNCHANGED <<up, outages, probed, response>>

(* A dependency fails or recovers. *)
Flip(d) ==
  /\ outages < MaxOutages /\ response = None
  /\ outages' = outages + 1
  /\ up' = IF d \in up THEN up \ {d} ELSE up \cup {d}
  /\ wasUp' = wasUp \cup up'
  /\ wasDown' = wasDown \cup (Dependencies \ up')
  /\ UNCHANGED <<request, probed, response>>

(* check_database, check_redis: both run at once, each looks once, and an  *)
(* exception is "unavailable".                                             *)
Check(d) ==
  /\ request.handler = "health_ready" /\ probed[d] = None
  /\ probed' = [probed EXCEPT ![d] = IF d \in up THEN "ok" ELSE "unavailable"]
  /\ UNCHANGED <<up, wasUp, wasDown, outages, request, response>>

(* Mutant: ready as long as one dependency answers. *)
SomeReady == \E d \in Dependencies : probed[d] = "ok"

(* get_readiness *)
Ready == \A d \in Dependencies : probed[d] = "ok"

(* Exceptions with their status: AppError, AuthorizationError and the      *)
(* readiness error, which is an AppError; what validation finds;           *)
(* HTTPException, of the routers and for a route that is not there, with   *)
(* one status for all of its own; others.                                  *)
StatusOf ==
  [app |-> 400, authorization |-> 403, not_ready |-> 503, validation |-> 422,
   http |-> 404, unhandled |-> 500]

(* app_error_handler: the id is that of the request's state.  No handler   *)
(* is registered for HTTPException, and that of FastAPI answers a detail   *)
(* alone.  Exceptions of no registered class are handled outside of the    *)
(* middleware, which then does not get to set the header.                  *)
ErrorResponse(kind, details) ==
  [status |-> StatusOf[kind], details |-> details,
   body |-> IF kind = "http" THEN None ELSE request.id,
   header |-> IF kind = "unhandled" THEN None ELSE request.id]

Success == [status |-> 200, body |-> None, header |-> request.id, details |-> {}]

(* health_ready *)
AnswerProbe ==
  /\ request.handler = "health_ready" /\ response = None
  /\ \A d \in Dependencies : probed[d] # None
  /\ response' = IF Ready THEN Success
                  ELSE ErrorResponse("not_ready", {d \in Dependencies : probed[d] = "unavailable"})
  /\ UNCHANGED <<up, wasUp, wasDown, outages, request, probed>>

(* Any other handler, health_live among them: it returns, or it raises.    *)
Return ==
  /\ request.handler = "route" /\ response = None
  /\ response' = Success
  /\ UNCHANGED <<up, wasUp, wasDown, outages, request, probed>>

Raise(kind) ==
  /\ request.handler = "route" /\ response = None
  /\ response' = ErrorResponse(kind, {})
  /\ UNCHANGED <<up, wasUp, wasDown, outages, request, probed>>

Next ==
  \/ \E handler \in {"route", "health_ready"}, given \in {Given, None} : Receive(handler, given)
  \/ \E d \in Dependencies : Flip(d) \/ Check(d)
  \/ AnswerProbe \/ Return
  \/ \E kind \in DOMAIN StatusOf \ {"not_ready"} : Raise(kind)

Spec == Init /\ [][Next]_vars

(***************************************************************************)
(* Properties.                                                             *)
(***************************************************************************)
TypeOK ==
  /\ up \subseteq Dependencies /\ outages \in 0..MaxOutages
  /\ wasUp \subseteq Dependencies /\ wasDown \subseteq Dependencies
  /\ probed \in [Dependencies -> {"ok", "unavailable", None}]
  /\ request.handler \in {"route", "health_ready", None}

(* "Ready" means that every dependency was available at some time of the   *)
(* probe - not that all were at once - and what is reported as unavailable *)
(* was so at some time.                                                    *)
ProbeWasTrue ==
  request.handler = "health_ready" /\ response # None =>
    /\ response.status = 200 => wasUp = Dependencies
    /\ response.status # 200 => response.details # {} /\ response.details \subseteq wasDown

(* An error names its request at least once, by the id that the client has *)
(* sent, if any: in the header, or in the body, and a probe that finds the *)
(* service not ready does in both.  No error names another request.        *)
ErrorsNamed ==
  response # None /\ response.status # 200 =>
    LET id == IF request.given = None THEN Made ELSE request.given
        places == {response.body, response.header}
    IN
    /\ id \in places /\ places \subseteq {id, None}
    /\ request.handler = "health_ready" => places = {id}

(* What the description of the interface says, that an error that is       *)
(* returned contains the id of its request.  The body of an HTTPException  *)
(* does not.                                                               *)
ErrorsCarryId ==
  response # None /\ response.status # 200 => response.body = request.id
=============================================================================
