----------------------- MODULE SupportServicesProofs -----------------------
EXTENDS SupportServices, FiniteSetTheorems, SequenceTheorems, TLAPS

(* The parts count with the same operator as this module.                   *)
LEMMA CardinalitiesAgree ==
  ASSUME NEW S
  PROVE  InReports!Cardinality(S) = Cardinality(S) /\ InConfig!Cardinality(S) = Cardinality(S)
BY DEF InReports!Cardinality, InConfig!Cardinality, Cardinality

(***************************************************************************)
(* Review sessions.                                                        *)
(***************************************************************************)
(* A session that does not exist has no changes, and a request that creates *)
(* it is alone with it.                                                     *)
SessionsBlank == \A s \in Sessions : ~InSessions!Exists(s) => exchanges[s] = 0 /\ closes[s] = 0
SessionsCreated ==
  \A r \in Requests : sessionReq[r].op = "create" =>
    /\ sessionReq[r].s \in Sessions /\ ~InSessions!Exists(sessionReq[r].s)
    /\ sessionReq[r].row \in InSessions!Rows /\ sessionReq[r].row.state = 1
    /\ \A q \in Requests : sessionReq[q].s = sessionReq[r].s => q = r

(* A request that changes a session has read one of its versions.           *)
SessionsRead ==
  \A r \in Requests : sessionReq[r].op \in {"message", "close"} =>
    /\ sessionReq[r].s \in Sessions /\ InSessions!Exists(sessionReq[r].s)
    /\ sessionReq[r].row \in InSessions!Rows
    /\ sessionReq[r].row.state <= 1 + InSessions!Changes(sessionReq[r].s)

(* A message to a session that is closed now was accepted before it was.    *)
SessionsLate ==
  \A s \in Sessions, r \in Requests :
    /\ InSessions!Exists(s) /\ session[s].status = "closed"
    /\ sessionReq[r].op = "message" /\ sessionReq[r].s = s
    => r \in late[s]
SessionsIdle ==
  \A r \in Requests : sessionReq[r].op = "none" => sessionReq[r] = InSessions!NoRequest

SessionsInv ==
  /\ InSessions!TypeOK /\ InSessions!VersionCounts /\ SessionsBlank /\ SessionsCreated
  /\ SessionsRead
  /\ SessionsLate /\ SessionsIdle

(* What the end of a request changes.                                       *)
LEMMA SessionsEnd ==
  ASSUME SessionsInv, NEW r \in Requests, InSessions!Becomes(r, InSessions!NoRequest)
  PROVE  /\ sessionReq'[r] = InSessions!NoRequest /\ sessionReq'[r].op = "none"
         /\ sessionReq'[r].s = Nothing
         /\ \A q \in Requests \ {r} : sessionReq'[q] = sessionReq[q]
         /\ sessionReq' \in [Requests -> [op: {"none", "create", "message", "close"},
                           s: Sessions \cup {Nothing}, row: InSessions!Rows \cup {Nothing}]]
BY DEF SessionsInv, InSessions!TypeOK, InSessions!Becomes, InSessions!NoRequest

(* A message or a close begins: the request reads the session.              *)
LEMMA SessionsBegin ==
  ASSUME SessionsInv, NEW r \in Requests, NEW op \in {"message", "close"}, NEW s \in Sessions,
         NEW who \in Users, InSessions!Begin(r, op, s, who), op = "message" => InSessions!Open(s)
  PROVE  SessionsInv'
<1> USE DEF SessionsInv
<1>1. /\ sessionReq'[r].op = op /\ sessionReq'[r].s = s /\ sessionReq'[r].row = session[s]
      /\ \A q \in Requests \ {r} : sessionReq'[q] = sessionReq[q]
      /\ UNCHANGED <<submitted, session, exchanges, closes, late, raced>>
  BY DEF InSessions!Begin, InSessions!Becomes, InSessions!TypeOK
<1>2. InSessions!Exists(s) /\ session[s] \in InSessions!Rows
  BY DEF InSessions!Begin, InSessions!Found, InSessions!Exists, InSessions!TypeOK
<1>3. InSessions!TypeOK'
  BY <1>1, <1>2 DEF InSessions!Begin, InSessions!Becomes, InSessions!TypeOK
<1>4. InSessions!VersionCounts' /\ SessionsBlank'
  BY <1>1 DEF InSessions!VersionCounts, SessionsBlank, InSessions!Exists, InSessions!Changes
<1>5. SessionsCreated'
  BY <1>1, <1>2 DEF SessionsCreated, InSessions!Exists
<1>6. SessionsRead'
  BY <1>1, <1>2 DEF SessionsRead, InSessions!Exists, InSessions!Changes, InSessions!VersionCounts
<1>7. SessionsLate'
  BY <1>1, <1>2 DEF SessionsLate, InSessions!Exists, InSessions!Open
<1>8. SessionsIdle'
  BY <1>1 DEF SessionsIdle
<1> QED
  BY <1>3, <1>4, <1>5, <1>6, <1>7, <1>8

(* The update of a session by a message or a close.                         *)
LEMMA SessionsWrite ==
  ASSUME SessionsInv, NEW r \in Requests, sessionReq[r].op \in {"message", "close"},
         NEW status \in InSessions!Statuses, InSessions!WriteOver(r, status)
  PROVE  /\ sessionReq[r].s \in Sessions
         /\ session' \in [Sessions -> InSessions!Rows \cup {Nothing}]
         /\ session'[sessionReq[r].s] # Nothing
         /\ session'[sessionReq[r].s].status = status
         /\ session'[sessionReq[r].s].user = session[sessionReq[r].s].user
         /\ session'[sessionReq[r].s].state = sessionReq[r].row.state + 1
         /\ \A s \in Sessions \ {sessionReq[r].s} : session'[s] = session[s]
<1>1. /\ sessionReq[r].s \in Sessions /\ session[sessionReq[r].s] \in InSessions!Rows
      /\ sessionReq[r].row \in InSessions!Rows
      /\ session \in [Sessions -> InSessions!Rows \cup {Nothing}]
  BY DEF SessionsInv, SessionsRead, InSessions!TypeOK, InSessions!Exists
<1> DEFINE new == [session[sessionReq[r].s] EXCEPT !.status = status, !.state = sessionReq[r].row.state + 1]
<1>2. /\ new \in InSessions!Rows /\ new.status = status /\ new.state = sessionReq[r].row.state + 1
      /\ new.user = session[sessionReq[r].s].user
  <2>1. /\ sessionReq[r].row.state \in Nat \ {0} /\ session[sessionReq[r].s].user \in Users
        /\ session[sessionReq[r].s].version \in 1..MaxVersions
        /\ DOMAIN session[sessionReq[r].s] = {"user", "version", "status", "state"}
    BY <1>1 DEF InSessions!Rows
  <2> DEFINE mid == [session[sessionReq[r].s] EXCEPT !.status = status]
  <2>2. mid \in InSessions!Rows /\ mid.status = status /\ mid.user = session[sessionReq[r].s].user
    BY <1>1 DEF InSessions!Rows
  <2>3. new = [mid EXCEPT !.state = sessionReq[r].row.state + 1]
    BY <1>1 DEF InSessions!Rows
  <2> HIDE DEF mid, new
  <2> QED
    BY <2>1, <2>2, <2>3 DEF InSessions!Rows
<1>3. session' = [session EXCEPT ![sessionReq[r].s] = new]
  BY <1>1 DEF InSessions!WriteOver
<1> HIDE DEF new
<1> QED
  BY <1>1, <1>2, <1>3, SessionsAssumption

(* The creation of a session begins: its identifier is new.                 *)
LEMMA SessionsResolve ==
  ASSUME SessionsInv, NEW r \in Requests, NEW who \in Users, NEW version \in 1..MaxVersions,
         NEW last \in BOOLEAN, InSessions!Resolve(r, who, version, last)
  PROVE  SessionsInv'
<1> USE DEF SessionsInv
<1>1. PICK s \in Sessions :
        /\ ~InSessions!Exists(s) /\ InSessions!InFlight(s) = {}
        /\ InSessions!Becomes(r, [op |-> "create", s |-> s, row |-> InSessions!NewRow(who, version)])
  BY DEF InSessions!Resolve
<1>2. /\ sessionReq'[r].op = "create" /\ sessionReq'[r].s = s
      /\ sessionReq'[r].row = InSessions!NewRow(who, version)
      /\ \A q \in Requests \ {r} : sessionReq'[q] = sessionReq[q] /\ sessionReq[q].s # s
      /\ UNCHANGED <<submitted, session, exchanges, closes, late, raced>>
  BY <1>1 DEF InSessions!Resolve, InSessions!Becomes, InSessions!TypeOK, InSessions!InFlight
<1>3. InSessions!NewRow(who, version) \in InSessions!Rows /\ InSessions!NewRow(who, version).state = 1
  BY DEF InSessions!NewRow, InSessions!Rows, InSessions!Statuses
<1>4. InSessions!TypeOK'
  BY <1>1, <1>2, <1>3 DEF InSessions!Becomes, InSessions!TypeOK
<1>5. InSessions!VersionCounts' /\ SessionsBlank'
  BY <1>2 DEF InSessions!VersionCounts, SessionsBlank, InSessions!Exists, InSessions!Changes
<1>6. SessionsCreated'
  BY <1>1, <1>2, <1>3, SessionsAssumption DEF SessionsCreated, InSessions!Exists
<1>7. SessionsRead'
  BY <1>2 DEF SessionsRead, InSessions!Exists, InSessions!Changes
<1>8. SessionsLate' /\ SessionsIdle'
  BY <1>2 DEF SessionsLate, InSessions!Exists, SessionsIdle
<1> QED
  BY <1>4, <1>5, <1>6, <1>7, <1>8

(* The session is inserted.                                                 *)
LEMMA SessionsCreate ==
  ASSUME SessionsInv, NEW r \in Requests, InSessions!Create(r)
  PROVE  SessionsInv'
<1> USE DEF SessionsInv
<1>1. /\ sessionReq'[r] = InSessions!NoRequest /\ sessionReq'[r].op = "none"
      /\ sessionReq'[r].s = Nothing
      /\ \A q \in Requests \ {r} : sessionReq'[q] = sessionReq[q]
      /\ sessionReq' \in [Requests -> [op: {"none", "create", "message", "close"},
                        s: Sessions \cup {Nothing}, row: InSessions!Rows \cup {Nothing}]]
  BY SessionsEnd DEF InSessions!Create, InSessions!Ends
<1>2. /\ sessionReq[r].s \in Sessions /\ ~InSessions!Exists(sessionReq[r].s)
      /\ sessionReq[r].row \in InSessions!Rows /\ sessionReq[r].row.state = 1
      /\ sessionReq[r].row # Nothing
      /\ \A q \in Requests : sessionReq[q].s = sessionReq[r].s => q = r
  BY SessionsAssumption DEF InSessions!Create, SessionsCreated
<1>3. /\ session'[sessionReq[r].s] = sessionReq[r].row
      /\ \A s \in Sessions \ {sessionReq[r].s} : session'[s] = session[s]
      /\ \A s \in Sessions : late'[s] = late[s] \ {r}
      /\ UNCHANGED <<submitted, exchanges, closes, raced>>
  BY <1>2 DEF InSessions!Create, InSessions!Ends, InSessions!TypeOK
<1>4. InSessions!TypeOK'
  <2>1. session' \in [Sessions -> InSessions!Rows \cup {Nothing}]
    BY <1>2 DEF InSessions!Create, InSessions!TypeOK
  <2>2. late' \in [Sessions -> SUBSET Requests]
    BY DEF InSessions!Create, InSessions!Ends, InSessions!TypeOK
  <2> QED
    BY <1>1, <1>3, <2>1, <2>2 DEF InSessions!TypeOK
<1>5. InSessions!VersionCounts' /\ SessionsBlank'
  BY <1>2, <1>3 DEF InSessions!VersionCounts, SessionsBlank, InSessions!Exists, InSessions!Changes
<1>6. SessionsCreated'
  BY <1>1, <1>2, <1>3, SessionsAssumption DEF SessionsCreated, InSessions!Exists
<1>7. SessionsRead'
  BY <1>1, <1>2, <1>3 DEF SessionsRead, InSessions!Exists, InSessions!Changes
<1>8. SessionsLate' /\ SessionsIdle'
  BY <1>1, <1>2, <1>3 DEF SessionsLate, InSessions!Exists, SessionsIdle
<1> QED
  BY <1>4, <1>5, <1>6, <1>7, <1>8

(* A message is stored over what its request has read.                      *)
LEMMA SessionsMessage ==
  ASSUME SessionsInv, NEW r \in Requests, InSessions!Message(r)
  PROVE  SessionsInv'
<1> USE DEF SessionsInv
<1>1. /\ sessionReq'[r] = InSessions!NoRequest /\ sessionReq'[r].op = "none"
      /\ sessionReq'[r].s = Nothing
      /\ \A q \in Requests \ {r} : sessionReq'[q] = sessionReq[q]
      /\ sessionReq' \in [Requests -> [op: {"none", "create", "message", "close"},
                        s: Sessions \cup {Nothing}, row: InSessions!Rows \cup {Nothing}]]
  BY SessionsEnd DEF InSessions!Message, InSessions!Ends
<1>2. /\ sessionReq[r].s \in Sessions /\ InSessions!Exists(sessionReq[r].s)
      /\ sessionReq[r].op = "message"
      /\ sessionReq[r].row \in InSessions!Rows
      /\ sessionReq[r].row.state <= 1 + InSessions!Changes(sessionReq[r].s)
      /\ sessionReq[r].row.state \in Nat
  BY DEF InSessions!Message, SessionsRead, InSessions!Rows
<1>3. /\ session' \in [Sessions -> InSessions!Rows \cup {Nothing}]
      /\ session'[sessionReq[r].s] # Nothing
      /\ session'[sessionReq[r].s].status = "waiting_human"
      /\ session'[sessionReq[r].s].state = sessionReq[r].row.state + 1
      /\ \A s \in Sessions \ {sessionReq[r].s} : session'[s] = session[s]
  BY <1>2, SessionsWrite DEF InSessions!Message, InSessions!Statuses
<1>4. /\ exchanges'[sessionReq[r].s] = exchanges[sessionReq[r].s] + 1
      /\ \A s \in Sessions \ {sessionReq[r].s} : exchanges'[s] = exchanges[s]
      /\ \A s \in Sessions : late'[s] = late[s] \ {r}
      /\ \A s \in Sessions \ {sessionReq[r].s} : s \in raced' <=> s \in raced
      /\ raced' \subseteq Sessions
      /\ sessionReq[r].s \notin raced' =>
           session[sessionReq[r].s] = sessionReq[r].row /\ sessionReq[r].s \notin raced
      /\ UNCHANGED <<submitted, closes>>
  <2>1. /\ exchanges'[sessionReq[r].s] = exchanges[sessionReq[r].s] + 1
        /\ \A s \in Sessions \ {sessionReq[r].s} : exchanges'[s] = exchanges[s]
        /\ \A s \in Sessions : late'[s] = late[s] \ {r}
        /\ UNCHANGED <<submitted, closes>>
    BY <1>2 DEF InSessions!Message, InSessions!Ends, InSessions!TypeOK
  <2>2. /\ \A s \in Sessions \ {sessionReq[r].s} : s \in raced' <=> s \in raced
        /\ raced' \subseteq Sessions
        /\ sessionReq[r].s \notin raced' =>
             session[sessionReq[r].s] = sessionReq[r].row /\ sessionReq[r].s \notin raced
    BY <1>2 DEF InSessions!Message, InSessions!Raced, InSessions!Overtaken, InSessions!TypeOK
  <2> QED
    BY <2>1, <2>2
<1>5. InSessions!TypeOK'
  <2>1. late' \in [Sessions -> SUBSET Requests]
    BY DEF InSessions!Message, InSessions!Ends, InSessions!TypeOK
  <2>2. exchanges' \in [Sessions -> Nat] /\ closes' \in [Sessions -> Nat]
    BY <1>2 DEF InSessions!Message, InSessions!TypeOK
  <2> QED
    BY <1>1, <1>3, <1>4, <2>1, <2>2 DEF InSessions!TypeOK
<1>6. InSessions!VersionCounts' /\ SessionsBlank'
  BY <1>2, <1>3, <1>4
  DEF InSessions!VersionCounts, SessionsBlank, InSessions!Exists, InSessions!Changes,
     InSessions!TypeOK
<1>7. SessionsCreated'
  BY <1>1, <1>2, <1>3, SessionsAssumption DEF SessionsCreated, InSessions!Exists
<1>8. SessionsRead'
  <2> SUFFICES ASSUME NEW q \in Requests, (sessionReq[q].op \in {"message", "close"})'
               PROVE  (/\ sessionReq[q].s \in Sessions /\ InSessions!Exists(sessionReq[q].s)
                       /\ sessionReq[q].row \in InSessions!Rows
                       /\ sessionReq[q].row.state <= 1 + InSessions!Changes(sessionReq[q].s))'
    BY DEF SessionsRead
  <2>1. q # r /\ sessionReq'[q] = sessionReq[q]
    BY <1>1
  <2>2. /\ sessionReq[q].s \in Sessions /\ InSessions!Exists(sessionReq[q].s)
        /\ sessionReq[q].row \in InSessions!Rows
        /\ sessionReq[q].row.state <= 1 + InSessions!Changes(sessionReq[q].s)
        /\ sessionReq[q].row.state \in Nat
    BY <2>1 DEF SessionsRead, InSessions!Rows
  <2> QED
    BY <1>2, <1>3, <1>4, <2>1, <2>2 DEF InSessions!Exists, InSessions!Changes, InSessions!TypeOK
<1>9. SessionsLate' /\ SessionsIdle'
  BY <1>1, <1>2, <1>3, <1>4 DEF SessionsLate, InSessions!Exists, SessionsIdle
<1> QED
  BY <1>5, <1>6, <1>7, <1>8, <1>9

(* A close is stored over what its request has read; it makes late the      *)
(* messages in flight.                                                      *)
LEMMA SessionsClose ==
  ASSUME SessionsInv, NEW r \in Requests, InSessions!Close(r)
  PROVE  SessionsInv'
<1> USE DEF SessionsInv
<1>1. /\ sessionReq'[r] = InSessions!NoRequest /\ sessionReq'[r].op = "none"
      /\ sessionReq'[r].s = Nothing
      /\ \A q \in Requests \ {r} : sessionReq'[q] = sessionReq[q]
      /\ sessionReq' \in [Requests -> [op: {"none", "create", "message", "close"},
                        s: Sessions \cup {Nothing}, row: InSessions!Rows \cup {Nothing}]]
  BY SessionsEnd DEF InSessions!Close
<1>2. /\ sessionReq[r].s \in Sessions /\ InSessions!Exists(sessionReq[r].s)
      /\ sessionReq[r].op = "close"
      /\ sessionReq[r].row \in InSessions!Rows
      /\ sessionReq[r].row.state <= 1 + InSessions!Changes(sessionReq[r].s)
      /\ sessionReq[r].row.state \in Nat
  BY DEF InSessions!Close, SessionsRead, InSessions!Rows
<1>3. /\ session' \in [Sessions -> InSessions!Rows \cup {Nothing}]
      /\ session'[sessionReq[r].s] # Nothing
      /\ session'[sessionReq[r].s].status = "closed"
      /\ session'[sessionReq[r].s].state = sessionReq[r].row.state + 1
      /\ \A s \in Sessions \ {sessionReq[r].s} : session'[s] = session[s]
  BY <1>2, SessionsWrite DEF InSessions!Close, InSessions!Statuses
<1>4. /\ closes'[sessionReq[r].s] = closes[sessionReq[r].s] + 1
      /\ \A s \in Sessions \ {sessionReq[r].s} : closes'[s] = closes[s] /\ late'[s] = late[s]
      /\ \A q \in Requests \ {r} : sessionReq[q].s = sessionReq[r].s => q \in late'[sessionReq[r].s]
      /\ \A s \in Sessions \ {sessionReq[r].s} : s \in raced' <=> s \in raced
      /\ raced' \subseteq Sessions
      /\ sessionReq[r].s \notin raced' =>
           session[sessionReq[r].s] = sessionReq[r].row /\ sessionReq[r].s \notin raced
      /\ UNCHANGED <<submitted, exchanges>>
  <2>1. /\ closes'[sessionReq[r].s] = closes[sessionReq[r].s] + 1
        /\ \A s \in Sessions \ {sessionReq[r].s} : closes'[s] = closes[s] /\ late'[s] = late[s]
        /\ late'[sessionReq[r].s] = InSessions!InFlight(sessionReq[r].s) \ {r}
        /\ UNCHANGED <<submitted, exchanges>>
    BY <1>2 DEF InSessions!Close, InSessions!TypeOK
  <2>2. /\ \A s \in Sessions \ {sessionReq[r].s} : s \in raced' <=> s \in raced
        /\ raced' \subseteq Sessions
        /\ sessionReq[r].s \notin raced' =>
             session[sessionReq[r].s] = sessionReq[r].row /\ sessionReq[r].s \notin raced
    BY <1>2 DEF InSessions!Close, InSessions!Raced, InSessions!Overtaken, InSessions!TypeOK
  <2> QED
    BY <2>1, <2>2 DEF InSessions!InFlight
<1>5. InSessions!TypeOK'
  <2>1. late' \in [Sessions -> SUBSET Requests]
    BY DEF InSessions!Close, InSessions!InFlight, InSessions!TypeOK
  <2>2. exchanges' \in [Sessions -> Nat] /\ closes' \in [Sessions -> Nat]
    BY <1>2 DEF InSessions!Close, InSessions!TypeOK
  <2> QED
    BY <1>1, <1>3, <1>4, <2>1, <2>2 DEF InSessions!TypeOK
<1>6. InSessions!VersionCounts' /\ SessionsBlank'
  BY <1>2, <1>3, <1>4
  DEF InSessions!VersionCounts, SessionsBlank, InSessions!Exists, InSessions!Changes,
     InSessions!TypeOK
<1>7. SessionsCreated'
  BY <1>1, <1>2, <1>3, SessionsAssumption DEF SessionsCreated, InSessions!Exists
<1>8. SessionsRead'
  <2> SUFFICES ASSUME NEW q \in Requests, (sessionReq[q].op \in {"message", "close"})'
               PROVE  (/\ sessionReq[q].s \in Sessions /\ InSessions!Exists(sessionReq[q].s)
                       /\ sessionReq[q].row \in InSessions!Rows
                       /\ sessionReq[q].row.state <= 1 + InSessions!Changes(sessionReq[q].s))'
    BY DEF SessionsRead
  <2>1. q # r /\ sessionReq'[q] = sessionReq[q]
    BY <1>1
  <2>2. /\ sessionReq[q].s \in Sessions /\ InSessions!Exists(sessionReq[q].s)
        /\ sessionReq[q].row \in InSessions!Rows
        /\ sessionReq[q].row.state <= 1 + InSessions!Changes(sessionReq[q].s)
        /\ sessionReq[q].row.state \in Nat
    BY <2>1 DEF SessionsRead, InSessions!Rows
  <2> QED
    BY <1>2, <1>3, <1>4, <2>1, <2>2 DEF InSessions!Exists, InSessions!Changes, InSessions!TypeOK
<1>9. SessionsLate' /\ SessionsIdle'
  BY <1>1, <1>2, <1>3, <1>4 DEF SessionsLate, InSessions!Exists, SessionsIdle
<1> QED
  BY <1>5, <1>6, <1>7, <1>8, <1>9

(* A request ends without a change.                                         *)
LEMMA SessionsFail ==
  ASSUME SessionsInv, NEW r \in Requests, InSessions!Fail(r)
  PROVE  SessionsInv'
<1> USE DEF SessionsInv
<1>1. /\ sessionReq'[r] = InSessions!NoRequest /\ sessionReq'[r].op = "none"
      /\ sessionReq'[r].s = Nothing
      /\ \A q \in Requests \ {r} : sessionReq'[q] = sessionReq[q]
      /\ sessionReq' \in [Requests -> [op: {"none", "create", "message", "close"},
                        s: Sessions \cup {Nothing}, row: InSessions!Rows \cup {Nothing}]]
  BY SessionsEnd DEF InSessions!Fail, InSessions!Ends
<1>2. /\ \A s \in Sessions : late'[s] = late[s] \ {r}
      /\ late' \in [Sessions -> SUBSET Requests]
      /\ UNCHANGED <<submitted, session, exchanges, closes, raced>>
  BY DEF InSessions!Fail, InSessions!Ends, InSessions!TypeOK
<1>3. InSessions!TypeOK'
  BY <1>1, <1>2 DEF InSessions!TypeOK
<1>4. InSessions!VersionCounts' /\ SessionsBlank'
  BY <1>2 DEF InSessions!VersionCounts, SessionsBlank, InSessions!Exists, InSessions!Changes
<1>5. SessionsCreated'
  BY <1>1, <1>2, SessionsAssumption DEF SessionsCreated, InSessions!Exists
<1>6. SessionsRead'
  BY <1>1, <1>2 DEF SessionsRead, InSessions!Exists, InSessions!Changes
<1>7. SessionsLate' /\ SessionsIdle'
  BY <1>1, <1>2 DEF SessionsLate, InSessions!Exists, SessionsIdle
<1> QED
  BY <1>3, <1>4, <1>5, <1>6, <1>7

(* Every step of the sessions keeps their invariant.                        *)
LEMMA SessionsSteps ==
  ASSUME SessionsInv, InSessions!Next \/ UNCHANGED InSessions!vars
  PROVE  SessionsInv'
<1>1. CASE InSessions!Submit
  <2>1. /\ submitted' \in 0..MaxVersions
        /\ UNCHANGED <<session, exchanges, closes, sessionReq, late, raced>>
    BY <1>1, SessionsAssumption DEF InSessions!Submit, SessionsInv, InSessions!TypeOK
  <2> QED
    BY <2>1
    DEF SessionsInv, InSessions!TypeOK, InSessions!VersionCounts, SessionsBlank, SessionsCreated,
                SessionsRead, SessionsLate, SessionsIdle, InSessions!Exists, InSessions!Changes
<1>2. ASSUME NEW r \in Requests, InSessions!Request(r)
      PROVE  SessionsInv'
  <2>1. ASSUME NEW who \in Users, NEW version \in 1..MaxVersions, NEW last \in BOOLEAN,
               InSessions!Resolve(r, who, version, last)
        PROVE  SessionsInv'
    BY <2>1, SessionsResolve
  <2>2. ASSUME NEW s \in Sessions, NEW who \in Users,
               InSessions!BeginMessage(r, s, who) \/ InSessions!BeginClose(r, s, who)
        PROVE  SessionsInv'
    BY <2>2, SessionsBegin DEF InSessions!BeginMessage, InSessions!BeginClose
  <2>3. CASE InSessions!Create(r) \/ InSessions!Message(r) \/ InSessions!Close(r) \/ InSessions!Fail(r)
    BY <2>3, SessionsCreate, SessionsMessage, SessionsClose, SessionsFail
  <2> QED
    BY <1>2, <2>1, <2>2, <2>3 DEF InSessions!Request
<1>3. CASE UNCHANGED InSessions!vars
  <2>1. UNCHANGED <<submitted, session, exchanges, closes, sessionReq, late, raced>>
    BY <1>3 DEF InSessions!vars
  <2> QED
    BY <2>1
    DEF SessionsInv, InSessions!TypeOK, InSessions!VersionCounts, SessionsBlank, SessionsCreated,
                SessionsRead, SessionsLate, SessionsIdle, InSessions!Exists, InSessions!Changes
<1> QED
  BY <1>1, <1>2, <1>3 DEF InSessions!Next

(* The invariant of the sessions holds at the start.                        *)
LEMMA SessionsStart == ASSUME InSessions!Init PROVE SessionsInv
<1>1. InSessions!TypeOK
  BY SessionsAssumption DEF InSessions!Init, InSessions!TypeOK, InSessions!NoRequest
<1> QED
  BY <1>1, SessionsAssumption
  DEF InSessions!Init, SessionsInv, InSessions!VersionCounts, SessionsBlank, SessionsCreated,
    SessionsRead, SessionsLate, SessionsIdle, InSessions!Exists, InSessions!Changes, InSessions!NoRequest

(* What no step of a request does to a closed session.                      *)
LEMMA SessionsReopened ==
  ASSUME SessionsInv, InSessions!Next
  PROVE  \A s \in Sessions :
           InSessions!Exists(s) /\ session[s].status = "closed" /\ session'[s].status # "closed" =>
             \E r \in late[s] : sessionReq[r].op = "message" /\ sessionReq'[r] = InSessions!NoRequest
<1> SUFFICES ASSUME NEW s \in Sessions,
                    InSessions!Exists(s), session[s].status = "closed", session'[s].status # "closed"
             PROVE  \E r \in late[s] : sessionReq[r].op = "message" /\ sessionReq'[r] = InSessions!NoRequest
  OBVIOUS
<1>1. PICK r \in Requests : InSessions!Create(r) \/ InSessions!Message(r) \/ InSessions!Close(r)
  BY
  DEF InSessions!Next, InSessions!Request, InSessions!Submit, InSessions!Resolve,
     InSessions!BeginMessage, InSessions!BeginClose, InSessions!Begin, InSessions!Fail
<1>2. CASE InSessions!Create(r)
  <2>1. ~InSessions!Exists(sessionReq[r].s) /\ session' = [session EXCEPT ![sessionReq[r].s] = sessionReq[r].row]
    BY <1>2 DEF InSessions!Create, SessionsInv, SessionsCreated
  <2> QED
    BY <2>1 DEF SessionsInv, InSessions!TypeOK
<1>3. CASE InSessions!Message(r)
  <2>1. sessionReq[r].op = "message" /\ sessionReq'[r] = InSessions!NoRequest
    BY <1>3, SessionsEnd DEF InSessions!Message, InSessions!Ends
  <2>2. \A other \in Sessions \ {sessionReq[r].s} : session'[other] = session[other]
    BY <1>3, SessionsWrite DEF InSessions!Message, InSessions!Statuses
  <2>3. sessionReq[r].s = s
    BY <2>2
  <2> QED
    BY <2>1, <2>3 DEF SessionsInv, SessionsLate
<1>4. CASE InSessions!Close(r)
  <2>1. /\ session'[sessionReq[r].s].status = "closed"
        /\ \A other \in Sessions \ {sessionReq[r].s} : session'[other] = session[other]
    BY <1>4, SessionsWrite DEF InSessions!Close, InSessions!Statuses
  <2> QED
    BY <2>1
<1> QED
  BY <1>1, <1>2, <1>3, <1>4

(***************************************************************************)
(* Reports and their exports.                                              *)
(***************************************************************************)
(* A version that no two requests finalize at once has one final report, or *)
(* one request that has seen none.                                          *)
ReportsFinal ==
  \A v \in Versions \ overlapped :
    /\ \A m, n \in InReports!Of(v, "succeeded") : m = n
    /\ \A r \in Requests : finalizing[r] = v =>
         /\ InReports!Of(v, "succeeded") = {}
         /\ \A q \in Requests : finalizing[q] = v => q = r

(* What a worker holds.                                                     *)
ReportsTaken ==
  \A w \in Workers :
    /\ worker[w].at = "idle" => worker[w] = InReports!Idle
    /\ worker[w].at # "idle" => worker[w].task \in Tasks
    /\ worker[w].at \in {"export", "write"} => worker[w].export \in InReports!Exports
    /\ worker[w].at = "write" => worker[w].export.status # "running"

Exporting(w) == worker[w].at \in {"read", "export", "write"}

(* An export without a crash behind it is in one place: it has one message, *)
(* or one worker that runs it, whose export has not ended.                  *)
ReportsAlone ==
  \A t \in Tasks \ doubled :
    /\ \A m, n \in 0..MaxRetries :
         messages[t][m] <= 1 /\ (messages[t][m] > 0 /\ messages[t][n] > 0 => m = n)
    /\ \A w \in Workers : Exporting(w) /\ worker[w].task = t =>
         /\ \A n \in 0..MaxRetries : messages[t][n] = 0
         /\ \A x \in Workers : Exporting(x) /\ worker[x].task = t => x = w
         /\ worker[w].at \in {"export", "write"} /\ export[t] # Nothing =>
              export[t].status \notin InReports!Terminal

(* An export that has not ended has a message or a worker that runs it.     *)
ReportsCarried ==
  \A t \in Tasks \ stranded : InReports!Unfinished(t) =>
    \/ \E n \in 0..MaxRetries : messages[t][n] > 0
    \/ \E w \in Workers : Exporting(w) /\ worker[w].task = t

ReportsInv == InReports!TypeOK /\ ReportsFinal /\ ReportsTaken /\ ReportsAlone /\ ReportsCarried

(* Final reports of one version are one report.                             *)
LEMMA ReportsOne == ASSUME ReportsInv PROVE InReports!OneFinalReport
<1> SUFFICES ASSUME NEW v \in Versions \ overlapped
             PROVE  Cardinality(InReports!Of(v, "succeeded")) <= 1
  BY CardinalitiesAgree DEF InReports!OneFinalReport
<1>1. \A m, n \in InReports!Of(v, "succeeded") : m = n
  BY DEF ReportsInv, ReportsFinal
<1>2. CASE InReports!Of(v, "succeeded") = {}
  BY <1>2, FS_EmptySet
<1>3. CASE InReports!Of(v, "succeeded") # {}
  <2>1. PICK n \in InReports!Of(v, "succeeded") : TRUE
    BY <1>3
  <2>2. InReports!Of(v, "succeeded") = {n}
    BY <1>1, <2>1
  <2> QED
    BY <2>2, FS_Singleton
<1> QED
  BY <1>2, <1>3

(* An unfinished export is carried.                                         *)
LEMMA ReportsMet == ASSUME ReportsInv PROVE InReports!UnfinishedCarried
BY DEF ReportsInv, ReportsCarried, InReports!UnfinishedCarried, InReports!Carried

(* What is left alone by the steps of the reports, and by those of exports. *)
ExportsInv == ReportsTaken /\ ReportsAlone /\ ReportsCarried

(* Reports that are left alone keep their part of the invariant.            *)
LEMMA ReportsRest ==
  ASSUME ReportsInv, UNCHANGED <<entry, export, messages, worker, faults, stranded, doubled>>
  PROVE  ExportsInv'
<1> USE DEF ReportsInv
<1>1. ReportsTaken'
  BY DEF ReportsTaken
<1>2. ReportsAlone'
  BY DEF ReportsAlone, Exporting
<1>3. ReportsCarried'
  BY DEF ReportsCarried, Exporting, InReports!Unfinished
<1> QED
  BY <1>1, <1>2, <1>3 DEF ExportsInv

(* Exports that are left alone keep theirs.                                 *)
LEMMA ExportsRest ==
  ASSUME ReportsInv, UNCHANGED InReports!reportVars
  PROVE  ReportsFinal'
BY DEF ReportsInv, ReportsFinal, InReports!Of, InReports!reportVars

(* A draft is appended.                                                     *)
LEMMA ReportsDraft ==
  ASSUME ReportsInv, NEW version \in Versions, InReports!CreateDraft(version)
  PROVE  ReportsInv'
<1> USE DEF ReportsInv
<1> DEFINE R == [version: Versions, status: {"draft", "succeeded"}]
<1> DEFINE draft == [version |-> version, status |-> "draft"]
<1>1. /\ reports \in Seq(R) /\ draft \in R /\ reports' = Append(reports, draft)
      /\ draft.status = "draft"
      /\ UNCHANGED <<finalizing, overlapped, entry, export, messages, worker, faults, stranded, doubled>>
  BY DEF InReports!CreateDraft, InReports!TypeOK
<1> HIDE DEF R, draft
<1>2. /\ reports' \in Seq(R) /\ Len(reports) \in Nat
      /\ DOMAIN reports = 1..Len(reports) /\ DOMAIN reports' = 1..(Len(reports) + 1)
      /\ \A n \in 1..Len(reports) : reports'[n] = reports[n]
      /\ reports'[Len(reports) + 1] = draft
  <2>1. DOMAIN reports' = 1..Len(reports')
    BY <1>1, AppendProperties, LenProperties
  <2> QED
    BY <1>1, <2>1, AppendProperties, LenProperties
<1>3. \A v \in Versions : InReports!Of(v, "succeeded")' = InReports!Of(v, "succeeded")
  BY <1>1, <1>2 DEF InReports!Of
<1>4. InReports!TypeOK'
  BY <1>1, <1>2 DEF InReports!TypeOK, R
<1>5. ReportsFinal'
  BY <1>1, <1>3 DEF ReportsFinal
<1> QED
  BY <1>1, <1>4, <1>5, ReportsRest DEF ExportsInv

(* A finalization begins: the version has no final report yet.              *)
LEMMA ReportsBegin ==
  ASSUME ReportsInv, NEW r \in Requests, NEW version \in Versions,
         InReports!BeginFinalize(r, version)
  PROVE  ReportsInv'
<1> USE DEF ReportsInv
<1>1. /\ finalizing[r] = Nothing /\ InReports!Of(version, "succeeded") = {}
      /\ finalizing'[r] = version /\ \A q \in Requests \ {r} : finalizing'[q] = finalizing[q]
      /\ finalizing' \in [Requests -> Versions \cup {Nothing}]
      /\ \A v \in Versions : v \in overlapped => v \in overlapped'
      /\ \A q \in Requests : finalizing[q] = version => version \in overlapped'
      /\ overlapped' \subseteq Versions
      /\ UNCHANGED <<reports, entry, export, messages, worker, faults, stranded, doubled>>
  BY DEF InReports!BeginFinalize, InReports!NotFinal, InReports!TypeOK
<1>2. InReports!TypeOK'
  BY <1>1 DEF InReports!TypeOK
<1>3. ReportsFinal'
  BY <1>1 DEF ReportsFinal, InReports!Of
<1> QED
  BY <1>1, <1>2, <1>3, ReportsRest DEF ExportsInv

(* The newest draft becomes final.                                          *)
LEMMA ReportsFinalize ==
  ASSUME ReportsInv, NEW r \in Requests, InReports!Finalize(r)
  PROVE  ReportsInv'
<1> USE DEF ReportsInv
<1> DEFINE R == [version: Versions, status: {"draft", "succeeded"}]
<1>1. /\ finalizing[r] \in Versions
      /\ finalizing'[r] = Nothing /\ \A q \in Requests \ {r} : finalizing'[q] = finalizing[q]
      /\ finalizing' \in [Requests -> Versions \cup {Nothing}]
      /\ UNCHANGED <<overlapped, entry, export, messages, worker, faults, stranded, doubled>>
  BY DEF InReports!Finalize, InReports!TypeOK
<1>2. CASE UNCHANGED reports
  <2>1. InReports!TypeOK'
    BY <1>1, <1>2 DEF InReports!TypeOK
  <2>2. ReportsFinal'
    BY <1>1, <1>2, ReportsAssumption DEF ReportsFinal, InReports!Of
  <2> QED
    BY <1>1, <2>1, <2>2, ReportsRest DEF ExportsInv
<1>3. ASSUME NEW n \in DOMAIN reports, InReports!NewestDraft(finalizing[r], n),
             reports' = [reports EXCEPT ![n].status = "succeeded"]
      PROVE  ReportsInv'
  <2>1. /\ reports \in Seq(R) /\ DOMAIN reports = 1..Len(reports) /\ reports[n] \in R
    <3>1. reports \in Seq(R)
      BY DEF InReports!TypeOK
    <3> HIDE DEF R
    <3> QED
      BY <1>3, <3>1, LenProperties, ElementOfSeq
  <2> DEFINE final == [reports[n] EXCEPT !.status = "succeeded"]
  <2>2. /\ final \in R /\ final.version = finalizing[r]
        /\ reports[n].version = finalizing[r]
        /\ reports' = [reports EXCEPT ![n] = final]
    BY <1>3, <2>1 DEF InReports!NewestDraft, InReports!Of
  <2> HIDE DEF final
  <2>3. /\ reports' \in Seq(R) /\ Len(reports') = Len(reports)
        /\ \A m \in 1..Len(reports) : reports'[m] = IF m = n THEN final ELSE reports[m]
    <3>1. n \in 1..Len(reports)
      BY <2>1
    <3> HIDE DEF R
    <3> QED
      BY <2>1, <2>2, <3>1, ExceptSeq
  <2>4. DOMAIN reports' = DOMAIN reports
    BY <2>1, <2>3, LenProperties
  <2>5. /\ \A v \in Versions \ {finalizing[r]} : InReports!Of(v, "succeeded")' = InReports!Of(v, "succeeded")
        /\ InReports!Of(finalizing[r], "succeeded") = {} =>
             \A m \in DOMAIN reports :
               reports'[m] = [version |-> finalizing[r], status |-> "succeeded"] => m = n
    BY <1>1, <2>1, <2>2, <2>3, <2>4 DEF InReports!Of
  <2>6. InReports!TypeOK'
    BY <1>1, <2>3 DEF InReports!TypeOK
  <2>7. ReportsFinal'
    <3> SUFFICES ASSUME NEW v \in Versions, v \notin overlapped
                 PROVE  (/\ \A k, m \in InReports!Of(v, "succeeded") : k = m
                         /\ \A q \in Requests : finalizing[q] = v =>
                              /\ InReports!Of(v, "succeeded") = {}
                              /\ \A o \in Requests : finalizing[o] = v => o = q)'
      BY <1>1 DEF ReportsFinal
    <3>1. CASE v # finalizing[r]
      BY <1>1, <2>5, <3>1, ReportsAssumption DEF ReportsFinal
    <3>2. CASE v = finalizing[r]
      <4>1. /\ InReports!Of(v, "succeeded") = {}
            /\ \A q \in Requests : finalizing[q] = v => q = r
        BY <3>2 DEF ReportsFinal
      <4>2. \A q \in Requests : finalizing'[q] # v
        BY <1>1, <4>1, ReportsAssumption
      <4>3. \A m \in InReports!Of(v, "succeeded")' : m = n
        BY <2>4, <2>5, <3>2, <4>1 DEF InReports!Of
      <4> QED
        BY <4>2, <4>3
    <3> QED
      BY <3>1, <3>2
  <2> QED
    BY <1>1, <2>6, <2>7, ReportsRest DEF ExportsInv
<1> QED
  BY <1>2, <1>3 DEF InReports!Finalize

(* A worker that has nothing more to do with its export leaves it to its    *)
(* message, or settled, or stranded.                                        *)
LEMMA ReportsLeave ==
  ASSUME ReportsInv, NEW w \in Workers, NEW t \in Tasks, Exporting(w), worker[w].task = t,
         worker'[w].at = "acknowledge", worker'[w].task = t,
         \A x \in Workers \ {w} : worker'[x] = worker[x],
         \A u \in Tasks \ {t} : messages'[u] = messages[u] /\ export'[u] = export[u],
         t \notin doubled =>
           \A m, n \in 0..MaxRetries :
             messages'[t][m] <= 1 /\ (messages'[t][m] > 0 /\ messages'[t][n] > 0 => m = n),
         \A u \in Tasks \ {t} : u \in stranded => u \in stranded',
         t \in stranded' \/ (\E n \in 0..MaxRetries : messages'[t][n] > 0) \/ ~InReports!Unfinished(t)',
         UNCHANGED doubled
  PROVE  ExportsInv'
<1> USE DEF ReportsInv
<1>1. ReportsTaken'
  BY DEF ReportsTaken
<1>2. ReportsAlone'
  <2> SUFFICES ASSUME NEW u \in Tasks, u \notin doubled
               PROVE  (/\ \A m, n \in 0..MaxRetries :
                            messages[u][m] <= 1 /\ (messages[u][m] > 0 /\ messages[u][n] > 0 => m = n)
                       /\ \A x \in Workers : Exporting(x) /\ worker[x].task = u =>
                            /\ \A n \in 0..MaxRetries : messages[u][n] = 0
                            /\ \A y \in Workers : Exporting(y) /\ worker[y].task = u => y = x
                            /\ worker[x].at \in {"export", "write"} /\ export[u] # Nothing =>
                                 export[u].status \notin InReports!Terminal)'
    BY DEF ReportsAlone
  <2>1. CASE u = t
    <3>1. \A x \in Workers : ~(Exporting(x)' /\ worker'[x].task = u)
      BY <2>1 DEF ReportsAlone, Exporting
    <3> QED
      BY <2>1, <3>1
  <2>2. CASE u # t
    <3>1. \A x \in Workers : Exporting(x)' /\ worker'[x].task = u =>
            worker'[x] = worker[x] /\ Exporting(x)
      BY DEF Exporting
    <3>2. messages'[u] = messages[u] /\ export'[u] = export[u]
      BY <2>2
    <3> QED
      BY <3>1, <3>2 DEF ReportsAlone
  <2> QED
    BY <2>1, <2>2
<1>3. ReportsCarried'
  <2> SUFFICES ASSUME NEW u \in Tasks, u \notin stranded', InReports!Unfinished(u)'
               PROVE  (\/ \E n \in 0..MaxRetries : messages[u][n] > 0
                       \/ \E x \in Workers : Exporting(x) /\ worker[x].task = u)'
    BY DEF ReportsCarried
  <2>1. CASE u = t
    BY <2>1
  <2>2. CASE u # t
    <3>1. u \notin stranded /\ InReports!Unfinished(u) /\ messages'[u] = messages[u]
      BY <2>2 DEF InReports!Unfinished
    <3>2. \A x \in Workers : Exporting(x) /\ worker[x].task = u =>
            worker'[x] = worker[x] /\ Exporting(x)'
      BY <2>2 DEF Exporting
    <3> QED
      BY <3>1, <3>2 DEF ReportsCarried
  <2> QED
    BY <2>1, <2>2
<1> QED
  BY <1>1, <1>2, <1>3 DEF ExportsInv

Holds ==
  [at: {"idle", "read", "export", "write", "acknowledge"},
   task: Tasks \cup {Nothing}, try: 0..MaxRetries, export: InReports!Exports \cup {Nothing}]

(* A message sent or taken changes one count.                               *)
LEMMA ReportsSent ==
  ASSUME ReportsInv, NEW t \in Tasks, NEW n \in 0..MaxRetries, NEW count \in Int,
         messages[t][n] + count >= 0, InReports!Messages(t, n, count)
  PROVE  /\ messages' \in [Tasks -> [0..MaxRetries -> Nat]]
         /\ messages'[t][n] = messages[t][n] + count
         /\ \A m \in 0..MaxRetries \ {n} : messages'[t][m] = messages[t][m]
         /\ \A u \in Tasks \ {t} : messages'[u] = messages[u]
<1> DEFINE new == [messages[t] EXCEPT ![n] = messages[t][n] + count]
<1>1. messages \in [Tasks -> [0..MaxRetries -> Nat]] /\ messages[t] \in [0..MaxRetries -> Nat]
  BY DEF ReportsInv, InReports!TypeOK
<1>2. messages[t][n] + count \in Nat
  BY <1>1
<1>3. /\ new \in [0..MaxRetries -> Nat] /\ new[n] = messages[t][n] + count
      /\ \A m \in 0..MaxRetries \ {n} : new[m] = messages[t][m]
  BY <1>1, <1>2
<1>4. messages' = [messages EXCEPT ![t] = new]
  BY <1>1 DEF InReports!Messages
<1> HIDE DEF new
<1> QED
  BY <1>1, <1>3, <1>4

(* A worker goes on to its next step with what it holds.                    *)
LEMMA ReportsGone ==
  ASSUME ReportsInv, NEW w \in Workers, InReports!Goes(w, "acknowledge")
  PROVE  /\ worker'[w].at = "acknowledge" /\ worker'[w].task = worker[w].task
         /\ \A x \in Workers \ {w} : worker'[x] = worker[x]
         /\ worker' \in [Workers -> Holds]
BY DEF ReportsInv, InReports!TypeOK, InReports!Goes, Holds

(* The end of a try: another message, or none and the export is stranded.   *)
LEMMA ReportsTried ==
  ASSUME ReportsInv, NEW w \in Workers, NEW t \in Tasks, Exporting(w), worker[w].task = t,
         InReports!Again(w) \/ InReports!GiveUp(w)
  PROVE  /\ worker'[w].at = "acknowledge" /\ worker'[w].task = t
         /\ \A x \in Workers \ {w} : worker'[x] = worker[x]
         /\ worker' \in [Workers -> Holds]
         /\ messages' \in [Tasks -> [0..MaxRetries -> Nat]]
         /\ \A u \in Tasks \ {t} : messages'[u] = messages[u]
         /\ t \notin doubled =>
              \A m, n \in 0..MaxRetries :
                messages'[t][m] <= 1 /\ (messages'[t][m] > 0 /\ messages'[t][n] > 0 => m = n)
         /\ stranded \subseteq stranded' /\ stranded' \subseteq Tasks
         /\ t \in stranded' \/ \E n \in 0..MaxRetries : messages'[t][n] > 0
<1>1. /\ worker'[w].at = "acknowledge" /\ worker'[w].task = t
      /\ \A x \in Workers \ {w} : worker'[x] = worker[x]
      /\ worker' \in [Workers -> Holds]
  BY ReportsGone DEF InReports!Again, InReports!GiveUp
<1>2. t \notin doubled => \A n \in 0..MaxRetries : messages[t][n] = 0
  BY DEF ReportsInv, ReportsAlone
<1>3. CASE InReports!Again(w)
  <2> DEFINE next == worker[w].try + 1
  <2>1. next \in 0..MaxRetries
    BY <1>3, ReportsAssumption DEF ReportsInv, InReports!TypeOK, InReports!Again, InReports!LastTry
  <2>2. InReports!Messages(t, next, 1) /\ UNCHANGED stranded
    BY <1>3 DEF InReports!Again
  <2> HIDE DEF next
  <2>3. messages[t][next] \in Nat
    BY <2>1 DEF ReportsInv, InReports!TypeOK
  <2>4. /\ messages' \in [Tasks -> [0..MaxRetries -> Nat]]
        /\ messages'[t][next] = messages[t][next] + 1
        /\ \A m \in 0..MaxRetries \ {next} : messages'[t][m] = messages[t][m]
        /\ \A u \in Tasks \ {t} : messages'[u] = messages[u]
    BY <2>1, <2>2, <2>3, ReportsSent
  <2>5. messages'[t][next] > 0
    BY <2>3, <2>4
  <2>6. t \notin doubled =>
          \A m, n \in 0..MaxRetries :
            messages'[t][m] <= 1 /\ (messages'[t][m] > 0 /\ messages'[t][n] > 0 => m = n)
    BY <1>2, <2>1, <2>4
  <2> QED
    BY <1>1, <2>1, <2>2, <2>4, <2>5, <2>6 DEF ReportsInv, InReports!TypeOK
<1>4. CASE InReports!GiveUp(w)
  <2>1. UNCHANGED messages /\ stranded' = stranded \cup {t}
    BY <1>4 DEF InReports!GiveUp
  <2> QED
    BY <1>1, <1>2, <2>1 DEF ReportsInv, InReports!TypeOK
<1> QED
  BY <1>3, <1>4

(* An export cannot be read: the try is given up or made again.             *)
LEMMA ExportsReadFails ==
  ASSUME ReportsInv, NEW w \in Workers, InReports!ReadFails(w)
  PROVE  ReportsInv'
<1> USE DEF ReportsInv
<1>1. Exporting(w) /\ worker[w].task \in Tasks
  BY DEF InReports!ReadFails, ReportsTaken, Exporting
<1> DEFINE t == worker[w].task
<1>2. /\ UNCHANGED <<InReports!reportVars, entry, export, doubled>> /\ (InReports!Again(w) \/ InReports!GiveUp(w))
      /\ faults' \in 0..MaxFaults
  BY ReportsAssumption DEF InReports!ReadFails, InReports!Fault, InReports!TypeOK
<1>3. /\ worker'[w].at = "acknowledge" /\ worker'[w].task = t
      /\ \A x \in Workers \ {w} : worker'[x] = worker[x]
      /\ worker' \in [Workers -> Holds]
      /\ messages' \in [Tasks -> [0..MaxRetries -> Nat]]
      /\ \A u \in Tasks \ {t} : messages'[u] = messages[u]
      /\ t \notin doubled =>
           \A m, n \in 0..MaxRetries :
             messages'[t][m] <= 1 /\ (messages'[t][m] > 0 /\ messages'[t][n] > 0 => m = n)
      /\ stranded \subseteq stranded' /\ stranded' \subseteq Tasks
      /\ t \in stranded' \/ \E n \in 0..MaxRetries : messages'[t][n] > 0
  BY <1>1, <1>2, ReportsTried
<1>4. InReports!TypeOK'
  BY <1>2, <1>3 DEF InReports!TypeOK, Holds, InReports!reportVars
<1>5. ExportsInv'
  <2> HIDE DEF ReportsInv
  <2>1. UNCHANGED <<export, doubled>>
    BY <1>2
  <2> QED
    BY <1>1, <1>3, <2>1, ReportsLeave
<1> QED
  BY <1>2, <1>4, <1>5, ExportsRest DEF ExportsInv

(* A worker writes what its export came to.                                 *)
LEMMA ExportsWrite ==
  ASSUME ReportsInv, NEW w \in Workers, InReports!WriteState(w) \/ InReports!WriteStateFails(w)
  PROVE  ReportsInv'
<1> USE DEF ReportsInv
<1>1. Exporting(w) /\ worker[w].task \in Tasks /\ worker[w].export \in InReports!Exports
  BY DEF InReports!WriteState, InReports!WriteStateFails, ReportsTaken, Exporting
<1> DEFINE t == worker[w].task
<1>2. /\ UNCHANGED <<InReports!reportVars, entry, doubled>> /\ faults' \in 0..MaxFaults
  BY ReportsAssumption
  DEF InReports!WriteState, InReports!WriteStateFails, InReports!Fault, InReports!TypeOK
<1>3. /\ export' \in [Tasks -> InReports!Exports \cup {Nothing}]
      /\ \A u \in Tasks \ {t} : export'[u] = export[u]
  <2>1. ASSUME NEW new \in InReports!Exports, export' = [export EXCEPT ![t] = new]
        PROVE  <1>3
    BY <1>1, <2>1 DEF InReports!TypeOK
  <2>2. [worker[w].export EXCEPT !.status = "manual_review"] \in InReports!Exports
    BY <1>1 DEF InReports!Exports, InReports!Terminal
  <2> QED
    BY <1>1, <2>1, <2>2
    DEF InReports!WriteState, InReports!WriteStateFails, InReports!Write, InReports!TypeOK
<1>4. CASE InReports!Again(w) \/ InReports!GiveUp(w)
  <2>1. /\ worker'[w].at = "acknowledge" /\ worker'[w].task = t
        /\ \A x \in Workers \ {w} : worker'[x] = worker[x]
        /\ worker' \in [Workers -> Holds]
        /\ messages' \in [Tasks -> [0..MaxRetries -> Nat]]
        /\ \A u \in Tasks \ {t} : messages'[u] = messages[u]
        /\ t \notin doubled =>
             \A m, n \in 0..MaxRetries :
               messages'[t][m] <= 1 /\ (messages'[t][m] > 0 /\ messages'[t][n] > 0 => m = n)
        /\ stranded \subseteq stranded' /\ stranded' \subseteq Tasks
        /\ t \in stranded' \/ \E n \in 0..MaxRetries : messages'[t][n] > 0
    BY <1>1, <1>4, ReportsTried
  <2>2. InReports!TypeOK'
    BY <1>2, <1>3, <2>1 DEF InReports!TypeOK, Holds, InReports!reportVars
  <2>3. ExportsInv'
    <3> HIDE DEF ReportsInv
    <3>1. UNCHANGED doubled
      BY <1>2
    <3> QED
      BY <1>1, <1>3, <2>1, <3>1, ReportsLeave
  <2> QED
    BY <1>2, <2>2, <2>3, ExportsRest DEF ExportsInv
<1>5. CASE InReports!Goes(w, "acknowledge") /\ UNCHANGED <<messages, stranded>> /\ export'[t] # Nothing /\ export'[t].status \in InReports!Terminal
  <2>1. /\ worker'[w].at = "acknowledge" /\ worker'[w].task = t
        /\ \A x \in Workers \ {w} : worker'[x] = worker[x]
        /\ worker' \in [Workers -> Holds]
    BY <1>5, ReportsGone
  <2>2. InReports!TypeOK'
    BY <1>2, <1>3, <1>5, <2>1 DEF InReports!TypeOK, Holds, InReports!reportVars
  <2>3. t \notin doubled => \A n \in 0..MaxRetries : messages[t][n] = 0
    BY <1>1 DEF ReportsAlone
  <2>4. ExportsInv'
    <3>1. ~InReports!Unfinished(t)'
      BY <1>5, <2>1 DEF InReports!Unfinished, InReports!Terminal
    <3>2. UNCHANGED doubled
      BY <1>2
    <3>3. \A m, n \in 0..MaxRetries : t \notin doubled =>
            messages'[t][m] <= 1 /\ (messages'[t][m] > 0 /\ messages'[t][n] > 0 => m = n)
      BY <1>5, <2>3
    <3> HIDE DEF ReportsInv
    <3> QED
      BY <1>1, <1>3, <1>5, <2>1, <3>1, <3>2, <3>3, ReportsLeave
  <2> QED
    BY <1>2, <2>2, <2>4, ExportsRest DEF ExportsInv
<1>6. \/ InReports!Again(w) \/ InReports!GiveUp(w)
      \/ /\ InReports!Goes(w, "acknowledge") /\ UNCHANGED <<messages, stranded>>
         /\ export'[t] # Nothing /\ export'[t].status \in InReports!Terminal
  <2>1. CASE InReports!WriteState(w) /\ worker[w].export.status # "failed"
    <3>1. /\ InReports!Goes(w, "acknowledge") /\ UNCHANGED <<messages, stranded>>
          /\ export' = [export EXCEPT ![t] = worker[w].export]
          /\ worker[w].at = "write"
      BY <2>1 DEF InReports!WriteState, InReports!Write
    <3>2. worker[w].export.status \in InReports!Terminal
      BY <1>1, <2>1, <3>1 DEF ReportsTaken, InReports!Exports, InReports!Terminal
    <3>3. export'[t] # Nothing /\ export'[t].status \in InReports!Terminal
      BY <1>1, <3>1, <3>2, ReportsAssumption DEF InReports!TypeOK, InReports!Terminal
    <3> QED
      BY <3>1, <3>3
  <2>2. CASE InReports!WriteState(w) /\ worker[w].export.status = "failed"
    BY <2>2 DEF InReports!WriteState
  <2>3. CASE InReports!WriteStateFails(w)
    <3>1. ASSUME export' = [export EXCEPT ![t] = [worker[w].export EXCEPT !.status = "manual_review"]]
          PROVE  export'[t] # Nothing /\ export'[t].status \in InReports!Terminal
      <4>1. /\ [worker[w].export EXCEPT !.status = "manual_review"] \in InReports!Exports
            /\ [worker[w].export EXCEPT !.status = "manual_review"].status = "manual_review"
        BY <1>1 DEF InReports!Exports, InReports!Terminal
      <4> QED
        BY <1>1, <3>1, <4>1, ReportsAssumption DEF InReports!TypeOK, InReports!Terminal
    <3> QED
      BY <2>3, <3>1 DEF InReports!WriteStateFails
  <2> QED
    BY <2>1, <2>2, <2>3
<1> QED
  BY <1>4, <1>5, <1>6

(* start_export: the export is new, and nothing was left of it.             *)
LEMMA ExportsStart ==
  ASSUME ReportsInv, NEW key \in ReportKeys, NEW version \in Versions, NEW t \in Tasks,
         InReports!StartExport(key, version, t) \/ InReports!StartFails(key, version, t)
  PROVE  ReportsInv'
<1> USE DEF ReportsInv
<1> DEFINE running == [version |-> version, status |-> "running"]
<1>1. /\ export[t] = Nothing /\ t \notin stranded
      /\ \A n \in 0..MaxRetries : messages[t][n] = 0
      /\ \A w \in Workers : worker[w].task # t
      /\ entry' = [entry EXCEPT ![key] = t]
      /\ UNCHANGED <<InReports!reportVars, worker, doubled>>
  BY DEF InReports!StartExport, InReports!StartFails, InReports!Start, InReports!Unused
<1>2. running \in InReports!Exports /\ running # Nothing
  BY ReportsAssumption DEF InReports!Exports
<1>3. /\ export' \in [Tasks -> InReports!Exports \cup {Nothing}]
      /\ \A u \in Tasks \ {t} : export'[u] = export[u]
      /\ messages' \in [Tasks -> [0..MaxRetries -> Nat]]
      /\ \A u \in Tasks \ {t} : messages'[u] = messages[u]
      /\ \A n \in 0..MaxRetries : messages'[t][n] = 0 \/ (n = 0 /\ messages'[t][n] = 1)
      /\ stranded \subseteq stranded' /\ stranded' \subseteq stranded \cup {t}
      /\ t \in stranded' \/ messages'[t][0] > 0
      /\ faults' \in 0..MaxFaults
  <2>1. CASE InReports!StartExport(key, version, t)
    <3>1. messages[t][0] = 0 /\ 0 \in 0..MaxRetries
      BY <1>1, ReportsAssumption
    <3>2. InReports!Messages(t, 0, 1) /\ UNCHANGED <<faults, stranded>> /\ export' = [export EXCEPT ![t] = running]
      BY <2>1 DEF InReports!StartExport
    <3>3. /\ messages' \in [Tasks -> [0..MaxRetries -> Nat]]
          /\ messages'[t][0] = messages[t][0] + 1
          /\ \A m \in 0..MaxRetries \ {0} : messages'[t][m] = messages[t][m]
          /\ \A u \in Tasks \ {t} : messages'[u] = messages[u]
      BY <3>1, <3>2, ReportsSent
    <3> HIDE DEF running
    <3>4. /\ export' \in [Tasks -> InReports!Exports \cup {Nothing}]
          /\ \A u \in Tasks \ {t} : export'[u] = export[u]
      BY <1>2, <3>2 DEF InReports!TypeOK
    <3>5. \A n \in 0..MaxRetries : messages'[t][n] = 0 \/ (n = 0 /\ messages'[t][n] = 1)
      BY <1>1, <3>1, <3>3
    <3>6. faults' \in 0..MaxFaults
      BY <3>2 DEF InReports!TypeOK
    <3> QED
      BY <3>1, <3>2, <3>3, <3>4, <3>5, <3>6
  <2>2. CASE InReports!StartFails(key, version, t)
    <3>1. /\ UNCHANGED messages /\ stranded' = stranded \cup {t} /\ InReports!Fault
          /\ UNCHANGED export \/ export' = [export EXCEPT ![t] = running]
      BY <2>2 DEF InReports!StartFails
    <3> HIDE DEF running
    <3>2. faults' \in 0..MaxFaults
      BY <3>1, ReportsAssumption DEF InReports!Fault, InReports!TypeOK
    <3> QED
      BY <1>1, <1>2, <3>1, <3>2 DEF InReports!TypeOK
  <2> QED
    BY <2>1, <2>2
<1> HIDE DEF running
<1>4. InReports!TypeOK'
  <2>1. entry' \in [ReportKeys -> Tasks \cup {Nothing}]
    BY <1>1 DEF InReports!TypeOK
  <2> QED
    BY <1>1, <1>3, <2>1 DEF InReports!TypeOK, InReports!reportVars
<1>5. ReportsTaken'
  BY <1>1 DEF ReportsTaken
<1>6. ReportsAlone'
  <2> SUFFICES ASSUME NEW u \in Tasks, u \notin doubled
               PROVE  (/\ \A m, n \in 0..MaxRetries :
                            messages[u][m] <= 1 /\ (messages[u][m] > 0 /\ messages[u][n] > 0 => m = n)
                       /\ \A x \in Workers : Exporting(x) /\ worker[x].task = u =>
                            /\ \A n \in 0..MaxRetries : messages[u][n] = 0
                            /\ \A y \in Workers : Exporting(y) /\ worker[y].task = u => y = x
                            /\ worker[x].at \in {"export", "write"} /\ export[u] # Nothing =>
                                 export[u].status \notin InReports!Terminal)'
    BY <1>1 DEF ReportsAlone
  <2>1. CASE u = t
    <3>1. UNCHANGED worker
      BY <1>1
    <3>2. \A m, n \in 0..MaxRetries :
            messages'[t][m] <= 1 /\ (messages'[t][m] > 0 /\ messages'[t][n] > 0 => m = n)
      BY <1>3
    <3>3. \A x \in Workers : worker'[x].task # t
      BY <1>1, <3>1
    <3> QED
      BY <2>1, <3>2, <3>3
  <2>2. CASE u # t
    <3>1. messages'[u] = messages[u] /\ export'[u] = export[u] /\ UNCHANGED worker
      BY <1>1, <1>3, <2>2
    <3> QED
      BY <3>1 DEF ReportsAlone, Exporting
  <2> QED
    BY <2>1, <2>2
<1>7. ReportsCarried'
  <2> SUFFICES ASSUME NEW u \in Tasks, u \notin stranded', InReports!Unfinished(u)'
               PROVE  (\/ \E n \in 0..MaxRetries : messages[u][n] > 0
                       \/ \E x \in Workers : Exporting(x) /\ worker[x].task = u)'
    BY DEF ReportsCarried
  <2>1. CASE u = t
    BY <1>3, <2>1, ReportsAssumption
  <2>2. CASE u # t
    <3>1. /\ u \notin stranded /\ InReports!Unfinished(u) /\ messages'[u] = messages[u]
          /\ UNCHANGED worker
      BY <1>1, <1>3, <2>2 DEF InReports!Unfinished
    <3> QED
      BY <3>1 DEF ReportsCarried, Exporting
  <2> QED
    BY <2>1, <2>2
<1> QED
  BY <1>1, <1>4, <1>5, <1>6, <1>7, ExportsRest

(* Entries of Redis expire.                                                 *)
LEMMA ExportsExpire ==
  ASSUME ReportsInv,
         (\E key \in ReportKeys : InReports!ExpireEntry(key)) \/ (\E t \in Tasks : InReports!ExpireExport(t))
  PROVE  ReportsInv'
<1> USE DEF ReportsInv
<1>1. /\ UNCHANGED <<InReports!reportVars, messages, worker, faults, stranded, doubled>>
      /\ \A t \in Tasks : export'[t] = export[t] \/ export'[t] = Nothing
      /\ export' \in [Tasks -> InReports!Exports \cup {Nothing}]
      /\ entry' \in [ReportKeys -> Tasks \cup {Nothing}]
  BY DEF InReports!ExpireEntry, InReports!ExpireExport, InReports!TypeOK
<1>2. InReports!TypeOK'
  BY <1>1 DEF InReports!TypeOK, InReports!reportVars
<1>3. ReportsTaken'
  BY <1>1 DEF ReportsTaken
<1>4. ReportsAlone'
  BY <1>1 DEF ReportsAlone, Exporting
<1>5. ReportsCarried'
  BY <1>1 DEF ReportsCarried, Exporting, InReports!Unfinished
<1> QED
  BY <1>1, <1>2, <1>3, <1>4, <1>5, ExportsRest

(* A worker takes a message.                                                *)
LEMMA ExportsTake ==
  ASSUME ReportsInv, NEW w \in Workers, NEW t \in Tasks, NEW n \in 0..MaxRetries,
         InReports!Take(w, t, n)
  PROVE  ReportsInv'
<1> USE DEF ReportsInv
<1>1. /\ worker[w] = InReports!Idle /\ ~Exporting(w)
      /\ worker'[w].at = "read" /\ worker'[w].task = t
      /\ \A x \in Workers \ {w} : worker'[x] = worker[x]
      /\ worker' \in [Workers -> Holds]
      /\ UNCHANGED <<InReports!reportVars, entry, export, faults, stranded, doubled>>
  BY DEF InReports!Take, InReports!Idle, Exporting, InReports!TypeOK, Holds
<1>2. /\ messages[t][n] > 0
      /\ messages' \in [Tasks -> [0..MaxRetries -> Nat]]
      /\ messages'[t][n] = messages[t][n] - 1
      /\ \A m \in 0..MaxRetries \ {n} : messages'[t][m] = messages[t][m]
      /\ \A u \in Tasks \ {t} : messages'[u] = messages[u]
  <2>1. messages[t][n] \in Nat /\ messages[t][n] > 0 /\ InReports!Messages(t, n, -1)
    BY DEF InReports!Take, InReports!TypeOK
  <2>2. messages[t][n] + (-1) >= 0 /\ messages[t][n] + (-1) = messages[t][n] - 1 /\ -1 \in Int
    BY <2>1
  <2> QED
    BY <2>1, <2>2, ReportsSent
<1>3. InReports!TypeOK'
  BY <1>1, <1>2 DEF InReports!TypeOK, InReports!reportVars, Holds
<1>4. ReportsTaken'
  BY <1>1 DEF ReportsTaken
<1>5. ReportsAlone'
  <2> SUFFICES ASSUME NEW u \in Tasks, u \notin doubled
               PROVE  (/\ \A m, k \in 0..MaxRetries :
                            messages[u][m] <= 1 /\ (messages[u][m] > 0 /\ messages[u][k] > 0 => m = k)
                       /\ \A x \in Workers : Exporting(x) /\ worker[x].task = u =>
                            /\ \A k \in 0..MaxRetries : messages[u][k] = 0
                            /\ \A y \in Workers : Exporting(y) /\ worker[y].task = u => y = x
                            /\ worker[x].at \in {"export", "write"} /\ export[u] # Nothing =>
                                 export[u].status \notin InReports!Terminal)'
    BY <1>1 DEF ReportsAlone
  <2>1. CASE u = t
    <3>1. \A m \in 0..MaxRetries : messages[t][m] \in Nat
      BY DEF InReports!TypeOK
    <3>2. \A m \in 0..MaxRetries : messages'[t][m] = 0
      BY <1>2, <2>1, <3>1 DEF ReportsAlone
    <3>3. \A x \in Workers : Exporting(x)' /\ worker'[x].task = t => x = w
      BY <1>1, <1>2, <2>1 DEF ReportsAlone, Exporting
    <3> QED
      BY <1>1, <2>1, <3>2, <3>3
  <2>2. CASE u # t
    <3>1. \A x \in Workers : Exporting(x)' /\ worker'[x].task = u =>
            worker'[x] = worker[x] /\ Exporting(x)
      BY <1>1, <2>2 DEF Exporting
    <3>2. messages'[u] = messages[u] /\ export'[u] = export[u]
      BY <1>1, <1>2, <2>2
    <3> QED
      BY <3>1, <3>2 DEF ReportsAlone
  <2> QED
    BY <2>1, <2>2
<1>6. ReportsCarried'
  <2> SUFFICES ASSUME NEW u \in Tasks, u \notin stranded', InReports!Unfinished(u)'
               PROVE  (\/ \E k \in 0..MaxRetries : messages[u][k] > 0
                       \/ \E x \in Workers : Exporting(x) /\ worker[x].task = u)'
    BY DEF ReportsCarried
  <2>1. CASE u = t
    BY <1>1, <2>1 DEF Exporting
  <2>2. CASE u # t
    <3>1. u \notin stranded /\ InReports!Unfinished(u) /\ messages'[u] = messages[u]
      BY <1>1, <1>2, <2>2 DEF InReports!Unfinished
    <3>2. \A x \in Workers : Exporting(x) => worker'[x] = worker[x] /\ Exporting(x)'
      BY <1>1 DEF Exporting
    <3> QED
      BY <3>1, <3>2 DEF ReportsCarried
  <2> QED
    BY <2>1, <2>2
<1> QED
  BY <1>1, <1>3, <1>4, <1>5, <1>6, ExportsRest

(* A worker reads the export of its message.                                *)
LEMMA ExportsRead ==
  ASSUME ReportsInv, NEW w \in Workers, InReports!Read(w)
  PROVE  ReportsInv'
<1> USE DEF ReportsInv
<1> DEFINE t == worker[w].task
<1> DEFINE state == export[t]
<1> DEFINE at == IF InReports!Ended(state) THEN "acknowledge" ELSE "export"
<1>1. /\ Exporting(w) /\ t \in Tasks /\ state \in InReports!Exports
      /\ UNCHANGED <<InReports!reportVars, entry, export, messages, faults, stranded, doubled>>
  BY DEF InReports!Read, ReportsTaken, Exporting, InReports!TypeOK
<1>2. worker' = [worker EXCEPT ![w] = [@ EXCEPT !.at = at, !.export = state]]
  BY DEF InReports!Read
<1>3. /\ worker'[w].at = at /\ worker'[w].task = t /\ worker'[w].export = state
      /\ \A x \in Workers \ {w} : worker'[x] = worker[x]
      /\ worker' \in [Workers -> Holds]
  <2>1. worker[w] \in Holds /\ worker \in [Workers -> Holds]
    BY DEF InReports!TypeOK, Holds
  <2> DEFINE mid == [worker[w] EXCEPT !.at = at]
  <2> DEFINE new == [worker[w] EXCEPT !.at = at, !.export = state]
  <2>2. mid \in Holds /\ mid.at = at /\ mid.task = t
    BY <2>1 DEF Holds
  <2>3. new = [mid EXCEPT !.export = state]
    BY <2>1 DEF Holds
  <2>4. worker' = [worker EXCEPT ![w] = new]
    BY <1>2
  <2> HIDE DEF mid, new, at, state
  <2>5. new \in Holds /\ new.at = at /\ new.task = t /\ new.export = state
    BY <1>1, <2>2, <2>3 DEF Holds
  <2> QED
    BY <2>1, <2>4, <2>5
<1>4. InReports!TypeOK'
  BY <1>1, <1>3 DEF InReports!TypeOK, Holds, InReports!reportVars
<1>5. CASE InReports!Ended(state)
  <2>1. worker'[w].at = "acknowledge" /\ ~InReports!Unfinished(t)
    BY <1>3, <1>5 DEF InReports!Ended, InReports!Unfinished
  <2>2. t \notin doubled =>
          \A m, n \in 0..MaxRetries :
            messages'[t][m] <= 1 /\ (messages'[t][m] > 0 /\ messages'[t][n] > 0 => m = n)
    BY <1>1 DEF ReportsAlone
  <2>3. ~InReports!Unfinished(t)'
    BY <1>1, <1>3, <2>1 DEF InReports!Unfinished
  <2>4. ExportsInv'
    <3>1. UNCHANGED <<export, messages, stranded, doubled>>
      BY <1>1
    <3> HIDE DEF ReportsInv, state
    <3> QED
      BY <1>1, <1>3, <2>1, <2>2, <2>3, <3>1, ReportsLeave
  <2> QED
    BY <1>1, <1>4, <2>4, ExportsRest DEF ExportsInv
<1>6. CASE ~InReports!Ended(state)
  <2>1. worker'[w].at = "export" /\ state.status \notin InReports!Terminal
    BY <1>3, <1>6 DEF InReports!Ended
  <2>2. ReportsTaken'
    BY <1>1, <1>3, <2>1 DEF ReportsTaken
  <2>3. \A x \in Workers : /\ Exporting(x)' <=> Exporting(x)
                           /\ worker'[x].task = worker[x].task
    BY <1>1, <1>3, <2>1 DEF Exporting
  <2>4. ReportsAlone'
    <3> HIDE DEF state
    <3>1. \A x \in Workers \ {w} : worker'[x].at = worker[x].at
      BY <1>3
    <3>2. export[t].status \notin InReports!Terminal
      BY <2>1 DEF state
    <3> SUFFICES ASSUME NEW u \in Tasks, u \notin doubled, NEW x \in Workers, Exporting(x),
                        worker[x].task = u,
                        worker'[x].at \in {"export", "write"}, export[u] # Nothing
                 PROVE  export[u].status \notin InReports!Terminal
      BY <1>1, <2>3 DEF ReportsAlone
    <3> QED
      BY <3>1, <3>2 DEF ReportsAlone
  <2>5. ReportsCarried'
    BY <1>1, <2>3 DEF ReportsCarried, InReports!Unfinished
  <2> QED
    BY <1>1, <1>4, <2>2, <2>4, <2>5, ExportsRest
<1> QED
  BY <1>5, <1>6

(* A worker renders the report.                                             *)
LEMMA ExportsRun ==
  ASSUME ReportsInv, NEW w \in Workers, InReports!RunExporter(w)
  PROVE  ReportsInv'
<1> USE DEF ReportsInv
<1>1. PICK status \in {"succeeded", "manual_review", "failed"} :
        worker' = [worker EXCEPT ![w] =
          [@ EXCEPT !.at = "write", !.export = [worker[w].export EXCEPT !.status = status]]]
  BY DEF InReports!RunExporter
<1>2. /\ Exporting(w) /\ worker[w].task \in Tasks /\ worker[w].at = "export"
      /\ worker[w].export \in InReports!Exports
      /\ UNCHANGED <<InReports!reportVars, entry, export, messages, faults, stranded, doubled>>
  BY DEF InReports!RunExporter, ReportsTaken, Exporting
<1>3. /\ worker'[w].at = "write" /\ worker'[w].task = worker[w].task
      /\ worker'[w].export \in InReports!Exports /\ worker'[w].export.status # "running"
      /\ \A x \in Workers \ {w} : worker'[x] = worker[x]
      /\ worker' \in [Workers -> Holds]
  <2>1. worker[w] \in Holds /\ worker \in [Workers -> Holds]
    BY DEF InReports!TypeOK, Holds
  <2> DEFINE ended == [worker[w].export EXCEPT !.status = status]
  <2> DEFINE mid == [worker[w] EXCEPT !.at = "write"]
  <2> DEFINE new == [worker[w] EXCEPT !.at = "write", !.export = ended]
  <2>2. ended \in InReports!Exports /\ ended.status # "running"
    BY <1>2 DEF InReports!Exports, InReports!Terminal
  <2>3. mid \in Holds /\ mid.at = "write" /\ mid.task = worker[w].task
    BY <2>1 DEF Holds
  <2>4. new = [mid EXCEPT !.export = ended]
    BY <2>1 DEF Holds
  <2>5. worker' = [worker EXCEPT ![w] = new]
    BY <1>1
  <2> HIDE DEF mid, new, ended
  <2>6. new \in Holds /\ new.at = "write" /\ new.task = worker[w].task /\ new.export = ended
    BY <2>2, <2>3, <2>4 DEF Holds
  <2> QED
    BY <2>1, <2>2, <2>5, <2>6
<1>4. InReports!TypeOK'
  BY <1>2, <1>3 DEF InReports!TypeOK, Holds, InReports!reportVars
<1>5. ReportsTaken'
  BY <1>2, <1>3 DEF ReportsTaken
<1>6. \A x \in Workers : /\ Exporting(x)' <=> Exporting(x)
                         /\ worker'[x].task = worker[x].task
                         /\ worker'[x].at \in {"export", "write"} <=> worker[x].at \in {"export", "write"}
  BY <1>2, <1>3 DEF Exporting
<1>7. ReportsAlone'
  <2> SUFFICES ASSUME NEW u \in Tasks, u \notin doubled, NEW x \in Workers, Exporting(x),
                      worker[x].task = u,
                      worker[x].at \in {"export", "write"}, export[u] # Nothing
               PROVE  export[u].status \notin InReports!Terminal
    BY <1>2, <1>6 DEF ReportsAlone
  <2> QED
    BY DEF ReportsAlone
<1>8. ReportsCarried'
  BY <1>2, <1>6 DEF ReportsCarried, InReports!Unfinished
<1> QED
  BY <1>2, <1>4, <1>5, <1>7, <1>8, ExportsRest

(* A worker that has nothing to do holds nothing.                           *)
LEMMA ReportsIdle ==
  ASSUME ReportsInv, NEW w \in Workers, worker' = [worker EXCEPT ![w] = InReports!Idle]
  PROVE  /\ worker'[w] = InReports!Idle /\ worker'[w].at = "idle" /\ ~Exporting(w)'
         /\ \A x \in Workers \ {w} : worker'[x] = worker[x]
         /\ worker' \in [Workers -> Holds]
BY ReportsAssumption DEF ReportsInv, InReports!TypeOK, InReports!Idle, Exporting, Holds

(* A message is acknowledged.                                               *)
LEMMA ExportsAcknowledge ==
  ASSUME ReportsInv, NEW w \in Workers, InReports!Acknowledge(w)
  PROVE  ReportsInv'
<1> USE DEF ReportsInv
<1>1. /\ worker'[w] = InReports!Idle /\ worker'[w].at = "idle" /\ ~Exporting(w)' /\ ~Exporting(w)
      /\ \A x \in Workers \ {w} : worker'[x] = worker[x]
      /\ worker' \in [Workers -> Holds]
      /\ UNCHANGED <<InReports!reportVars, entry, export, messages, faults, stranded, doubled>>
  BY ReportsIdle DEF InReports!Acknowledge, Exporting
<1>2. InReports!TypeOK'
  BY <1>1 DEF InReports!TypeOK, Holds, InReports!reportVars
<1>3. ReportsTaken'
  BY <1>1 DEF ReportsTaken
<1>4. \A x \in Workers : /\ Exporting(x)' <=> Exporting(x)
                         /\ Exporting(x) => worker'[x] = worker[x]
  BY <1>1 DEF Exporting
<1>5. ReportsAlone'
  BY <1>1, <1>4 DEF ReportsAlone
<1>6. ReportsCarried'
  BY <1>1, <1>4 DEF ReportsCarried, InReports!Unfinished
<1> QED
  BY <1>1, <1>2, <1>3, <1>5, <1>6, ExportsRest

(* A worker crashes and its message is delivered again.                     *)
LEMMA ExportsCrash ==
  ASSUME ReportsInv, NEW w \in Workers, InReports!Crash(w)
  PROVE  ReportsInv'
<1> USE DEF ReportsInv
<1> DEFINE t == worker[w].task
<1> DEFINE n == worker[w].try
<1>1. /\ t \in Tasks /\ n \in 0..MaxRetries
      /\ doubled' = doubled \cup {u \in Tasks : worker[w].task = u /\ InReports!CarriedBeside(w, u)}
      /\ UNCHANGED <<InReports!reportVars, entry, export, stranded>>
      /\ faults' \in 0..MaxFaults
  BY ReportsAssumption DEF InReports!Crash, ReportsTaken, InReports!TypeOK, InReports!Fault
<1>2. /\ worker'[w] = InReports!Idle /\ worker'[w].at = "idle" /\ ~Exporting(w)'
      /\ \A x \in Workers \ {w} : worker'[x] = worker[x]
      /\ worker' \in [Workers -> Holds]
  BY ReportsIdle DEF InReports!Crash
<1>3. messages[t][n] \in Nat /\ InReports!Messages(t, n, 1)
  BY <1>1 DEF InReports!Crash, InReports!Redeliver, InReports!TypeOK
<1> HIDE DEF t, n
<1>4. /\ messages' \in [Tasks -> [0..MaxRetries -> Nat]]
      /\ messages'[t][n] = messages[t][n] + 1 /\ messages'[t][n] > 0
      /\ \A m \in 0..MaxRetries \ {n} : messages'[t][m] = messages[t][m]
      /\ \A u \in Tasks \ {t} : messages'[u] = messages[u]
  <2>1. messages[t][n] + 1 >= 0 /\ messages[t][n] + 1 > 0
    BY <1>3
  <2> QED
    BY <1>1, <1>3, <2>1, ReportsSent
<1>5. InReports!TypeOK'
  BY <1>1, <1>2, <1>4 DEF InReports!TypeOK, Holds, InReports!reportVars
<1>6. ReportsTaken'
  BY <1>2 DEF ReportsTaken
<1>7. \A x \in Workers : Exporting(x)' => x # w /\ Exporting(x) /\ worker'[x] = worker[x]
  BY <1>2 DEF Exporting
<1>8. ReportsAlone'
  <2> SUFFICES ASSUME NEW u \in Tasks, u \notin doubled'
               PROVE  (/\ \A m, k \in 0..MaxRetries :
                            messages[u][m] <= 1 /\ (messages[u][m] > 0 /\ messages[u][k] > 0 => m = k)
                       /\ \A x \in Workers : Exporting(x) /\ worker[x].task = u =>
                            /\ \A k \in 0..MaxRetries : messages[u][k] = 0
                            /\ \A y \in Workers : Exporting(y) /\ worker[y].task = u => y = x
                            /\ worker[x].at \in {"export", "write"} /\ export[u] # Nothing =>
                                 export[u].status \notin InReports!Terminal)'
    BY DEF ReportsAlone
  <2>1. u \notin doubled
    BY <1>1
  <2>2. CASE u = t
    <3>1. ~InReports!CarriedBeside(w, t)
      BY <1>1, <2>2 DEF t
    <3>2. /\ \A m \in 0..MaxRetries : messages[t][m] = 0
          /\ \A x \in Workers \ {w} : worker[x].task # t
      <4>0. messages \in [Tasks -> [0..MaxRetries -> Nat]]
        BY DEF InReports!TypeOK
      <4>1. \A m \in 0..MaxRetries : messages[t][m] \in Nat
        BY <1>1, <4>0
      <4>3. \A m \in 0..MaxRetries : ~(messages[t][m] > 0)
        BY <3>1 DEF InReports!CarriedBeside
      <4>2. \A x \in Workers \ {w} : worker[x].task # t
        BY <3>1 DEF InReports!CarriedBeside
      <4> QED
        BY <4>1, <4>2, <4>3
    <3>3. \A x \in Workers : ~(Exporting(x)' /\ worker'[x].task = t)
      BY <1>7, <3>2
    <3>4. messages'[t][n] = 1 /\ \A m \in 0..MaxRetries \ {n} : messages'[t][m] = 0
      BY <1>1, <1>4, <3>2
    <3>5. \A m, k \in 0..MaxRetries :
            messages'[t][m] <= 1 /\ (messages'[t][m] > 0 /\ messages'[t][k] > 0 => m = k)
      BY <3>4
    <3> QED
      BY <2>2, <3>3, <3>5
  <2>3. CASE u # t
    <3>1. messages'[u] = messages[u] /\ export'[u] = export[u]
      BY <1>1, <1>4, <2>3
    <3> QED
      BY <1>7, <2>1, <3>1 DEF ReportsAlone
  <2> QED
    BY <2>2, <2>3
<1>9. ReportsCarried'
  <2> SUFFICES ASSUME NEW u \in Tasks, u \notin stranded', InReports!Unfinished(u)'
               PROVE  (\/ \E k \in 0..MaxRetries : messages[u][k] > 0
                       \/ \E x \in Workers : Exporting(x) /\ worker[x].task = u)'
    BY DEF ReportsCarried
  <2>1. CASE u = t
    BY <1>1, <1>4, <2>1
  <2>2. CASE u # t
    <3>1. u \notin stranded /\ InReports!Unfinished(u) /\ messages'[u] = messages[u]
      BY <1>1, <1>4, <2>2 DEF InReports!Unfinished
    <3>2. \A x \in Workers : Exporting(x) /\ worker[x].task = u =>
            worker'[x] = worker[x] /\ Exporting(x)'
      BY <1>2, <2>2 DEF Exporting, t
    <3> QED
      BY <3>1, <3>2 DEF ReportsCarried
  <2> QED
    BY <2>1, <2>2
<1> QED
  BY <1>1, <1>5, <1>6, <1>8, <1>9, ExportsRest

(* A child dies and its message is gone: its export is stranded.            *)
LEMMA ExportsKilled ==
  ASSUME ReportsInv, NEW w \in Workers, InReports!Killed(w)
  PROVE  ReportsInv'
<1> USE DEF ReportsInv
<1>1. /\ worker[w].task \in Tasks
      /\ stranded' = stranded \cup (IF worker[w].at = "acknowledge" THEN {} ELSE {worker[w].task})
      /\ UNCHANGED <<InReports!reportVars, entry, export, messages, doubled>>
      /\ faults' \in 0..MaxFaults
  BY ReportsAssumption DEF InReports!Killed, ReportsTaken, InReports!TypeOK, InReports!Fault, InReports!Idle
<1>2. /\ worker'[w] = InReports!Idle /\ worker'[w].at = "idle" /\ ~Exporting(w)'
      /\ \A x \in Workers \ {w} : worker'[x] = worker[x]
      /\ worker' \in [Workers -> Holds]
  BY ReportsIdle DEF InReports!Killed
<1>3. InReports!TypeOK'
  BY <1>1, <1>2 DEF InReports!TypeOK, Holds, InReports!reportVars
<1>4. ReportsTaken'
  BY <1>2 DEF ReportsTaken
<1>5. \A x \in Workers : Exporting(x)' => x # w /\ Exporting(x) /\ worker'[x] = worker[x]
  BY <1>2 DEF Exporting
<1>6. ReportsAlone'
  BY <1>1, <1>5 DEF ReportsAlone
<1>7. ReportsCarried'
  <2> SUFFICES ASSUME NEW u \in Tasks, u \notin stranded', InReports!Unfinished(u)'
               PROVE  (\/ \E k \in 0..MaxRetries : messages[u][k] > 0
                       \/ \E x \in Workers : Exporting(x) /\ worker[x].task = u)'
    BY DEF ReportsCarried
  <2>1. u \notin stranded /\ InReports!Unfinished(u) /\ messages'[u] = messages[u]
    BY <1>1 DEF InReports!Unfinished
  <2>2. ~(Exporting(w) /\ worker[w].task = u)
    BY <1>1 DEF Exporting
  <2>3. \A x \in Workers : Exporting(x) /\ worker[x].task = u =>
          worker'[x] = worker[x] /\ Exporting(x)'
    BY <1>2, <2>2 DEF Exporting
  <2> QED
    BY <2>1, <2>3 DEF ReportsCarried
<1> QED
  BY <1>1, <1>3, <1>4, <1>6, <1>7, ExportsRest

(* Every step of reports and exports keeps their invariant.                 *)
LEMMA ReportsSteps ==
  ASSUME ReportsInv, InReports!Next \/ UNCHANGED InReports!vars
  PROVE  ReportsInv'
<1>1. CASE UNCHANGED InReports!vars
  <2>1. UNCHANGED <<reports, finalizing, overlapped, entry, export, messages, worker, faults, stranded, doubled>>
    BY <1>1 DEF InReports!vars
  <2>2. InReports!TypeOK'
    BY <2>1 DEF ReportsInv, InReports!TypeOK
  <2>3. ReportsFinal'
    BY <2>1 DEF ReportsInv, ReportsFinal, InReports!Of
  <2> QED
    BY <2>1, <2>2, <2>3, ReportsRest DEF ReportsInv, ExportsInv
<1>2. CASE InReports!Api
  BY <1>2, ReportsDraft, ReportsBegin, ReportsFinalize, ExportsStart DEF InReports!Api
<1>3. ASSUME NEW w \in Workers, InReports!Work(w)
      PROVE  ReportsInv'
  BY <1>3, ExportsTake, ExportsRead, ExportsReadFails, ExportsRun, ExportsWrite,
     ExportsAcknowledge DEF InReports!Work
<1>4. CASE InReports!Environment
  BY <1>4, ExportsExpire, ExportsWrite, ExportsCrash, ExportsKilled DEF InReports!Environment
<1> QED
  BY <1>1, <1>2, <1>3, <1>4 DEF InReports!Next

(* The invariant of the reports holds at the start.                         *)
LEMMA ReportsStart == ASSUME InReports!Init PROVE ReportsInv
<1>1. InReports!TypeOK
  BY ReportsAssumption DEF InReports!Init, InReports!TypeOK, InReports!Idle
<1>2. ReportsFinal
  <2>1. \A v \in Versions : InReports!Of(v, "succeeded") = {}
    BY DEF InReports!Init, InReports!Of
  <2>2. \A r \in Requests : finalizing[r] = Nothing
    BY DEF InReports!Init
  <2> QED
    BY <2>1, <2>2, ReportsAssumption DEF ReportsFinal
<1>3. ReportsTaken /\ ReportsAlone
  BY DEF InReports!Init, ReportsTaken, ReportsAlone, Exporting, InReports!Idle
<1>4. ReportsCarried
  BY DEF InReports!Init, ReportsCarried, InReports!Unfinished
<1> QED
  BY <1>1, <1>2, <1>3, <1>4 DEF ReportsInv

(* What no step does to an export that has succeeded.                       *)
LEMMA ReportsStand ==
  ASSUME ReportsInv, InReports!Next
  PROVE  \A t \in Tasks \ doubled :
           (export[t] # Nothing /\ export[t].status = "succeeded")
             => export'[t] \in {export[t], Nothing}
<1> SUFFICES ASSUME NEW t \in Tasks, t \notin doubled, export[t] # Nothing,
                    export[t].status = "succeeded",
                    export'[t] # export[t]
             PROVE  export'[t] = Nothing
  OBVIOUS
<1>0. export \in [Tasks -> InReports!Exports \cup {Nothing}]
  BY DEF ReportsInv, InReports!TypeOK
<1>1. CASE InReports!Api
  <2>1. ASSUME NEW k \in ReportKeys, NEW v \in Versions, NEW u \in Tasks,
               InReports!StartExport(k, v, u) \/ InReports!StartFails(k, v, u)
        PROVE  FALSE
    BY <1>0, <2>1 DEF InReports!StartExport, InReports!StartFails, InReports!Start, InReports!Unused
  <2> QED
    BY <1>1, <2>1
    DEF InReports!Api, InReports!CreateDraft, InReports!BeginFinalize, InReports!Finalize
<1>2. ASSUME NEW w \in Workers, InReports!WriteState(w) \/ InReports!WriteStateFails(w)
      PROVE  FALSE
  <2>1. worker[w].task = t
    BY <1>0, <1>2 DEF InReports!WriteState, InReports!WriteStateFails, InReports!Write
  <2>2. Exporting(w) /\ worker[w].at = "write"
    BY <1>2 DEF InReports!WriteState, InReports!WriteStateFails, Exporting
  <2>3. export[t].status \notin InReports!Terminal
    BY <2>1, <2>2 DEF ReportsInv, ReportsAlone
  <2> QED
    BY <2>3 DEF InReports!Terminal
<1>3. ASSUME NEW w \in Workers, InReports!Work(w)
      PROVE  FALSE
  BY <1>2, <1>3
  DEF InReports!Work, InReports!Take, InReports!Read, InReports!ReadFails, InReports!RunExporter,
     InReports!Acknowledge
<1>4. CASE InReports!Environment
  BY <1>0, <1>2, <1>4
  DEF InReports!Environment, InReports!ExpireEntry, InReports!ExpireExport, InReports!Crash, InReports!Killed
<1> QED
  BY <1>1, <1>3, <1>4 DEF InReports!Next

(***************************************************************************)
(* Approval workflow templates.                                            *)
(***************************************************************************)
(* A request holds a template that exists, and one that edits or publishes  *)
(* it is alone with it.                                                     *)
TemplatesHeld ==
  \A r \in Requests :
    /\ templateReq[r].op # "none" => templateReq[r].of \in InTemplates!Existing
    /\ templateReq[r].op = "update" =>
         /\ templateReq[r].change \in InTemplates!Changes
         /\ InTemplates!MayChange(templateReq[r].of, templateReq[r].change)
    /\ templateReq[r].op \in {"update", "publish"} =>
         \A q \in Requests :
           templateReq[q].op \in {"update", "publish"} /\ templateReq[q].of = templateReq[r].of => q = r

(* A template that was found for a type has it, or was edited since.        *)
TemplatesFound ==
  \A r \in Requests \ retyped :
    templateReq[r].op \in {"found", "read", "insert"} =>
      template[templateReq[r].of].type = templateReq[r].type

(* An instance is one of a template that exists.                            *)
TemplatesUsed ==
  \A i \in Instances : instance[i] # Nothing => instance[i].of \in InTemplates!Existing

TemplatesInv ==
  /\ InTemplates!TypeOK /\ TemplatesHeld /\ TemplatesFound /\ TemplatesUsed
  /\ InTemplates!InstancesKeepNodes

(* What the end of a request changes.                                       *)
LEMMA TemplatesEnd ==
  ASSUME TemplatesInv, NEW r \in Requests, InTemplates!Ends(r)
  PROVE  /\ templateReq'[r] = InTemplates!None /\ templateReq'[r].op = "none"
         /\ \A q \in Requests \ {r} : templateReq'[q] = templateReq[q]
         /\ templateReq' \in [Requests -> [op: {"none", "update", "publish", "found", "read", "insert"},
                           of: Templates \cup {Nothing}, type: DocumentTypes \cup {Nothing},
                           change: InTemplates!Changes \cup {Nothing}, nodes: Nat]]
BY DEF TemplatesInv, InTemplates!TypeOK, InTemplates!Ends, InTemplates!None

(* A template is created.                                                   *)
LEMMA TemplatesCreate ==
  ASSUME TemplatesInv, NEW x \in Templates, NEW type \in DocumentTypes, InTemplates!Create(x, type)
  PROVE  TemplatesInv'
<1> USE DEF TemplatesInv
<1>1. /\ x \notin InTemplates!Existing /\ edits' = edits + 1 /\ edits' \in 0..MaxEdits
      /\ template' \in [Templates -> InTemplates!Rows \cup {Nothing}] /\ template'[x] # Nothing
      /\ \A y \in Templates \ {x} : template'[y] = template[y]
      /\ UNCHANGED <<instance, templateReq, retyped>>
  <2>1. [type |-> type, status |-> "draft", nodes |-> InTemplates!NewNodes] \in InTemplates!Rows
    BY DEF InTemplates!TypeOK, InTemplates!Rows, InTemplates!Statuses, InTemplates!NewNodes
  <2>2. edits' \in 0..MaxEdits /\ edits' = edits + 1
    BY TemplatesAssumption DEF InTemplates!Create, InTemplates!TypeOK
  <2> QED
    BY <2>1, <2>2, TemplatesAssumption DEF InTemplates!Create, InTemplates!TypeOK
<1>2. \A y \in InTemplates!Existing : y \in InTemplates!Existing' /\ template'[y] = template[y]
  BY <1>1 DEF InTemplates!Existing
<1>3. InTemplates!TypeOK'
  BY <1>1 DEF InTemplates!TypeOK
<1>4. TemplatesHeld'
  BY <1>1, <1>2 DEF TemplatesHeld, InTemplates!MayChange, InTemplates!Published
<1>5. TemplatesFound'
  BY <1>1, <1>2 DEF TemplatesHeld, TemplatesFound
<1>6. TemplatesUsed' /\ InTemplates!InstancesKeepNodes'
  BY <1>1, <1>2 DEF TemplatesUsed, InTemplates!InstancesKeepNodes
<1> QED
  BY <1>3, <1>4, <1>5, <1>6

(* An edit, a publication or a search begins.                               *)
LEMMA TemplatesBegin ==
  ASSUME TemplatesInv, NEW r \in Requests, NEW x \in Templates,
         \/ InTemplates!BeginPublish(r, x)
         \/ \E change \in InTemplates!Changes : InTemplates!BeginUpdate(r, x, change)
         \/ \E type \in DocumentTypes :
              /\ templateReq[r] = InTemplates!None /\ x \in InTemplates!Existing
              /\ InTemplates!Fits(x, type)
              /\ templateReq' = [templateReq EXCEPT ![r] =
                   [op |-> "found", of |-> x, type |-> type, change |-> Nothing, nodes |-> 0]]
              /\ UNCHANGED <<template, instance, edits, retyped>>
  PROVE  TemplatesInv'
<1> USE DEF TemplatesInv
<1> DEFINE Begun ==
      /\ x \in InTemplates!Existing /\ templateReq[r] = InTemplates!None
      /\ templateReq'[r].op # "none" /\ templateReq'[r].of = x
      /\ templateReq'[r].op = "update" =>
           templateReq'[r].change \in InTemplates!Changes /\ InTemplates!MayChange(x, templateReq'[r].change)
      /\ templateReq'[r].op \in {"update", "publish"} => InTemplates!Unlocked(x)
      /\ templateReq'[r].op \in {"found", "read", "insert"} =>
           template[x].type = templateReq'[r].type
      /\ \A q \in Requests \ {r} : templateReq'[q] = templateReq[q]
      /\ UNCHANGED <<template, instance, edits, retyped>>
<1>1. Begun
  <2>1. CASE InTemplates!BeginPublish(r, x)
    BY <2>1 DEF InTemplates!BeginPublish, InTemplates!Becomes, InTemplates!TypeOK
  <2>2. ASSUME NEW change \in InTemplates!Changes, InTemplates!BeginUpdate(r, x, change)
        PROVE  Begun
    BY <2>2 DEF InTemplates!BeginUpdate, InTemplates!Becomes, InTemplates!TypeOK
  <2>3. ASSUME NEW type \in DocumentTypes,
               templateReq[r] = InTemplates!None, x \in InTemplates!Existing, InTemplates!Fits(x, type),
               templateReq' = [templateReq EXCEPT ![r] =
                 [op |-> "found", of |-> x, type |-> type, change |-> Nothing, nodes |-> 0]],
               UNCHANGED <<template, instance, edits, retyped>>
        PROVE  Begun
    BY <2>3 DEF InTemplates!Fits, InTemplates!TypeOK
  <2> QED
    BY <2>1, <2>2, <2>3
<1>2. templateReq' \in [Requests -> [op: {"none", "update", "publish", "found", "read", "insert"},
                     of: Templates \cup {Nothing}, type: DocumentTypes \cup {Nothing},
                     change: InTemplates!Changes \cup {Nothing}, nodes: Nat]]
  BY DEF InTemplates!BeginPublish, InTemplates!BeginUpdate, InTemplates!Becomes, InTemplates!TypeOK
<1>3. InTemplates!TypeOK'
  BY <1>1, <1>2 DEF InTemplates!TypeOK
<1>4. TemplatesHeld'
  BY <1>1
  DEF TemplatesHeld, InTemplates!MayChange, InTemplates!Published, InTemplates!Existing,
     InTemplates!Unlocked
<1>5. TemplatesFound'
  BY <1>1 DEF TemplatesFound
<1>6. TemplatesUsed' /\ InTemplates!InstancesKeepNodes'
  BY <1>1 DEF TemplatesUsed, InTemplates!InstancesKeepNodes, InTemplates!Existing
<1> QED
  BY <1>3, <1>4, <1>5, <1>6

(* A template is edited, unless instances use its nodes.                    *)
LEMMA TemplatesUpdate ==
  ASSUME TemplatesInv, NEW r \in Requests, InTemplates!Update(r)
  PROVE  TemplatesInv'
<1> USE DEF TemplatesInv
<1> DEFINE x == templateReq[r].of
<1> DEFINE change == templateReq[r].change
<1>1. /\ templateReq'[r] = InTemplates!None /\ templateReq'[r].op = "none"
      /\ \A q \in Requests \ {r} : templateReq'[q] = templateReq[q]
      /\ templateReq' \in [Requests -> [op: {"none", "update", "publish", "found", "read", "insert"},
                        of: Templates \cup {Nothing}, type: DocumentTypes \cup {Nothing},
                        change: InTemplates!Changes \cup {Nothing}, nodes: Nat]]
      /\ UNCHANGED instance
  BY TemplatesEnd DEF InTemplates!Update
<1>2. /\ x \in InTemplates!Existing /\ x \in Templates /\ change \in InTemplates!Changes
      /\ template[x] \in InTemplates!Rows
      /\ \A q \in Requests : templateReq[q].op \in {"update", "publish"} /\ templateReq[q].of = x => q = r
  BY DEF InTemplates!Update, TemplatesHeld, InTemplates!Existing, InTemplates!TypeOK
<1>3. CASE UNCHANGED <<template, edits, retyped>>
  <2>1. InTemplates!TypeOK'
    BY <1>1, <1>3 DEF InTemplates!TypeOK
  <2>2. TemplatesHeld' /\ TemplatesFound'
    BY <1>1, <1>3
    DEF TemplatesHeld, TemplatesFound, InTemplates!Existing, InTemplates!MayChange,
       InTemplates!Published
  <2>3. TemplatesUsed' /\ InTemplates!InstancesKeepNodes'
    BY <1>1, <1>3 DEF TemplatesUsed, InTemplates!InstancesKeepNodes, InTemplates!Existing
  <2> QED
    BY <2>1, <2>2, <2>3
<1>4. CASE /\ ~(change.nodes /\ InTemplates!Referenced(template[x].nodes))
           /\ edits < MaxEdits
           /\ edits' = edits + 1
           /\ template' = [template EXCEPT ![x] = InTemplates!Edited(@, change)]
           /\ retyped' = IF change.type \in {Nothing, template[x].type} THEN retyped
                         ELSE retyped \cup InTemplates!Using(x)
  <2> DEFINE new == InTemplates!Edited(template[x], change)
  <2>1. /\ new \in InTemplates!Rows
        /\ ~change.nodes => new.nodes = template[x].nodes
        /\ change.type \in {Nothing, template[x].type} => new.type = template[x].type
    BY <1>2
    DEF InTemplates!Edited, InTemplates!Rows, InTemplates!Changes, InTemplates!NewNodes,
       InTemplates!TypeOK
  <2>2. template' = [template EXCEPT ![x] = new]
    BY <1>4
  <2> HIDE DEF new, x, change
  <2>3. /\ template' \in [Templates -> InTemplates!Rows \cup {Nothing}] /\ template'[x] = new
        /\ \A y \in Templates \ {x} : template'[y] = template[y]
        /\ InTemplates!Existing' = InTemplates!Existing
    BY <1>2, <2>1, <2>2, TemplatesAssumption DEF InTemplates!TypeOK, InTemplates!Existing
  <2>4. InTemplates!TypeOK'
    <3>1. edits' \in 0..MaxEdits /\ retyped' \subseteq Requests
      BY <1>4, TemplatesAssumption DEF InTemplates!TypeOK, InTemplates!Using
    <3> QED
      BY <1>1, <2>3, <3>1 DEF InTemplates!TypeOK
  <2>5. TemplatesHeld'
    <3>1. \A q \in Requests : templateReq'[q].op \in {"update", "publish"} =>
            templateReq'[q] = templateReq[q] /\ templateReq[q].of # x
      BY <1>1, <1>2
    <3>2. \A q \in Requests : templateReq'[q].op # "none" => templateReq'[q] = templateReq[q]
      BY <1>1
    <3> QED
      BY <2>3, <3>1, <3>2
      DEF TemplatesHeld, InTemplates!MayChange, InTemplates!Published, InTemplates!Existing
  <2>6. TemplatesFound'
    <3> SUFFICES ASSUME NEW q \in Requests, q \notin retyped',
                        templateReq'[q].op \in {"found", "read", "insert"}
                 PROVE  template'[templateReq'[q].of].type = templateReq'[q].type
      BY DEF TemplatesFound
    <3>1. q # r /\ templateReq'[q] = templateReq[q] /\ q \notin retyped
      BY <1>1, <1>4
    <3>2. template[templateReq[q].of].type = templateReq[q].type /\ templateReq[q].of \in Templates
      BY <3>1 DEF TemplatesFound, TemplatesHeld, InTemplates!Existing
    <3>3. CASE templateReq[q].of = x
      <4>1. q \in InTemplates!Using(x)
        BY <3>1, <3>3 DEF InTemplates!Using
      <4>2. change.type \in {Nothing, template[x].type}
        BY <1>4, <4>1
      <4> QED
        BY <2>1, <2>3, <3>1, <3>2, <3>3, <4>2
    <3>4. CASE templateReq[q].of # x
      BY <2>3, <3>1, <3>2, <3>4
    <3> QED
      BY <3>3, <3>4
  <2>7. TemplatesUsed'
    BY <1>1, <2>3 DEF TemplatesUsed
  <2>8. InTemplates!InstancesKeepNodes'
    <3> SUFFICES ASSUME NEW i \in Instances, instance[i] # Nothing
                 PROVE  template'[instance[i].of].nodes = instance[i].nodes
      BY <1>1 DEF InTemplates!InstancesKeepNodes
    <3>1. template[instance[i].of].nodes = instance[i].nodes /\ instance[i].of \in Templates
      BY DEF InTemplates!InstancesKeepNodes, InTemplates!TypeOK
    <3>2. CASE instance[i].of = x
      <4>1. ~change.nodes
        BY <1>4, <3>1, <3>2 DEF InTemplates!Referenced
      <4> QED
        BY <2>1, <2>3, <3>1, <3>2, <4>1
    <3>3. CASE instance[i].of # x
      BY <2>3, <3>1, <3>3
    <3> QED
      BY <3>2, <3>3
  <2> QED
    BY <2>4, <2>5, <2>6, <2>7, <2>8
<1> QED
  BY <1>3, <1>4 DEF InTemplates!Update

(* A template is published and the others of its type are not touched.      *)
LEMMA TemplatesPublish ==
  ASSUME TemplatesInv, NEW r \in Requests, InTemplates!Publish(r)
  PROVE  TemplatesInv'
<1> USE DEF TemplatesInv
<1> DEFINE x == templateReq[r].of
<1>1. /\ templateReq'[r] = InTemplates!None /\ templateReq'[r].op = "none"
      /\ \A q \in Requests \ {r} : templateReq'[q] = templateReq[q]
      /\ templateReq' \in [Requests -> [op: {"none", "update", "publish", "found", "read", "insert"},
                        of: Templates \cup {Nothing}, type: DocumentTypes \cup {Nothing},
                        change: InTemplates!Changes \cup {Nothing}, nodes: Nat]]
      /\ UNCHANGED <<instance, edits, retyped>>
  BY TemplatesEnd DEF InTemplates!Publish
<1>2. /\ x \in InTemplates!Existing /\ x \in Templates /\ template[x] \in InTemplates!Rows
      /\ \A q \in Requests : templateReq[q].op \in {"update", "publish"} /\ templateReq[q].of = x => q = r
  BY DEF InTemplates!Publish, TemplatesHeld, InTemplates!Existing, InTemplates!TypeOK
<1>3. /\ template' \in [Templates -> InTemplates!Rows \cup {Nothing}]
      /\ template'[x] \in InTemplates!Rows /\ template'[x].type = template[x].type
      /\ template'[x].nodes = template[x].nodes
      /\ \A y \in Templates \ {x} : template'[y] = template[y]
  BY <1>2 DEF InTemplates!Publish, InTemplates!TypeOK, InTemplates!Rows, InTemplates!Statuses
<1> HIDE DEF x
<1>4. InTemplates!Existing' = InTemplates!Existing
  BY <1>2, <1>3, TemplatesAssumption DEF InTemplates!Existing
<1>5. InTemplates!TypeOK'
  BY <1>1, <1>3 DEF InTemplates!TypeOK
<1>6. TemplatesHeld'
  <2>1. \A q \in Requests : templateReq'[q].op \in {"update", "publish"} =>
          templateReq'[q] = templateReq[q] /\ templateReq[q].of # x
    BY <1>1, <1>2
  <2>2. \A q \in Requests : templateReq'[q].op # "none" => templateReq'[q] = templateReq[q]
    BY <1>1
  <2> QED
    BY <1>3, <1>4, <2>1, <2>2
    DEF TemplatesHeld, InTemplates!MayChange, InTemplates!Published, InTemplates!Existing
<1>7. \A y \in Templates : template'[y].type = template[y].type /\ template'[y].nodes = template[y].nodes
  BY <1>3
<1>8. TemplatesFound'
  BY <1>1, <1>7 DEF TemplatesFound, TemplatesHeld, InTemplates!Existing
<1>9. TemplatesUsed' /\ InTemplates!InstancesKeepNodes'
  BY <1>1, <1>4, <1>7 DEF TemplatesUsed, InTemplates!InstancesKeepNodes, InTemplates!Existing
<1> QED
  BY <1>5, <1>6, <1>8, <1>9

(* A request reads the template it has found, then its nodes.               *)
LEMMA TemplatesRead ==
  ASSUME TemplatesInv, NEW r \in Requests, InTemplates!ReadTemplate(r) \/ InTemplates!ReadNodes(r)
  PROVE  TemplatesInv'
<1> USE DEF TemplatesInv
<1>1. /\ templateReq[r].op \in {"found", "read"} /\ templateReq[r].of \in InTemplates!Existing
      /\ template[templateReq[r].of] \in InTemplates!Rows
      /\ UNCHANGED <<template, instance, edits, retyped>>
  BY
  DEF InTemplates!ReadTemplate, InTemplates!ReadNodes, TemplatesHeld, InTemplates!Existing,
     InTemplates!TypeOK
<1>2. /\ templateReq'[r].op \in {"read", "insert"} /\ templateReq'[r].of = templateReq[r].of
      /\ templateReq'[r].type = templateReq[r].type
      /\ \A q \in Requests \ {r} : templateReq'[q] = templateReq[q]
      /\ templateReq' \in [Requests -> [op: {"none", "update", "publish", "found", "read", "insert"},
                        of: Templates \cup {Nothing}, type: DocumentTypes \cup {Nothing},
                        change: InTemplates!Changes \cup {Nothing}, nodes: Nat]]
  <2>1. CASE InTemplates!ReadTemplate(r)
    BY <2>1 DEF InTemplates!ReadTemplate, InTemplates!TypeOK
  <2>2. CASE InTemplates!ReadNodes(r)
    <3> DEFINE mid == [templateReq[r] EXCEPT !.op = "insert"]
    <3> DEFINE new == [templateReq[r] EXCEPT !.op = "insert", !.nodes = template[templateReq[r].of].nodes]
    <3>1. /\ mid.op = "insert" /\ mid.of = templateReq[r].of /\ mid.type = templateReq[r].type
          /\ mid \in [op: {"none", "update", "publish", "found", "read", "insert"},
                      of: Templates \cup {Nothing}, type: DocumentTypes \cup {Nothing},
                      change: InTemplates!Changes \cup {Nothing}, nodes: Nat]
      BY DEF InTemplates!TypeOK
    <3>2. new = [mid EXCEPT !.nodes = template[templateReq[r].of].nodes]
      BY DEF InTemplates!TypeOK
    <3>3. template[templateReq[r].of].nodes \in Nat
      BY <1>1 DEF InTemplates!Rows
    <3>4. templateReq' = [templateReq EXCEPT ![r] = new]
      BY <2>2 DEF InTemplates!ReadNodes
    <3> HIDE DEF mid, new
    <3>5. /\ new.op = "insert" /\ new.of = templateReq[r].of /\ new.type = templateReq[r].type
          /\ new \in [op: {"none", "update", "publish", "found", "read", "insert"},
                      of: Templates \cup {Nothing}, type: DocumentTypes \cup {Nothing},
                      change: InTemplates!Changes \cup {Nothing}, nodes: Nat]
      BY <3>1, <3>2, <3>3
    <3> QED
      BY <3>4, <3>5 DEF InTemplates!TypeOK
  <2> QED
    BY <2>1, <2>2
<1>3. InTemplates!TypeOK'
  BY <1>1, <1>2 DEF InTemplates!TypeOK
<1>4. TemplatesHeld'
  BY <1>1, <1>2
  DEF TemplatesHeld, InTemplates!MayChange, InTemplates!Published, InTemplates!Existing
<1>5. TemplatesFound'
  BY <1>1, <1>2 DEF TemplatesFound
<1>6. TemplatesUsed' /\ InTemplates!InstancesKeepNodes'
  BY <1>1 DEF TemplatesUsed, InTemplates!InstancesKeepNodes, InTemplates!Existing
<1> QED
  BY <1>3, <1>4, <1>5, <1>6

(* An instance is inserted with the nodes that were read.                   *)
LEMMA TemplatesInsert ==
  ASSUME TemplatesInv, NEW r \in Requests, InTemplates!Insert(r)
  PROVE  TemplatesInv'
<1> USE DEF TemplatesInv
<1>1. /\ templateReq'[r] = InTemplates!None /\ templateReq'[r].op = "none"
      /\ \A q \in Requests \ {r} : templateReq'[q] = templateReq[q]
      /\ templateReq' \in [Requests -> [op: {"none", "update", "publish", "found", "read", "insert"},
                        of: Templates \cup {Nothing}, type: DocumentTypes \cup {Nothing},
                        change: InTemplates!Changes \cup {Nothing}, nodes: Nat]]
      /\ retyped' = retyped \ {r}
      /\ UNCHANGED <<template, edits>>
  BY TemplatesEnd DEF InTemplates!Insert
<1>2. /\ templateReq[r].of \in InTemplates!Existing /\ templateReq[r].of \in Templates
      /\ templateReq[r].nodes \in Nat
      /\ template[templateReq[r].of].nodes = templateReq[r].nodes
  BY DEF InTemplates!Insert, TemplatesHeld, InTemplates!Existing, InTemplates!TypeOK
<1>3. PICK i \in Instances :
        instance' = [instance EXCEPT ![i] = [of |-> templateReq[r].of, nodes |-> templateReq[r].nodes]]
  BY DEF InTemplates!Insert
<1>4. /\ instance' \in [Instances -> [of: Templates, nodes: Nat] \cup {Nothing}]
      /\ instance'[i].of = templateReq[r].of /\ instance'[i].nodes = templateReq[r].nodes
      /\ \A j \in Instances \ {i} : instance'[j] = instance[j]
  BY <1>2, <1>3 DEF InTemplates!TypeOK
<1>5. InTemplates!TypeOK'
  BY <1>1, <1>4 DEF InTemplates!TypeOK
<1>6. TemplatesHeld'
  BY <1>1 DEF TemplatesHeld, InTemplates!MayChange, InTemplates!Published, InTemplates!Existing
<1>7. TemplatesFound'
  BY <1>1 DEF TemplatesFound
<1>8. TemplatesUsed' /\ InTemplates!InstancesKeepNodes'
  BY <1>1, <1>2, <1>4 DEF TemplatesUsed, InTemplates!InstancesKeepNodes, InTemplates!Existing
<1> QED
  BY <1>5, <1>6, <1>7, <1>8

(* A request ends without a change.                                         *)
LEMMA TemplatesFail ==
  ASSUME TemplatesInv, NEW r \in Requests, InTemplates!Fail(r)
  PROVE  TemplatesInv'
<1> USE DEF TemplatesInv
<1>1. /\ templateReq'[r] = InTemplates!None /\ templateReq'[r].op = "none"
      /\ \A q \in Requests \ {r} : templateReq'[q] = templateReq[q]
      /\ templateReq' \in [Requests -> [op: {"none", "update", "publish", "found", "read", "insert"},
                        of: Templates \cup {Nothing}, type: DocumentTypes \cup {Nothing},
                        change: InTemplates!Changes \cup {Nothing}, nodes: Nat]]
      /\ retyped' = retyped \ {r}
      /\ UNCHANGED <<template, instance, edits>>
  BY TemplatesEnd DEF InTemplates!Fail
<1>2. InTemplates!TypeOK'
  BY <1>1 DEF InTemplates!TypeOK
<1>3. TemplatesHeld' /\ TemplatesFound'
  BY <1>1
  DEF TemplatesHeld, TemplatesFound, InTemplates!MayChange, InTemplates!Published,
     InTemplates!Existing
<1>4. TemplatesUsed' /\ InTemplates!InstancesKeepNodes'
  BY <1>1 DEF TemplatesUsed, InTemplates!InstancesKeepNodes, InTemplates!Existing
<1> QED
  BY <1>2, <1>3, <1>4

(* Every step of the templates keeps their invariant.                       *)
LEMMA TemplatesSteps ==
  ASSUME TemplatesInv, InTemplates!Next \/ UNCHANGED InTemplates!vars
  PROVE  TemplatesInv'
<1>1. CASE UNCHANGED InTemplates!vars
  <2>1. UNCHANGED <<template, instance, templateReq, edits, retyped>>
    BY <1>1 DEF InTemplates!vars
  <2> QED
    BY <2>1 DEF TemplatesInv, InTemplates!TypeOK, TemplatesHeld, TemplatesFound, TemplatesUsed,
                InTemplates!InstancesKeepNodes, InTemplates!MayChange, InTemplates!Published, InTemplates!Existing
<1>2. ASSUME NEW r \in Requests, NEW type \in DocumentTypes, InTemplates!Find(r, type)
      PROVE  TemplatesInv'
  <2>1. PICK x \in InTemplates!Existing :
          /\ InTemplates!Fits(x, type)
          /\ templateReq' = [templateReq EXCEPT ![r] =
               [op |-> "found", of |-> x, type |-> type, change |-> Nothing, nodes |-> 0]]
    BY <1>2 DEF InTemplates!Find
  <2>2. x \in Templates
    BY DEF InTemplates!Existing
  <2>3. templateReq[r] = InTemplates!None /\ UNCHANGED <<template, instance, edits, retyped>>
    BY <1>2 DEF InTemplates!Find
  <2> QED
    BY <2>1, <2>2, <2>3, TemplatesBegin
<1>3. ASSUME NEW r \in Requests, InTemplates!Request(r)
      PROVE  TemplatesInv'
  BY <1>2, <1>3, TemplatesBegin, TemplatesUpdate, TemplatesPublish, TemplatesRead,
     TemplatesInsert, TemplatesFail DEF InTemplates!Request
<1> QED
  BY <1>1, <1>3, TemplatesCreate DEF InTemplates!Next

(* The invariant of the templates holds at the start.                       *)
LEMMA TemplatesStart == ASSUME InTemplates!Init PROVE TemplatesInv
<1>1. InTemplates!TypeOK
  BY TemplatesAssumption DEF InTemplates!Init, InTemplates!TypeOK, InTemplates!None
<1> QED
  BY <1>1
  DEF InTemplates!Init, TemplatesInv, TemplatesHeld, TemplatesFound, TemplatesUsed,
     InTemplates!InstancesKeepNodes, InTemplates!None

(* What no step does to a published template and to an instance.            *)
LEMMA TemplatesFrozen ==
  ASSUME TemplatesInv, InTemplates!Next
  PROVE  /\ \A x \in InTemplates!Existing :
              InTemplates!Published(x) /\ template'[x] # template[x] =>
                template'[x].status = "disabled"
         /\ \A r \in Requests :
              templateReq[r].op = "insert" /\ instance' # instance /\ templateReq'[r] # templateReq[r] =>
                template[templateReq[r].of].type = templateReq[r].type \/ r \in retyped
<1> USE DEF TemplatesInv
<1>1. ASSUME NEW x \in InTemplates!Existing, InTemplates!Published(x), template'[x] # template[x]
      PROVE  template'[x].status = "disabled"
  <2>0. x \in Templates /\ template[x] \in InTemplates!Rows
    BY DEF InTemplates!Existing, InTemplates!TypeOK
  <2>1. CASE \E y \in Templates, type \in DocumentTypes : InTemplates!Create(y, type)
    BY <1>1, <2>0, <2>1 DEF InTemplates!Create, InTemplates!TypeOK
  <2>2. ASSUME NEW r \in Requests, InTemplates!Update(r)
        PROVE  template'[x].status = "disabled"
    <3>1. template' = [template EXCEPT ![templateReq[r].of] = InTemplates!Edited(@, templateReq[r].change)]
      BY <1>1, <2>2 DEF InTemplates!Update
    <3>2. templateReq[r].of = x
      BY <1>1, <2>0, <3>1 DEF InTemplates!TypeOK
    <3>3. templateReq[r].change.status = "disabled"
      BY <1>1, <2>2, <3>2 DEF InTemplates!Update, TemplatesHeld, InTemplates!MayChange
    <3> QED
      BY <1>1, <2>0, <3>1, <3>2, <3>3, TemplatesAssumption
      DEF InTemplates!Edited, InTemplates!TypeOK, InTemplates!Published, InTemplates!Statuses
  <2>3. ASSUME NEW r \in Requests, InTemplates!Publish(r)
        PROVE  template'[x].status = "disabled"
    <3>1. template' = [template EXCEPT ![templateReq[r].of].status = "published"]
      BY <2>3 DEF InTemplates!Publish
    <3> QED
      BY <1>1, <2>0, <3>1 DEF InTemplates!Published, InTemplates!TypeOK, InTemplates!Rows
  <2> QED
    BY <1>1, <2>1, <2>2, <2>3
    DEF InTemplates!Next, InTemplates!Request, InTemplates!BeginPublish, InTemplates!BeginUpdate,
       InTemplates!Find, InTemplates!ReadTemplate,
         InTemplates!ReadNodes, InTemplates!Insert, InTemplates!Fail
<1>2. ASSUME NEW r \in Requests, templateReq[r].op = "insert", instance' # instance,
             templateReq'[r] # templateReq[r]
      PROVE  template[templateReq[r].of].type = templateReq[r].type \/ r \in retyped
  BY <1>2 DEF TemplatesFound
<1> QED
  BY <1>1, <1>2

(***************************************************************************)
(* Configuration.                                                          *)
(***************************************************************************)
(* The answer to every write since the start is kept.                       *)
ConfigCached == \A n \in DOMAIN applied : cache[applied[n][1]][applied[n][2]] # Nothing

ConfigInv == InConfig!TypeOK /\ ConfigCached /\ InConfig!AppliedOnce /\ InConfig!ShownIsUsed

(* What a write keeps and counts.                                           *)
LEMMA ConfigApplies ==
  ASSUME ConfigInv, NEW scope \in InConfig!Scopes, NEW key \in ConfigKeys,
         NEW body \in InConfig!Bodies,
         NEW answer \in InConfig!RuleRows \cup InConfig!SupplierRows \cup Values,
         InConfig!Fresh(scope, key), InConfig!Store(scope, key, body, answer), InConfig!Applies(scope, key)
  PROVE  /\ cache' = [s \in InConfig!Scopes |-> [k \in ConfigKeys |-> cache'[s][k]]]
         /\ \A s \in InConfig!Scopes, k \in ConfigKeys : cache[s][k] # Nothing =>
              cache'[s][k] = cache[s][k]
         /\ applied' \in Seq(InConfig!Scopes \X ConfigKeys)
         /\ ConfigCached' /\ InConfig!AppliedOnce'
         /\ \A i \in Rules :
              Cardinality(InConfig!Publications(i)') = Cardinality(InConfig!Publications(i))
                                                + (IF scope = <<"rule.publish", i>> THEN 1 ELSE 0)
<1> USE DEF ConfigInv
<1> DEFINE kept == [body |-> body, answer |-> answer]
<1>1. kept # Nothing
  BY ConfigAssumption DEF InConfig!Entries
<1> HIDE DEF kept
<1>2. /\ \A s \in InConfig!Scopes, k \in ConfigKeys : (s # scope \/ k # key) =>
           cache'[s][k] = cache[s][k]
      /\ cache'[scope][key] = kept
      /\ cache' = [s \in InConfig!Scopes |-> [k \in ConfigKeys |-> cache'[s][k]]]
  <2>1. cache = [s \in InConfig!Scopes |-> [k \in ConfigKeys |-> cache[s][k]]]
    BY DEF InConfig!TypeOK
  <2>2. cache' = [cache EXCEPT ![scope] = [@ EXCEPT ![key] = kept]]
    BY DEF InConfig!Store, kept
  <2> DEFINE old == [s \in InConfig!Scopes |-> [k \in ConfigKeys |-> cache[s][k]]]
  <2>3. old[scope] = [k \in ConfigKeys |-> cache[scope][k]]
    OBVIOUS
  <2>4. cache' = [s \in InConfig!Scopes |-> IF s = scope
                    THEN [k \in ConfigKeys |-> IF k = key THEN kept ELSE cache[scope][k]]
                    ELSE [k \in ConfigKeys |-> cache[s][k]]]
    BY <2>1, <2>2
  <2> QED
    BY <2>4
<1>3. \A s \in InConfig!Scopes, k \in ConfigKeys : cache[s][k] # Nothing =>
        cache'[s][k] = cache[s][k]
  BY <1>2 DEF InConfig!Fresh
<1>4. /\ applied \in Seq(InConfig!Scopes \X ConfigKeys)
      /\ <<scope, key>> \in InConfig!Scopes \X ConfigKeys
      /\ applied' = Append(applied, <<scope, key>>)
  BY DEF InConfig!Applies, InConfig!TypeOK
<1>5. /\ applied' \in Seq(InConfig!Scopes \X ConfigKeys) /\ Len(applied) \in Nat
      /\ DOMAIN applied = 1..Len(applied) /\ DOMAIN applied' = 1..(Len(applied) + 1)
      /\ \A n \in 1..Len(applied) : applied'[n] = applied[n] /\ applied[n] \in InConfig!Scopes \X ConfigKeys
      /\ applied'[Len(applied) + 1] = <<scope, key>>
  <2>1. /\ DOMAIN applied = 1..Len(applied) /\ Len(applied) \in Nat
        /\ \A n \in 1..Len(applied) : applied[n] \in InConfig!Scopes \X ConfigKeys
    BY <1>4, ElementOfSeq, LenProperties
  <2>2. DOMAIN applied' = 1..Len(applied')
    BY <1>4, AppendProperties, LenProperties
  <2> QED
    BY <1>4, <2>1, <2>2, AppendProperties
<1>6. ConfigCached'
  <2> SUFFICES ASSUME NEW n \in DOMAIN applied'
               PROVE  cache'[applied'[n][1]][applied'[n][2]] # Nothing
    BY DEF ConfigCached
  <2>1. CASE n = Len(applied) + 1
    BY <1>1, <1>2, <1>5, <2>1
  <2>2. CASE n \in DOMAIN applied
    <3>1. /\ applied[n] \in InConfig!Scopes \X ConfigKeys /\ applied'[n] = applied[n]
          /\ cache[applied[n][1]][applied[n][2]] # Nothing
      BY <1>5, <2>2 DEF ConfigCached
    <3>2. applied[n][1] \in InConfig!Scopes /\ applied[n][2] \in ConfigKeys
      BY <3>1
    <3> QED
      BY <1>3, <3>1, <3>2
  <2> QED
    BY <1>5, <2>1, <2>2
<1>7. \A n \in DOMAIN applied : applied[n] # <<scope, key>>
  BY DEF InConfig!Fresh, ConfigCached
<1>8. InConfig!AppliedOnce'
  <2> SUFFICES ASSUME NEW m \in DOMAIN applied', NEW n \in DOMAIN applied',
                      applied'[m] = applied'[n]
               PROVE  m = n
    BY DEF InConfig!AppliedOnce
  <2>1. /\ m = Len(applied) + 1 \/ m \in DOMAIN applied
        /\ n = Len(applied) + 1 \/ n \in DOMAIN applied
    BY <1>5
  <2> QED
    BY <1>5, <1>7, <2>1 DEF InConfig!AppliedOnce
<1>9. ASSUME NEW i \in Rules
      PROVE  Cardinality(InConfig!Publications(i)') = Cardinality(InConfig!Publications(i))
                                               + (IF scope = <<"rule.publish", i>> THEN 1 ELSE 0)
  <2> DEFINE last == Len(applied) + 1
  <2>1. /\ InConfig!Publications(i) \subseteq 1..Len(applied)
        /\ last \notin InConfig!Publications(i)
        /\ last \in Nat
    BY <1>5 DEF InConfig!Publications
  <2>2. IsFiniteSet(InConfig!Publications(i)) /\ Cardinality(InConfig!Publications(i)) \in Nat
    <3>1. IsFiniteSet(1..Len(applied))
      BY <1>5, FS_Interval
    <3>2. IsFiniteSet(InConfig!Publications(i))
      BY <2>1, <3>1, FS_Subset
    <3> QED
      BY <3>2, FS_CardinalityType
  <2>3. CASE scope = <<"rule.publish", i>>
    <3>1. InConfig!Publications(i)' = InConfig!Publications(i) \cup {last}
      BY <1>5, <2>3 DEF InConfig!Publications
    <3>2. Cardinality(InConfig!Publications(i) \cup {last}) =
            IF last \in InConfig!Publications(i) THEN Cardinality(InConfig!Publications(i))
            ELSE Cardinality(InConfig!Publications(i)) + 1
      BY <2>2, FS_AddElement
    <3> QED
      BY <2>1, <2>3, <3>1, <3>2
  <2>4. CASE scope # <<"rule.publish", i>>
    <3>1. InConfig!Publications(i)' = InConfig!Publications(i)
      BY <1>5, <2>4 DEF InConfig!Publications
    <3> QED
      BY <2>2, <2>4, <3>1
  <2> QED
    BY <2>3, <2>4
<1> QED
  BY <1>2, <1>3, <1>5, <1>6, <1>8, <1>9

(* The publications of a rule are finitely many.                            *)
LEMMA ConfigCounted ==
  ASSUME ConfigInv, NEW i \in Rules
  PROVE  Cardinality(InConfig!Publications(i)) \in Nat
<1>1. DOMAIN applied = 1..Len(applied) /\ Len(applied) \in Nat
  BY LenProperties DEF ConfigInv, InConfig!TypeOK
<1>2. InConfig!Publications(i) \subseteq 1..Len(applied)
  BY <1>1 DEF InConfig!Publications
<1>3. IsFiniteSet(1..Len(applied))
  BY <1>1, FS_Interval
<1>4. IsFiniteSet(InConfig!Publications(i))
  BY <1>2, <1>3, FS_Subset
<1> QED
  BY <1>4, FS_CardinalityType

(* The writes to memory, one lemma for each of them.                        *)
LEMMA ConfigUpdateRule ==
  ASSUME ConfigInv, NEW i \in Rules, NEW key \in ConfigKeys,
         NEW status \in InConfig!RuleStates \cup {Nothing}, NEW params \in Values \cup {Nothing},
         InConfig!UpdateRule(i, key, status, params)
  PROVE  ConfigInv'
<1> USE DEF ConfigInv
<1> DEFINE scope == <<"rule.patch", i>>
<1> DEFINE new == [status |-> InConfig!Given(status, rule[i].status), params |-> InConfig!Given(params, rule[i].params),
                   version |-> rule[i].version]
<1>1. new \in InConfig!RuleRows /\ new.version = rule[i].version
  BY DEF InConfig!RuleRows, InConfig!TypeOK, InConfig!Given
<1>2. scope \in InConfig!Scopes /\ <<status, params>> \in InConfig!Bodies /\ \A j \in Rules : scope # <<"rule.publish", j>>
  BY DEF InConfig!Scopes, InConfig!Bodies
<1>3. /\ InConfig!Fresh(scope, key) /\ InConfig!Store(scope, key, <<status, params>>, new)
      /\ InConfig!Applies(scope, key)
      /\ rule' = [rule EXCEPT ![i] = new]
      /\ UNCHANGED <<supplier, parameter, ragVersion, price>>
  BY DEF InConfig!UpdateRule
<1> HIDE DEF scope, new
<1>4. /\ cache' = [s \in InConfig!Scopes |-> [k \in ConfigKeys |-> cache'[s][k]]]
      /\ applied' \in Seq(InConfig!Scopes \X ConfigKeys) /\ ConfigCached' /\ InConfig!AppliedOnce'
      /\ \A j \in Rules : Cardinality(InConfig!Publications(j)') = Cardinality(InConfig!Publications(j))
                               + (IF scope = <<"rule.publish", j>> THEN 1 ELSE 0)
  BY <1>1, <1>2, <1>3, ConfigApplies
<1>5. rule' \in [Rules -> InConfig!RuleRows] /\ \A j \in Rules : rule'[j].version = rule[j].version
  BY <1>1, <1>3 DEF InConfig!TypeOK
<1>6. InConfig!TypeOK'
  BY <1>3, <1>4, <1>5 DEF InConfig!TypeOK
<1>7. InConfig!ShownIsUsed'
  <2>1. ASSUME NEW j \in Rules
        PROVE  rule'[j].version = 10 + Cardinality(InConfig!Publications(j)')
    <3>1. rule[j].version \in Nat /\ rule[j].version = 10 + Cardinality(InConfig!Publications(j))
      BY CardinalitiesAgree DEF InConfig!TypeOK, InConfig!RuleRows, InConfig!ShownIsUsed
    <3>2. Cardinality(InConfig!Publications(j)') = Cardinality(InConfig!Publications(j)) + 0
      BY <1>2, <1>4
    <3>3. Cardinality(InConfig!Publications(j)) \in Nat
      BY ConfigCounted
    <3> QED
      BY <1>5, <3>1, <3>2, <3>3
  <2> QED
    BY <1>3, <2>1, CardinalitiesAgree DEF InConfig!ShownIsUsed
<1> QED
  BY <1>4, <1>6, <1>7

(* Publishing counts the version up by one.                                 *)
LEMMA ConfigPublishRule ==
  ASSUME ConfigInv, NEW i \in Rules, NEW key \in ConfigKeys, NEW reason \in Values,
         InConfig!PublishRule(i, key, reason)
  PROVE  ConfigInv'
<1> USE DEF ConfigInv
<1> DEFINE scope == <<"rule.publish", i>>
<1> DEFINE new == [status |-> "published", params |-> rule[i].params, version |-> rule[i].version + 1]
<1>1. new \in InConfig!RuleRows /\ new.version = rule[i].version + 1
  BY DEF InConfig!RuleRows, InConfig!TypeOK, InConfig!RuleStates
<1>2. scope \in InConfig!Scopes /\ reason \in InConfig!Bodies /\ \A j \in Rules : scope = <<"rule.publish", j>> <=> j = i
  BY DEF InConfig!Scopes, InConfig!Bodies
<1>3. /\ InConfig!Fresh(scope, key) /\ InConfig!Store(scope, key, reason, new)
      /\ InConfig!Applies(scope, key)
      /\ rule' = [rule EXCEPT ![i] = new]
      /\ UNCHANGED <<supplier, parameter, ragVersion, price>>
  BY DEF InConfig!PublishRule
<1> HIDE DEF scope, new
<1>4. /\ cache' = [s \in InConfig!Scopes |-> [k \in ConfigKeys |-> cache'[s][k]]]
      /\ applied' \in Seq(InConfig!Scopes \X ConfigKeys) /\ ConfigCached' /\ InConfig!AppliedOnce'
      /\ \A j \in Rules : Cardinality(InConfig!Publications(j)') = Cardinality(InConfig!Publications(j))
                               + (IF scope = <<"rule.publish", j>> THEN 1 ELSE 0)
  BY <1>1, <1>2, <1>3, ConfigApplies
<1>5. /\ rule' \in [Rules -> InConfig!RuleRows] /\ rule'[i].version = rule[i].version + 1
      /\ \A j \in Rules \ {i} : rule'[j].version = rule[j].version
  BY <1>1, <1>3 DEF InConfig!TypeOK
<1>6. InConfig!TypeOK'
  BY <1>3, <1>4, <1>5 DEF InConfig!TypeOK
<1>7. InConfig!ShownIsUsed'
  <2>1. ASSUME NEW j \in Rules
        PROVE  rule'[j].version = 10 + Cardinality(InConfig!Publications(j)')
    <3>1. rule[j].version \in Nat /\ rule[j].version = 10 + Cardinality(InConfig!Publications(j))
      BY CardinalitiesAgree DEF InConfig!TypeOK, InConfig!RuleRows, InConfig!ShownIsUsed
    <3>2. Cardinality(InConfig!Publications(j)') = Cardinality(InConfig!Publications(j)) + (IF j = i THEN 1 ELSE 0)
      BY <1>2, <1>4
    <3>3. Cardinality(InConfig!Publications(j)) \in Nat
      BY ConfigCounted
    <3> QED
      BY <1>5, <3>1, <3>2, <3>3
  <2> QED
    BY <1>3, <2>1, CardinalitiesAgree DEF InConfig!ShownIsUsed
<1> QED
  BY <1>4, <1>6, <1>7

(* A supplier rule is changed.                                              *)
LEMMA ConfigUpdateSupplierRule ==
  ASSUME ConfigInv, NEW i \in SupplierRules, NEW key \in ConfigKeys,
         NEW enabled \in {{}, {TRUE}, {FALSE}}, NEW threshold \in Values \cup {Nothing},
         InConfig!UpdateSupplierRule(i, key, enabled, threshold)
  PROVE  ConfigInv'
<1> USE DEF ConfigInv
<1> DEFINE scope == <<"supplier-rule.patch", i>>
<1> DEFINE new == [enabled |-> IF enabled = {} THEN supplier[i].enabled ELSE TRUE \in enabled,
                   threshold |-> InConfig!Given(threshold, supplier[i].threshold)]
<1>1. new \in InConfig!SupplierRows
  <2>1. (IF enabled = {} THEN supplier[i].enabled ELSE TRUE \in enabled) \in BOOLEAN
    <3>1. supplier[i].enabled \in BOOLEAN
      BY DEF InConfig!TypeOK, InConfig!SupplierRows
    <3>2. CASE enabled = {}
      BY <3>1, <3>2
    <3>3. CASE enabled # {}
      <4>1. (TRUE \in enabled) \in BOOLEAN
        OBVIOUS
      <4>2. (IF enabled = {} THEN supplier[i].enabled ELSE TRUE \in enabled) = (TRUE \in enabled)
        BY <3>3, Zenon
      <4> QED
        BY <4>1, <4>2, Zenon
    <3> QED
      BY <3>2, <3>3
  <2>2. InConfig!Given(threshold, supplier[i].threshold) \in Values \cup {Default}
    BY DEF InConfig!TypeOK, InConfig!SupplierRows, InConfig!Given
  <2> QED
    BY <2>1, <2>2 DEF InConfig!SupplierRows
<1>2. scope \in InConfig!Scopes /\ <<enabled, threshold>> \in InConfig!Bodies /\ \A j \in Rules : scope # <<"rule.publish", j>>
  <2>1. enabled \in SUBSET BOOLEAN
    OBVIOUS
  <2> QED
    BY <2>1 DEF InConfig!Scopes, InConfig!Bodies
<1>3. /\ InConfig!Fresh(scope, key) /\ InConfig!Store(scope, key, <<enabled, threshold>>, new)
      /\ InConfig!Applies(scope, key)
      /\ supplier' = [supplier EXCEPT ![i] = new]
      /\ UNCHANGED <<rule, parameter, ragVersion, price>>
  BY DEF InConfig!UpdateSupplierRule
<1> HIDE DEF scope, new
<1>4. /\ cache' = [s \in InConfig!Scopes |-> [k \in ConfigKeys |-> cache'[s][k]]]
      /\ applied' \in Seq(InConfig!Scopes \X ConfigKeys) /\ ConfigCached' /\ InConfig!AppliedOnce'
      /\ \A j \in Rules : Cardinality(InConfig!Publications(j)') = Cardinality(InConfig!Publications(j))
                               + (IF scope = <<"rule.publish", j>> THEN 1 ELSE 0)
  BY <1>1, <1>2, <1>3, ConfigApplies
<1>5. supplier' \in [SupplierRules -> InConfig!SupplierRows]
  BY <1>1, <1>3 DEF InConfig!TypeOK
<1>6. InConfig!TypeOK'
  BY <1>3, <1>4, <1>5 DEF InConfig!TypeOK
<1>7. InConfig!ShownIsUsed'
  <2>1. ASSUME NEW j \in Rules
        PROVE  Cardinality(InConfig!Publications(j)') = Cardinality(InConfig!Publications(j))
    BY <1>2, <1>4, ConfigCounted
  <2> QED
    BY <1>3, <2>1, CardinalitiesAgree DEF InConfig!ShownIsUsed
<1> QED
  BY <1>4, <1>6, <1>7

(* A parameter is changed, and the setting with it.                         *)
LEMMA ConfigUpdateSystemParameter ==
  ASSUME ConfigInv, NEW p \in Parameters, NEW key \in ConfigKeys, NEW value \in Values,
         InConfig!UpdateSystemParameter(p, key, value)
  PROVE  ConfigInv'
<1> USE DEF ConfigInv
<1> DEFINE scope == <<"system-parameter.patch", p>>
<1>1. scope \in InConfig!Scopes /\ value \in InConfig!Bodies /\ \A j \in Rules : scope # <<"rule.publish", j>>
  BY DEF InConfig!Scopes, InConfig!Bodies
<1>2. /\ InConfig!Fresh(scope, key) /\ InConfig!Store(scope, key, value, value)
      /\ InConfig!Applies(scope, key)
      /\ parameter' = [parameter EXCEPT ![p] = value]
      /\ ragVersion' = IF p = RagVersion THEN value ELSE ragVersion
      /\ UNCHANGED <<rule, supplier, price>>
  BY DEF InConfig!UpdateSystemParameter, InConfig!SetParameter
<1> HIDE DEF scope
<1>3. /\ cache' = [s \in InConfig!Scopes |-> [k \in ConfigKeys |-> cache'[s][k]]]
      /\ applied' \in Seq(InConfig!Scopes \X ConfigKeys) /\ ConfigCached' /\ InConfig!AppliedOnce'
      /\ \A j \in Rules : Cardinality(InConfig!Publications(j)') = Cardinality(InConfig!Publications(j))
                               + (IF scope = <<"rule.publish", j>> THEN 1 ELSE 0)
  BY <1>1, <1>2, ConfigApplies
<1>4. InConfig!TypeOK'
  BY <1>2, <1>3 DEF InConfig!TypeOK
<1>5. InConfig!ShownIsUsed'
  <2>1. ASSUME NEW j \in Rules
        PROVE  Cardinality(InConfig!Publications(j)') = Cardinality(InConfig!Publications(j))
    BY <1>1, <1>3, ConfigCounted
  <2>2. ragVersion' = parameter'[RagVersion]
    BY <1>2, ConfigAssumption DEF InConfig!ShownIsUsed, InConfig!TypeOK
  <2> QED
    BY <1>2, <2>1, <2>2, CardinalitiesAgree DEF InConfig!ShownIsUsed
<1> QED
  BY <1>3, <1>4, <1>5

(* Everything as it is at a start of the process, and the prices in order.  *)
ConfigAtStart ==
  /\ rule = [i \in Rules |-> InConfig!RuleAtStart]
  /\ supplier = [i \in SupplierRules |-> InConfig!SupplierRuleAtStart]
  /\ parameter = [p \in Parameters |-> Default] /\ ragVersion = Default
  /\ cache = [s \in InConfig!Scopes |-> [k \in ConfigKeys |-> Nothing]] /\ applied = <<>>
  /\ price \in [min: 0..Prices, max: 0..Prices] /\ price.min <= price.max

(* What holds at a start satisfies the invariant.                           *)
LEMMA ConfigStart == ConfigAtStart => ConfigInv
<1> SUFFICES ASSUME ConfigAtStart PROVE ConfigInv
  OBVIOUS
<1> USE DEF ConfigAtStart
<1>1. InConfig!RuleAtStart \in InConfig!RuleRows /\ InConfig!RuleAtStart.version = 10 /\ InConfig!SupplierRuleAtStart \in InConfig!SupplierRows
  BY
  DEF InConfig!RuleAtStart, InConfig!RuleRows, InConfig!RuleStates, InConfig!SupplierRuleAtStart,
     InConfig!SupplierRows
<1>2. DOMAIN applied = {} /\ applied \in Seq(InConfig!Scopes \X ConfigKeys)
  OBVIOUS
<1>3. InConfig!TypeOK
  BY <1>1, <1>2 DEF InConfig!TypeOK
<1>4. InConfig!ShownIsUsed
  <2>1. ASSUME NEW i \in Rules
        PROVE  Cardinality(InConfig!Publications(i)) = 0
    <3>1. InConfig!Publications(i) = {}
      BY <1>2 DEF InConfig!Publications
    <3> QED
      BY <3>1, FS_EmptySet
  <2> QED
    BY <1>1, <2>1, ConfigAssumption, CardinalitiesAgree DEF InConfig!ShownIsUsed
<1> QED
  BY <1>2, <1>3, <1>4 DEF ConfigInv, ConfigCached, InConfig!AppliedOnce

(* The invariant of the configuration holds at the start.                   *)
LEMMA ConfigBegins == ASSUME InConfig!Init PROVE ConfigInv
<1>1. ConfigAtStart
  BY ConfigAssumption DEF InConfig!Init, ConfigAtStart
<1> QED
  BY <1>1, ConfigStart

(* And after the process is started again.                                  *)
LEMMA ConfigRestarts == ASSUME ConfigInv, InConfig!Restart PROVE ConfigInv'
<1>1. ConfigAtStart'
  BY DEF InConfig!Restart, ConfigInv, InConfig!TypeOK, ConfigAtStart
<1> QED
  BY <1>1, ConfigStart, PTL

(* A price range is changed in the database.                                *)
LEMMA ConfigPrice ==
  ASSUME ConfigInv, NEW fields \in SUBSET {"min", "max"}, NEW min \in 0..Prices,
         NEW max \in 0..Prices,
         InConfig!UpdateMarketPrice(fields, min, max)
  PROVE  ConfigInv'
<1> USE DEF ConfigInv
<1>1. /\ price' \in [min: 0..Prices, max: 0..Prices] /\ price'.min <= price'.max
      /\ UNCHANGED <<rule, supplier, parameter, ragVersion, cache, applied>>
  <2> DEFINE least == IF "min" \in fields THEN min ELSE price.min
  <2> DEFINE most == IF "max" \in fields THEN max ELSE price.max
  <2>1. least \in 0..Prices /\ most \in 0..Prices
    BY DEF InConfig!TypeOK
  <2> DEFINE new == [min |-> least, max |-> most]
  <2>2. InConfig!Range(new.min, new.max) /\ price' = new
    BY Zenon DEF InConfig!UpdateMarketPrice
  <2>3. UNCHANGED <<rule, supplier, parameter, ragVersion, cache, applied>>
    BY DEF InConfig!UpdateMarketPrice
  <2> HIDE DEF least, most
  <2> QED
    BY <2>1, <2>2, <2>3 DEF InConfig!Range
<1>2. InConfig!TypeOK'
  BY <1>1 DEF InConfig!TypeOK
<1>3. ConfigCached' /\ InConfig!AppliedOnce' /\ InConfig!ShownIsUsed'
  BY <1>1 DEF ConfigCached, InConfig!AppliedOnce, InConfig!ShownIsUsed, InConfig!Publications
<1> QED
  BY <1>2, <1>3

(* Every step of the configuration keeps its invariant.                     *)
LEMMA ConfigSteps ==
  ASSUME ConfigInv, InConfig!Next \/ UNCHANGED InConfig!vars
  PROVE  ConfigInv'
<1>1. CASE UNCHANGED InConfig!vars
  <2>1. UNCHANGED <<rule, supplier, parameter, ragVersion, cache, applied, price>>
    BY <1>1 DEF InConfig!vars
  <2>2. InConfig!TypeOK'
    BY <2>1 DEF ConfigInv, InConfig!TypeOK
  <2>3. ConfigCached' /\ InConfig!AppliedOnce'
    BY <2>1 DEF ConfigInv, ConfigCached, InConfig!AppliedOnce
  <2>4. InConfig!ShownIsUsed'
    BY <2>1 DEF ConfigInv, InConfig!ShownIsUsed, InConfig!Publications
  <2> QED
    BY <2>2, <2>3, <2>4 DEF ConfigInv
<1>2. ASSUME NEW i \in SupplierRules, NEW key \in ConfigKeys, NEW enabled \in {{}, {TRUE}, {FALSE}},
             NEW threshold \in Values \cup {Nothing}, InConfig!UpdateSupplierRule(i, key, enabled, threshold)
      PROVE  ConfigInv'
  BY <1>2, ConfigUpdateSupplierRule
<1>3. ASSUME NEW fields \in SUBSET {"min", "max"}, NEW min \in 0..Prices, NEW max \in 0..Prices,
             InConfig!UpdateMarketPrice(fields, min, max)
      PROVE  ConfigInv'
  BY <1>3, ConfigPrice
<1> QED
  BY <1>1, <1>2, <1>3, ConfigUpdateRule, ConfigPublishRule, ConfigUpdateSystemParameter,
     ConfigRestarts
  DEF InConfig!Next

(* What no step does to an answer that was given.                           *)
LEMMA ConfigAnswers ==
  ASSUME ConfigInv, InConfig!Next, applied' # <<>>
  PROVE  \A s \in InConfig!Scopes, k \in ConfigKeys : cache[s][k] # Nothing =>
           cache'[s][k] = cache[s][k]
<1> SUFFICES ASSUME NEW s \in InConfig!Scopes, NEW k \in ConfigKeys, cache[s][k] # Nothing
             PROVE  cache'[s][k] = cache[s][k]
  OBVIOUS
<1>0. cache = [o \in InConfig!Scopes |-> [q \in ConfigKeys |-> cache[o][q]]]
  BY DEF ConfigInv, InConfig!TypeOK
<1>1. ASSUME NEW scope \in InConfig!Scopes, NEW key \in ConfigKeys, NEW body, NEW answer,
             InConfig!Fresh(scope, key), InConfig!Store(scope, key, body, answer)
      PROVE  cache'[s][k] = cache[s][k]
  <2> DEFINE kept == [body |-> body, answer |-> answer]
  <2>1. cache' = [cache EXCEPT ![scope] = [@ EXCEPT ![key] = kept]]
    BY <1>1 DEF InConfig!Store
  <2> HIDE DEF kept
  <2>2. cache' = [o \in InConfig!Scopes |-> IF o = scope
                    THEN [q \in ConfigKeys |-> IF q = key THEN kept ELSE cache[scope][q]]
                    ELSE [q \in ConfigKeys |-> cache[o][q]]]
    BY <1>0, <2>1
  <2>3. s # scope \/ k # key
    BY <1>1 DEF InConfig!Fresh
  <2> QED
    BY <2>2, <2>3
<1>2. ASSUME NEW i \in Rules, NEW key \in ConfigKeys,
             NEW status \in InConfig!RuleStates \cup {Nothing},
             NEW params \in Values \cup {Nothing}, InConfig!UpdateRule(i, key, status, params)
      PROVE  cache'[s][k] = cache[s][k]
  <2>1. <<"rule.patch", i>> \in InConfig!Scopes
    BY DEF InConfig!Scopes
  <2> QED
    BY <1>1, <1>2, <2>1 DEF InConfig!UpdateRule
<1>3. ASSUME NEW i \in Rules, NEW key \in ConfigKeys, NEW reason \in Values,
             InConfig!PublishRule(i, key, reason)
      PROVE  cache'[s][k] = cache[s][k]
  <2>1. <<"rule.publish", i>> \in InConfig!Scopes
    BY DEF InConfig!Scopes
  <2> QED
    BY <1>1, <1>3, <2>1 DEF InConfig!PublishRule
<1>4. ASSUME NEW i \in SupplierRules, NEW key \in ConfigKeys, NEW enabled \in {{}, {TRUE}, {FALSE}},
             NEW threshold \in Values \cup {Nothing}, InConfig!UpdateSupplierRule(i, key, enabled, threshold)
      PROVE  cache'[s][k] = cache[s][k]
  <2>1. <<"supplier-rule.patch", i>> \in InConfig!Scopes
    BY DEF InConfig!Scopes
  <2> QED
    BY <1>1, <1>4, <2>1 DEF InConfig!UpdateSupplierRule
<1>5. ASSUME NEW p \in Parameters, NEW key \in ConfigKeys, NEW value \in Values,
             InConfig!UpdateSystemParameter(p, key, value)
      PROVE  cache'[s][k] = cache[s][k]
  <2>1. <<"system-parameter.patch", p>> \in InConfig!Scopes
    BY DEF InConfig!Scopes
  <2> QED
    BY <1>1, <1>5, <2>1 DEF InConfig!UpdateSystemParameter
<1>6. ASSUME NEW fields \in SUBSET {"min", "max"}, NEW min \in 0..Prices, NEW max \in 0..Prices,
             InConfig!UpdateMarketPrice(fields, min, max)
      PROVE  cache'[s][k] = cache[s][k]
  BY <1>6 DEF InConfig!UpdateMarketPrice
<1>7. ~InConfig!Restart
  BY DEF InConfig!Restart
<1> QED
  BY <1>2, <1>3, <1>4, <1>5, <1>6, <1>7 DEF InConfig!Next

(***************************************************************************)
(* Tokens.                                                                 *)
(***************************************************************************)
(* A whole number of seconds is not more, and less than a second short.     *)
LEMMA SecondsWhole ==
  ASSUME NEW ticks \in Int
  PROVE  /\ InTokens!WholeSeconds(ticks) \in Int
         /\ InTokens!WholeSeconds(ticks) <= ticks /\ InTokens!WholeSeconds(ticks) > ticks - Second
         /\ ticks >= 0 => InTokens!WholeSeconds(ticks) >= 0
<1> DEFINE q == ticks \div Second
<1>1. q \in Int /\ Second * q <= ticks /\ ticks < Second * (q + 1)
  BY TokensAssumption
<1>2. ticks >= 0 => q >= 0
  BY TokensAssumption
<1>3. InTokens!WholeSeconds(ticks) = q * Second
  BY DEF InTokens!WholeSeconds
<1> HIDE DEF q
<1>4. Second * (q + 1) = Second * q + Second /\ q * Second = Second * q /\ q * Second \in Int
  BY <1>1, TokensAssumption
<1>5. q >= 0 => q * Second >= 0
  BY <1>1, TokensAssumption
<1> QED
  BY <1>1, <1>2, <1>3, <1>4, <1>5, TokensAssumption

(* The revocation of a token that was logged out reaches into its last      *)
(* second.                                                                  *)
TokensRevoked ==
  \A t \in loggedOut : token[t] # Nothing /\ revokedUntil[t] > token[t].exp - Second

(* Permissions only grow after a token is issued for them.                  *)
TokensGranted ==
  \A t \in Tokens : token[t] # Nothing => token[t].version <= user[token[t].user].version

(* A request holds a user it has found, or a token that was issued; one     *)
(* that should have been refused holds permissions that have changed.       *)
TokensHeld ==
  \A r \in Requests :
    /\ tokenReq[r].at = "login" =>
         /\ tokenReq[r].of \in TokenUsers /\ tokenReq[r].version \in 1..MaxPermissionVersion
         /\ tokenReq[r].version <= user[tokenReq[r].of].version
    /\ tokenReq[r].at \in {"use", "leave", "used", "leaving"} =>
         tokenReq[r].of \in Tokens /\ token[tokenReq[r].of] # Nothing
    /\ tokenReq[r].at \in {"use", "leave"} /\ tokenReq[r].late =>
         user[token[tokenReq[r].of].user].version > token[tokenReq[r].of].version

TokensInv == InTokens!TypeOK /\ TokensRevoked /\ TokensGranted /\ TokensHeld /\ InTokens!LateRefused

(* A token that was logged out is refused until its last second.            *)
LEMMA TokensRefused == ASSUME TokensInv PROVE InTokens!RevokedToTheEnd
<1> SUFFICES ASSUME NEW t \in loggedOut, InTokens!Valid(t), ~InTokens!Revoked(t)
             PROVE  InTokens!LastSecond(t)
  BY DEF InTokens!RevokedToTheEnd
<1>1. /\ token[t].exp \in Nat /\ revokedUntil[t] \in Nat /\ now \in Nat
      /\ revokedUntil[t] > token[t].exp - Second
  BY DEF TokensInv, InTokens!TypeOK, InTokens!Issued, TokensRevoked, InTokens!Valid
<1> QED
  BY <1>1, TokensAssumption DEF InTokens!Revoked, InTokens!LastSecond

(* What the end of a request changes.                                       *)
LEMMA TokensIdle ==
  ASSUME TokensInv, NEW r \in Requests, tokenReq' = [tokenReq EXCEPT ![r] = InTokens!Idle]
  PROVE  /\ tokenReq'[r] = InTokens!Idle /\ tokenReq'[r].at = "idle"
         /\ \A q \in Requests \ {r} : tokenReq'[q] = tokenReq[q]
         /\ tokenReq' \in [Requests -> [at: {"idle", "login", "use", "leave", "used", "leaving"},
                           of: TokenUsers \cup Tokens \cup {Nothing},
                           version: 0..MaxPermissionVersion, late: BOOLEAN]]
BY TokensAssumption DEF TokensInv, InTokens!TypeOK, InTokens!Idle

(* Time passes.                                                             *)
LEMMA TokensTick ==
  ASSUME TokensInv, InTokens!Tick
  PROVE  TokensInv'
<1>1. now' \in 0..MaxTime /\ UNCHANGED <<user, token, revokedUntil, loggedOut, tokenReq>>
  BY TokensAssumption DEF TokensInv, InTokens!TypeOK, InTokens!Tick
<1> QED
  BY <1>1
  DEF TokensInv, InTokens!TypeOK, TokensRevoked, TokensGranted, TokensHeld, InTokens!LateRefused

(* A user is given other permissions, or disabled.                          *)
LEMMA TokensAdminister ==
  ASSUME TokensInv, NEW u \in TokenUsers, InTokens!Administer(u)
  PROVE  TokensInv'
<1> USE DEF TokensInv
<1>1. UNCHANGED <<now, token, revokedUntil, loggedOut, tokenReq>>
  BY DEF InTokens!Administer
<1>2. user' \in [TokenUsers -> [version: 1..MaxPermissionVersion, active: BOOLEAN]]
  <2>1. CASE user[u].version < MaxPermissionVersion /\ user' = [user EXCEPT ![u].version = @ + 1]
    BY <2>1, TokensAssumption DEF InTokens!TypeOK
  <2>2. CASE user' = [user EXCEPT ![u].active = ~@]
    BY <2>2 DEF InTokens!TypeOK
  <2> QED
    BY <2>1, <2>2 DEF InTokens!Administer
<1>3. \A v \in TokenUsers : user'[v].version >= user[v].version
  <2>1. \A v \in TokenUsers : user[v].version \in Nat
    BY TokensAssumption DEF InTokens!TypeOK
  <2>2. CASE user[u].version < MaxPermissionVersion /\ user' = [user EXCEPT ![u].version = @ + 1]
    BY <2>1, <2>2 DEF InTokens!TypeOK
  <2>3. CASE user' = [user EXCEPT ![u].active = ~@]
    BY <2>1, <2>3 DEF InTokens!TypeOK
  <2> QED
    BY <2>2, <2>3 DEF InTokens!Administer
<1>4. \A v \in TokenUsers : user[v].version \in Int /\ user'[v].version \in Int
  BY <1>2 DEF InTokens!TypeOK
<1>5. \A t \in Tokens : token[t] # Nothing =>
        token[t].user \in TokenUsers /\ token[t].version \in Int
  BY DEF InTokens!TypeOK, InTokens!Issued
<1>6. InTokens!TypeOK' /\ TokensRevoked' /\ InTokens!LateRefused'
  BY <1>1, <1>2 DEF InTokens!TypeOK, TokensRevoked, InTokens!LateRefused
<1>7. TokensGranted'
  BY <1>1, <1>3, <1>4, <1>5 DEF TokensGranted
<1>8. TokensHeld'
  <2> SUFFICES ASSUME NEW r \in Requests
               PROVE  (/\ tokenReq[r].at = "login" =>
                            /\ tokenReq[r].of \in TokenUsers
                            /\ tokenReq[r].version \in 1..MaxPermissionVersion
                            /\ tokenReq[r].version <= user[tokenReq[r].of].version
                       /\ tokenReq[r].at \in {"use", "leave", "used", "leaving"} =>
                            tokenReq[r].of \in Tokens /\ token[tokenReq[r].of] # Nothing
                       /\ tokenReq[r].at \in {"use", "leave"} /\ tokenReq[r].late =>
                            user[token[tokenReq[r].of].user].version > token[tokenReq[r].of].version)'
    BY DEF TokensHeld
  <2> QED
    BY <1>1, <1>3, <1>4, <1>5 DEF TokensHeld
<1> QED
  BY <1>6, <1>7, <1>8

(* A login has found its user.                                              *)
LEMMA TokensAuthenticate ==
  ASSUME TokensInv, NEW r \in Requests, NEW u \in TokenUsers, InTokens!Authenticate(r, u)
  PROVE  TokensInv'
<1> USE DEF TokensInv
<1>1. /\ tokenReq'[r].at = "login" /\ tokenReq'[r].of = u /\ tokenReq'[r].version = user[u].version
      /\ \A q \in Requests \ {r} : tokenReq'[q] = tokenReq[q]
      /\ user[u].version \in 1..MaxPermissionVersion
      /\ UNCHANGED <<now, user, token, revokedUntil, loggedOut>>
  BY DEF InTokens!Authenticate, InTokens!TypeOK
<1>2. InTokens!TypeOK'
  BY <1>1, TokensAssumption DEF InTokens!Authenticate, InTokens!TypeOK
<1>3. TokensRevoked' /\ TokensGranted' /\ InTokens!LateRefused'
  BY <1>1 DEF TokensRevoked, TokensGranted, InTokens!LateRefused
<1>4. TokensHeld'
  BY <1>1 DEF TokensHeld
<1> QED
  BY <1>2, <1>3, <1>4

(* A login issues a token.                                                  *)
LEMMA TokensIssue ==
  ASSUME TokensInv, NEW r \in Requests, InTokens!Issue(r)
  PROVE  TokensInv'
<1> USE DEF TokensInv
<1>1. PICK t \in Tokens :
        /\ token[t] = Nothing
        /\ token' = [token EXCEPT ![t] =
             [user |-> tokenReq[r].of, version |-> tokenReq[r].version, exp |-> InTokens!WholeSeconds(now + Life)]]
  BY DEF InTokens!Issue
<1>2. /\ tokenReq'[r].at = "idle"
      /\ \A q \in Requests \ {r} : tokenReq'[q] = tokenReq[q]
      /\ tokenReq' \in [Requests -> [at: {"idle", "login", "use", "leave", "used", "leaving"},
                        of: TokenUsers \cup Tokens \cup {Nothing},
                        version: 0..MaxPermissionVersion, late: BOOLEAN]]
      /\ UNCHANGED <<now, user, revokedUntil, loggedOut>>
  BY TokensIdle DEF InTokens!Issue
<1>3. InTokens!WholeSeconds(now + Life) \in Nat
  BY SecondsWhole, TokensAssumption DEF InTokens!TypeOK
<1>4. /\ token'[t] \in InTokens!Issued /\ token'[t] # Nothing
      /\ token'[t].version <= user[token'[t].user].version
      /\ \A o \in Tokens \ {t} : token'[o] = token[o]
      /\ token' \in [Tokens -> InTokens!Issued \cup {Nothing}]
  <2>1. /\ tokenReq[r].of \in TokenUsers /\ tokenReq[r].version \in 1..MaxPermissionVersion
        /\ tokenReq[r].version <= user[tokenReq[r].of].version
    BY DEF InTokens!Issue, TokensHeld
  <2> QED
    BY <1>1, <1>3, <2>1, TokensAssumption DEF InTokens!TypeOK, InTokens!Issued
<1>5. InTokens!TypeOK'
  BY <1>2, <1>4 DEF InTokens!TypeOK, InTokens!Issued
<1>6. TokensRevoked' /\ TokensGranted' /\ InTokens!LateRefused'
  BY <1>1, <1>2, <1>4 DEF TokensRevoked, TokensGranted, InTokens!LateRefused, InTokens!TypeOK
<1>7. TokensHeld'
  <2>1. \A q \in Requests : tokenReq'[q].at # "idle" => tokenReq'[q] = tokenReq[q]
    BY <1>2
  <2> QED
    BY <1>1, <1>2, <1>4, <2>1 DEF TokensHeld
<1> QED
  BY <1>5, <1>6, <1>7

(* A request presents a token; only one whose permissions have changed is   *)
(* late.                                                                    *)
LEMMA TokensPresent ==
  ASSUME TokensInv, NEW r \in Requests, NEW t \in Tokens, NEW want \in {"use", "leave"},
         InTokens!Present(r, t, want)
  PROVE  TokensInv'
<1> USE DEF TokensInv
<1>1. /\ tokenReq'[r].at = want /\ tokenReq'[r].of = t /\ tokenReq'[r].late = InTokens!Late(t)
      /\ \A q \in Requests \ {r} : tokenReq'[q] = tokenReq[q]
      /\ UNCHANGED <<now, user, token, revokedUntil, loggedOut>>
  BY DEF InTokens!Present, InTokens!TypeOK
<1>2. token[t] # Nothing
  BY DEF InTokens!Present, InTokens!Valid
<1>3. InTokens!Late(t) => user[token[t].user].version > token[t].version
  <2>1. t \in loggedOut => InTokens!LastSecond(t)
    BY TokensRefused DEF InTokens!Present, InTokens!RevokedToTheEnd
  <2>2. /\ user[token[t].user].version \in Int /\ token[t].version \in Int
        /\ token[t].version <= user[token[t].user].version
    BY <1>2 DEF InTokens!TypeOK, InTokens!Issued, TokensGranted
  <2> QED
    BY <2>1, <2>2 DEF InTokens!Late
<1>4. InTokens!TypeOK'
  <2>1. InTokens!Late(t) \in BOOLEAN
    BY DEF InTokens!Late
  <2> HIDE DEF InTokens!Late
  <2> QED
    BY <1>1, <2>1, TokensAssumption DEF InTokens!Present, InTokens!TypeOK
<1>5. TokensRevoked' /\ TokensGranted' /\ InTokens!LateRefused'
  BY <1>1 DEF TokensRevoked, TokensGranted, InTokens!LateRefused
<1>6. TokensHeld'
  BY <1>1, <1>2, <1>3 DEF TokensHeld
<1> QED
  BY <1>4, <1>5, <1>6

(* A request is accepted with the permissions its user has.                 *)
LEMMA TokensAccept ==
  ASSUME TokensInv, NEW r \in Requests, InTokens!Accept(r)
  PROVE  TokensInv'
<1> USE DEF TokensInv
<1>1. /\ tokenReq'[r].at \in {"used", "leaving"} /\ tokenReq'[r].of = tokenReq[r].of
      /\ tokenReq'[r].late = tokenReq[r].late
      /\ \A q \in Requests \ {r} : tokenReq'[q] = tokenReq[q]
      /\ UNCHANGED <<now, user, token, revokedUntil, loggedOut>>
  BY DEF InTokens!Accept, InTokens!TypeOK
<1>2. /\ tokenReq[r].of \in Tokens /\ token[tokenReq[r].of] # Nothing
      /\ tokenReq[r].late =>
           user[token[tokenReq[r].of].user].version > token[tokenReq[r].of].version
      /\ user[token[tokenReq[r].of].user].version = token[tokenReq[r].of].version
      /\ token[tokenReq[r].of].version \in Int
  BY DEF InTokens!Accept, InTokens!Current, TokensHeld, InTokens!TypeOK, InTokens!Issued
<1>3. InTokens!TypeOK'
  BY <1>1 DEF InTokens!Accept, InTokens!TypeOK
<1>4. TokensRevoked' /\ TokensGranted'
  BY <1>1 DEF TokensRevoked, TokensGranted
<1>5. InTokens!LateRefused'
  BY <1>1, <1>2 DEF InTokens!LateRefused
<1>6. TokensHeld'
  BY <1>1, <1>2 DEF TokensHeld
<1> QED
  BY <1>3, <1>4, <1>5, <1>6

(* A logout revokes the token into its last second.                         *)
LEMMA TokensLogout ==
  ASSUME TokensInv, NEW r \in Requests, InTokens!Logout(r)
  PROVE  TokensInv'
<1> USE DEF TokensInv
<1> DEFINE t == tokenReq[r].of
<1>1. t \in Tokens /\ token[t] # Nothing /\ token[t].exp \in Nat /\ now \in Nat
  BY DEF InTokens!Logout, TokensHeld, InTokens!TypeOK, InTokens!Issued
<1>2. /\ tokenReq'[r].at = "idle"
      /\ \A q \in Requests \ {r} : tokenReq'[q] = tokenReq[q]
      /\ tokenReq' \in [Requests -> [at: {"idle", "login", "use", "leave", "used", "leaving"},
                        of: TokenUsers \cup Tokens \cup {Nothing},
                        version: 0..MaxPermissionVersion, late: BOOLEAN]]
      /\ UNCHANGED <<now, user, token>>
  BY TokensIdle DEF InTokens!Logout
<1> DEFINE lasts == InTokens!AtLeast(InTokens!Remaining(t), Second)
<1>3. lasts \in Nat /\ lasts > token[t].exp - now - Second
  <2>1. /\ InTokens!Remaining(t) \in Int /\ InTokens!Remaining(t) > token[t].exp - now - Second
    BY <1>1, SecondsWhole, TokensAssumption DEF InTokens!Remaining
  <2> QED
    BY <1>1, <2>1, TokensAssumption DEF InTokens!AtLeast
<1>4. /\ revokedUntil' = [revokedUntil EXCEPT ![t] = now + lasts]
      /\ loggedOut' = loggedOut \cup {t}
  BY DEF InTokens!Logout
<1> HIDE DEF t, lasts
<1>5. now + lasts > token[t].exp - Second /\ now + lasts \in Nat
  BY <1>1, <1>3, TokensAssumption
<1>6. /\ revokedUntil' \in [Tokens -> Nat] /\ revokedUntil'[t] > token[t].exp - Second
      /\ \A o \in Tokens \ {t} : revokedUntil'[o] = revokedUntil[o]
  BY <1>1, <1>4, <1>5 DEF InTokens!TypeOK
<1>7. InTokens!TypeOK'
  BY <1>1, <1>2, <1>4, <1>6 DEF InTokens!TypeOK
<1>8. TokensRevoked'
  BY <1>1, <1>2, <1>4, <1>6 DEF TokensRevoked, InTokens!TypeOK
<1>9. TokensGranted' /\ InTokens!LateRefused'
  BY <1>2 DEF TokensGranted, InTokens!LateRefused
<1>10. TokensHeld'
  BY <1>2 DEF TokensHeld
<1> QED
  BY <1>7, <1>8, <1>9, <1>10

(* A request ends.                                                          *)
LEMMA TokensEnd ==
  ASSUME TokensInv, NEW r \in Requests, InTokens!End(r)
  PROVE  TokensInv'
<1>1. /\ tokenReq'[r].at = "idle"
      /\ \A q \in Requests \ {r} : tokenReq'[q] = tokenReq[q]
      /\ tokenReq' \in [Requests -> [at: {"idle", "login", "use", "leave", "used", "leaving"},
                        of: TokenUsers \cup Tokens \cup {Nothing},
                        version: 0..MaxPermissionVersion, late: BOOLEAN]]
      /\ UNCHANGED <<now, user, token, revokedUntil, loggedOut>>
  BY TokensIdle DEF InTokens!End
<1>2. TokensHeld'
  BY <1>1 DEF TokensInv, TokensHeld
<1> QED
  BY <1>1, <1>2 DEF TokensInv, InTokens!TypeOK, TokensRevoked, TokensGranted, InTokens!LateRefused

(* Every step of the tokens keeps their invariant.                          *)
LEMMA TokensSteps ==
  ASSUME TokensInv, InTokens!Next \/ UNCHANGED InTokens!vars
  PROVE  TokensInv'
<1>1. CASE UNCHANGED InTokens!vars
  <2>1. UNCHANGED <<now, user, token, revokedUntil, loggedOut, tokenReq>>
    BY <1>1 DEF InTokens!vars
  <2> QED
    BY <2>1
    DEF TokensInv, InTokens!TypeOK, TokensRevoked, TokensGranted, TokensHeld, InTokens!LateRefused
<1> QED
  BY <1>1, TokensTick, TokensAdminister, TokensAuthenticate, TokensIssue, TokensPresent,
    TokensAccept, TokensLogout, TokensEnd DEF InTokens!Next, InTokens!Request

(* The invariant of the tokens holds at the start.                          *)
LEMMA TokensStart == ASSUME InTokens!Init PROVE TokensInv
<1>1. InTokens!TypeOK
  BY TokensAssumption DEF InTokens!Init, InTokens!TypeOK, InTokens!Idle
<1> QED
  BY <1>1
  DEF InTokens!Init, TokensInv, TokensRevoked, TokensGranted, TokensHeld, InTokens!LateRefused,
     InTokens!Idle

(***************************************************************************)
(* Events of analysis tasks.                                               *)
(***************************************************************************)
(* Nothing is larger than the largest event that was appended, and no       *)
(* publisher that is to append an event has the number of another one.      *)
EventsNumbered ==
  /\ newest <= sequence
  /\ \A n \in DOMAIN events : events[n] <= newest
  /\ \A r \in Readers : cursor[r] <= newest
  /\ \A p \in Publishers : publisher[p].call = "push" =>
       /\ publisher[p].id \in 1..sequence /\ publisher[p].id # newest
       /\ \A q \in Publishers : publisher[q].call = "push" /\ publisher[q].id = publisher[p].id => q = p

(* The list is sorted but for the events that were overtaken.               *)
EventsSorted ==
  \A m, n \in DOMAIN events : m < n /\ events[m] > events[n] => events[n] \in overtaken

(* A client has received nothing after its cursor.                          *)
EventsSeen == overtaken = {} => \A r \in Readers : \A id \in seen[r] : id <= cursor[r]

EventsInv ==
  /\ InEvents!TypeOK /\ EventsNumbered /\ EventsSorted /\ EventsSeen
  /\ InEvents!ResumesWithoutGap

(* A publisher is given the next number.                                    *)
LEMMA EventsAllocate ==
  ASSUME EventsInv, NEW p \in Publishers, InEvents!Allocate(p)
  PROVE  EventsInv'
<1> USE DEF EventsInv
<1>1. /\ sequence' = sequence + 1 /\ sequence' \in 0..MaxEvents /\ sequence \in Nat
      /\ publisher'[p].call = "push" /\ publisher'[p].id = sequence'
      /\ \A q \in Publishers \ {p} : publisher'[q] = publisher[q]
      /\ publisher' \in [Publishers -> [call: {"incr", "push", "trim"}, id: 0..MaxEvents]]
      /\ UNCHANGED <<events, newest, cursor, seen, repeated, overtaken>>
  BY EventsAssumption DEF InEvents!Allocate, InEvents!NextId, InEvents!TypeOK, InEvents!history
<1>2. InEvents!TypeOK'
  BY <1>1 DEF InEvents!TypeOK
<1>3. EventsNumbered'
  <2>1. newest' <= sequence' /\ newest < sequence'
    BY <1>1 DEF EventsNumbered, InEvents!TypeOK
  <2>2. /\ \A n \in DOMAIN events' : events'[n] <= newest'
        /\ \A r \in Readers : cursor'[r] <= newest'
    BY <1>1 DEF EventsNumbered
  <2>3. ASSUME NEW q \in Publishers, publisher'[q].call = "push"
        PROVE  /\ publisher'[q].id \in 1..sequence' /\ publisher'[q].id # newest'
               /\ \A o \in Publishers :
                    publisher'[o].call = "push" /\ publisher'[o].id = publisher'[q].id => o = q
    <3>1. \A o \in Publishers \ {p} : publisher'[o].call = "push" =>
            publisher'[o].id \in 1..sequence /\ publisher'[o].id # newest
      BY <1>1 DEF EventsNumbered
    <3>2. CASE q = p
      BY <1>1, <2>1, <2>3, <3>1, <3>2
    <3>3. CASE q # p
      BY <1>1, <2>3, <3>1, <3>3 DEF EventsNumbered
    <3> QED
      BY <3>2, <3>3
  <2> QED
    BY <2>1, <2>2, <2>3 DEF EventsNumbered
<1>4. EventsSorted' /\ EventsSeen' /\ InEvents!ResumesWithoutGap'
  BY <1>1 DEF EventsSorted, EventsSeen, InEvents!ResumesWithoutGap
<1> QED
  BY <1>2, <1>3, <1>4

(* A publisher appends its event, which may have been overtaken.            *)
LEMMA EventsPush ==
  ASSUME EventsInv, NEW p \in Publishers, InEvents!Push(p)
  PROVE  EventsInv'
<1> USE DEF EventsInv
<1> DEFINE id == publisher[p].id
<1>1. /\ id \in 1..sequence /\ id # newest /\ sequence \in 0..MaxEvents /\ newest \in 0..MaxEvents
      /\ id \in 1..MaxEvents
      /\ \A q \in Publishers : publisher[q].call = "push" /\ publisher[q].id = id => q = p
  BY EventsAssumption DEF InEvents!Push, EventsNumbered, InEvents!TypeOK
<1>2. /\ publisher'[p].call = "trim"
      /\ \A q \in Publishers \ {p} : publisher'[q] = publisher[q]
      /\ publisher' \in [Publishers -> [call: {"incr", "push", "trim"}, id: 0..MaxEvents]]
      /\ UNCHANGED <<sequence, cursor, seen, repeated>>
  BY DEF InEvents!Push, InEvents!TypeOK, InEvents!history
<1>3. /\ events' = Append(events, id) /\ events \in Seq(1..MaxEvents)
      /\ events' \in Seq(1..MaxEvents)
      /\ newest' = IF newest > id THEN newest ELSE id
      /\ overtaken' = IF newest > id THEN overtaken \cup {id} ELSE overtaken
  BY <1>1 DEF InEvents!Push, InEvents!TypeOK
<1> HIDE DEF id
<1>4. /\ DOMAIN events = 1..Len(events) /\ Len(events) \in Nat
      /\ DOMAIN events' = 1..(Len(events) + 1)
      /\ events'[Len(events) + 1] = id
      /\ \A n \in 1..Len(events) : events'[n] = events[n] /\ events[n] \in 1..MaxEvents
  <2>1. /\ DOMAIN events = 1..Len(events) /\ Len(events) \in Nat
        /\ \A n \in 1..Len(events) : events[n] \in 1..MaxEvents
    BY <1>3, ElementOfSeq, LenProperties
  <2> QED
    BY <1>1, <1>3, <2>1, AppendProperties
<1>5. InEvents!TypeOK'
  BY <1>1, <1>2, <1>3 DEF InEvents!TypeOK
<1>6. EventsNumbered'
  <2>1. /\ newest' <= sequence /\ newest <= newest' /\ id <= newest'
        /\ newest' \in {newest, id}
    BY <1>1, <1>3 DEF EventsNumbered, InEvents!TypeOK
  <2>2. \A n \in DOMAIN events' : events'[n] <= newest'
    BY <1>1, <1>4, <2>1 DEF EventsNumbered, InEvents!TypeOK
  <2>3. \A r \in Readers : cursor'[r] <= newest'
    BY <1>1, <1>2, <2>1 DEF EventsNumbered, InEvents!TypeOK
  <2>4. \A q \in Publishers : publisher'[q].call = "push" =>
          /\ publisher'[q].id \in 1..sequence' /\ publisher'[q].id # newest'
          /\ \A o \in Publishers : publisher'[o].call = "push" /\ publisher'[o].id = publisher'[q].id => o = q
    BY <1>1, <1>2, <2>1 DEF EventsNumbered
  <2> QED
    BY <1>2, <2>1, <2>2, <2>3, <2>4 DEF EventsNumbered
<1>7. EventsSorted'
  <2> SUFFICES ASSUME NEW m \in DOMAIN events', NEW n \in DOMAIN events', m < n,
                      events'[m] > events'[n]
               PROVE  events'[n] \in overtaken'
    BY DEF EventsSorted
  <2>1. CASE n = Len(events) + 1
    <3>1. m \in DOMAIN events /\ events[m] > id
      BY <1>4, <2>1
    <3>2. newest > id
      BY <1>1, <1>4, <3>1 DEF EventsNumbered
    <3> QED
      BY <1>3, <1>4, <2>1, <3>2
  <2>2. CASE n # Len(events) + 1
    BY <1>3, <1>4, <2>2 DEF EventsSorted
  <2> QED
    BY <2>1, <2>2
<1>8. EventsSeen'
  BY <1>2, <1>3 DEF EventsSeen
<1>9. InEvents!ResumesWithoutGap'
  <2> SUFFICES ASSUME NEW r \in Readers
               PROVE  /\ \A n \in DOMAIN events' : events'[n] <= cursor'[r] =>
                           events'[n] \in seen'[r] \cup overtaken'
                      /\ r \in repeated' => overtaken' # {}
    BY DEF InEvents!ResumesWithoutGap
  <2>1. ASSUME NEW n \in DOMAIN events', events'[n] <= cursor'[r]
        PROVE  events'[n] \in seen'[r] \cup overtaken'
    <3>1. CASE n = Len(events) + 1
      <4>1. id <= newest
        BY <1>1, <1>2, <1>4, <2>1, <3>1 DEF EventsNumbered, InEvents!TypeOK
      <4> QED
        BY <1>1, <1>3, <1>4, <3>1, <4>1
    <3>2. CASE n # Len(events) + 1
      BY <1>2, <1>3, <1>4, <2>1, <3>2 DEF InEvents!ResumesWithoutGap
    <3> QED
      BY <3>1, <3>2
  <2> QED
    BY <1>2, <1>3, <2>1 DEF InEvents!ResumesWithoutGap
<1> QED
  BY <1>5, <1>6, <1>7, <1>8, <1>9

(* The list is cut to its last events, or a publisher breaks off.           *)
LEMMA EventsTrim ==
  ASSUME EventsInv, NEW p \in Publishers, InEvents!Trim(p) \/ InEvents!Break(p)
  PROVE  EventsInv'
<1> USE DEF EventsInv
<1>1. /\ publisher'[p].call = "incr"
      /\ \A q \in Publishers \ {p} : publisher'[q] = publisher[q]
      /\ publisher' \in [Publishers -> [call: {"incr", "push", "trim"}, id: 0..MaxEvents]]
      /\ UNCHANGED <<sequence, newest, cursor, seen, repeated, overtaken>>
  <2>1. publisher' = [publisher EXCEPT ![p] = InEvents!Ready]
    BY DEF InEvents!Trim, InEvents!Break
  <2>2. InEvents!Ready \in [call: {"incr", "push", "trim"}, id: 0..MaxEvents] /\ InEvents!Ready.call = "incr"
    BY EventsAssumption DEF InEvents!Ready
  <2>3. UNCHANGED <<sequence, newest, cursor, seen, repeated, overtaken>>
    BY DEF InEvents!Trim, InEvents!Break, InEvents!history
  <2> QED
    BY <2>1, <2>2, <2>3 DEF InEvents!TypeOK
<1>2. PICK k \in Nat :
        /\ events' \in Seq(1..MaxEvents)
        /\ \A n \in DOMAIN events' : n + k \in DOMAIN events /\ events'[n] = events[n + k]
        /\ DOMAIN events' \subseteq Nat
  <2>1. CASE UNCHANGED events
    <3>1. \A n \in DOMAIN events : n \in Nat /\ n + 0 = n
      BY DEF InEvents!TypeOK
    <3> QED
      BY <2>1, <3>1 DEF InEvents!TypeOK
  <2>2. CASE /\ Len(events) > Kept
             /\ events' = SubSeq(events, Len(events) - Kept + 1, Len(events))
    <3>1. Len(events) \in Nat /\ events \in Seq(1..MaxEvents)
      BY DEF InEvents!TypeOK
    <3>2. Len(events) - Kept \in Nat
      BY <2>2, <3>1, EventsAssumption
    <3>3. /\ events' \in Seq(1..MaxEvents) /\ Len(events') = Kept
          /\ \A i \in 1..Kept : events'[i] = events[i + (Len(events) - Kept)]
      BY <2>2, <3>1, <3>2, EventsAssumption, SubSeqProperties
    <3>4. DOMAIN events' = 1..Kept /\ DOMAIN events = 1..Len(events)
      BY <3>1, <3>3
    <3>5. \A i \in 1..Kept : i + (Len(events) - Kept) \in 1..Len(events)
      BY <2>2, <3>1, EventsAssumption
    <3> DEFINE k == Len(events) - Kept
    <3>6. /\ k \in Nat
          /\ \A n \in DOMAIN events' : n + k \in DOMAIN events /\ events'[n] = events[n + k]
      BY <3>2, <3>3, <3>4, <3>5
    <3>7. DOMAIN events' \subseteq Nat
      BY <3>4, EventsAssumption
    <3> HIDE DEF k
    <3> QED
      BY <3>3, <3>6, <3>7
  <2> QED
    BY <2>1, <2>2 DEF InEvents!Trim, InEvents!Break
<1>3. InEvents!TypeOK'
  BY <1>1, <1>2 DEF InEvents!TypeOK
<1>4. EventsNumbered'
  <2>1. /\ newest' <= sequence'
        /\ \A n \in DOMAIN events' : events'[n] <= newest'
        /\ \A r \in Readers : cursor'[r] <= newest'
    BY <1>1, <1>2 DEF EventsNumbered
  <2>2. \A q \in Publishers : publisher'[q].call = "push" =>
          /\ publisher'[q].id \in 1..sequence' /\ publisher'[q].id # newest'
          /\ \A o \in Publishers :
               publisher'[o].call = "push" /\ publisher'[o].id = publisher'[q].id => o = q
    BY <1>1 DEF EventsNumbered
  <2> QED
    BY <2>1, <2>2 DEF EventsNumbered
<1>5. EventsSorted'
  <2> SUFFICES ASSUME NEW m \in DOMAIN events', NEW n \in DOMAIN events', m < n,
                      events'[m] > events'[n]
               PROVE  events'[n] \in overtaken'
    BY DEF EventsSorted
  <2>1. /\ m + k \in DOMAIN events /\ n + k \in DOMAIN events /\ m + k < n + k
        /\ events'[m] = events[m + k] /\ events'[n] = events[n + k]
    BY <1>2
  <2> QED
    BY <1>1, <2>1 DEF EventsSorted
<1>6. EventsSeen' /\ InEvents!ResumesWithoutGap'
  BY <1>1, <1>2 DEF EventsSeen, InEvents!ResumesWithoutGap
<1> QED
  BY <1>3, <1>4, <1>5, <1>6

(* A client receives events after its cursor.                               *)
LEMMA EventsStream ==
  ASSUME EventsInv, NEW r \in Readers, InEvents!Stream(r)
  PROVE  EventsInv'
<1> USE DEF EventsInv
<1> DEFINE received(n) == {events[m] : m \in InEvents!After(cursor[r]) \cap 1..n}
<1>1. PICK n \in InEvents!After(cursor[r]) :
        /\ cursor' = [cursor EXCEPT ![r] = events[n]]
        /\ seen' = [seen EXCEPT ![r] = @ \cup received(n)]
        /\ repeated' = IF received(n) \cap seen[r] = {} THEN repeated ELSE repeated \cup {r}
  BY DEF InEvents!Stream, InEvents!ResumeAfter
<1>2. /\ n \in DOMAIN events /\ DOMAIN events = 1..Len(events) /\ Len(events) \in Nat
      /\ \A m \in DOMAIN events : events[m] \in 1..MaxEvents
      /\ events[n] > cursor[r]
  <2>1. events \in Seq(1..MaxEvents)
    BY DEF InEvents!TypeOK
  <2> QED
    BY <2>1, ElementOfSeq, LenProperties DEF InEvents!After
<1>3. \A m \in 1..n : m \in DOMAIN events
  BY <1>2
<1>4. /\ \A m \in 1..n : events[m] > cursor[r] => events[m] \in received(n)
      /\ \A id \in received(n) : \E m \in 1..n : id = events[m] /\ id > cursor[r]
  BY <1>3 DEF InEvents!After
<1>5. received(n) \subseteq 1..MaxEvents
  BY <1>2, <1>3, <1>4
<1>6. n \in 1..n /\ events[n] \in received(n)
  BY <1>2, <1>4
<1> HIDE DEF received
<1>7. /\ cursor'[r] = events[n] /\ seen'[r] = seen[r] \cup received(n)
      /\ \A o \in Readers \ {r} : cursor'[o] = cursor[o] /\ seen'[o] = seen[o]
      /\ cursor' \in [Readers -> 0..MaxEvents] /\ seen' \in [Readers -> SUBSET (1..MaxEvents)]
      /\ UNCHANGED <<sequence, events, newest, publisher, overtaken>>
  BY <1>1, <1>2, <1>5, EventsAssumption DEF InEvents!TypeOK, InEvents!Stream
<1>8. InEvents!TypeOK'
  BY <1>1, <1>7 DEF InEvents!TypeOK
<1>9. EventsNumbered'
  BY <1>2, <1>7 DEF EventsNumbered
<1>10. EventsSorted'
  BY <1>7 DEF EventsSorted
<1>11. ASSUME overtaken = {}, NEW id \in received(n)
       PROVE  id <= events[n]
  <2>1. PICK m \in 1..n : id = events[m]
    BY <1>4, <1>11
  <2> QED
    BY <1>2, <1>3, <1>11, <2>1 DEF EventsSorted
<1>12. EventsSeen'
  <2> SUFFICES ASSUME overtaken = {}, NEW o \in Readers, NEW id \in seen'[o]
               PROVE  id <= cursor'[o]
    BY <1>7 DEF EventsSeen
  <2>1. CASE o # r
    BY <1>7, <2>1 DEF EventsSeen
  <2>2. CASE o = r /\ id \in received(n)
    BY <1>7, <1>11, <2>2
  <2>3. CASE o = r /\ id \in seen[r]
    <3>1. id <= cursor[r] /\ id \in 1..MaxEvents /\ cursor[r] \in 0..MaxEvents
      BY <2>3 DEF EventsSeen, InEvents!TypeOK
    <3> QED
      BY <1>2, <1>7, <2>3, <3>1
  <2> QED
    BY <1>7, <2>1, <2>2, <2>3
<1>13. InEvents!ResumesWithoutGap'
  <2>1. ASSUME NEW o \in Readers, NEW k \in DOMAIN events, events[k] <= cursor'[o]
        PROVE  events[k] \in seen'[o] \cup overtaken
    <3>1. CASE o # r
      BY <1>7, <2>1, <3>1 DEF InEvents!ResumesWithoutGap
    <3>2. CASE o = r /\ events[k] <= cursor[r]
      BY <1>7, <3>2 DEF InEvents!ResumesWithoutGap
    <3>3. CASE o = r /\ events[k] > cursor[r] /\ k \in 1..n
      BY <1>4, <1>7, <3>3
    <3>4. CASE o = r /\ k > n
      <4>1. events[n] > events[k] \/ events[n] = events[k]
        BY <1>2, <1>7, <2>1, <3>4
      <4> QED
        BY <1>2, <1>6, <1>7, <3>4, <4>1 DEF EventsSorted
    <3> QED
      BY <1>2, <3>1, <3>2, <3>3, <3>4 DEF InEvents!TypeOK
  <2>2. ASSUME NEW o \in Readers, o \in repeated'
        PROVE  overtaken # {}
    <3>1. CASE o \in repeated
      BY <3>1 DEF InEvents!ResumesWithoutGap
    <3>2. CASE o \notin repeated
      <4>1. PICK id \in received(n) : id \in seen[r]
        BY <1>1, <2>2, <3>2
      <4>2. id > cursor[r] /\ id \in 1..MaxEvents /\ cursor[r] \in 0..MaxEvents
        BY <1>4, <1>5, <4>1 DEF InEvents!TypeOK
      <4> QED
        BY <4>1, <4>2 DEF EventsSeen
    <3> QED
      BY <3>1, <3>2
  <2> QED
    BY <1>7, <2>1, <2>2 DEF InEvents!ResumesWithoutGap
<1> QED
  BY <1>8, <1>9, <1>10, <1>12, <1>13

(* Every step of the events keeps their invariant.                          *)
LEMMA EventsSteps ==
  ASSUME EventsInv, InEvents!Next \/ UNCHANGED InEvents!vars
  PROVE  EventsInv'
<1>1. CASE UNCHANGED InEvents!vars
  <2>1. UNCHANGED <<sequence, events, newest, publisher, cursor, seen, repeated, overtaken>>
    BY <1>1 DEF InEvents!vars
  <2> QED
    BY <2>1
    DEF EventsInv, InEvents!TypeOK, EventsNumbered, EventsSorted, EventsSeen,
       InEvents!ResumesWithoutGap
<1> QED
  BY <1>1, EventsAllocate, EventsPush, EventsTrim, EventsStream DEF InEvents!Next, InEvents!Publish

(* The invariant of the events holds at the start.                          *)
LEMMA EventsStart == ASSUME InEvents!Init PROVE EventsInv
<1>1. InEvents!TypeOK
  BY EventsAssumption DEF InEvents!Init, InEvents!TypeOK, InEvents!Ready
<1>2. DOMAIN events = {}
  BY DEF InEvents!Init
<1> QED
  BY <1>1, <1>2
  DEF InEvents!Init, EventsInv, EventsNumbered, EventsSorted, EventsSeen,
     InEvents!ResumesWithoutGap, InEvents!Ready

(***************************************************************************)
(* The whole.  The parts share no state, so that a step of the whole is a  *)
(* step of one part and leaves the variables of the others alone: the      *)
(* invariants of the parts are inductive together, and the action          *)
(* properties of the parts follow from them.                               *)
(***************************************************************************)
Inv ==
  /\ part \in Parts
  /\ SessionsInv /\ ReportsInv /\ TemplatesInv /\ ConfigInv /\ TokensInv /\ EventsInv

(* A step of the whole, as each part sees it.                               *)
LEMMA PartsStep ==
  ASSUME [Next]_vars
  PROVE  /\ UNCHANGED part
         /\ InSessions!Next \/ UNCHANGED InSessions!vars
         /\ InReports!Next \/ UNCHANGED InReports!vars
         /\ InTemplates!Next \/ UNCHANGED InTemplates!vars
         /\ InConfig!Next \/ UNCHANGED InConfig!vars
         /\ InTokens!Next \/ UNCHANGED InTokens!vars
         /\ InEvents!Next \/ UNCHANGED InEvents!vars
<1>1. /\ UNCHANGED part
      /\ InSessions!Next \/ UNCHANGED sessionVars
      /\ InReports!Next \/ UNCHANGED reportVars
      /\ InTemplates!Next \/ UNCHANGED templateVars
      /\ InConfig!Next \/ UNCHANGED configVars
      /\ InTokens!Next \/ UNCHANGED tokenVars
      /\ InEvents!Next \/ UNCHANGED eventVars
  BY DEF Next, SessionStep, ReportStep, TemplateStep, ConfigStep, TokenStep, EventStep, vars
<1>2. UNCHANGED sessionVars => UNCHANGED InSessions!vars
  BY DEF sessionVars, InSessions!vars
<1>3. UNCHANGED reportVars => UNCHANGED InReports!vars
  BY DEF reportVars, InReports!vars
<1>4. UNCHANGED templateVars => UNCHANGED InTemplates!vars
  BY DEF templateVars, InTemplates!vars
<1>5. UNCHANGED configVars => UNCHANGED InConfig!vars
  BY DEF configVars, InConfig!vars
<1>6. UNCHANGED tokenVars => UNCHANGED InTokens!vars
  BY DEF tokenVars, InTokens!vars
<1>7. UNCHANGED eventVars => UNCHANGED InEvents!vars
  BY DEF eventVars, InEvents!vars
<1> QED
  BY <1>1, <1>2, <1>3, <1>4, <1>5, <1>6, <1>7

(* The invariants of all parts hold at the start.                           *)
LEMMA InitInv == Init => Inv
BY SessionsStart, ReportsStart, TemplatesStart, ConfigBegins, TokensStart, EventsStart DEF Init, Inv

(* And every step keeps them.                                               *)
LEMMA NextInv == Inv /\ [Next]_vars => Inv'
<1> SUFFICES ASSUME Inv, [Next]_vars PROVE Inv'
  OBVIOUS
<1>1. (part \in Parts)'
  BY PartsStep DEF Inv
<1>2. SessionsInv' /\ ReportsInv' /\ TemplatesInv'
  BY PartsStep, SessionsSteps, ReportsSteps, TemplatesSteps DEF Inv
<1>3. ConfigInv' /\ TokensInv' /\ EventsInv'
  BY PartsStep, ConfigSteps, TokensSteps, EventsSteps DEF Inv
<1> QED
  BY <1>1, <1>2, <1>3 DEF Inv

(* The invariant of every part, at every state of the whole.                *)
THEOREM Invariance == Spec => []Inv
BY InitInv, NextInv, PTL DEF Spec

(* A behaviour of the whole is one of each of its parts: what is proved or  *)
(* checked of a part alone holds of it in the whole.                        *)
THEOREM PartsBehave ==
  Spec => /\ InSessions!Spec /\ InReports!Spec /\ InTemplates!Spec
          /\ InConfig!Spec /\ InTokens!Spec /\ InEvents!Spec
<1>1. [Next]_vars => /\ [InSessions!Next]_InSessions!vars /\ [InReports!Next]_InReports!vars
                     /\ [InTemplates!Next]_InTemplates!vars /\ [InConfig!Next]_InConfig!vars
                     /\ [InTokens!Next]_InTokens!vars /\ [InEvents!Next]_InEvents!vars
  BY PartsStep
<1>2. Init => /\ InSessions!Init /\ InReports!Init /\ InTemplates!Init
              /\ InConfig!Init /\ InTokens!Init /\ InEvents!Init
  BY DEF Init
<1> QED
  BY <1>1, <1>2, PTL DEF Spec, InSessions!Spec, InReports!Spec, InTemplates!Spec,
    InConfig!Spec, InTokens!Spec, InEvents!Spec

(* Types are kept and price ranges never upside down; a configuration       *)
(* write is made once per key and shown as it is used; a token that was     *)
(* logged out is refused until its last second, and no request is accepted  *)
(* whose token was refused before it began.                                 *)
THEOREM ServicesKept == Spec => []ServicesInv
<1>1. Inv => ServicesInv
  <2> SUFFICES ASSUME Inv PROVE ServicesInv
    OBVIOUS
  <2>1. TypeOK
    BY DEF Inv, TypeOK, SessionsInv, ReportsInv, TemplatesInv, ConfigInv, TokensInv, EventsInv
  <2>2. InConfig!AppliedOnce /\ InConfig!ShownIsUsed
    BY DEF Inv, ConfigInv
  <2>3. InTokens!RevokedToTheEnd /\ InTokens!LateRefused
    BY TokensRefused DEF Inv, TokensInv
  <2> QED
    BY <2>1, <2>2, <2>3 DEF ServicesInv
<1> QED
  BY <1>1, Invariance, PTL

(* The version of a session counts its changes, but for those that one      *)
(* request has written over.                                                *)
THEOREM ChangesCounted == Spec => []VersionCounts
<1>1. Inv => VersionCounts
  BY DEF Inv, SessionsInv, VersionCounts
<1> QED
  BY <1>1, Invariance, PTL

(* A document version has at most one final report, unless two requests     *)
(* finalized it at once.                                                    *)
THEOREM FinalOnce == Spec => []OneFinalReport
<1>1. Inv => OneFinalReport
  BY ReportsOne DEF Inv, OneFinalReport
<1> QED
  BY <1>1, Invariance, PTL

(* An export that has not ended has a message or a worker that runs it,     *)
(* unless its start or its last try failed to say so, or the process that   *)
(* ran it was killed and its message acknowledged.                          *)
THEOREM ExportsCarried == Spec => [](part = "reports" => InReports!UnfinishedCarried)
<1>1. Inv => (part = "reports" => InReports!UnfinishedCarried)
  BY ReportsMet DEF Inv
<1> QED
  BY <1>1, Invariance, PTL

(* The tasks of an approval instance are the nodes of its template,         *)
(* whatever is edited while it is started and after.                        *)
THEOREM NodesKept == Spec => []InstancesKeepNodes
<1>1. Inv => InstancesKeepNodes
  BY DEF Inv, TemplatesInv, InstancesKeepNodes
<1> QED
  BY <1>1, Invariance, PTL

(* A client that resumes after the last event it has seen misses none, and  *)
(* sees none twice, but where an event was overtaken by a later one.        *)
THEOREM NoGap == Spec => []ResumesWithoutGap
<1>1. Inv => ResumesWithoutGap
  BY DEF Inv, EventsInv, ResumesWithoutGap
<1> QED
  BY <1>1, Invariance, PTL

(* No step opens a closed session, takes an export back from its success,   *)
(* changes a published template but to disable it, makes an instance for    *)
(* another type, or changes the answer to an idempotency key, but for the   *)
(* overlaps that the properties of the parts name.                          *)
THEOREM NoOtherStep == Spec => StepsAllowed
<1>1. ASSUME Inv, [Next]_vars
      PROVE  [\A s \in Sessions :
                InSessions!Exists(s) /\ session[s].status = "closed" /\ session'[s].status # "closed" =>
                  \E r \in late[s] :
                    sessionReq[r].op = "message" /\ sessionReq'[r] = InSessions!NoRequest]_InSessions!vars
  BY <1>1, PartsStep, SessionsReopened DEF Inv
<1>2. ASSUME Inv, [Next]_vars
      PROVE  [\A t \in Tasks \ doubled :
                (export[t] # Nothing /\ export[t].status = "succeeded")
                  => export'[t] \in {export[t], Nothing}]_InReports!vars
  BY <1>2, PartsStep, ReportsStand DEF Inv
<1>3. ASSUME Inv, [Next]_vars
      PROVE  [\A x \in InTemplates!Existing :
                InTemplates!Published(x) /\ template'[x] # template[x] =>
                  template'[x].status = "disabled"]_InTemplates!vars
  BY <1>3, PartsStep, TemplatesFrozen DEF Inv
<1>4. ASSUME Inv, [Next]_vars
      PROVE  [\A r \in Requests :
                templateReq[r].op = "insert" /\ instance' # instance /\ templateReq'[r] # templateReq[r] =>
                  template[templateReq[r].of].type = templateReq[r].type \/ r \in retyped]_InTemplates!vars
  BY <1>4, PartsStep, TemplatesFrozen DEF Inv
<1>5. ASSUME Inv, [Next]_vars
      PROVE  [applied' # <<>> =>
                \A s \in InConfig!Scopes, k \in ConfigKeys :
                  cache[s][k] # Nothing => cache'[s][k] = cache[s][k]]_InConfig!vars
  BY <1>5, PartsStep, ConfigAnswers DEF Inv
<1>6. Spec => InSessions!ReopenedOnlyByOverlap
  BY <1>1, Invariance, PTL DEF Spec, InSessions!ReopenedOnlyByOverlap
<1>7. Spec => InReports!SuccessStands
  BY <1>2, Invariance, PTL DEF Spec, InReports!SuccessStands
<1>8. Spec => InTemplates!PublishedFrozen /\ InTemplates!MadeForItsType
  BY <1>3, <1>4, Invariance, PTL DEF Spec, InTemplates!PublishedFrozen, InTemplates!MadeForItsType
<1>9. Spec => InConfig!AnswersKept
  BY <1>5, Invariance, PTL DEF Spec, InConfig!AnswersKept
<1> QED
  BY <1>6, <1>7, <1>8, <1>9 DEF StepsAllowed
=============================================================================
