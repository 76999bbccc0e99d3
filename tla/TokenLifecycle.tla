--------------------------- MODULE TokenLifecycle ---------------------------
(***************************************************************************)
(* Tokens of the PostgreSQL backend: issued by a login, revoked in Redis   *)
(* by a logout until they expire, and refused when the user is disabled or *)
(* has other permissions than when the token was issued.                   *)
(*                                                                         *)
(* Time is counted in ticks, Second of them to a second: a token expires   *)
(* at a whole second and is revoked for a whole number of seconds, logins  *)
(* and logouts happen in between.  A request checks the revocation, then   *)
(* waits for the database, then checks the user.                           *)
(***************************************************************************)
EXTENDS Integers, FiniteSets

CONSTANTS
  Users,
  Tokens,           \* identifiers (jti) of tokens
  Requests,
  Second,           \* ticks of a second
  Life,             \* jwt_expire_minutes, in ticks
  MaxTime,          \* bound: ticks
  MaxVersion,       \* bound: permission_version
  Nobody

VARIABLES
  now,
  user,             \* rows of users: permission_version and whether it is active
  token,            \* tokens that have been issued
  revokedUntil,     \* when the revocation of a token expires in Redis, 0 without one
  loggedOut,        \* history: tokens a logout has succeeded for
  req               \* what each request is doing

vars == <<now, user, token, revokedUntil, loggedOut, req>>

(* A token that was issued: its user, with which permissions, its end.     *)
Issued == [user: Users, version: 1..MaxVersion, exp: Nat]

Idle == [at |-> "idle", of |-> Nobody, version |-> 0, late |-> FALSE]

Init ==
  /\ now = 0
  /\ user = [u \in Users |-> [version |-> 1, active |-> TRUE]]
  /\ token = [t \in Tokens |-> Nobody]
  /\ revokedUntil = [t \in Tokens |-> 0]
  /\ loggedOut = {}
  /\ req = [r \in Requests |-> Idle]

Tick ==
  /\ now < MaxTime
  /\ now' = now + 1
  /\ UNCHANGED <<user, token, revokedUntil, loggedOut, req>>

(* An administrator changes the roles of a user or disables him, outside   *)
(* of the program; the version only grows.                                 *)
Administer(u) ==
  /\ \/ user[u].version < MaxVersion /\ user' = [user EXCEPT ![u].version = @ + 1]
     \/ user' = [user EXCEPT ![u].active = ~@]
  /\ UNCHANGED <<now, token, revokedUntil, loggedOut, req>>

WholeSeconds(ticks) == (ticks \div Second) * Second

(* authenticate has found the user; a disabled one is refused.             *)
Authenticate(r, u) ==
  /\ req[r] = Idle
  /\ user[u].active
  /\ req' = [req EXCEPT ![r] = [at |-> "login", of |-> u, version |-> user[u].version, late |-> FALSE]]
  /\ UNCHANGED <<now, user, token, revokedUntil, loggedOut>>

(* _issue_token for the user as he was found.                              *)
Issue(r) ==
  /\ req[r].at = "login"
  /\ \E t \in Tokens :
       /\ token[t] = Nobody
       /\ token' = [token EXCEPT ![t] =
            [user |-> req[r].of, version |-> req[r].version, exp |-> WholeSeconds(now + Life)]]
  /\ req' = [req EXCEPT ![r] = Idle]
  /\ UNCHANGED <<now, user, revokedUntil, loggedOut>>

(* _claims: the token has not expired. *)
Valid(t) == token[t] # Nobody /\ now < token[t].exp

(* is_revoked *)
Revoked(t) == now < revokedUntil[t]

LastSecond(t) == token[t].exp - now < Second

(* The token should be refused: it has been logged out or the permissions  *)
(* of its user have changed.                                               *)
Late(t) ==
  \/ t \in loggedOut /\ ~LastSecond(t)
  \/ user[token[t].user].version # token[t].version

(* get_current_principal up to the wait for the database, for a request    *)
(* that wants the data of its user ("use") or to log out.                  *)
Present(r, t, want) ==
  /\ req[r] = Idle
  /\ Valid(t)
  /\ ~Revoked(t)
  /\ req' = [req EXCEPT ![r] = [at |-> want, of |-> t, version |-> 0, late |-> Late(t)]]
  /\ UNCHANGED <<now, user, token, revokedUntil, loggedOut>>

(* The user is active and has the permissions of the token. *)
Current(t) ==
  /\ user[token[t].user].active
  /\ user[token[t].user].version = token[t].version

(* The principal is returned, to the handler of a request or of a logout.  *)
Accept(r) ==
  /\ req[r].at \in {"use", "leave"}
  /\ Current(req[r].of)
  /\ req' = [req EXCEPT ![r].at = IF @ = "use" THEN "used" ELSE "leaving"]
  /\ UNCHANGED <<now, user, token, revokedUntil, loggedOut>>

(* Mutant: one second less. *)
RemainingShort(t) == WholeSeconds(token[t].exp - now) - Second

(* logout: the whole seconds that are left, and one at least.              *)
Remaining(t) == WholeSeconds(token[t].exp - now)

AtLeast(ticks, least) == IF ticks < least THEN least ELSE ticks

(* logout checks the expiry again and revokes the token.                   *)
Logout(r) ==
  LET t == req[r].of IN
  /\ req[r].at = "leaving"
  /\ Valid(t)
  /\ revokedUntil' = [revokedUntil EXCEPT ![t] = now + AtLeast(Remaining(t), Second)]
  /\ loggedOut' = loggedOut \cup {t}
  /\ req' = [req EXCEPT ![r] = Idle]
  /\ UNCHANGED <<now, user, token>>

(* The request is answered, refused, or fails with Redis or the database.  *)
End(r) ==
  /\ req[r] # Idle
  /\ req' = [req EXCEPT ![r] = Idle]
  /\ UNCHANGED <<now, user, token, revokedUntil, loggedOut>>

Request(r) ==
  \/ \E u \in Users : Authenticate(r, u)
  \/ \E t \in Tokens, want \in {"use", "leave"} : Present(r, t, want)
  \/ Issue(r) \/ Accept(r) \/ Logout(r) \/ End(r)

Next == Tick \/ (\E u \in Users : Administer(u)) \/ \E r \in Requests : Request(r)

Spec == Init /\ [][Next]_vars

(***************************************************************************)
(* Properties.                                                             *)
(***************************************************************************)
TypeOK ==
  /\ now \in 0..MaxTime
  /\ user \in [Users -> [version: 1..MaxVersion, active: BOOLEAN]]
  /\ token \in [Tokens -> Issued \cup {Nobody}]
  /\ revokedUntil \in [Tokens -> Nat]
  /\ loggedOut \subseteq Tokens
  /\ req \in [Requests -> [at: {"idle", "login", "use", "leave", "used", "leaving"},
                           of: Users \cup Tokens \cup {Nobody},
                           version: 0..MaxVersion, late: BOOLEAN]]

(* A token that was logged out is refused until the last second of its     *)
(* life: the revocation lasts whole seconds, and no longer than the token. *)
RevokedToTheEnd ==
  \A t \in loggedOut : Valid(t) /\ ~Revoked(t) => LastSecond(t)

(* No request is accepted whose token had been logged out, or whose user's *)
(* permissions had been changed, before it began; what happens while it    *)
(* waits for the database may go unseen.                                   *)
LateRefused == \A r \in Requests : req[r].at \in {"used", "leaving"} => ~req[r].late
=============================================================================
