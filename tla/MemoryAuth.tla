----------------------------- MODULE MemoryAuth -----------------------------
(***************************************************************************)
(* The in-memory authentication: accounts, a limiter that counts the       *)
(* failed logins of a sliding window, tokens, their revocation, and the    *)
(* audit events of all that.  No operation waits for anything, so each is  *)
(* a single step.                                                          *)
(*                                                                         *)
(* Time is counted in ticks, Second of them to a second.  A failure that   *)
(* has left the window is never looked at again; the code also drops it    *)
(* from the list when it next looks at its key.                            *)
(***************************************************************************)
EXTENDS Integers, Sequences, FiniteSets

CONSTANTS
  Names,            \* user names that clients try
  Address,          \* an address of clients, as a key of the limiter
  MaxAttempts,      \* auth_rate_limit_max_attempts
  Window,           \* auth_rate_limit_window_seconds, in ticks
  Second, Life,     \* ticks of a second and of jwt_expire_minutes
  MaxTime,          \* bound: ticks
  MaxAudited,       \* bound: audit events
  MaxPermission,    \* bound: permission_version
  Unknown

VARIABLES
  clock,
  account,          \* _users
  failures,         \* _failures: when the failed logins of a key happened
  tokens,           \* tokens that have been issued
  revokedTill,      \* _revoked: when the revocation of each ends, 0 without one
  audited           \* audit_events

vars == <<clock, account, failures, tokens, revokedTill, audited>>

Keys == Names \cup {Address}

Init ==
  /\ clock = 0
  /\ account = [name \in Names |-> Unknown]
  /\ failures = [k \in Keys |-> <<>>]
  /\ tokens = <<>>
  /\ revokedTill = <<>>
  /\ audited = <<>>

(* _active_failures *)
Active(k) == {i \in DOMAIN failures[k] : failures[k][i] > clock - Window}

Tick ==
  /\ clock < MaxTime
  /\ clock' = clock + 1
  /\ UNCHANGED <<account, failures, tokens, revokedTill, audited>>

Register(name) ==
  /\ account[name] = Unknown
  /\ account' = [account EXCEPT ![name] = [version |-> 1, active |-> TRUE]]
  /\ UNCHANGED <<clock, failures, tokens, revokedTill, audited>>

Disable(name) ==
  /\ account[name] # Unknown
  /\ account' = [account EXCEPT ![name].active = FALSE]
  /\ UNCHANGED <<clock, failures, tokens, revokedTill, audited>>

UpdateRoles(name) ==
  /\ account[name] # Unknown /\ account[name].version < MaxPermission
  /\ account' = [account EXCEPT ![name].version = @ + 1]
  /\ UNCHANGED <<clock, failures, tokens, revokedTill, audited>>

(* _record_audit *)
Audit(action, name, keys) ==
  /\ Len(audited) < MaxAudited
  /\ audited' = Append(audited, [action |-> action, name |-> name, keys |-> keys, at |-> clock])

(* The keys of a login, with an address or without. *)
KeysOf(name) == {{name}, {name, Address}}

(* is_blocked *)
Blocked(k) == Cardinality(Active(k)) >= MaxAttempts

CanLogIn(name) == account[name] # Unknown /\ account[name].active

(* record_failure *)
Recorded(k) == Append(failures[k], clock)

(* clear *)
Cleared == <<>>

(* authenticate for an unknown or disabled user, or with a wrong password. *)
LoginFails(name, keys) ==
  /\ \A k \in keys : ~Blocked(k)
  /\ failures' = [k \in Keys |-> IF k \in keys THEN Recorded(k) ELSE failures[k]]
  /\ Audit("login_failure", name, keys)
  /\ UNCHANGED <<clock, account, tokens, revokedTill>>

WholeSeconds(ticks) == (ticks \div Second) * Second

(* authenticate with the right password: the counters of the user and of   *)
(* the address are cleared, and a token is issued.                         *)
LoginSucceeds(name, keys) ==
  /\ \A k \in keys : ~Blocked(k)
  /\ CanLogIn(name)
  /\ failures' = [k \in Keys |-> IF k \in keys THEN Cleared ELSE failures[k]]
  /\ tokens' = Append(tokens, [name |-> name, version |-> account[name].version,
                               exp |-> WholeSeconds(clock + Life)])
  /\ revokedTill' = Append(revokedTill, 0)
  /\ Audit("login_success", name, keys)
  /\ UNCHANGED <<clock, account>>

(* _claims *)
Valid(t) == clock < tokens[t].exp

(* is_revoked *)
Revoked(t) == clock < revokedTill[t]

(* get_current_principal returns the user of the token. *)
Accepted(t) ==
  /\ Valid(t) /\ ~Revoked(t)
  /\ account[tokens[t].name].active
  /\ account[tokens[t].name].version = tokens[t].version

(* logout: for the whole seconds that are left, and one at least.          *)
Logout(t) ==
  LET left == WholeSeconds(tokens[t].exp - clock) IN
  /\ Valid(t)
  /\ revokedTill' = [revokedTill EXCEPT ![t] = clock + (IF left < Second THEN Second ELSE left)]
  /\ Audit("logout", tokens[t].name, {})
  /\ UNCHANGED <<clock, account, failures, tokens>>

Next ==
  \/ Tick
  \/ \E name \in Names :
       \/ Register(name) \/ Disable(name) \/ UpdateRoles(name)
       \/ \E keys \in KeysOf(name) : LoginFails(name, keys) \/ LoginSucceeds(name, keys)
  \/ \E t \in DOMAIN tokens : Logout(t)

Spec == Init /\ [][Next]_vars

(***************************************************************************)
(* Properties.                                                             *)
(***************************************************************************)
TypeOK ==
  /\ clock \in 0..MaxTime
  /\ account \in [Names -> [version: 1..MaxPermission, active: BOOLEAN] \cup {Unknown}]
  /\ \A k \in Keys : Cardinality(Active(k)) <= MaxAttempts
  /\ \A t \in DOMAIN tokens : tokens[t].name \in Names
  /\ Len(revokedTill) = Len(tokens) /\ Len(audited) <= MaxAudited

(* What the audit log says of a key: its failures in the window, but for   *)
(* those before a login that succeeded under it.                           *)
LoggedFailures(k) ==
  {m \in DOMAIN audited :
     /\ audited[m].action = "login_failure" /\ k \in audited[m].keys
     /\ audited[m].at > clock - Window
     /\ \A n \in m..Len(audited) : ~(audited[n].action = "login_success" /\ k \in audited[n].keys)}

(* The limiter counts what the audit log tells, and no more than the limit *)
(* in any window.                                                          *)
AttemptsLimited ==
  \A k \in Keys :
    /\ Cardinality(Active(k)) = Cardinality(LoggedFailures(k))
    /\ Cardinality(LoggedFailures(k)) <= MaxAttempts

(* A token that has been refused is never accepted again - users are not   *)
(* enabled again and permissions keep changing - but for one that was      *)
(* logged out, in the last second of its life.                             *)
RefusedForGood ==
  [][\A t \in DOMAIN tokens :
       ~Accepted(t) /\ Accepted(t)' => tokens[t].exp - clock' < Second]_vars
=============================================================================
