---------------------------- MODULE LoginLimiter ----------------------------
(***************************************************************************)
(* The limiter of failed logins: a counter in Redis for every user name    *)
(* and every client address, with a time to live set by its first failure. *)
(*                                                                         *)
(* The API is one process.  A login checks its counters, waits for the     *)
(* database, and then counts a failure or clears the counters; the calls   *)
(* to Redis are synchronous, so that only the wait lets others run.  Each  *)
(* call may fail, and the process may die between two of them.             *)
(***************************************************************************)
EXTENDS Integers, Sequences, FiniteSets

CONSTANTS
  Requests,         \* logins that can be in flight
  Users,            \* keys user:<name>
  Ips,              \* keys ip:<address>
  MaxAttempts       \* auth_rate_limit_max_attempts

ASSUME LimiterAssumption ==
  /\ IsFiniteSet(Requests)
  /\ MaxAttempts \in Nat \ {0}
  /\ Users \cap Ips = {}

VARIABLES
  count,            \* failures counted by Redis, 0 when there is no key
  ttl,              \* the key expires
  keys,             \* limiter_keys of a login that waits for the database
  lost              \* history: a new counter was left without its EXPIRE

vars == <<count, ttl, keys, lost>>

Keys == Users \cup Ips

(* limiter_keys: the user name, and the address if it is known.            *)
LimiterKeys == {<<user>> : user \in Users} \cup {<<user, ip>> : user \in Users, ip \in Ips}

NoLogin == <<>>

Init ==
  /\ count = [k \in Keys |-> 0]
  /\ ttl = [k \in Keys |-> FALSE]
  /\ keys = [r \in Requests |-> NoLogin]
  /\ lost = FALSE

(* is_blocked *)
Blocked(k) == count[k] >= MaxAttempts

(* The first n keys of a login. *)
First(r, n) == {keys[r][j] : j \in 1..n}

KeysOf(r) == First(r, Len(keys[r]))

Waiting(r) == keys[r] # NoLogin

InFlight(k) == {r \in Requests : k \in KeysOf(r)}

Ends(r) == keys' = [keys EXCEPT ![r] = NoLogin]

(* Mutant: the address is not checked. *)
CheckUser(r, ks) ==
  /\ ~Waiting(r)
  /\ ~Blocked(ks[1])
  /\ keys' = [keys EXCEPT ![r] = ks]
  /\ UNCHANGED <<count, ttl, lost>>

(* _ensure_not_limited; a login that is refused changes nothing. *)
Check(r, ks) ==
  /\ ~Waiting(r)
  /\ \A j \in DOMAIN ks : ~Blocked(ks[j])
  /\ keys' = [keys EXCEPT ![r] = ks]
  /\ UNCHANGED <<count, ttl, lost>>

(* Mutant: no EXPIRE. *)
RecordForEver(counted, expiring) ==
  /\ count' = [k \in Keys |-> count[k] + (IF k \in counted THEN 1 ELSE 0)]
  /\ UNCHANGED ttl

(* record_failure: INCR of these keys; EXPIRE of those that are new. *)
Record(counted, expiring) ==
  /\ count' = [k \in Keys |-> count[k] + (IF k \in counted THEN 1 ELSE 0)]
  /\ ttl' = [k \in Keys |-> ttl[k] \/ (k \in expiring /\ count[k] = 0)]

(* _record_login_failure *)
Fail(r) ==
  /\ Waiting(r)
  /\ Record(KeysOf(r), KeysOf(r))
  /\ Ends(r)
  /\ UNCHANGED lost

(* Redis fails, or the process dies, in the course of it: after the INCR   *)
(* or after the EXPIRE of the n-th key.                                    *)
FailPartly(r) ==
  /\ Waiting(r)
  /\ \E n \in 1..Len(keys[r]) : \E m \in {n - 1, n} :
       /\ Record(First(r, n), First(r, m))
       /\ lost' = (lost \/ \E k \in First(r, n) \ First(r, m) : count[k] = 0)
  /\ Ends(r)

(* clear: DEL of these keys. *)
Clear(cleared) ==
  /\ count' = [k \in Keys |-> IF k \in cleared THEN 0 ELSE count[k]]
  /\ ttl' = [k \in Keys |-> ttl[k] /\ k \notin cleared]

(* _clear_limiters, all of it or the first n keys. *)
Succeed(r) ==
  /\ Waiting(r)
  /\ \E n \in 0..Len(keys[r]) : Clear(First(r, n))
  /\ Ends(r)
  /\ UNCHANGED lost

(* The database or the process fails before anything is recorded. *)
Abandon(r) ==
  /\ Waiting(r)
  /\ Ends(r)
  /\ UNCHANGED <<count, ttl, lost>>

(* Redis deletes the key when its time is over. *)
Expire(k) ==
  /\ ttl[k]
  /\ Clear({k})
  /\ UNCHANGED <<keys, lost>>

Login(r) ==
  \/ \E ks \in LimiterKeys : Check(r, ks)
  \/ Fail(r)
  \/ FailPartly(r)
  \/ Succeed(r)
  \/ Abandon(r)

Next == (\E r \in Requests : Login(r)) \/ (\E k \in Keys : Expire(k))

Spec == Init /\ [][Next]_vars

(* Redis expires every key with a time to live. *)
FairSpec == Spec /\ \A k \in Keys : WF_vars(Expire(k))

(***************************************************************************)
(* Properties.                                                             *)
(***************************************************************************)
TypeOK ==
  /\ count \in [Keys -> Nat]
  /\ ttl \in [Keys -> BOOLEAN]
  /\ keys \in [Requests -> LimiterKeys \cup {NoLogin}]
  /\ lost \in BOOLEAN

(* The check is stale when the failure is counted, but the limit is        *)
(* exceeded at most by the logins that were in flight together: each login *)
(* that may still fail is accounted for.                                   *)
AttemptsBounded ==
  \A k \in Keys : count[k] + Cardinality(InFlight(k)) < MaxAttempts + Cardinality(Requests)

(* Unless an EXPIRE has been lost, every counter expires: none counts      *)
(* failures from more than one window.                                     *)
CountersExpire == ~lost => \A k \in Keys : count[k] > 0 => ttl[k]

(* Together: a counter is bounded, and ends unless its EXPIRE was lost.    *)
LimiterInv == TypeOK /\ AttemptsBounded /\ CountersExpire

(* A user or an address that is blocked is let in again, unless the        *)
(* counter was left without its EXPIRE.                                    *)
BlockEnds == \A k \in Keys : Blocked(k) ~> (~Blocked(k) \/ lost)
=============================================================================
