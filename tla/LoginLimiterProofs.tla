------------------------- MODULE LoginLimiterProofs -------------------------
(* Proofs about LoginLimiter, for any number of logins, users and addresses. *)
EXTENDS LoginLimiter, FiniteSetTheorems, TLAPS

Inv == TypeOK /\ AttemptsBounded /\ CountersExpire

LEMMA LimiterKeysTyped ==
  ASSUME NEW ks \in LimiterKeys
  PROVE  ks \in Seq(Keys)
<1>1. ASSUME NEW user \in Users, ks = <<user>>
      PROVE  ks \in Seq(Keys)
  <2>1. user \in Keys
    BY DEF Keys
  <2> QED
    BY <1>1, <2>1
<1>2. ASSUME NEW user \in Users, NEW ip \in Ips, ks = <<user, ip>>
      PROVE  ks \in Seq(Keys)
  <2>1. user \in Keys /\ ip \in Keys
    BY DEF Keys
  <2> QED
    BY <1>2, <2>1
<1> QED
  BY <1>1, <1>2 DEF LimiterKeys

(* The keys of a login are keys, and its first keys are among them.         *)
LEMMA KeysOfLogins ==
  ASSUME TypeOK, NEW r \in Requests
  PROVE  /\ Len(keys[r]) \in Nat
         /\ KeysOf(r) \subseteq Keys
         /\ keys[r] = NoLogin => KeysOf(r) = {}
         /\ \A n \in 0..Len(keys[r]) : First(r, n) \subseteq KeysOf(r)
<1>1. CASE keys[r] = NoLogin
  BY <1>1 DEF KeysOf, First, NoLogin
<1>2. CASE keys[r] # NoLogin
  <2>1. keys[r] \in LimiterKeys
    BY <1>2 DEF TypeOK
  <2>2. keys[r] \in Seq(Keys)
    BY <2>1, LimiterKeysTyped
  <2>3. Len(keys[r]) \in Nat /\ \A j \in 1..Len(keys[r]) : keys[r][j] \in Keys
    BY <2>2
  <2> QED
    BY <1>2, <2>3 DEF KeysOf, First
<1> QED
  BY <1>1, <1>2

LEMMA InFlightFinite ==
  ASSUME NEW k
  PROVE  /\ IsFiniteSet(InFlight(k))
         /\ Cardinality(InFlight(k)) \in Nat
         /\ Cardinality(InFlight(k)) <= Cardinality(Requests)
         /\ Cardinality(Requests) \in Nat
<1>1. InFlight(k) \subseteq Requests
  BY DEF InFlight
<1> QED
  BY <1>1, LimiterAssumption, FS_Subset, FS_CardinalityType

(* When a login ends it is no longer in flight for any of its keys.         *)
LEMMA EndLeaves ==
  ASSUME TypeOK, NEW r \in Requests, Ends(r), NEW k
  PROVE  /\ InFlight(k)' = InFlight(k) \ {r}
         /\ Cardinality(InFlight(k)') =
              Cardinality(InFlight(k)) - (IF k \in KeysOf(r) THEN 1 ELSE 0)
<1>1. /\ \A q \in Requests \ {r} : keys'[q] = keys[q]
      /\ keys'[r] = <<>>
  BY DEF Ends, TypeOK, NoLogin
<1>2. \A q \in Requests \ {r} : KeysOf(q)' = KeysOf(q)
  BY <1>1 DEF KeysOf, First
<1>3. KeysOf(r)' = {}
  BY <1>1 DEF KeysOf, First
<1>4. InFlight(k)' = InFlight(k) \ {r}
  BY <1>2, <1>3 DEF InFlight
<1>5. IsFiniteSet(InFlight(k)) /\ Cardinality(InFlight(k)) \in Nat
  BY InFlightFinite
<1>6. r \in InFlight(k) <=> k \in KeysOf(r)
  BY DEF InFlight
<1>7. Cardinality(InFlight(k) \ {r}) =
        IF r \in InFlight(k) THEN Cardinality(InFlight(k)) - 1 ELSE Cardinality(InFlight(k))
  BY <1>5, FS_RemoveElement
<1> QED
  BY <1>4, <1>5, <1>6, <1>7

LEMMA InitInv == Init => Inv
<1> SUFFICES ASSUME Init PROVE Inv
  OBVIOUS
<1>1. TypeOK
  BY DEF Init, TypeOK
<1>2. \A k \in Keys : InFlight(k) = {}
  BY DEF Init, InFlight, KeysOf, First, NoLogin
<1>3. Cardinality(Requests) \in Nat /\ Cardinality({}) = 0
  BY LimiterAssumption, FS_CardinalityType, FS_EmptySet
<1>4. AttemptsBounded
  BY <1>2, <1>3, LimiterAssumption DEF Init, AttemptsBounded
<1>5. CountersExpire
  BY DEF Init, CountersExpire
<1> QED
  BY <1>1, <1>4, <1>5 DEF Inv

LEMMA CheckPreservesInv ==
  ASSUME Inv, NEW r \in Requests, NEW ks \in LimiterKeys, Check(r, ks)
  PROVE  Inv'
<1>1. /\ \A j \in DOMAIN ks : count[ks[j]] < MaxAttempts
      /\ keys[r] = NoLogin /\ keys' = [keys EXCEPT ![r] = ks]
      /\ UNCHANGED <<count, ttl, lost>>
  <2>1. ks \in Seq(Keys)
    BY LimiterKeysTyped
  <2>2. \A j \in DOMAIN ks : count[ks[j]] \in Nat
    BY <2>1 DEF Inv, TypeOK
  <2> QED
    BY <2>2, LimiterAssumption DEF Check, Blocked, Waiting
<1>2. TypeOK'
  BY <1>1 DEF Inv, TypeOK
<1>3. CountersExpire'
  BY <1>1 DEF Inv, CountersExpire
<1>4. ASSUME NEW k \in Keys
      PROVE  count'[k] + Cardinality(InFlight(k)') < MaxAttempts + Cardinality(Requests)
  <2>1. count[k] \in Nat /\ count'[k] = count[k]
    BY <1>1 DEF Inv, TypeOK
  <2>2. /\ \A q \in Requests \ {r} : keys'[q] = keys[q]
        /\ keys'[r] = ks
    BY <1>1 DEF Inv, TypeOK
  <2>3. \A q \in Requests \ {r} : KeysOf(q)' = KeysOf(q)
    BY <2>2 DEF KeysOf, First
  <2>4. CASE k \in KeysOf(r)'
    <3>1. count[k] < MaxAttempts
      <4>1. PICK j \in 1..Len(ks) : k = ks[j]
        BY <2>2, <2>4 DEF KeysOf, First
      <4>2. j \in DOMAIN ks
        BY <4>1, LimiterKeysTyped
      <4> QED
        BY <1>1, <4>1, <4>2
    <3>2. /\ Cardinality(InFlight(k)') \in Nat /\ Cardinality(Requests) \in Nat
          /\ Cardinality(InFlight(k)') <= Cardinality(Requests)
      <4>1. InFlight(k)' \subseteq Requests
        BY DEF InFlight
      <4> QED
        BY <4>1, LimiterAssumption, FS_Subset, FS_CardinalityType
    <3> QED
      BY <2>1, <3>1, <3>2, LimiterAssumption
  <2>5. CASE k \notin KeysOf(r)'
    <3>1. k \notin KeysOf(r)
      BY <1>1 DEF KeysOf, First, NoLogin
    <3>2. InFlight(k)' = InFlight(k)
      BY <2>3, <2>5, <3>1 DEF InFlight
    <3> QED
      BY <2>1, <3>2 DEF Inv, AttemptsBounded
  <2> QED
    BY <2>4, <2>5
<1> QED
  BY <1>2, <1>3, <1>4 DEF Inv, AttemptsBounded

(* Recording the failure of a login moves it, for every key that is         *)
(* counted, from those in flight to those counted.                          *)
LEMMA RecordPreservesInv ==
  ASSUME Inv, NEW r \in Requests, Ends(r),
         NEW counted, NEW expiring, Record(counted, expiring),
         counted \subseteq KeysOf(r), lost' \in BOOLEAN, lost => lost',
         ~lost' => \A k \in counted \ expiring : count[k] # 0
  PROVE  Inv'
<1>1. \A k \in Keys : /\ count[k] \in Nat
                      /\ count'[k] = count[k] + (IF k \in counted THEN 1 ELSE 0)
  BY DEF Record, Inv, TypeOK
<1>2. \A k \in Keys : ttl[k] \/ (k \in expiring /\ count[k] = 0) => ttl'[k]
  BY Zenon DEF Record
<1>3. TypeOK'
  BY <1>1 DEF Record, Ends, Inv, TypeOK
<1>4. ASSUME NEW k \in Keys
      PROVE  count'[k] + Cardinality(InFlight(k)') < MaxAttempts + Cardinality(Requests)
  <2>1. Cardinality(InFlight(k)') =
          Cardinality(InFlight(k)) - (IF k \in KeysOf(r) THEN 1 ELSE 0)
    BY EndLeaves DEF Inv
  <2>2. count[k] + Cardinality(InFlight(k)) < MaxAttempts + Cardinality(Requests)
    BY DEF Inv, AttemptsBounded
  <2>3. Cardinality(InFlight(k)) \in Nat /\ Cardinality(Requests) \in Nat
    BY InFlightFinite
  <2> QED
    BY <1>1, <2>1, <2>2, <2>3, LimiterAssumption
<1>5. CountersExpire'
  <2> SUFFICES ASSUME ~lost', NEW k \in Keys, count'[k] > 0
               PROVE  ttl'[k]
    BY DEF CountersExpire
  <2>1. CASE count[k] = 0
    <3>1. k \in counted
      BY <1>1, <2>1
    <3> QED
      BY <1>2, <2>1, <3>1
  <2>2. CASE count[k] # 0
    <3>1. ttl[k]
      BY <1>1, <2>2 DEF Inv, CountersExpire
    <3> QED
      BY <1>2, <3>1
  <2> QED
    BY <2>1, <2>2
<1> QED
  BY <1>3, <1>4, <1>5 DEF Inv, AttemptsBounded

(* Deleting counters and ending logins only lowers what is accounted for.   *)
LEMMA ClearPreservesInv ==
  ASSUME Inv, NEW cleared, Clear(cleared), UNCHANGED lost, TypeOK',
         \A k \in Keys : Cardinality(InFlight(k)') <= Cardinality(InFlight(k)),
         \A k \in Keys : Cardinality(InFlight(k)') \in Nat
  PROVE  Inv'
<1>1. \A k \in Keys : /\ count[k] \in Nat
                      /\ count'[k] = IF k \in cleared THEN 0 ELSE count[k]
  BY DEF Clear, Inv, TypeOK
<1>2. \A k \in Keys : ttl[k] /\ k \notin cleared => ttl'[k]
  BY Zenon DEF Clear
<1>3. AttemptsBounded'
  <2> SUFFICES ASSUME NEW k \in Keys
               PROVE  count'[k] + Cardinality(InFlight(k)') < MaxAttempts + Cardinality(Requests)
    BY DEF AttemptsBounded
  <2>1. count[k] + Cardinality(InFlight(k)) < MaxAttempts + Cardinality(Requests)
    BY DEF Inv, AttemptsBounded
  <2>2. Cardinality(InFlight(k)) \in Nat /\ Cardinality(Requests) \in Nat
    BY InFlightFinite
  <2> QED
    BY <1>1, <2>1, <2>2, LimiterAssumption
<1>4. CountersExpire'
  <2> SUFFICES ASSUME ~lost, NEW k \in Keys, count'[k] > 0
               PROVE  ttl'[k]
    BY DEF CountersExpire
  <2>1. k \notin cleared /\ count[k] > 0
    BY <1>1
  <2>2. ttl[k]
    BY <2>1 DEF Inv, CountersExpire
  <2> QED
    BY <1>2, <2>1, <2>2
<1> QED
  BY <1>3, <1>4 DEF Inv

LEMMA NextPreservesInv == Inv /\ [Next]_vars => Inv'
<1> SUFFICES ASSUME Inv, [Next]_vars PROVE Inv'
  OBVIOUS
<1>1. CASE UNCHANGED vars
  <2>1. \A k \in Keys : InFlight(k)' = InFlight(k)
    BY <1>1 DEF vars, InFlight, KeysOf, First
  <2> QED
    BY <1>1, <2>1 DEF vars, Inv, TypeOK, AttemptsBounded, CountersExpire
<1>2. ASSUME NEW r \in Requests, Login(r)
      PROVE  Inv'
  <2>1. CASE \E ks \in LimiterKeys : Check(r, ks)
    BY <2>1, CheckPreservesInv
  <2>2. CASE Fail(r)
    BY <2>2, RecordPreservesInv DEF Fail, Inv, TypeOK
  <2>3. CASE FailPartly(r)
    <3>0. PICK n \in 1..Len(keys[r]) : \E m \in {n - 1, n} :
            /\ Record(First(r, n), First(r, m))
            /\ lost' = (lost \/ \E k \in First(r, n) \ First(r, m) : count[k] = 0)
      BY <2>3 DEF FailPartly
    <3>1. PICK m \in {n - 1, n} :
            /\ Record(First(r, n), First(r, m))
            /\ lost' = (lost \/ \E k \in First(r, n) \ First(r, m) : count[k] = 0)
      BY <3>0
    <3>2. First(r, n) \subseteq KeysOf(r)
      BY KeysOfLogins DEF Inv
    <3>3. /\ lost' \in BOOLEAN /\ (lost => lost')
          /\ ~lost' => \A k \in First(r, n) \ First(r, m) : count[k] # 0
      BY <3>1
    <3>4. Ends(r)
      BY <2>3 DEF FailPartly
    <3> QED
      BY <3>1, <3>2, <3>3, <3>4, RecordPreservesInv
  <2>4. CASE Succeed(r) \/ Abandon(r)
    <3>1. Ends(r) /\ lost' = lost
      BY <2>4 DEF Succeed, Abandon
    <3>2. PICK cleared : Clear(cleared)
      <4>1. CASE Abandon(r)
        <5>1. Clear({})
          BY <4>1 DEF Abandon, Clear, Inv, TypeOK
        <5> QED
          BY <5>1
      <4> QED
        BY <2>4, <4>1 DEF Succeed
    <3>3. TypeOK'
      BY <3>1, <3>2 DEF Ends, Clear, Inv, TypeOK
    <3>4. ASSUME NEW k \in Keys
          PROVE  /\ Cardinality(InFlight(k)') <= Cardinality(InFlight(k))
                 /\ Cardinality(InFlight(k)') \in Nat
      <4>1. Cardinality(InFlight(k)') =
              Cardinality(InFlight(k)) - (IF k \in KeysOf(r) THEN 1 ELSE 0)
        BY <3>1, EndLeaves DEF Inv
      <4>2. Cardinality(InFlight(k)) \in Nat /\ IsFiniteSet(InFlight(k))
        BY InFlightFinite
      <4>3. InFlight(k)' \subseteq InFlight(k)
        BY <3>1, EndLeaves DEF Inv
      <4>4. Cardinality(InFlight(k)') \in Nat
        BY <4>2, <4>3, FS_Subset, FS_CardinalityType
      <4> QED
        BY <4>1, <4>2, <4>4
    <3> QED
      BY <3>1, <3>2, <3>3, <3>4, ClearPreservesInv
  <2> QED
    BY <1>2, <2>1, <2>2, <2>3, <2>4 DEF Login
<1>3. ASSUME NEW c \in Keys, Expire(c)
      PROVE  Inv'
  <2>1. Clear({c}) /\ keys' = keys /\ lost' = lost
    BY <1>3 DEF Expire
  <2>2. TypeOK'
    BY <2>1 DEF Clear, Inv, TypeOK
  <2>3. \A k \in Keys : InFlight(k)' = InFlight(k)
    BY <2>1 DEF InFlight, KeysOf, First
  <2>4. \A k \in Keys : Cardinality(InFlight(k)) \in Nat
    BY InFlightFinite
  <2>5. \A k \in Keys : /\ Cardinality(InFlight(k)') <= Cardinality(InFlight(k))
                        /\ Cardinality(InFlight(k)') \in Nat
    BY <2>3, <2>4
  <2> QED
    BY <2>1, <2>2, <2>5, ClearPreservesInv
<1> QED
  BY <1>1, <1>2, <1>3 DEF Next

LEMMA Invariance == Spec => []Inv
BY InitInv, NextPreservesInv, PTL DEF Spec

(* Counters are natural numbers, and logins wait with keys of their own.    *)
THEOREM TypeCorrect == Spec => []TypeOK
<1>1. Inv => TypeOK
  BY DEF Inv
<1> QED
  BY <1>1, Invariance, PTL

(* However logins interleave between their check and their result, a        *)
(* counter exceeds the limit by less than the number of logins in flight.   *)
THEOREM LimitHolds == Spec => []AttemptsBounded
<1>1. Inv => AttemptsBounded
  BY DEF Inv
<1> QED
  BY <1>1, Invariance, PTL

(* A counter without an end is only left by a failure of Redis or of the    *)
(* process between INCR and EXPIRE.                                         *)
THEOREM CountersEnd == Spec => []CountersExpire
<1>1. Inv => CountersExpire
  BY DEF Inv
<1> QED
  BY <1>1, Invariance, PTL

(* The limiter holds as far as its checks reach, and its counters end.      *)
THEOREM LimiterSound == Spec => []LimiterInv
BY TypeCorrect, LimitHolds, CountersEnd, PTL DEF LimiterInv
=============================================================================
