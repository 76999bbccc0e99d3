----------------------- MODULE EngineServicesProofs -----------------------
EXTENDS EngineServices, FiniteSetTheorems, SequenceTheorems, WellFoundedInduction, TLAPS

(* The parts count with the same operator as this module.                   *)
LEMMA CardinalitiesAgree ==
  ASSUME NEW S
  PROVE  /\ InSequence!Cardinality(S) = Cardinality(S)
         /\ InAnalyses!Cardinality(S) = Cardinality(S)
         /\ InOcr!Cardinality(S) = Cardinality(S)
         /\ InFiles!Cardinality(S) = Cardinality(S)
         /\ InAuth!Cardinality(S) = Cardinality(S)
         /\ InCalls!Cardinality(S) = Cardinality(S)
         /\ InLists!Cardinality(S) = Cardinality(S)
         /\ InRetrieval!Cardinality(S) = Cardinality(S)
BY DEF InSequence!Cardinality, InAnalyses!Cardinality, InOcr!Cardinality, InFiles!Cardinality,
       InAuth!Cardinality, InCalls!Cardinality, InLists!Cardinality, InRetrieval!Cardinality,
       Cardinality

(***************************************************************************)
(* What several parts need: induction over a set of numbers, places in an  *)
(* order, and sums.                                                        *)
(***************************************************************************)
(* Numbers that include the first and with each one the next.               *)
LEMMA Induction ==
  ASSUME NEW N \in Nat, NEW S, 0 \in S, \A n \in 0..N : n < N /\ n \in S => n + 1 \in S
  PROVE  \A n \in 0..N : n \in S
<1> DEFINE T == {n \in 0..N : n \notin S}
           R == OpToRel(<, Nat)
<1>1. IsWellFoundedOn(R, Nat)
  BY NatLessThanWellFounded
<1>2. \A m, n \in Nat : <<n, m>> \in R <=> n < m
  BY DEF OpToRel
<1>3. T \subseteq Nat /\ \A n \in T : n \in 0..N /\ n \notin S
  OBVIOUS
<1>4. \A n \in 0..N : n \notin T => n \in S
  OBVIOUS
<1> HIDE DEF R, T
<1>5. ASSUME T # {} PROVE FALSE
  <2>1. \E m \in T : \A n \in T : ~(<<n, m>> \in R)
    BY <1>1, <1>3, <1>5, WFMin
  <2>2. PICK m \in T : \A n \in T : ~(<<n, m>> \in R)
    BY <2>1
  <2>3. m \in 0..N /\ m \notin S /\ m \in Nat
    BY <1>3
  <2>4. m # 0 /\ m - 1 \in 0..N /\ m - 1 < N /\ (m - 1) + 1 = m
    BY <2>3
  <2>5. m - 1 \in Nat /\ m - 1 < m
    BY <2>3, <2>4
  <2>6. m - 1 \notin S
    BY <2>3, <2>4
  <2>7. m - 1 \in T
    BY <1>4, <2>4, <2>6
  <2>8. <<m - 1, m>> \in R
    BY <1>2, <2>3, <2>5
  <2> QED
    BY <2>2, <2>7, <2>8
<1> QED
  BY <1>4, <1>5

(* Whoever is in an order, with the set of those before and himself, has a  *)
(* place of his own, and there is nobody between two places.                *)
LEMMA OrderPlaces ==
  ASSUME NEW D, IsFiniteSet(D), NEW A \in [D -> SUBSET D],
         \A m \in D : m \in A[m],
         \A k, m \in D : k # m => \/ A[k] \subseteq A[m] /\ m \notin A[k]
                                  \/ A[m] \subseteq A[k] /\ k \notin A[m]
  PROVE  /\ Cardinality(D) \in Nat
         /\ \A m \in D : Cardinality(A[m]) \in 1..Cardinality(D)
         /\ \A k, m \in D : Cardinality(A[k]) = Cardinality(A[m]) => k = m
         /\ \A k, m \in D : k \in A[m] => Cardinality(A[k]) <= Cardinality(A[m])
         /\ \A n \in 1..Cardinality(D) : \E m \in D : Cardinality(A[m]) = n
<1>1. Cardinality(D) \in Nat
  BY FS_CardinalityType
<1>2. ASSUME NEW m \in D
      PROVE  /\ IsFiniteSet(A[m]) /\ Cardinality(A[m]) \in Nat
             /\ Cardinality(A[m]) \in 1..Cardinality(D)
  <2>1. A[m] \in SUBSET D /\ m \in A[m]
    OBVIOUS
  <2>2. IsFiniteSet(A[m]) /\ Cardinality(A[m]) <= Cardinality(D)
    BY <2>1, FS_Subset
  <2>3. Cardinality(A[m]) \in Nat /\ Cardinality(A[m]) # 0
    BY <2>1, <2>2, FS_CardinalityType, FS_EmptySet
  <2> QED
    BY <1>1, <2>2, <2>3
<1>3. ASSUME NEW k \in D, NEW m \in D, A[k] \subseteq A[m]
      PROVE  /\ Cardinality(A[k]) <= Cardinality(A[m])
             /\ m \notin A[k] => Cardinality(A[k]) # Cardinality(A[m])
  <2>1. A[k] \in SUBSET A[m] /\ IsFiniteSet(A[m])
    BY <1>2, <1>3
  <2>2. Cardinality(A[k]) <= Cardinality(A[m]) /\ (Cardinality(A[m]) = Cardinality(A[k]) => A[m] = A[k])
    BY <2>1, FS_Subset
  <2> QED
    BY <2>2
<1>4. \A k, m \in D : Cardinality(A[k]) = Cardinality(A[m]) => k = m
  BY <1>3
<1>5. \A k, m \in D : k \in A[m] => Cardinality(A[k]) <= Cardinality(A[m])
  <2> SUFFICES ASSUME NEW k \in D, NEW m \in D, k \in A[m]
               PROVE  Cardinality(A[k]) <= Cardinality(A[m])
    OBVIOUS
  <2>1. A[k] \subseteq A[m]
    OBVIOUS
  <2> QED
    BY <1>3, <2>1
<1>6. \A n \in 1..Cardinality(D) : \E m \in D : Cardinality(A[m]) = n
  <2> DEFINE f == [m \in D |-> Cardinality(A[m])]
             T == 1..Cardinality(D)
  <2>1. f \in [D -> T] /\ (\A k, m \in D : f[k] = f[m] => k = m)
    BY <1>2, <1>4
  <2>2. IsFiniteSet(T) /\ Cardinality(T) = Cardinality(D)
    BY <1>1, FS_Interval
  <2>3. \A n \in T : (\E m \in D : f[m] = n) => \E m \in D : Cardinality(A[m]) = n
    OBVIOUS
  <2> HIDE DEF f, T
  <2>4. f \in Injection(D, T)
    BY <2>1 DEF Injection, IsInjective
  <2>5. f \in Surjection(D, T)
    BY <2>2, <2>4, FS_Injection
  <2>6. \A n \in T : \E m \in D : f[m] = n
    BY <2>5 DEF Surjection
  <2> QED
    BY <2>3, <2>6 DEF T
<1> QED
  BY <1>1, <1>2, <1>4, <1>5, <1>6

(* The sums of the first numbers of a sequence, and the last of them.       *)
SumOf(s, f) == f = [n \in 0..Len(s) |-> IF n = 0 THEN 0 ELSE f[n - 1] + s[n]]
Sum(s) == (CHOOSE f : SumOf(s, f))[Len(s)]

(* Sums are told by their steps.                                            *)
LEMMA SumIs ==
  ASSUME NEW s \in Seq(Int), NEW g \in [0..Len(s) -> Int], g[0] = 0,
         \A n \in 1..Len(s) : g[n] = g[n - 1] + s[n]
  PROVE  Sum(s) = g[Len(s)]
<1> DEFINE f == CHOOSE h : SumOf(s, h)
           N == Len(s)
<1>1. N \in Nat
  BY LenProperties
<1>2. g = [n \in 0..N |-> IF n = 0 THEN 0 ELSE g[n - 1] + s[n]]
  <2>1. \A n \in 0..N : n # 0 => n \in 1..N
    BY <1>1
  <2>2. \A n \in 0..N : g[n] = IF n = 0 THEN 0 ELSE g[n - 1] + s[n]
    BY <2>1
  <2> QED
    BY <2>2
<1>3. SumOf(s, f)
  BY <1>2 DEF SumOf
<1> HIDE DEF f
<1>4. /\ f[0] = 0
      /\ \A n \in 1..N : f[n] = f[n - 1] + s[n]
  BY <1>1, <1>3 DEF SumOf
<1> DEFINE S == {n \in 0..N : f[n] = g[n]}
<1>5. 0 \in S
  BY <1>1, <1>4
<1>6. ASSUME NEW n \in 0..N, n < N, n \in S PROVE n + 1 \in S
  <2>1. n + 1 \in 1..N /\ n + 1 \in 0..N /\ (n + 1) - 1 = n
    BY <1>1, <1>6
  <2>2. f[n + 1] = f[n] + s[n + 1] /\ g[n + 1] = g[n] + s[n + 1]
    BY <1>4, <2>1
  <2> QED
    BY <1>6, <2>1, <2>2
<1>7. N \in 0..N
  BY <1>1
<1> HIDE DEF S
<1>8. N \in S
  BY <1>1, <1>5, <1>6, <1>7, Induction
<1>9. f[N] = g[N]
  BY <1>8 DEF S
<1> QED
  BY <1>9 DEF Sum, f

(* Every sequence has its sums.                                             *)
LEMMA SumExists ==
  ASSUME NEW s \in Seq(Int)
  PROVE  /\ Sum(s) \in Int
         /\ \E g \in [0..Len(s) -> Int] :
              g[0] = 0 /\ Sum(s) = g[Len(s)] /\ \A n \in 1..Len(s) : g[n] = g[n - 1] + s[n]
<1> DEFINE N == Len(s)
           Sums(m, g) == g[0] = 0 /\ \A n \in 1..m : g[n] = g[n - 1] + s[n]
           S == {m \in 0..N : \E g \in [0..m -> Int] : Sums(m, g)}
<1>1. N \in Nat /\ \A n \in 1..N : s[n] \in Int
  BY LenProperties, ElementOfSeq
<1>2. 0 \in S
  <2> DEFINE z == [n \in 0..0 |-> 0]
  <2>1. z \in [0..0 -> Int] /\ z[0] = 0 /\ 0 \in 0..N
    BY <1>1
  <2>2. Sums(0, z)
    BY <2>1
  <2> HIDE DEF z, Sums
  <2> QED
    BY <2>1, <2>2
<1>3. ASSUME NEW m \in 0..N, m < N, m \in S PROVE m + 1 \in S
  <2>1. m + 1 \in 0..N /\ m + 1 \in 1..N /\ m \in Nat /\ s[m + 1] \in Int
    BY <1>1, <1>3
  <2>2. PICK g \in [0..m -> Int] : Sums(m, g)
    BY <1>3
  <2> DEFINE h == [n \in 0..m + 1 |-> IF n = m + 1 THEN g[m] + s[m + 1] ELSE g[n]]
  <2>3. h \in [0..m + 1 -> Int]
    <3>1. ASSUME NEW n \in 0..m + 1, n # m + 1 PROVE n \in 0..m
      BY <2>1, <3>1
    <3>2. g[m] + s[m + 1] \in Int
      BY <2>1
    <3> QED
      BY <3>1, <3>2
  <2>4. h[0] = 0
    BY <2>1, <2>2
  <2>5. ASSUME NEW n \in 1..m + 1 PROVE h[n] = h[n - 1] + s[n]
    <3>1. n \in 0..m + 1 /\ n - 1 \in 0..m + 1 /\ n - 1 # m + 1 /\ n - 1 \in 0..m
      BY <2>1
    <3>2. CASE n = m + 1
      BY <2>1, <3>1, <3>2
    <3>3. CASE n # m + 1
      <4>1. n \in 1..m
        BY <2>1, <3>3
      <4> QED
        BY <2>2, <3>1, <3>3, <4>1
    <3> QED
      BY <3>2, <3>3
  <2>6. Sums(m + 1, h)
    BY <2>4, <2>5
  <2> HIDE DEF h, Sums
  <2> QED
    BY <2>1, <2>3, <2>6
<1>4. N \in 0..N
  BY <1>1
<1>5. N \in S
  <2> HIDE DEF S
  <2> QED
    BY <1>1, <1>2, <1>3, <1>4, Induction
<1>6. PICK g \in [0..N -> Int] : Sums(N, g)
  BY <1>5
<1>7. Sum(s) = g[N]
  BY <1>6, SumIs
<1> QED
  BY <1>1, <1>4, <1>6, <1>7

(* Numbers of at least one sum up to at least how many they are.            *)
LEMMA SumPositive ==
  ASSUME NEW s \in Seq(Int), \A n \in 1..Len(s) : s[n] >= 1
  PROVE  Sum(s) >= Len(s) /\ Len(s) \in Nat
<1> DEFINE N == Len(s)
<1>1. N \in Nat /\ N \in 0..N /\ \A n \in 1..N : s[n] \in Int
  BY LenProperties, ElementOfSeq
<1>2. PICK g \in [0..N -> Int] : g[0] = 0 /\ Sum(s) = g[N] /\ \A n \in 1..N : g[n] = g[n - 1] + s[n]
  BY SumExists
<1> DEFINE S == {n \in 0..N : g[n] >= n}
<1>3. 0 \in S
  BY <1>1, <1>2
<1>4. ASSUME NEW n \in 0..N, n < N, n \in S PROVE n + 1 \in S
  <2>1. n + 1 \in 1..N /\ n + 1 \in 0..N /\ (n + 1) - 1 = n /\ g[n] \in Int /\ g[n] >= n
    BY <1>1, <1>4
  <2>2. g[n + 1] = g[n] + s[n + 1] /\ s[n + 1] \in Int /\ s[n + 1] >= 1
    BY <1>1, <1>2, <2>1
  <2> QED
    BY <2>1, <2>2
<1>5. N \in S
  <2> HIDE DEF S
  <2> QED
    BY <1>1, <1>3, <1>4, Induction
<1> QED
  BY <1>1, <1>2, <1>5

(* The sum of one sequence after another.                                   *)
LEMMA SumOfBoth ==
  ASSUME NEW s \in Seq(Int), NEW t \in Seq(Int)
  PROVE  s \o t \in Seq(Int) /\ Sum(s \o t) = Sum(s) + Sum(t)
<1> DEFINE M == Len(s)
           N == Len(t)
           u == s \o t
<1>1. /\ M \in Nat /\ N \in Nat /\ u \in Seq(Int) /\ Len(u) = M + N
      /\ \A n \in 1..M : u[n] = s[n]
      /\ \A n \in M + 1..M + N : u[n] = t[n - M]
  <2>1. M \in Nat /\ N \in Nat
    BY LenProperties
  <2>2. u \in Seq(Int) /\ Len(u) = M + N
    BY ConcatProperties
  <2>3. \A n \in 1..M + N : u[n] = IF n <= M THEN s[n] ELSE t[n - M]
    BY ConcatProperties
  <2> QED
    BY <2>1, <2>2, <2>3
<1>2. PICK f \in [0..M -> Int] : f[0] = 0 /\ Sum(s) = f[M] /\ \A n \in 1..M : f[n] = f[n - 1] + s[n]
  BY SumExists
<1>3. PICK g \in [0..N -> Int] : g[0] = 0 /\ Sum(t) = g[N] /\ \A n \in 1..N : g[n] = g[n - 1] + t[n]
  BY SumExists
<1> HIDE DEF M, N, u
<1> DEFINE h == [n \in 0..M + N |-> IF n <= M THEN f[n] ELSE f[M] + g[n - M]]
<1>4. h \in [0..M + N -> Int]
  <2>1. ASSUME NEW n \in 0..M + N
        PROVE  (n <= M => f[n] \in Int) /\ (~(n <= M) => f[M] + g[n - M] \in Int)
    <3>1. n <= M => n \in 0..M
      BY <1>1
    <3>2. ~(n <= M) => n - M \in 0..N
      BY <1>1
    <3>3. f[M] \in Int
      BY <1>1
    <3>4. n <= M => f[n] \in Int
      BY <3>1
    <3>5. ASSUME ~(n <= M) PROVE f[M] + g[n - M] \in Int
      <4>1. g[n - M] \in Int
        BY <3>2, <3>5
      <4> QED
        BY <3>3, <4>1
    <3> QED
      BY <3>4, <3>5
  <2> QED
    BY <2>1
<1>5. h[0] = 0
  BY <1>1, <1>2
<1>6. ASSUME NEW n \in 1..M + N PROVE h[n] = h[n - 1] + u[n]
  <2>1. n \in 0..M + N /\ n - 1 \in 0..M + N /\ n \in Int
    BY <1>1
  <2>2. CASE n <= M
    <3>1. n \in 1..M /\ n - 1 <= M
      BY <1>1, <2>1, <2>2
    <3>2. u[n] = s[n] /\ f[n] = f[n - 1] + s[n]
      BY <1>1, <1>2, <3>1
    <3> QED
      BY <2>1, <2>2, <3>1, <3>2
  <2>3. CASE n = M + 1
    <3>1. 1 \in 1..N /\ n \in M + 1..M + N /\ n - M = 1 /\ n - 1 = M /\ ~(n <= M) /\ n - 1 <= M
      BY <1>1, <2>1, <2>3
    <3>2. u[n] = t[1] /\ g[1] = g[0] + t[1] /\ g[0] = 0 /\ t[1] \in Int
      <4>1. u[n] = t[n - M]
        BY <1>1, <3>1
      <4>2. g[1] = g[1 - 1] + t[1]
        BY <1>3, <3>1
      <4>3. t[1] \in Int
        BY <3>1, ElementOfSeq DEF N
      <4> QED
        BY <1>3, <3>1, <4>1, <4>2, <4>3
    <3>3. h[n] = f[M] + g[1] /\ h[n - 1] = f[M]
      BY <2>1, <3>1
    <3>4. g[1] = t[1]
      BY <3>2
    <3> QED
      BY <3>2, <3>3, <3>4
  <2>4. CASE n > M + 1
    <3>1. /\ n - M \in 1..N /\ n \in M + 1..M + N /\ ~(n <= M) /\ ~(n - 1 <= M)
          /\ (n - M) - 1 = (n - 1) - M /\ n - M \in 0..N /\ (n - M) - 1 \in 0..N /\ M \in 0..M
      <4>1. n \in Int /\ n <= M + N /\ n > M + 1 /\ M \in Nat /\ N \in Nat
        BY <1>1, <2>1, <2>4
      <4>2. n - M \in 1..N /\ n - M \in 0..N /\ (n - M) - 1 \in 0..N
        BY <4>1
      <4>3. n \in M + 1..M + N /\ ~(n <= M) /\ ~(n - 1 <= M) /\ M \in 0..M
        BY <4>1
      <4>4. (n - M) - 1 = (n - 1) - M
        BY <4>1
      <4> QED
        BY <4>2, <4>3, <4>4
    <3>2. u[n] = t[n - M] /\ g[n - M] = g[(n - M) - 1] + t[n - M]
      BY <1>1, <1>3, <3>1
    <3>3. h[n] = f[M] + g[n - M] /\ h[n - 1] = f[M] + g[(n - M) - 1]
      BY <2>1, <3>1
    <3>4. f[M] \in Int /\ g[(n - M) - 1] \in Int /\ t[n - M] \in Int
      BY <3>1, ElementOfSeq DEF N
    <3> QED
      BY <3>2, <3>3, <3>4
  <2> QED
    BY <1>1, <2>1, <2>2, <2>3, <2>4
<1>7. Sum(u) = h[M + N]
  <2> HIDE DEF h
  <2> QED
    BY <1>1, <1>4, <1>5, <1>6, SumIs
<1>8. h[M + N] = f[M] + g[N]
  <2>1. CASE N = 0
    BY <1>1, <1>3, <2>1
  <2>2. CASE N # 0
    <3>1. M + N \in 0..M + N /\ ~(M + N <= M) /\ (M + N) - M = N
      BY <1>1, <2>2
    <3> QED
      BY <3>1
  <2> QED
    BY <2>1, <2>2
<1> QED
  BY <1>1, <1>2, <1>3, <1>7, <1>8 DEF u

(***************************************************************************)
(* Approvals of the in-memory service.                                     *)
(***************************************************************************)
(* The records of the first k nodes in the round that runs are the last k,  *)
(* and every one approves.                                                  *)
SequenceRecords ==
  [node: 1..Nodes, actor: Approvers, decision: InSequence!Decisions, round: 1..MaxRounds]

SequenceTail(k) ==
  /\ Len(decisions) >= k
  /\ \A j \in 1..k : decisions[Len(decisions) - k + j] =
                       [node |-> j, actor |-> approver[j], decision |-> "approve", round |-> round]

Responded(n) == {k \in ApprovalKeys : response[n][k] # Nothing}
RecordsOf(n) == {i \in 1..Len(decisions) : decisions[i].node = n}

SequenceInv ==
  /\ InSequence!TypeOK /\ decisions \in Seq(SequenceRecords)
  /\ outcome # "pending" => nodeStatus[index] # "pending"
  /\ outcome = "pending" => SequenceTail(index - 1)
  /\ outcome = "approved" => SequenceTail(Nodes)
  /\ \A n \in 1..Nodes : /\ IsFiniteSet(Responded(n)) /\ IsFiniteSet(RecordsOf(n))
                         /\ Cardinality(Responded(n)) = Cardinality(RecordsOf(n))

(* The invariant of an approval holds at the start.                         *)
LEMMA SequenceInit == InSequence!Init => SequenceInv
<1> SUFFICES ASSUME InSequence!Init PROVE SequenceInv
  OBVIOUS
<1> USE SequenceAssumption
<1>1. InSequence!TypeOK
  BY DEF InSequence!Init, InSequence!TypeOK, InSequence!TaskStatuses
<1>2. decisions \in Seq(SequenceRecords) /\ Len(decisions) = 0
  BY DEF InSequence!Init
<1>3. SequenceTail(index - 1)
  BY <1>2 DEF InSequence!Init, SequenceTail
<1>4. ASSUME NEW n \in 1..Nodes PROVE Responded(n) = {} /\ RecordsOf(n) = {}
  BY <1>2 DEF InSequence!Init, Responded, RecordsOf
<1> QED
  BY <1>1, <1>2, <1>3, <1>4, FS_EmptySet DEF InSequence!Init, SequenceInv

(* Every step of an approval keeps its invariant.                           *)
LEMMA SequenceNext == SequenceInv /\ [InSequence!Next]_InSequence!vars => SequenceInv'
<1> SUFFICES ASSUME SequenceInv, [InSequence!Next]_InSequence!vars PROVE SequenceInv'
  OBVIOUS
<1> USE SequenceAssumption
<1>1. ASSUME NEW n \in 1..Nodes, NEW actor \in Approvers, NEW decision \in InSequence!Decisions,
             NEW key \in ApprovalKeys, InSequence!Decide(n, actor, decision, key)
      PROVE  SequenceInv'
  <2> DEFINE last == n = Nodes
             rec == [node |-> n, actor |-> actor, decision |-> decision, round |-> round]
             res == [decision |-> decision, status |-> InSequence!NextStatus(decision, last)]
             L == Len(decisions)
  <2>1. /\ index = n /\ approver[n] = actor /\ nodeStatus[n] = "pending"
        /\ response[n][key] = Nothing
        /\ decisions' = Append(decisions, rec) /\ response' = [response EXCEPT ![n][key] = res]
        /\ approver' = approver /\ round' = round
    BY <1>1 DEF InSequence!Decide, InSequence!MayDecide, InSequence!Undecided, InSequence!Fresh
  <2>2. outcome = "pending" /\ SequenceTail(n - 1)
    BY <2>1 DEF SequenceInv
  <2>3. rec \in SequenceRecords
    BY DEF SequenceInv, InSequence!TypeOK, SequenceRecords
  <2>4. /\ res \in [decision: InSequence!Decisions, status: {"pending_approval", "approved", "returned", "rejected"}]
        /\ InSequence!NextStatus(decision, last) \in {"pending_approval", "approved", "returned", "rejected"}
    BY DEF InSequence!NextStatus
  <2> HIDE DEF rec, res
  <2>5. /\ decisions' \in Seq(SequenceRecords) /\ Len(decisions') = L + 1 /\ L \in Nat
        /\ decisions'[L + 1] = rec
        /\ \A i \in 1..L : decisions'[i] = decisions[i]
    BY <2>1, <2>3, AppendProperties DEF SequenceInv
  <2>6. /\ response'[n][key] = res
        /\ \A m \in 1..Nodes, k \in ApprovalKeys :
             m # n \/ k # key => response'[m][k] = response[m][k]
        /\ response' \in [1..Nodes -> [ApprovalKeys ->
             [decision: InSequence!Decisions, status: {"pending_approval", "approved", "returned", "rejected"}]
               \cup {Nothing}]]
    BY <2>1, <2>4 DEF SequenceInv, InSequence!TypeOK
  <2>7. InSequence!TypeOK' /\ (outcome' # "pending" => nodeStatus'[index'] # "pending")
        /\ (decision = "approve" /\ ~last => outcome' = "pending" /\ index' = n + 1)
        /\ (decision = "approve" /\ last => outcome' = "approved")
        /\ (decision # "approve" => outcome' \in {"returned", "rejected"})
    <3>1. CASE decision = "approve" /\ last
      <4>1. /\ nodeStatus' = [m \in 1..Nodes |-> IF m = n THEN "approved" ELSE IF m = n + 1 THEN "pending" ELSE nodeStatus[m]]
            /\ index' = index /\ outcome' = "approved"
        BY <1>1, <3>1 DEF InSequence!Decide
      <4> QED
        BY <4>1, <3>1, <2>1, <2>6 DEF SequenceInv, InSequence!TypeOK, InSequence!TaskStatuses
    <3>2. CASE decision = "approve" /\ ~last
      <4>1. /\ nodeStatus' = [m \in 1..Nodes |-> IF m = n THEN "approved" ELSE IF m = n + 1 THEN "pending" ELSE nodeStatus[m]]
            /\ index' = n + 1 /\ outcome' = outcome
        BY <1>1, <3>2, <2>1 DEF InSequence!Decide
      <4> QED
        BY <4>1, <3>2, <2>1, <2>2, <2>6 DEF SequenceInv, InSequence!TypeOK, InSequence!TaskStatuses
    <3>3. CASE decision # "approve"
      <4>1. /\ nodeStatus' = [nodeStatus EXCEPT ![n] = InSequence!NextStatus(decision, last)]
            /\ outcome' = InSequence!NextStatus(decision, last) /\ index' = index
        BY <1>1, <3>3 DEF InSequence!Decide
      <4>2. InSequence!NextStatus(decision, last) \in {"returned", "rejected"}
        BY <3>3 DEF InSequence!NextStatus, InSequence!Decisions
      <4> QED
        BY <4>1, <4>2, <3>3, <2>1, <2>6 DEF SequenceInv, InSequence!TypeOK, InSequence!TaskStatuses
    <3> QED
      BY <3>1, <3>2, <3>3
  <2>8. decision = "approve" => SequenceTail(n)'
    <3> SUFFICES ASSUME decision = "approve" PROVE SequenceTail(n)'
      OBVIOUS
    <3>1. L >= n - 1 /\ \A i \in 1..n - 1 : decisions[L - (n - 1) + i] =
            [node |-> i, actor |-> approver[i], decision |-> "approve", round |-> round]
      BY <2>2 DEF SequenceTail
    <3>2. ASSUME NEW j \in 1..n
          PROVE  decisions'[L + 1 - n + j] =
                   [node |-> j, actor |-> approver[j], decision |-> "approve", round |-> round]
      <4>1. CASE j = n
        BY <3>1, <4>1, <2>1, <2>5 DEF rec
      <4>2. CASE j # n
        <5>1. j \in 1..n - 1 /\ L + 1 - n + j = L - (n - 1) + j /\ L - (n - 1) + j \in 1..L
          BY <3>1, <4>2, <2>5
        <5> QED
          BY <5>1, <3>1, <2>5
      <4> QED
        BY <4>1, <4>2
    <3>3. L + 1 >= n
      BY <3>1, <2>5
    <3>4. Len(decisions') = L + 1 /\ approver' = approver /\ round' = round
      BY <2>1, <2>5
    <3>5. \A j \in 1..n : decisions'[Len(decisions') - n + j] =
                         [node |-> j, actor |-> approver'[j], decision |-> "approve", round |-> round']
      BY <3>2, <3>4
    <3> HIDE DEF L
    <3> QED
      BY <3>3, <3>4, <3>5 DEF SequenceTail
  <2>9. ASSUME NEW m \in 1..Nodes
        PROVE  /\ IsFiniteSet(Responded(m)') /\ IsFiniteSet(RecordsOf(m)')
               /\ Cardinality(Responded(m)') = Cardinality(RecordsOf(m)')
    <3>1. CASE m = n
      <4>1. Responded(n)' = Responded(n) \cup {key} /\ key \notin Responded(n)
        BY <2>1, <2>4, <2>6 DEF Responded
      <4>2. RecordsOf(n)' = RecordsOf(n) \cup {L + 1} /\ L + 1 \notin RecordsOf(n)
        BY <2>5 DEF RecordsOf, rec
      <4> QED
        <5>1. /\ IsFiniteSet(Responded(n) \cup {key})
              /\ Cardinality(Responded(n) \cup {key}) = Cardinality(Responded(n)) + 1
          BY <4>1, FS_AddElement DEF SequenceInv
        <5>2. /\ IsFiniteSet(RecordsOf(n) \cup {L + 1})
              /\ Cardinality(RecordsOf(n) \cup {L + 1}) = Cardinality(RecordsOf(n)) + 1
          BY <4>2, FS_AddElement DEF SequenceInv
        <5> HIDE DEF L
        <5> QED
          BY <3>1, <4>1, <4>2, <5>1, <5>2 DEF SequenceInv
    <3>2. CASE m # n
      <4>1. Responded(m)' = Responded(m)
        BY <3>2, <2>6 DEF Responded
      <4>2. RecordsOf(m)' = RecordsOf(m)
        BY <3>2, <2>5 DEF RecordsOf, rec
      <4> QED
        BY <4>1, <4>2 DEF SequenceInv
    <3> QED
      BY <3>1, <3>2
  <2>10. SequenceTail(index - 1)' \/ outcome' # "pending"
    <3>1. CASE decision = "approve" /\ ~last
      <4>1. index' - 1 = n
        BY <3>1, <2>7
      <4> QED
        BY <3>1, <4>1, <2>8 DEF SequenceTail
    <3> QED
      BY <3>1, <2>7
  <2>11. SequenceTail(Nodes)' \/ outcome' # "approved"
    BY <2>7, <2>8
  <2> QED
    BY <2>5, <2>7, <2>9, <2>10, <2>11 DEF SequenceInv
<1>2. CASE InSequence!Resubmit
  <2>1. /\ index' = 1 /\ outcome' = "pending" /\ nodeStatus' = [n \in 1..Nodes |-> "pending"]
        /\ round' = round + 1 /\ round < MaxRounds /\ UNCHANGED <<approver, response, decisions>>
    BY <1>2 DEF InSequence!Resubmit, InSequence!Restart
  <2>2. InSequence!TypeOK'
    BY <2>1 DEF SequenceInv, InSequence!TypeOK, InSequence!TaskStatuses
  <2>3. SequenceTail(index - 1)'
    BY <2>1 DEF SequenceTail, SequenceInv
  <2> QED
    BY <2>1, <2>2, <2>3 DEF SequenceInv, Responded, RecordsOf
<1>3. CASE UNCHANGED InSequence!vars
  BY <1>3 DEF InSequence!vars, SequenceInv, InSequence!TypeOK, SequenceTail, Responded, RecordsOf
<1> QED
  BY <1>1, <1>2, <1>3 DEF InSequence!Next

(* An approved sequence has an approval of every node in its round.         *)
LEMMA SequenceMet == SequenceInv => InSequence!ApprovedByAll /\ InSequence!OneRecordPerResponse
<1> SUFFICES ASSUME SequenceInv PROVE InSequence!ApprovedByAll /\ InSequence!OneRecordPerResponse
  OBVIOUS
<1>1. DOMAIN decisions = 1..Len(decisions)
  BY DEF SequenceInv
<1>2. InSequence!ApprovedByAll
  BY DEF SequenceInv, SequenceTail, InSequence!ApprovedByAll
<1>3. InSequence!OneRecordPerResponse
  BY <1>1, CardinalitiesAgree DEF SequenceInv, Responded, RecordsOf, InSequence!OneRecordPerResponse
<1> QED
  BY <1>2, <1>3

(* Nothing moves a sequence on that has ended.                              *)
LEMMA SequenceEnds == SequenceInv /\ [InSequence!Next]_InSequence!vars =>
  [outcome \notin {"approved", "rejected"}]_InSequence!vars
<1> SUFFICES ASSUME SequenceInv, InSequence!Next PROVE outcome \notin {"approved", "rejected"}
  OBVIOUS
<1>1. ASSUME NEW n \in 1..Nodes, NEW actor \in Approvers, NEW decision \in InSequence!Decisions,
             NEW key \in ApprovalKeys, InSequence!Decide(n, actor, decision, key)
      PROVE  outcome \notin {"approved", "rejected"}
  BY <1>1 DEF InSequence!Decide, InSequence!MayDecide, InSequence!Undecided, SequenceInv
<1> QED
  BY <1>1 DEF InSequence!Next, InSequence!Resubmit

(***************************************************************************)
(* Analyses of the in-memory service.                                      *)
(***************************************************************************)
AnalysisEvents == [id: Nat, status: {"running", "failed", "retrying", "manual_review"}]
EventsOf(id, status) == {n \in 1..Len(events[id]) : events[id][n].status = status}

(* What is kept of the events of a task, and of the task.                   *)
AnalysisEventsOK(id) ==
  /\ events[id] \in Seq(AnalysisEvents)
  /\ \A n \in 1..Len(events[id]) : events[id][n].id = n
  /\ IsFiniteSet(EventsOf(id, "retrying")) /\ IsFiniteSet(EventsOf(id, "manual_review"))
  /\ ~InAnalyses!Started(id) => events[id] = <<>>

AnalysisTaskOK(id) ==
  InAnalyses!Started(id) =>
       /\ IsFiniteSet(analysis[id].used)
       /\ analysis[id].retries = Cardinality(analysis[id].used)
       /\ analysis[id].retries = Cardinality(EventsOf(id, "retrying"))
       /\ analysis[id].takeover <=> Cardinality(EventsOf(id, "manual_review")) > 0
       /\ analysis[id].takeover => analysis[id].retries = RetryLimit

AnalysisOK(id) == AnalysisEventsOK(id) /\ AnalysisTaskOK(id)

AnalysesInv ==
  InAnalyses!TypeOK /\ \A id \in InAnalyses!Ids : AnalysisOK(id)

(* The invariant of an analysis holds at the start.                         *)
LEMMA AnalysesInit == InAnalyses!Init => AnalysesInv
<1> SUFFICES ASSUME InAnalyses!Init PROVE AnalysesInv
  OBVIOUS
<1>1. InAnalyses!TypeOK
  BY DEF InAnalyses!Init, InAnalyses!TypeOK
<1>2. ASSUME NEW id \in InAnalyses!Ids PROVE AnalysisOK(id)
  <2>1. events[id] \in Seq(AnalysisEvents) /\ Len(events[id]) = 0 /\ events[id] = <<>>
    BY DEF InAnalyses!Init
  <2>2. EventsOf(id, "retrying") = {} /\ EventsOf(id, "manual_review") = {}
    BY <2>1 DEF EventsOf
  <2>3. ~InAnalyses!Started(id)
    BY DEF InAnalyses!Init, InAnalyses!Started
  <2>4. IsFiniteSet({})
    BY FS_EmptySet
  <2>5. AnalysisTaskOK(id)
    BY <2>3 DEF AnalysisTaskOK
  <2>6. AnalysisEventsOK(id)
    <3>1. 1..Len(events[id]) = {}
      BY <2>1
    <3>2. IsFiniteSet(EventsOf(id, "retrying")) /\ IsFiniteSet(EventsOf(id, "manual_review"))
      BY <2>2, <2>4
    <3> QED
      BY <2>1, <3>1, <3>2, Zenon DEF AnalysisEventsOK
  <2> QED
    BY <2>5, <2>6 DEF AnalysisOK
<1> QED
  BY <1>1, <1>2 DEF AnalysesInv

(* What an event adds to the events of a task.                              *)
LEMMA AnalysisAppends ==
  ASSUME AnalysesInv, NEW id \in InAnalyses!Ids,
         NEW status \in {"running", "failed", "retrying", "manual_review"}, InAnalyses!AppendEvent(id, status)
  PROVE  /\ DOMAIN events' = InAnalyses!Ids /\ \A other \in InAnalyses!Ids \ {id} : events'[other] = events[other]
         /\ events'[id] \in Seq(AnalysisEvents)
         /\ \A n \in 1..Len(events'[id]) : events'[id][n].id = n
         /\ \A s \in {"retrying", "manual_review"} :
              /\ IsFiniteSet(EventsOf(id, s)')
              /\ Cardinality(EventsOf(id, s)') =
                   Cardinality(EventsOf(id, s)) + (IF s = status THEN 1 ELSE 0)
              /\ Cardinality(EventsOf(id, s)) \in Nat
<1> DEFINE L == Len(events[id])
           e == [id |-> L + 1, status |-> status]
<1>1. events[id] \in Seq(AnalysisEvents) /\ L \in Nat /\ DOMAIN events = InAnalyses!Ids
  BY DEF AnalysesInv, AnalysisOK, AnalysisEventsOK, AnalysisTaskOK, InAnalyses!TypeOK
<1>2. events' = [events EXCEPT ![id] = Append(events[id], e)] /\ e \in AnalysisEvents
  BY <1>1 DEF InAnalyses!AppendEvent, InAnalyses!EventId, AnalysisEvents
<1>3. events'[id] = Append(events[id], e)
  BY <1>1, <1>2
<1>7. e.id = L + 1 /\ e.status = status
  OBVIOUS
<1> HIDE DEF e
<1>4. /\ events'[id] \in Seq(AnalysisEvents) /\ Len(events'[id]) = L + 1 /\ events'[id][L + 1] = e
      /\ \A n \in 1..L : events'[id][n] = events[id][n]
  BY <1>1, <1>2, <1>3, AppendProperties
<1>5. \A n \in 1..Len(events'[id]) : events'[id][n].id = n
  BY <1>1, <1>4, <1>7 DEF AnalysesInv, AnalysisOK, AnalysisEventsOK, AnalysisTaskOK
<1>6. ASSUME NEW s \in {"retrying", "manual_review"}
      PROVE  /\ IsFiniteSet(EventsOf(id, s)')
             /\ Cardinality(EventsOf(id, s)') =
                  Cardinality(EventsOf(id, s)) + (IF s = status THEN 1 ELSE 0)
             /\ Cardinality(EventsOf(id, s)) \in Nat
  <2>1. IsFiniteSet(EventsOf(id, s)) /\ Cardinality(EventsOf(id, s)) \in Nat
    BY FS_CardinalityType DEF AnalysesInv, AnalysisOK, AnalysisEventsOK, AnalysisTaskOK
  <2>2. L + 1 \notin EventsOf(id, s)
    BY <1>1 DEF EventsOf
  <2>3. EventsOf(id, s)' = IF s = status THEN EventsOf(id, s) \cup {L + 1} ELSE EventsOf(id, s)
    BY <1>1, <1>4, <1>7 DEF EventsOf
  <2>4. /\ IsFiniteSet(EventsOf(id, s) \cup {L + 1})
        /\ Cardinality(EventsOf(id, s) \cup {L + 1}) = Cardinality(EventsOf(id, s)) + 1
    BY <2>1, <2>2, FS_AddElement
  <2> HIDE DEF L
  <2> QED
    BY <2>1, <2>3, <2>4
<1> QED
  BY <1>1, <1>2, <1>4, <1>5, <1>6

(* Every step of an analysis keeps its invariant.                           *)
LEMMA AnalysesNext == AnalysesInv /\ [InAnalyses!Next]_InAnalyses!vars => AnalysesInv'
<1> SUFFICES ASSUME AnalysesInv, [InAnalyses!Next]_InAnalyses!vars PROVE AnalysesInv'
  OBVIOUS
<1> USE AnalysesAssumption
<1>0. ASSUME NEW id \in InAnalyses!Ids, NEW new \in InAnalyses!Tasks,
             analysis' = [analysis EXCEPT ![id] = new],
             NEW status \in {"running", "failed", "retrying", "manual_review"}, InAnalyses!AppendEvent(id, status),
             AnalysisOK(id)'
      PROVE  AnalysesInv'
  <2>1. /\ DOMAIN events' = InAnalyses!Ids
        /\ \A other \in InAnalyses!Ids \ {id} : events'[other] = events[other] /\ analysis'[other] = analysis[other]
    BY <1>0, AnalysisAppends DEF AnalysesInv, InAnalyses!TypeOK
  <2>2. InAnalyses!TypeOK'
    BY <1>0, <2>1 DEF AnalysesInv, InAnalyses!TypeOK
  <2>3. ASSUME NEW other \in InAnalyses!Ids \ {id} PROVE AnalysisOK(other)'
    <3>1. events'[other] = events[other] /\ analysis'[other] = analysis[other]
      BY <2>1
    <3>2. /\ EventsOf(other, "retrying")' = EventsOf(other, "retrying")
          /\ EventsOf(other, "manual_review")' = EventsOf(other, "manual_review")
          /\ InAnalyses!Started(other)' = InAnalyses!Started(other)
      BY <3>1 DEF EventsOf, InAnalyses!Started
    <3>3. AnalysisEventsOK(other)'
      BY <3>1, <3>2 DEF AnalysesInv, AnalysisOK, AnalysisEventsOK
    <3>4. AnalysisTaskOK(other)'
      BY <3>1, <3>2 DEF AnalysesInv, AnalysisOK, AnalysisTaskOK
    <3> QED
      BY <3>3, <3>4 DEF AnalysisOK
  <2> QED
    BY <1>0, <2>2, <2>3 DEF AnalysesInv
<1>a. \A id \in InAnalyses!Ids : InAnalyses!Started(id) =>
  /\ analysis[id] \in InAnalyses!Tasks /\ Cardinality(analysis[id].used) \in Nat
                                                           /\ IsFiniteSet(analysis[id].used)
  BY FS_CardinalityType
  DEF AnalysesInv, AnalysisOK, AnalysisEventsOK, AnalysisTaskOK, InAnalyses!TypeOK,
     InAnalyses!Started
<1>1. ASSUME NEW id \in InAnalyses!Ids, InAnalyses!Start(id) PROVE AnalysesInv'
  <2> DEFINE new == [stage |-> "queued", retries |-> 0, takeover |-> FALSE, used |-> {}]
  <2>1. new \in InAnalyses!Tasks
    BY DEF InAnalyses!Tasks
  <2>2. analysis'[id] = new /\ InAnalyses!AppendEvent(id, "running") /\ analysis' = [analysis EXCEPT ![id] = new]
    BY <1>1 DEF InAnalyses!Start, AnalysesInv, InAnalyses!TypeOK
  <2>3. EventsOf(id, "retrying") = {} /\ EventsOf(id, "manual_review") = {}
    <3>1. events[id] = <<>>
      BY <1>1 DEF InAnalyses!Start, AnalysesInv, AnalysisOK, AnalysisEventsOK
    <3>2. Len(events[id]) = 0
      BY <3>1
    <3> QED
      BY <3>2 DEF EventsOf
  <2>4. AnalysisOK(id)'
    <3>1. Cardinality({}) = 0 /\ IsFiniteSet({})
      BY FS_EmptySet
    <3>2. InAnalyses!Started(id)' /\ new.retries = 0 /\ new.used = {} /\ ~new.takeover
      BY <2>1, <2>2 DEF InAnalyses!Started
    <3> HIDE DEF new
    <3>3. AnalysisEventsOK(id)'
      BY <2>2, <3>2, AnalysisAppends DEF AnalysisEventsOK
    <3>4. /\ Cardinality(EventsOf(id, "retrying")') = 0
          /\ Cardinality(EventsOf(id, "manual_review")') = 0
      <4>1. \A s \in {"retrying", "manual_review"} :
              Cardinality(EventsOf(id, s)') = Cardinality(EventsOf(id, s)) + (IF s = "running" THEN 1 ELSE 0)
        BY <2>2, AnalysisAppends
      <4> QED
        BY <4>1, <2>3, <3>1
    <3>5. AnalysisTaskOK(id)'
      BY <2>2, <3>1, <3>2, <3>4 DEF AnalysisTaskOK
    <3> QED
      BY <3>3, <3>5 DEF AnalysisOK
  <2> QED
    BY <2>1, <2>2, <2>4, <1>0
<1>2. ASSUME NEW id \in InAnalyses!Ids, InAnalyses!MarkFailed(id) PROVE AnalysesInv'
  <2> DEFINE new == [analysis[id] EXCEPT !.stage = "failed"]
  <2>1. analysis[id] \in InAnalyses!Tasks /\ analysis' = [analysis EXCEPT ![id] = new] /\ InAnalyses!AppendEvent(id, "failed") /\ InAnalyses!Started(id)
    BY <1>2, <1>a DEF InAnalyses!MarkFailed
  <2>2. /\ new \in InAnalyses!Tasks /\ new.retries = analysis[id].retries
        /\ new.takeover = analysis[id].takeover
        /\ new.used = analysis[id].used
    BY <2>1 DEF InAnalyses!Tasks
  <2> HIDE DEF new
  <2>3. analysis'[id] = new
    BY <2>1 DEF AnalysesInv, InAnalyses!TypeOK
  <2>4. AnalysisOK(id)'
    <3>1. InAnalyses!Started(id)'
      BY <2>2, <2>3, AnalysesAssumption DEF InAnalyses!Started
    <3>2. AnalysisEventsOK(id)'
      BY <2>1, <3>1, AnalysisAppends DEF AnalysisEventsOK
    <3>3. \A s \in {"retrying", "manual_review"} :
            /\ Cardinality(EventsOf(id, s)') = Cardinality(EventsOf(id, s)) + (IF s = "failed" THEN 1 ELSE 0)
            /\ Cardinality(EventsOf(id, s)) \in Nat
      BY <2>1, AnalysisAppends
    <3>4. AnalysisTaskOK(id)'
      BY <2>1, <2>2, <2>3, <3>1, <3>3 DEF AnalysesInv, AnalysisOK, AnalysisTaskOK
    <3> QED
      BY <3>2, <3>4 DEF AnalysisOK
  <2> QED
    BY <2>1, <2>2, <2>4, <1>0
<1>3. ASSUME NEW id \in InAnalyses!Ids, NEW key \in RetryKeys,
             InAnalyses!Retry(id, key) PROVE AnalysesInv'
  <2> DEFINE new == [stage |-> "queued", retries |-> analysis[id].retries + 1,
                     takeover |-> analysis[id].takeover, used |-> analysis[id].used \cup {key}]
  <2>1. /\ analysis[id] \in InAnalyses!Tasks /\ analysis' = [analysis EXCEPT ![id] = new]
        /\ InAnalyses!AppendEvent(id, "retrying")
        /\ InAnalyses!Started(id) /\ key \notin analysis[id].used
        /\ analysis[id].retries < RetryLimit
    BY <1>3, <1>a DEF InAnalyses!Retry, InAnalyses!NewKey, InAnalyses!Exhausted, InAnalyses!Tasks
  <2>2. /\ new \in InAnalyses!Tasks /\ new.retries = analysis[id].retries + 1
        /\ new.takeover = analysis[id].takeover
        /\ new.used = analysis[id].used \cup {key}
    BY <2>1 DEF InAnalyses!Tasks
  <2> HIDE DEF new
  <2>3. analysis'[id] = new
    BY <2>1 DEF AnalysesInv, InAnalyses!TypeOK
  <2>4. /\ IsFiniteSet(new.used) /\ Cardinality(new.used) = Cardinality(analysis[id].used) + 1
    <3>1. IsFiniteSet(analysis[id].used)
      BY <2>1, <1>a
    <3>2. Cardinality(analysis[id].used \cup {key}) = Cardinality(analysis[id].used) + 1
          /\ IsFiniteSet(analysis[id].used \cup {key})
      BY <2>1, <3>1, FS_AddElement
    <3> QED
      BY <2>2, <3>2
  <2>5. ~analysis[id].takeover /\ analysis[id].retries = Cardinality(analysis[id].used)
        /\ analysis[id].retries = Cardinality(EventsOf(id, "retrying"))
        /\ ~(Cardinality(EventsOf(id, "manual_review")) > 0)
    BY <2>1 DEF AnalysesInv, AnalysisOK, AnalysisEventsOK, AnalysisTaskOK, InAnalyses!Tasks
  <2>6. AnalysisOK(id)'
    <3>1. InAnalyses!Started(id)'
      BY <2>2, <2>3, AnalysesAssumption DEF InAnalyses!Started
    <3>2. AnalysisEventsOK(id)'
      BY <2>1, <3>1, AnalysisAppends DEF AnalysisEventsOK
    <3>3. \A s \in {"retrying", "manual_review"} :
            /\ Cardinality(EventsOf(id, s)') = Cardinality(EventsOf(id, s)) + (IF s = "retrying" THEN 1 ELSE 0)
            /\ Cardinality(EventsOf(id, s)) \in Nat
      BY <2>1, AnalysisAppends
    <3>4. AnalysisTaskOK(id)'
      <4>1. (analysis[id].retries = Cardinality(EventsOf(id, "retrying")))'
        BY <2>2, <2>3, <2>5, <3>3
      <4>2. (analysis[id].takeover <=> Cardinality(EventsOf(id, "manual_review")) > 0)'
        BY <2>2, <2>3, <2>5, <3>3
      <4>3. (IsFiniteSet(analysis[id].used) /\ analysis[id].retries = Cardinality(analysis[id].used))'
        BY <2>2, <2>3, <2>4, <2>5
      <4>4. ~analysis'[id].takeover
        BY <2>2, <2>3, <2>5
      <4> QED
        BY <4>1, <4>2, <4>3, <4>4 DEF AnalysisTaskOK
    <3> QED
      BY <3>2, <3>4 DEF AnalysisOK
  <2> QED
    BY <2>1, <2>2, <2>6, <1>0
<1>4. ASSUME NEW id \in InAnalyses!Ids, NEW key \in RetryKeys,
             InAnalyses!TakeOver(id, key) PROVE AnalysesInv'
  <2> DEFINE new == [stage |-> "manual_review", retries |-> analysis[id].retries,
                     takeover |-> TRUE, used |-> analysis[id].used]
  <2>1. /\ analysis[id] \in InAnalyses!Tasks /\ analysis' = [analysis EXCEPT ![id] = new]
        /\ InAnalyses!AppendEvent(id, "manual_review")
        /\ InAnalyses!Started(id) /\ analysis[id].retries = RetryLimit
    BY <1>4, <1>a DEF InAnalyses!TakeOver, InAnalyses!Exhausted, InAnalyses!Tasks
  <2>2. /\ new \in InAnalyses!Tasks /\ new.retries = analysis[id].retries /\ new.takeover = TRUE
        /\ new.used = analysis[id].used
    BY <2>1 DEF InAnalyses!Tasks
  <2> HIDE DEF new
  <2>3. analysis'[id] = new
    BY <2>1 DEF AnalysesInv, InAnalyses!TypeOK
  <2>6. AnalysisOK(id)'
    <3>1. InAnalyses!Started(id)'
      BY <2>2, <2>3, AnalysesAssumption DEF InAnalyses!Started
    <3>2. AnalysisEventsOK(id)'
      BY <2>1, <3>1, AnalysisAppends DEF AnalysisEventsOK
    <3>3. \A s \in {"retrying", "manual_review"} :
            /\ Cardinality(EventsOf(id, s)') = Cardinality(EventsOf(id, s)) + (IF s = "manual_review" THEN 1 ELSE 0)
            /\ Cardinality(EventsOf(id, s)) \in Nat
      BY <2>1, AnalysisAppends
    <3>4. AnalysisTaskOK(id)'
      BY <2>1, <2>2, <2>3, <3>1, <3>3 DEF AnalysesInv, AnalysisOK, AnalysisTaskOK
    <3> QED
      BY <3>2, <3>4 DEF AnalysisOK
  <2> QED
    BY <2>1, <2>2, <2>6, <1>0
<1>5. CASE UNCHANGED InAnalyses!vars
  <2> SUFFICES ASSUME NEW id \in InAnalyses!Ids PROVE AnalysisOK(id)'
    BY <1>5 DEF InAnalyses!vars, AnalysesInv, InAnalyses!TypeOK
  <2>1. events' = events /\ analysis' = analysis
    BY <1>5 DEF InAnalyses!vars
  <2>2. /\ EventsOf(id, "retrying")' = EventsOf(id, "retrying")
        /\ EventsOf(id, "manual_review")' = EventsOf(id, "manual_review")
        /\ InAnalyses!Started(id)' = InAnalyses!Started(id)
    BY <2>1 DEF EventsOf, InAnalyses!Started
  <2>3. AnalysisEventsOK(id)'
    BY <2>1, <2>2 DEF AnalysesInv, AnalysisOK, AnalysisEventsOK
  <2>4. AnalysisTaskOK(id)'
    BY <2>1, <2>2 DEF AnalysesInv, AnalysisOK, AnalysisTaskOK
  <2> QED
    BY <2>3, <2>4 DEF AnalysisOK
<1> QED
  BY <1>1, <1>2, <1>3, <1>4, <1>5 DEF InAnalyses!Next

(* Retries are counted and events have numbers in turn.                     *)
LEMMA AnalysesCounted == AnalysesInv => InAnalyses!RetriesCounted /\ InAnalyses!EventsNumbered
<1> SUFFICES ASSUME AnalysesInv, NEW id \in InAnalyses!Ids
             PROVE  /\ InAnalyses!Started(id) =>
                         /\ analysis[id].retries <= RetryLimit
                         /\ analysis[id].retries = Cardinality(analysis[id].used)
                         /\ analysis[id].retries = InAnalyses!Count(id, "retrying")
                         /\ analysis[id].takeover <=> InAnalyses!Count(id, "manual_review") > 0
                         /\ analysis[id].takeover => analysis[id].retries = RetryLimit
                    /\ \A n \in DOMAIN events[id] : events[id][n].id = n
  BY CardinalitiesAgree DEF InAnalyses!RetriesCounted, InAnalyses!EventsNumbered
<1>1. DOMAIN events[id] = 1..Len(events[id])
  BY DEF AnalysesInv, AnalysisOK, AnalysisEventsOK, AnalysisTaskOK
<1>2. InAnalyses!Count(id, "retrying") = Cardinality(EventsOf(id, "retrying"))
      /\ InAnalyses!Count(id, "manual_review") = Cardinality(EventsOf(id, "manual_review"))
  BY <1>1, CardinalitiesAgree DEF InAnalyses!Count, EventsOf
<1>3. InAnalyses!Started(id) => analysis[id].retries <= RetryLimit
  BY AnalysesAssumption DEF AnalysesInv, InAnalyses!TypeOK, InAnalyses!Started, InAnalyses!Tasks
<1> QED
  BY <1>1, <1>2, <1>3 DEF AnalysesInv, AnalysisOK, AnalysisEventsOK, AnalysisTaskOK

(***************************************************************************)
(* Documents and reports of the in-memory service.                         *)
(***************************************************************************)
DraftDocuments ==
  [type: Types, number: 1..MaxDocuments, status: {"draft", "pending_review"}, current: Nat, state: Nat]
DraftVersions == [document: Nat, number: Nat]
DraftReports == [version: Nat, status: {"draft", "succeeded"}]

DraftsTypes ==
  /\ documents \in Seq(DraftDocuments) /\ Len(documents) <= MaxDocuments
  /\ versions \in Seq(DraftVersions)
  /\ reports \in Seq(DraftReports)
  /\ sequences \in [Types -> 0..Len(documents)]

(* No number of a type is beyond the last one that was given.               *)
NumbersOK ==
  /\ \A d \in 1..Len(documents) : documents[d].number <= sequences[documents[d].type]
  /\ \A d, e \in 1..Len(documents) :
       documents[d].type = documents[e].type /\ documents[d].number = documents[e].number => d = e

(* A version is that of a submitted document, which has no other.           *)
VersionsOK ==
  /\ \A v \in 1..Len(versions) : /\ versions[v].document \in 1..Len(documents)
                                 /\ documents[versions[v].document].status = "pending_review"
                                 /\ versions[v].number = documents[versions[v].document].current
  /\ \A v, w \in 1..Len(versions) : versions[v].document = versions[w].document => v = w
  /\ \A d \in 1..Len(documents) :
       IF documents[d].status = "draft" THEN documents[d].state = 1
       ELSE documents[d].state = 2 /\ \E v \in 1..Len(versions) : versions[v].document = d

FinalsOK(all) ==
  \A m, n \in 1..Len(all) :
    all[m].status = "succeeded" /\ all[n].status = "succeeded" /\ all[m].version = all[n].version => m = n

DraftsInv == DraftsTypes /\ NumbersOK /\ VersionsOK /\ FinalsOK(reports)

(* The invariant of the documents holds at the start.                       *)
LEMMA DraftsInit == InDrafts!Init => DraftsInv
<1> SUFFICES ASSUME InDrafts!Init PROVE DraftsInv
  OBVIOUS
<1>1. /\ documents \in Seq(DraftDocuments) /\ versions \in Seq(DraftVersions)
      /\ reports \in Seq(DraftReports)
      /\ Len(documents) = 0 /\ Len(versions) = 0 /\ Len(reports) = 0
  BY DEF InDrafts!Init
<1> QED
  BY <1>1, DraftsAssumption
  DEF InDrafts!Init, DraftsInv, DraftsTypes, NumbersOK, VersionsOK, FinalsOK

(* Of the drafts of a version only the last one becomes final, and none if  *)
(* there is a final report.                                                 *)
LEMMA DraftsFinalize ==
  ASSUME NEW all \in Seq(DraftReports), FinalsOK(all), NEW v \in Nat
  PROVE  InDrafts!Finalized(all, v) \in Seq(DraftReports) /\ FinalsOK(InDrafts!Finalized(all, v))
<1> DEFINE new == [n \in 1..Len(all) |->
                     IF n \in InDrafts!Drafts(all, v) /\ \A m \in InDrafts!Drafts(all, v) : m <= n
                     THEN [version |-> v, status |-> "succeeded"] ELSE all[n]]
<1>1. DOMAIN all = 1..Len(all) /\ Len(all) \in Nat /\ \A n \in 1..Len(all) : all[n] \in DraftReports
  BY ElementOfSeq
<1>2. InDrafts!Finalized(all, v) = IF InDrafts!IsFinal(all, v) \/ InDrafts!Drafts(all, v) = {} THEN all ELSE new
  BY <1>1 DEF InDrafts!Finalized
<1>3. CASE InDrafts!IsFinal(all, v) \/ InDrafts!Drafts(all, v) = {}
  BY <1>2, <1>3
<1>4. CASE ~InDrafts!IsFinal(all, v) /\ InDrafts!Drafts(all, v) # {}
  <2>1. new \in [1..Len(all) -> DraftReports]
    BY <1>1 DEF DraftReports
  <2>2. new \in Seq(DraftReports) /\ Len(new) = Len(all)
    <3> HIDE DEF new
    <3>1. new \in Seq(DraftReports)
      BY <1>1, <2>1, SeqDef
    <3>2. DOMAIN new = 1..Len(all) /\ DOMAIN new = 1..Len(new) /\ Len(new) \in Nat
      BY <2>1, <3>1, LenProperties
    <3> QED
      BY <1>1, <3>1, <3>2
  <2>3. \A n \in 1..Len(all) : ~(all[n].version = v /\ all[n].status = "succeeded")
    BY <1>1, <1>4 DEF InDrafts!IsFinal
  <2>4. \A n \in 1..Len(all) :
          \/ new[n] = all[n]
          \/ /\ new[n] = [version |-> v, status |-> "succeeded"] /\ n \in InDrafts!Drafts(all, v)
             /\ \A m \in InDrafts!Drafts(all, v) : m <= n
    OBVIOUS
  <2>5. InDrafts!Drafts(all, v) \subseteq 1..Len(all)
    BY <1>1 DEF InDrafts!Drafts
  <2> HIDE DEF new
  <2>6. ASSUME NEW m \in 1..Len(all), NEW n \in 1..Len(all),
               new[m].status = "succeeded", new[n].status = "succeeded", new[m].version = new[n].version
        PROVE  m = n
    <3>1. CASE new[m] = all[m] /\ new[n] = all[n]
      BY <3>1, <2>6 DEF FinalsOK
    <3>2. CASE new[m] # all[m] /\ new[n] # all[n]
      <4>1. m \in InDrafts!Drafts(all, v) /\ n \in InDrafts!Drafts(all, v) /\ m <= n /\ n <= m
        BY <3>2, <2>4
      <4> QED
        BY <4>1, <1>1
    <3>3. CASE new[m] = all[m] /\ new[n] # all[n]
      BY <3>3, <2>3, <2>4, <2>6
    <3>4. CASE new[m] # all[m] /\ new[n] = all[n]
      BY <3>4, <2>3, <2>4, <2>6
    <3> QED
      BY <3>1, <3>2, <3>3, <3>4
  <2>7. FinalsOK(new)
    BY <2>2, <2>6 DEF FinalsOK
  <2> QED
    BY <1>2, <1>4, <2>2, <2>7
<1> QED
  BY <1>3, <1>4

(* A report is appended to those of its version.                            *)
LEMMA DraftsAppend ==
  ASSUME NEW all \in Seq(DraftReports), FinalsOK(all), NEW v \in Nat
  PROVE  Append(all, InDrafts!Draft(v)) \in Seq(DraftReports) /\ FinalsOK(Append(all, InDrafts!Draft(v)))
<1> DEFINE new == Append(all, InDrafts!Draft(v))
<1>1. InDrafts!Draft(v) \in DraftReports /\ InDrafts!Draft(v).status = "draft"
  BY DEF InDrafts!Draft, DraftReports
<1>2. /\ new \in Seq(DraftReports) /\ Len(new) = Len(all) + 1
      /\ new[Len(all) + 1] = InDrafts!Draft(v)
      /\ Len(all) \in Nat /\ \A n \in 1..Len(all) : new[n] = all[n]
  BY <1>1, AppendProperties
<1> HIDE DEF new
<1> QED
  BY <1>1, <1>2 DEF FinalsOK, new

(* Every step of the documents keeps their invariant.                       *)
LEMMA DraftsNext == DraftsInv /\ [InDrafts!Next]_InDrafts!vars => DraftsInv'
<1> SUFFICES ASSUME DraftsInv, [InDrafts!Next]_InDrafts!vars PROVE DraftsInv'
  OBVIOUS
<1>0. /\ DOMAIN documents = 1..Len(documents) /\ Len(documents) \in Nat
      /\ \A d \in 1..Len(documents) : documents[d] \in DraftDocuments
      /\ DOMAIN versions = 1..Len(versions) /\ Len(versions) \in Nat
  BY ElementOfSeq DEF DraftsInv, DraftsTypes
<1>1. ASSUME NEW t \in Types, InDrafts!CreateDraft(t) PROVE DraftsInv'
  <2> DEFINE n == Len(documents) + 1
             new == [type |-> t, number |-> sequences[t] + 1, status |-> "draft", current |-> 0, state |-> 1]
  <2>1. /\ Len(documents) < MaxDocuments /\ sequences' = [sequences EXCEPT ![t] = sequences[t] + 1]
        /\ documents' = Append(documents, new) /\ UNCHANGED <<versions, reports>>
    BY <1>1 DEF InDrafts!CreateDraft, InDrafts!NextNumber
  <2>2. sequences[t] \in 0..Len(documents) /\ sequences[t] + 1 \in 1..MaxDocuments
    BY <2>1, <1>0, DraftsAssumption DEF DraftsInv, DraftsTypes
  <2>3. new \in DraftDocuments
    BY <2>2 DEF DraftDocuments
  <2>4. new.type = t /\ new.number = sequences[t] + 1 /\ new.status = "draft" /\ new.state = 1
    OBVIOUS
  <2> HIDE DEF new
  <2>5. /\ documents' \in Seq(DraftDocuments) /\ Len(documents') = n /\ documents'[n] = new
        /\ \A d \in 1..Len(documents) : documents'[d] = documents[d]
    BY <2>1, <2>3, AppendProperties DEF DraftsInv, DraftsTypes
  <2>6. n \in Nat /\ n <= MaxDocuments /\ 1..n = 1..Len(documents) \cup {n} /\ n \notin 1..Len(documents)
        /\ 0..Len(documents) \subseteq 0..n /\ sequences[t] + 1 \in 0..n
    BY <2>1, <2>2, <1>0, DraftsAssumption
  <2> HIDE DEF n
  <2>7. DraftsTypes'
    <3>1. sequences' \in [Types -> 0..n]
      BY <2>1, <2>6 DEF DraftsInv, DraftsTypes
    <3> QED
      BY <2>1, <2>5, <2>6, <3>1 DEF DraftsInv, DraftsTypes
  <2>8. /\ sequences'[t] = sequences[t] + 1 /\ \A s \in Types : s # t =>
             sequences'[s] = sequences[s]
        /\ \A s \in Types : sequences[s] \in Nat
    BY <2>1 DEF DraftsInv, DraftsTypes
  <2>9. \A d \in 1..Len(documents) : documents[d].type \in Types /\ documents[d].number \in Nat
    BY <1>0 DEF DraftDocuments
  <2>10. NumbersOK'
    <3>1. \A d \in 1..Len(documents) : documents[d].number <= sequences'[documents[d].type]
                                       /\ (documents[d].type = t => documents[d].number < sequences[t] + 1)
      BY <2>8, <2>9 DEF DraftsInv, NumbersOK
    <3>2. \A d \in 1..n : documents'[d].number <= sequences'[documents'[d].type]
      BY <3>1, <2>4, <2>5, <2>6, <2>8, <2>9
    <3>3. ASSUME NEW d \in 1..n, NEW e \in 1..n,
                 documents'[d].type = documents'[e].type, documents'[d].number = documents'[e].number
          PROVE  d = e
      <4>1. CASE d # n /\ e # n
        BY <3>3, <4>1, <2>5, <2>6 DEF DraftsInv, NumbersOK
      <4>4. /\ documents'[n].type = t /\ documents'[n].number = sequences[t] + 1
            /\ \A f \in 1..Len(documents) :
                 documents'[f].type = t => documents'[f].number # sequences[t] + 1
        BY <3>1, <2>4, <2>5, <2>8, <2>9
      <4>2. CASE d = n /\ e # n
        BY <3>3, <4>2, <4>4, <2>6
      <4>3. CASE d # n /\ e = n
        BY <3>3, <4>3, <4>4, <2>6
      <4> QED
        BY <4>1, <4>2, <4>3
    <3> QED
      BY <2>5, <3>2, <3>3 DEF NumbersOK
  <2>11. VersionsOK'
    BY <2>1, <2>4, <2>5, <2>6 DEF DraftsInv, VersionsOK
  <2> QED
    BY <2>1, <2>7, <2>10, <2>11 DEF DraftsInv
<1>2. ASSUME NEW d \in 1..MaxDocuments, NEW expected \in 1..2,
             InDrafts!Submit(d, expected) PROVE DraftsInv'
  <2> DEFINE n == Len(versions) + 1
             new == [type |-> documents[d].type, number |-> documents[d].number, status |-> "pending_review",
                     current |-> documents[d].current + 1, state |-> documents[d].state + 1]
             own == [document |-> d, number |-> documents[d].current + 1]
  <2>1. /\ d \in 1..Len(documents) /\ documents[d].status \in {"draft", "returned"}
        /\ documents' = [documents EXCEPT ![d] = new] /\ versions' = Append(versions, own)
        /\ UNCHANGED <<sequences, reports>>
    BY <1>2, <1>0 DEF InDrafts!Submit, InDrafts!Submittable
  <2>2. documents[d] \in DraftDocuments /\ documents[d].status = "draft" /\ documents[d].state = 1
    BY <2>1, <1>0 DEF DraftsInv, VersionsOK, DraftDocuments
  <2>3. /\ new \in DraftDocuments /\ new.status = "pending_review" /\ new.state = 2
        /\ new.type = documents[d].type /\ new.number = documents[d].number
        /\ new.current = documents[d].current + 1
    BY <2>2 DEF DraftDocuments
  <2>4. own \in DraftVersions /\ own.document = d /\ own.number = new.current
    BY <2>1, <2>2, <1>0 DEF DraftVersions, DraftDocuments
  <2> HIDE DEF new, own
  <2>5. /\ documents' \in Seq(DraftDocuments) /\ Len(documents') = Len(documents)
        /\ documents'[d] = new
        /\ \A e \in 1..Len(documents) : e # d => documents'[e] = documents[e]
    BY <2>1, <2>3, ExceptSeq DEF DraftsInv, DraftsTypes
  <2>6. /\ versions' \in Seq(DraftVersions) /\ Len(versions') = n /\ versions'[n] = own
        /\ \A v \in 1..Len(versions) : versions'[v] = versions[v]
    BY <2>1, <2>4, AppendProperties DEF DraftsInv, DraftsTypes
  <2>7. n \in Nat /\ 1..n = 1..Len(versions) \cup {n} /\ n \notin 1..Len(versions)
    BY <1>0
  <2> HIDE DEF n
  <2>8. DraftsTypes'
    BY <2>1, <2>5, <2>6 DEF DraftsInv, DraftsTypes
  <2>9. NumbersOK'
    BY <2>1, <2>3, <2>5 DEF DraftsInv, NumbersOK
  <2>10. \A v \in 1..Len(versions) : versions[v].document # d
    BY <2>2 DEF DraftsInv, VersionsOK
  <2>11. VersionsOK'
    <3>1. \A v \in 1..n : /\ versions'[v].document \in 1..Len(documents)
                          /\ documents'[versions'[v].document].status = "pending_review"
                          /\ versions'[v].number = documents'[versions'[v].document].current
      BY <2>1, <2>3, <2>4, <2>5, <2>6, <2>7, <2>10 DEF DraftsInv, VersionsOK
    <3>2. \A v, w \in 1..n : versions'[v].document = versions'[w].document => v = w
      BY <2>4, <2>6, <2>7, <2>10 DEF DraftsInv, VersionsOK
    <3>3. ASSUME NEW e \in 1..Len(documents)
          PROVE  IF documents'[e].status = "draft" THEN documents'[e].state = 1
                 ELSE documents'[e].state = 2 /\ \E v \in 1..n : versions'[v].document = e
      <4>1. CASE e = d
        BY <4>1, <2>3, <2>4, <2>5, <2>6, <2>7
      <4>2. CASE e # d
        <5>1. documents'[e] = documents[e]
          BY <4>2, <2>5
        <5>2. documents[e].status # "draft" => \E v \in 1..n : versions'[v].document = e
          BY <2>6, <2>7 DEF DraftsInv, VersionsOK
        <5> QED
          BY <5>1, <5>2 DEF DraftsInv, VersionsOK
      <4> QED
        BY <4>1, <4>2
    <3> QED
      BY <2>5, <2>6, <3>1, <3>2, <3>3 DEF VersionsOK
  <2> QED
    BY <2>1, <2>8, <2>9, <2>11 DEF DraftsInv
<1>3. ASSUME NEW v \in DOMAIN versions,
             InDrafts!CreateReport(v) \/ InDrafts!Finalize(v) \/ InDrafts!FinalizeReport(v) PROVE DraftsInv'
  <2>1. v \in Nat /\ UNCHANGED <<documents, versions, sequences>>
    BY <1>0, <1>3 DEF InDrafts!CreateReport, InDrafts!Finalize, InDrafts!FinalizeReport
  <2>2. Append(reports, InDrafts!Draft(v)) \in Seq(DraftReports) /\ FinalsOK(Append(reports, InDrafts!Draft(v)))
    BY <2>1, DraftsAppend DEF DraftsInv, DraftsTypes
  <2>3. reports' \in {Append(reports, InDrafts!Draft(v)), InDrafts!Finalized(reports, v),
                      InDrafts!Finalized(Append(reports, InDrafts!Draft(v)), v)}
    BY <1>3 DEF InDrafts!CreateReport, InDrafts!Finalize, InDrafts!FinalizeReport
  <2>4. reports' \in Seq(DraftReports) /\ FinalsOK(reports')
    BY <2>1, <2>2, <2>3, DraftsFinalize DEF DraftsInv, DraftsTypes
  <2> QED
    BY <2>1, <2>4 DEF DraftsInv, DraftsTypes, NumbersOK, VersionsOK
<1>4. CASE UNCHANGED InDrafts!vars
  BY <1>4 DEF InDrafts!vars, DraftsInv, DraftsTypes, NumbersOK, VersionsOK
<1> QED
  BY <1>1, <1>2, <1>3, <1>4 DEF InDrafts!Next

(* Numbers differ, a document is submitted once and has one final report.   *)
LEMMA DraftsMet == DraftsInv =>
  InDrafts!NumbersDiffer /\ InDrafts!SubmittedOnce /\ InDrafts!OneFinal /\ InDrafts!TypeOK
<1> SUFFICES ASSUME DraftsInv PROVE InDrafts!NumbersDiffer /\ InDrafts!SubmittedOnce /\ InDrafts!OneFinal /\ InDrafts!TypeOK
  OBVIOUS
<1>1. /\ DOMAIN documents = 1..Len(documents) /\ DOMAIN versions = 1..Len(versions)
      /\ DOMAIN reports = 1..Len(reports)
      /\ \A d \in 1..Len(documents) : documents[d] \in DraftDocuments
      /\ \A n \in 1..Len(reports) : reports[n] \in DraftReports
  BY ElementOfSeq DEF DraftsInv, DraftsTypes
<1>2. InDrafts!NumbersDiffer /\ InDrafts!OneFinal
  BY <1>1 DEF DraftsInv, NumbersOK, FinalsOK, InDrafts!NumbersDiffer, InDrafts!OneFinal
<1>3. InDrafts!SubmittedOnce
  <2> SUFFICES ASSUME NEW d \in 1..Len(documents)
               PROVE  LET own == {v \in DOMAIN versions : versions[v].document = d} IN
                      IF documents[d].status = "draft" THEN own = {} /\ documents[d].state = 1
                      ELSE /\ \A v \in own : versions[v].number = documents[d].current
                           /\ \A v, w \in own : v = w
                           /\ own # {} /\ documents[d].state = 2
    BY <1>1 DEF InDrafts!SubmittedOnce
  <2> DEFINE own == {v \in DOMAIN versions : versions[v].document = d}
  <2>1. \A v : v \in own <=> v \in 1..Len(versions) /\ versions[v].document = d
    BY <1>1
  <2>2. VersionsOK
    BY DEF DraftsInv
  <2> HIDE DEF own
  <2>3. CASE documents[d].status = "draft"
    <3>1. own = {}
      BY <2>1, <2>2, <2>3 DEF VersionsOK
    <3>2. documents[d].state = 1
      BY <2>2, <2>3 DEF VersionsOK
    <3> QED
      BY <2>3, <3>1, <3>2 DEF own
  <2>4. CASE documents[d].status # "draft"
    <3>1. \A v \in own : versions[v].number = documents[d].current
      BY <2>1, <2>2 DEF VersionsOK
    <3>2. \A v, w \in own : v = w
      BY <2>1, <2>2 DEF VersionsOK
    <3>3. own # {} /\ documents[d].state = 2
      BY <2>1, <2>2, <2>4 DEF VersionsOK
    <3> QED
      BY <2>4, <3>1, <3>2, <3>3 DEF own
  <2> QED
    BY <2>3, <2>4
<1>4. InDrafts!TypeOK
  BY <1>1 DEF DraftsInv, VersionsOK, DraftDocuments, DraftReports, InDrafts!TypeOK
<1> QED
  BY <1>2, <1>3, <1>4

(***************************************************************************)
(* Text recognition.                                                       *)
(***************************************************************************)
(* Threads by what they do: those that make a pipeline, those that have not *)
(* yet a file, and those that have one.                                     *)
Making == {t \in Threads : thread[t].at = "making"}
Waiting == {t \in Threads : thread[t].at \in {"making", "ready"}}
HasFile(t) == thread[t].at \in {"created", "written", "done"}

OcrTypes ==
  /\ pipeline \in [made: Nat, kept: BOOLEAN]
  /\ thread \in [Threads -> [at: {"idle", "making", "ready", "created", "written", "done"}, file: Nat]]
  /\ runs \in 0..MaxRecognitions /\ raced \in Nat /\ raced <= runs
  /\ IsFiniteSet(files) /\ files \subseteq 1..MaxRecognitions /\ left \subseteq files
  /\ texts \subseteq 0..MaxText

(* No two threads have one file, and a file that no thread has was left.    *)
OcrOwners ==
  /\ \A t \in Threads : HasFile(t) => thread[t].file \in files \ left
  /\ \A t, u \in Threads : HasFile(t) /\ HasFile(u) /\ thread[t].file = thread[u].file => t = u
  /\ \A f \in files \ left : \E t \in Threads : HasFile(t) /\ thread[t].file = f

(* Every recognition has made a pipeline, or is about to; it has a file, or *)
(* had one, or is about to.                                                 *)
OcrCounts ==
  /\ ~pipeline.kept => pipeline.made = 0
  /\ pipeline.made + Cardinality(Making) <= 1 + raced
  /\ pipeline.made + Cardinality(Making) <= runs
  /\ Cardinality(files) + Cardinality(Waiting) <= runs

OcrInv == OcrTypes /\ OcrOwners /\ OcrCounts

(* The invariant of the recognitions holds at the start.                    *)
LEMMA OcrInit == InOcr!Init => OcrInv
<1> SUFFICES ASSUME InOcr!Init PROVE OcrInv
  OBVIOUS
<1>1. Making = {} /\ Waiting = {} /\ files = {}
  BY DEF InOcr!Init, InOcr!Idle, Making, Waiting
<1>2. IsFiniteSet({}) /\ Cardinality({}) = 0
  BY FS_EmptySet
<1>3. OcrCounts
  BY <1>1, <1>2, OcrAssumption DEF InOcr!Init, OcrCounts
<1>4. OcrTypes
  BY <1>1, <1>2, OcrAssumption DEF InOcr!Init, InOcr!Idle, OcrTypes
<1>5. OcrOwners
  BY DEF InOcr!Init, InOcr!Idle, OcrOwners, HasFile
<1> QED
  BY <1>3, <1>4, <1>5 DEF OcrInv

(* Every set of threads or of runs is finite.                               *)
LEMMA OcrFinite == /\ IsFiniteSet(Making) /\ Cardinality(Making) \in Nat
                   /\ IsFiniteSet(Waiting) /\ Cardinality(Waiting) \in Nat
<1>1. IsFiniteSet(Making) /\ IsFiniteSet(Waiting)
  BY OcrAssumption, FS_Subset DEF Making, Waiting
<1> QED
  BY <1>1, FS_CardinalityType

(* What a step of one thread does to the numbers of threads.                *)
LEMMA OcrMoves ==
  ASSUME OcrTypes, NEW t \in Threads,
         \A u \in Threads \ {t} : thread'[u] = thread[u]
  PROVE  \E m, w \in Nat :
           /\ Cardinality(Making) = m + (IF thread[t].at = "making" THEN 1 ELSE 0)
           /\ Cardinality(Making') = m + (IF thread'[t].at = "making" THEN 1 ELSE 0)
           /\ Cardinality(Waiting) = w + (IF thread[t].at \in {"making", "ready"} THEN 1 ELSE 0)
           /\ Cardinality(Waiting') = w + (IF thread'[t].at \in {"making", "ready"} THEN 1 ELSE 0)
<1> DEFINE M == Making \ {t}
           W == Waiting \ {t}
<1>1. /\ IsFiniteSet(M) /\ IsFiniteSet(W) /\ t \notin M /\ t \notin W
  BY OcrFinite, FS_Subset
<1>2. Cardinality(M) \in Nat /\ Cardinality(W) \in Nat
  BY <1>1, FS_CardinalityType
<1>3. Cardinality(M \cup {t}) = Cardinality(M) + 1 /\ Cardinality(W \cup {t}) = Cardinality(W) + 1
  BY <1>1, FS_AddElement
<1>4. /\ Making' = IF thread'[t].at = "making" THEN M \cup {t} ELSE M
      /\ Waiting' = IF thread'[t].at \in {"making", "ready"} THEN W \cup {t} ELSE W
      /\ Making = IF thread[t].at = "making" THEN M \cup {t} ELSE M
      /\ Waiting = IF thread[t].at \in {"making", "ready"} THEN W \cup {t} ELSE W
  BY DEF Making, Waiting
<1> HIDE DEF M, W
<1>5. /\ Cardinality(Making') = Cardinality(M) + (IF thread'[t].at = "making" THEN 1 ELSE 0)
      /\ Cardinality(Making) = Cardinality(M) + (IF thread[t].at = "making" THEN 1 ELSE 0)
  BY <1>2, <1>3, <1>4
<1>6. /\ Cardinality(Waiting') =
           Cardinality(W) + (IF thread'[t].at \in {"making", "ready"} THEN 1 ELSE 0)
      /\ Cardinality(Waiting) =
           Cardinality(W) + (IF thread[t].at \in {"making", "ready"} THEN 1 ELSE 0)
  BY <1>2, <1>3, <1>4
<1> QED
  BY <1>2, <1>5, <1>6

(* As long as a recognition has no file, there is a name for one.           *)
LEMMA OcrNewFile ==
  ASSUME OcrInv, NEW t \in Threads, thread[t].at = "ready"
  PROVE  InOcr!NewFile \in 1..MaxRecognitions /\ InOcr!NewFile \notin files
<1>1. Cardinality(files) < MaxRecognitions /\ IsFiniteSet(files) /\ Cardinality(files) \in Nat
  <2>1. t \in Waiting
    BY DEF Waiting
  <2>2. Cardinality(Waiting) # 0
    BY <2>1, OcrFinite, FS_EmptySet
  <2> QED
    BY <2>2, OcrFinite, FS_CardinalityType, OcrAssumption DEF OcrInv, OcrTypes, OcrCounts
<1>2. IsFiniteSet(1..MaxRecognitions) /\ Cardinality(1..MaxRecognitions) = MaxRecognitions
  BY FS_Interval, OcrAssumption
<1>3. \E f \in 1..MaxRecognitions : f \notin files
  <2> SUFFICES ASSUME 1..MaxRecognitions \subseteq files PROVE FALSE
    OBVIOUS
  <2>1. Cardinality(1..MaxRecognitions) <= Cardinality(files)
    BY <1>1, FS_Subset
  <2> QED
    BY <2>1, <1>1, <1>2, OcrAssumption
<1> QED
  BY <1>3 DEF InOcr!NewFile

(* Every step of a recognition keeps the invariant.                         *)
LEMMA OcrNext == OcrInv /\ [InOcr!Next]_InOcr!vars => OcrInv'
<1> SUFFICES ASSUME OcrInv, [InOcr!Next]_InOcr!vars PROVE OcrInv'
  OBVIOUS
<1>0. Cardinality(files) \in Nat
  BY FS_CardinalityType DEF OcrInv, OcrTypes
<1>a. ASSUME NEW t \in Threads,
             NEW at \in {"idle", "making", "ready", "created", "written", "done"}, InOcr!Go(t, at)
      PROVE  /\ thread'[t].at = at /\ thread'[t].file = thread[t].file
             /\ \A u \in Threads \ {t} : thread'[u] = thread[u]
             /\ thread' \in [Threads -> [at: {"idle", "making", "ready", "created", "written", "done"},
                                         file: Nat]]
  BY <1>a DEF InOcr!Go, OcrInv, OcrTypes
<1> USE OcrAssumption
<1>1. ASSUME NEW t \in Threads, InOcr!Begin(t) PROVE OcrInv'
  <2> DEFINE at == IF pipeline.kept THEN "ready" ELSE "making"
  <2>1. /\ thread'[t].at = at
        /\ \A u \in Threads \ {t} : thread'[u] = thread[u]
        /\ thread' \in [Threads -> [at: {"idle", "making", "ready", "created", "written", "done"},
                                    file: Nat]]
    BY <1>1, <1>a DEF InOcr!Begin
  <2>2. /\ runs' = runs + 1 /\ runs < MaxRecognitions /\ raced' \in {raced, raced + 1}
        /\ UNCHANGED <<pipeline, files, left, texts>>
    BY <1>1 DEF InOcr!Begin
  <2>3. OcrTypes'
    BY <2>1, <2>2 DEF OcrInv, OcrTypes
  <2>4. OcrOwners'
    BY <1>1, <2>1, <2>2 DEF InOcr!Begin, OcrInv, OcrOwners, HasFile
  <2>5. thread[t].at = "idle"
    BY <1>1 DEF InOcr!Begin
  <2>6. raced' = raced /\ ~pipeline.kept => Cardinality(Making) = 0
    <3> SUFFICES ASSUME raced' = raced, ~pipeline.kept PROVE Cardinality(Making) = 0
      OBVIOUS
    <3>1. ~\E other \in Threads : thread[other].at = "making"
      BY <1>1 DEF InOcr!Begin, OcrInv, OcrTypes
    <3>2. Making = {}
      BY <3>1 DEF Making
    <3> QED
      BY <3>2, FS_EmptySet
  <2>7. OcrCounts'
    <3>1. PICK m, w \in Nat :
            /\ Cardinality(Making) = m + (IF thread[t].at = "making" THEN 1 ELSE 0)
            /\ Cardinality(Making') = m + (IF thread'[t].at = "making" THEN 1 ELSE 0)
            /\ Cardinality(Waiting) = w + (IF thread[t].at \in {"making", "ready"} THEN 1 ELSE 0)
            /\ Cardinality(Waiting') = w + (IF thread'[t].at \in {"making", "ready"} THEN 1 ELSE 0)
      BY <2>1, OcrMoves DEF OcrInv
    <3> QED
      BY <3>1, <2>1, <2>2, <2>5, <2>6, <1>0 DEF OcrInv, OcrTypes, OcrCounts
  <2> QED
    BY <2>3, <2>4, <2>7 DEF OcrInv
<1>2. ASSUME NEW t \in Threads, InOcr!Make(t) PROVE OcrInv'
  <2>1. /\ thread[t].at = "making" /\ thread'[t].at = "ready" /\ pipeline' = InOcr!Fresh
        /\ \A u \in Threads \ {t} : thread'[u] = thread[u]
        /\ thread' \in [Threads -> [at: {"idle", "making", "ready", "created", "written", "done"},
                                    file: Nat]]
        /\ UNCHANGED <<files, runs, left, raced, texts>>
    BY <1>2, <1>a DEF InOcr!Make
  <2>2. OcrTypes' /\ OcrOwners'
    BY <2>1 DEF InOcr!Fresh, OcrInv, OcrTypes, OcrOwners, HasFile
  <2>3. OcrCounts'
    <3>1. PICK m, w \in Nat :
            /\ Cardinality(Making) = m + (IF thread[t].at = "making" THEN 1 ELSE 0)
            /\ Cardinality(Making') = m + (IF thread'[t].at = "making" THEN 1 ELSE 0)
            /\ Cardinality(Waiting) = w + (IF thread[t].at \in {"making", "ready"} THEN 1 ELSE 0)
            /\ Cardinality(Waiting') = w + (IF thread'[t].at \in {"making", "ready"} THEN 1 ELSE 0)
      BY <2>1, OcrMoves DEF OcrInv
    <3> QED
      BY <3>1, <2>1, <1>0 DEF InOcr!Fresh, OcrInv, OcrTypes, OcrCounts
  <2> QED
    BY <2>2, <2>3 DEF OcrInv
<1>3. ASSUME NEW t \in Threads, InOcr!MakeFails(t) \/ InOcr!CreateFails(t) PROVE OcrInv'
  <2>1. /\ thread[t].at \in {"making", "ready"} /\ thread'[t].at = "idle"
        /\ \A u \in Threads \ {t} : thread'[u] = thread[u]
        /\ thread' \in [Threads -> [at: {"idle", "making", "ready", "created", "written", "done"},
                                    file: Nat]]
        /\ UNCHANGED <<pipeline, files, runs, left, raced, texts>>
    BY <1>3, <1>a DEF InOcr!MakeFails, InOcr!CreateFails
  <2>2. OcrTypes' /\ OcrOwners'
    BY <2>1 DEF OcrInv, OcrTypes, OcrOwners, HasFile
  <2>3. OcrCounts'
    <3>1. PICK m, w \in Nat :
            /\ Cardinality(Making) = m + (IF thread[t].at = "making" THEN 1 ELSE 0)
            /\ Cardinality(Making') = m + (IF thread'[t].at = "making" THEN 1 ELSE 0)
            /\ Cardinality(Waiting) = w + (IF thread[t].at \in {"making", "ready"} THEN 1 ELSE 0)
            /\ Cardinality(Waiting') = w + (IF thread'[t].at \in {"making", "ready"} THEN 1 ELSE 0)
      BY <2>1, OcrMoves DEF OcrInv
    <3> QED
      BY <3>1, <2>1, <1>0 DEF OcrInv, OcrTypes, OcrCounts
  <2> QED
    BY <2>2, <2>3 DEF OcrInv
<1>4. ASSUME NEW t \in Threads, InOcr!Create(t) PROVE OcrInv'
  <2> DEFINE f == InOcr!NewFile
  <2>1. /\ thread[t].at = "ready" /\ f \in 1..MaxRecognitions /\ f \notin files
        /\ files' = files \cup {f}
        /\ thread' = [thread EXCEPT ![t] = [at |-> "created", file |-> f]]
        /\ UNCHANGED <<pipeline, runs, left, raced, texts>>
    BY <1>4, OcrNewFile DEF InOcr!Create
  <2> HIDE DEF f
  <2>2. /\ thread'[t] = [at |-> "created", file |-> f]
        /\ \A u \in Threads \ {t} : thread'[u] = thread[u]
        /\ thread' \in [Threads -> [at: {"idle", "making", "ready", "created", "written", "done"},
                                    file: Nat]]
    BY <2>1 DEF OcrInv, OcrTypes
  <2>3. IsFiniteSet(files') /\ Cardinality(files') = Cardinality(files) + 1
    BY <2>1, FS_AddElement DEF OcrInv, OcrTypes
  <2>4. OcrTypes' /\ OcrOwners'
    BY <2>1, <2>2, <2>3 DEF OcrInv, OcrTypes, OcrOwners, HasFile
  <2>5. OcrCounts'
    <3>1. PICK m, w \in Nat :
            /\ Cardinality(Making) = m + (IF thread[t].at = "making" THEN 1 ELSE 0)
            /\ Cardinality(Making') = m + (IF thread'[t].at = "making" THEN 1 ELSE 0)
            /\ Cardinality(Waiting) = w + (IF thread[t].at \in {"making", "ready"} THEN 1 ELSE 0)
            /\ Cardinality(Waiting') = w + (IF thread'[t].at \in {"making", "ready"} THEN 1 ELSE 0)
      BY <2>2, OcrMoves DEF OcrInv
    <3> QED
      BY <3>1, <2>1, <2>2, <2>3, <1>0 DEF OcrInv, OcrTypes, OcrCounts
  <2> QED
    BY <2>4, <2>5 DEF OcrInv
<1>5. ASSUME NEW t \in Threads, NEW length \in 0..MaxText + 1,
             InOcr!Write(t) \/ InOcr!Predict(t, length) \/ InOcr!PredictFails(t)
      PROVE  OcrInv'
  <2>1. /\ thread[t].at \in {"created", "written"} /\ thread'[t].at \in {"written", "done"}
        /\ thread'[t].file = thread[t].file
        /\ \A u \in Threads \ {t} : thread'[u] = thread[u]
        /\ thread' \in [Threads -> [at: {"idle", "making", "ready", "created", "written", "done"},
                                    file: Nat]]
        /\ UNCHANGED <<pipeline, files, runs, left, raced>>
    BY <1>5, <1>a DEF InOcr!Write, InOcr!Predict, InOcr!PredictFails, InOcr!AfterFailure
  <2>2. texts' \subseteq 0..MaxText
    <3>1. InOcr!Cut(length) \in 0..MaxText
      BY DEF InOcr!Cut
    <3>2. texts' \in {texts, texts \cup {InOcr!Cut(length)}}
      BY <1>5 DEF InOcr!Write, InOcr!Predict, InOcr!PredictFails
    <3> QED
      BY <3>1, <3>2 DEF OcrInv, OcrTypes
  <2>3. OcrTypes' /\ OcrOwners'
    BY <2>1, <2>2 DEF OcrInv, OcrTypes, OcrOwners, HasFile
  <2>4. OcrCounts'
    <3>1. PICK m, w \in Nat :
            /\ Cardinality(Making) = m + (IF thread[t].at = "making" THEN 1 ELSE 0)
            /\ Cardinality(Making') = m + (IF thread'[t].at = "making" THEN 1 ELSE 0)
            /\ Cardinality(Waiting) = w + (IF thread[t].at \in {"making", "ready"} THEN 1 ELSE 0)
            /\ Cardinality(Waiting') = w + (IF thread'[t].at \in {"making", "ready"} THEN 1 ELSE 0)
      BY <2>1, OcrMoves DEF OcrInv
    <3> QED
      BY <3>1, <2>1, <1>0 DEF OcrInv, OcrTypes, OcrCounts
  <2> QED
    BY <2>3, <2>4 DEF OcrInv
<1>6. ASSUME NEW t \in Threads,
             InOcr!WriteFails(t) \/ InOcr!Remove(t) \/ InOcr!RemoveFails(t) PROVE OcrInv'
  <2>1. /\ HasFile(t) /\ thread' = [thread EXCEPT ![t] = InOcr!Idle]
        /\ \/ files' = files /\ left' = left \cup {thread[t].file}
           \/ files' = files \ {thread[t].file} /\ left' = left
        /\ UNCHANGED <<pipeline, runs, raced, texts>>
    BY <1>6 DEF InOcr!WriteFails, InOcr!Remove, InOcr!RemoveFails, HasFile
  <2>2. /\ thread'[t] = InOcr!Idle
        /\ \A u \in Threads \ {t} : thread'[u] = thread[u]
        /\ thread' \in [Threads -> [at: {"idle", "making", "ready", "created", "written", "done"},
                                    file: Nat]]
    BY <2>1 DEF OcrInv, OcrTypes, InOcr!Idle
  <2>3. IsFiniteSet(files') /\ Cardinality(files') <= Cardinality(files) /\ Cardinality(files') \in Nat
    <3>1. IsFiniteSet(files) /\ files' \subseteq files
      BY <2>1 DEF OcrInv, OcrTypes
    <3> QED
      BY <3>1, FS_Subset, FS_CardinalityType
  <2> DEFINE f == thread[t].file
  <2>7. f \in files \ left /\ \A u \in Threads \ {t} : HasFile(u) => thread[u].file # f
    BY <2>1 DEF OcrInv, OcrOwners
  <2> HIDE DEF f
  <2>8. /\ left' \subseteq files' /\ files' \subseteq files
        /\ files' \ left' = (files \ left) \ {f}
    BY <2>1, <2>7 DEF OcrInv, OcrTypes, f
  <2>4. OcrTypes'
    BY <2>1, <2>2, <2>3, <2>8 DEF OcrInv, OcrTypes
  <2>9. \A u \in Threads : HasFile(u)' => u # t /\ HasFile(u) /\ thread'[u] = thread[u]
    BY <2>2 DEF HasFile, InOcr!Idle
  <2>10. \A u \in Threads : HasFile(u) /\ u # t => HasFile(u)' /\ thread'[u] = thread[u]
    BY <2>2 DEF HasFile
  <2>5. OcrOwners'
    <3>1. \A g \in (files \ left) \ {f} : \E u \in Threads : HasFile(u) /\ u # t /\ thread[u].file = g
      BY <2>7 DEF OcrInv, OcrOwners, f
    <3> QED
      BY <2>7, <2>8, <2>9, <2>10, <3>1 DEF OcrInv, OcrOwners
  <2>6. OcrCounts'
    <3>1. PICK m, w \in Nat :
            /\ Cardinality(Making) = m + (IF thread[t].at = "making" THEN 1 ELSE 0)
            /\ Cardinality(Making') = m + (IF thread'[t].at = "making" THEN 1 ELSE 0)
            /\ Cardinality(Waiting) = w + (IF thread[t].at \in {"making", "ready"} THEN 1 ELSE 0)
            /\ Cardinality(Waiting') = w + (IF thread'[t].at \in {"making", "ready"} THEN 1 ELSE 0)
      BY <2>2, OcrMoves DEF OcrInv
    <3> QED
      BY <3>1, <2>1, <2>2, <2>3, <1>0 DEF OcrInv, OcrTypes, OcrCounts, HasFile, InOcr!Idle
  <2> QED
    BY <2>4, <2>5, <2>6 DEF OcrInv
<1>7. CASE UNCHANGED InOcr!vars
  BY <1>7 DEF InOcr!vars, OcrInv, OcrTypes, OcrOwners, OcrCounts, HasFile, Making, Waiting
<1> QED
  BY <1>1, <1>2, <1>3, <1>4, <1>5, <1>6, <1>7 DEF InOcr!Next

(* Temporary files have threads, and a pipeline is made once.               *)
LEMMA OcrAccounted == OcrInv => InOcr!FilesAccounted /\ InOcr!MadeOnce /\ InOcr!TypeOK
<1> SUFFICES ASSUME OcrInv PROVE InOcr!FilesAccounted /\ InOcr!MadeOnce /\ InOcr!TypeOK
  OBVIOUS
<1>1. InOcr!MadeOnce /\ pipeline.made \in 0..MaxRecognitions
  BY OcrFinite, OcrAssumption DEF OcrInv, OcrTypes, OcrCounts, InOcr!MadeOnce
<1>2. InOcr!TypeOK
  BY <1>1 DEF OcrInv, OcrTypes, InOcr!TypeOK
<1>3. ASSUME NEW f \in files \ left
      PROVE  Cardinality({t \in Threads : thread[t].at \in {"created", "written", "done"} /\ thread[t].file = f}) = 1
  <2>1. PICK t \in Threads : HasFile(t) /\ thread[t].file = f
    BY DEF OcrInv, OcrOwners
  <2>2. {u \in Threads : thread[u].at \in {"created", "written", "done"} /\ thread[u].file = f} = {t}
    BY <2>1 DEF OcrInv, OcrOwners, HasFile
  <2> QED
    BY <2>2, FS_Singleton
<1>4. InOcr!FilesAccounted
  BY <1>3, CardinalitiesAgree DEF OcrInv, OcrOwners, HasFile, InOcr!FilesAccounted
<1> QED
  BY <1>1, <1>2, <1>4

(***************************************************************************)
(* Registries.                                                             *)
(***************************************************************************)
(* What has been accepted is where it is looked up.                         *)
Looked(a) ==
  /\ a \in [kind: {"action"} \cup InRegistries!Kinds, spelling: InRegistries!Spellings(InRegistries!ActionNames \cup InRegistries!ProviderNames), thing: Things]
  /\ a.kind = "action" =>
       /\ a.spelling.name \in InRegistries!ActionNames
       /\ actions[InRegistries!Plain(a.spelling.name)] # Nothing
       /\ actions[InRegistries!Plain(a.spelling.name)].handler = a.thing
  /\ a.kind # "action" =>
       a.spelling.name \in InRegistries!ProviderNames /\ providers[a.kind][InRegistries!Plain(a.spelling.name)] = a.thing

RegistriesInv ==
  /\ InRegistries!TypeOK
  /\ actions \in [InRegistries!Spellings(InRegistries!ActionNames) -> [handler: Things, category: InRegistries!Categories] \cup {Nothing}]
  /\ providers \in [InRegistries!Kinds -> [InRegistries!Spellings(InRegistries!ProviderNames) -> Things \cup {Nothing}]]
  /\ \A a \in accepted : Looked(a)

(* The invariant of the registries holds at the start.                      *)
LEMMA RegistriesInit == InRegistries!Init => RegistriesInv
BY DEF InRegistries!Init, RegistriesInv, InRegistries!TypeOK

(* Every registration keeps it.                                             *)
LEMMA RegistriesNext == RegistriesInv /\ [InRegistries!Next]_InRegistries!vars => RegistriesInv'
<1> SUFFICES ASSUME RegistriesInv, [InRegistries!Next]_InRegistries!vars PROVE RegistriesInv'
  OBVIOUS
<1>0. \A n \in InRegistries!ActionNames : InRegistries!Plain(n) \in InRegistries!Spellings(InRegistries!ActionNames)
  BY DEF InRegistries!Plain, InRegistries!Spellings
<1>00. \A n \in InRegistries!ProviderNames : InRegistries!Plain(n) \in InRegistries!Spellings(InRegistries!ProviderNames)
  BY DEF InRegistries!Plain, InRegistries!Spellings
<1>1. ASSUME NEW s \in InRegistries!Spellings(InRegistries!ActionNames),
             NEW c \in InRegistries!Categories \cup {Nothing}, NEW t \in Things,
             InRegistries!RegisterAction(s, c, t)
      PROVE  RegistriesInv'
  <2> DEFINE key == InRegistries!Plain(s.name)
             under == IF s.name \in DOMAIN InRegistries!Allowlist THEN InRegistries!CategoryOf(s.name, c) ELSE Nothing
             new == [handler |-> t, category |-> under]
             a0 == [kind |-> "action", spelling |-> s, thing |-> t]
  <2>1. /\ under # Nothing /\ actions[key] = Nothing /\ actions' = [actions EXCEPT ![key] = new]
        /\ accepted' = accepted \cup {a0} /\ providers' = providers
    BY <1>1 DEF InRegistries!RegisterAction, InRegistries!Strip, InRegistries!Plain
  <2>2. s.name \in InRegistries!ActionNames /\ key.name = s.name /\ key \in InRegistries!Spellings(InRegistries!ActionNames)
    BY <1>0 DEF InRegistries!Spellings, InRegistries!Plain
  <2>3. s.name \in DOMAIN InRegistries!Allowlist /\ under = InRegistries!Allowlist[s.name] /\ under \in InRegistries!Categories
    BY <2>1, RegistriesAssumption
    DEF InRegistries!CategoryOf, InRegistries!Allowlist, InRegistries!Categories
  <2>4. new \in [handler: Things, category: InRegistries!Categories] /\ new.handler = t /\ new.category = InRegistries!Allowlist[s.name]
    BY <2>3
  <2> HIDE DEF new, under
  <2>5. /\ actions' \in [InRegistries!Spellings(InRegistries!ActionNames) -> [handler: Things, category: InRegistries!Categories] \cup {Nothing}]
        /\ actions'[key] = new /\ \A x \in InRegistries!Spellings(InRegistries!ActionNames) \ {key} : actions'[x] = actions[x]
    BY <2>1, <2>2, <2>4 DEF RegistriesInv
  <2>6. InRegistries!TypeOK'
    BY <2>2, <2>3, <2>4, <2>5 DEF RegistriesInv, InRegistries!TypeOK
  <2>7. Looked(a0)'
    <3>1. s \in InRegistries!Spellings(InRegistries!ActionNames \cup InRegistries!ProviderNames)
      BY DEF InRegistries!Spellings
    <3> QED
      BY <3>1, <2>2, <2>4, <2>5, RegistriesAssumption DEF Looked
  <2>8. ASSUME NEW a \in accepted PROVE Looked(a)'
    <3>1. Looked(a)
      BY DEF RegistriesInv
    <3>2. a.kind = "action" =>
            InRegistries!Plain(a.spelling.name) # key /\ InRegistries!Plain(a.spelling.name) \in InRegistries!Spellings(InRegistries!ActionNames)
      BY <3>1, <2>1, <1>0 DEF Looked
    <3> QED
      BY <3>1, <3>2, <2>1, <2>5 DEF Looked
  <2> QED
    BY <2>1, <2>5, <2>6, <2>7, <2>8 DEF RegistriesInv
<1>2. ASSUME NEW k \in InRegistries!Kinds,
             NEW s \in InRegistries!Spellings(InRegistries!ProviderNames), NEW t \in Things,
             NEW fits \in BOOLEAN,
             InRegistries!RegisterProvider(k, s, t, fits)
      PROVE  RegistriesInv'
  <2> DEFINE key == InRegistries!Plain(s.name)
             a0 == [kind |-> k, spelling |-> s, thing |-> t]
  <2>1. /\ providers[k][key] = Nothing /\ providers' = [providers EXCEPT ![k][key] = t]
        /\ accepted' = accepted \cup {a0} /\ actions' = actions
    BY <1>2 DEF InRegistries!RegisterProvider, InRegistries!Strip, InRegistries!Plain
  <2>2. s.name \in InRegistries!ProviderNames /\ key \in InRegistries!Spellings(InRegistries!ProviderNames)
    BY <1>00 DEF InRegistries!Spellings
  <2>3. /\ providers' \in [InRegistries!Kinds -> [InRegistries!Spellings(InRegistries!ProviderNames) -> Things \cup {Nothing}]]
        /\ providers'[k][key] = t
        /\ \A j \in InRegistries!Kinds, x \in InRegistries!Spellings(InRegistries!ProviderNames) :
             j # k \/ x # key => providers'[j][x] = providers[j][x]
    BY <2>1, <2>2 DEF RegistriesInv
  <2>4. Looked(a0)'
    <3>1. s \in InRegistries!Spellings(InRegistries!ActionNames \cup InRegistries!ProviderNames)
      BY DEF InRegistries!Spellings
    <3> QED
      BY <3>1, <2>2, <2>3 DEF Looked, InRegistries!Kinds
  <2>5. ASSUME NEW a \in accepted PROVE Looked(a)'
    <3>1. Looked(a) /\ a.thing # Nothing
      BY RegistriesAssumption DEF RegistriesInv, Looked
    <3>2. a.kind # "action" =>
            /\ a.kind \in InRegistries!Kinds /\ InRegistries!Plain(a.spelling.name) \in InRegistries!Spellings(InRegistries!ProviderNames)
                               /\ (a.kind # k \/ InRegistries!Plain(a.spelling.name) # key)
      BY <3>1, <2>1, <1>00 DEF Looked
    <3> QED
      BY <3>1, <3>2, <2>1, <2>3 DEF Looked
  <2> QED
    BY <2>1, <2>3, <2>4, <2>5 DEF RegistriesInv, InRegistries!TypeOK
<1>3. CASE UNCHANGED InRegistries!vars
  BY <1>3 DEF InRegistries!vars, RegistriesInv, InRegistries!TypeOK, Looked
<1> QED
  BY <1>1, <1>2, <1>3 DEF InRegistries!Next

(* What was registered is found for good.                                   *)
LEMMA RegistriesKept == RegistriesInv => InRegistries!RegisteredForGood
<1> SUFFICES ASSUME RegistriesInv, NEW a \in accepted,
                    NEW s \in InRegistries!Spellings(InRegistries!ActionNames \cup InRegistries!ProviderNames),
                    s.name = a.spelling.name
             PROVE  InRegistries!Found(a.kind, s) = a.thing
  BY DEF InRegistries!RegisteredForGood
<1>1. Looked(a) /\ InRegistries!Strip(s) = InRegistries!Plain(a.spelling.name)
  BY DEF RegistriesInv, InRegistries!Strip
<1> QED
  BY <1>1 DEF Looked, InRegistries!Found, InRegistries!Kinds

(***************************************************************************)
(* Stored files.                                                           *)
(***************************************************************************)
(* A link ends no later than its longest life after it was made, which was  *)
(* before the reader lost access.                                           *)
StorageTypes ==
  /\ backend \in {"local", "minio"} /\ fileClock \in 0..MaxFileTime
  /\ stored \in Seq(Files \cup {Nothing}) /\ links \in Seq(Nat)
  /\ Len(links) = Len(stored) /\ Len(stored) <= MaxStored
  /\ kept \subseteq 1..Len(stored) /\ lost \subseteq 1..Len(stored)
  /\ withdrawn \in 0..MaxFileTime \cup {Nothing}

FileOK(f) == f # Nothing /\ backend = "minio" => InStorage!Valid(f) /\ InStorage!Clean(f)
LinkOK(n) ==
  /\ n <= fileClock + LinkLife
  /\ backend = "minio" /\ withdrawn # Nothing => n <= withdrawn + LinkLife

StorageInv ==
  /\ StorageTypes
  /\ \A key \in 1..Len(stored) :
       /\ FileOK(stored[key]) /\ LinkOK(links[key])
       /\ key \in kept => stored[key] # Nothing
       /\ stored[key] # Nothing /\ key \notin kept => key \in lost

(* The invariant of the stored files holds at the start.                    *)
LEMMA StorageInit == InStorage!Init => StorageInv
<1> SUFFICES ASSUME InStorage!Init PROVE StorageInv
  OBVIOUS
<1>1. stored \in Seq(Files \cup {Nothing}) /\ links \in Seq(Nat) /\ Len(stored) = 0 /\ Len(links) = 0
  BY DEF InStorage!Init
<1> QED
  BY <1>1, StorageAssumption DEF InStorage!Init, StorageInv, StorageTypes

(* Every step of the storage keeps its invariant.                           *)
LEMMA StorageNext == StorageInv /\ [InStorage!Next]_InStorage!vars => StorageInv'
<1> SUFFICES ASSUME StorageInv, [InStorage!Next]_InStorage!vars PROVE StorageInv'
  OBVIOUS
<1>0. /\ DOMAIN stored = 1..Len(stored) /\ DOMAIN links = 1..Len(stored) /\ Len(stored) \in Nat
      /\ \A key \in 1..Len(stored) : stored[key] \in Files \cup {Nothing} /\ links[key] \in Nat
  BY ElementOfSeq DEF StorageInv, StorageTypes
<1> USE StorageAssumption
<1>1. ASSUME NEW f \in Files, NEW dies \in BOOLEAN, InStorage!Put(f, dies) PROVE StorageInv'
  <2> DEFINE n == Len(stored) + 1
  <2>1. /\ Len(stored) < MaxStored /\ InStorage!Admitted(f) /\ stored' = Append(stored, f)
        /\ links' = Append(links, 0) /\ UNCHANGED <<backend, fileClock, withdrawn>>
        /\ IF dies THEN /\ kept' = IF backend = "local" THEN {} ELSE kept
                        /\ lost' = lost \cup {n} \cup (kept \ kept')
                   ELSE kept' = kept \cup {n} /\ lost' = lost
    BY <1>1 DEF InStorage!Put, InStorage!PutObject, InStorage!NewKey
  <2>2. /\ stored' \in Seq(Files \cup {Nothing}) /\ Len(stored') = n /\ stored'[n] = f
        /\ \A key \in 1..Len(stored) : stored'[key] = stored[key]
    BY <2>1, AppendProperties DEF StorageInv, StorageTypes
  <2>3. /\ links' \in Seq(Nat) /\ Len(links') = n /\ links'[n] = 0
        /\ \A key \in 1..Len(stored) : links'[key] = links[key]
    BY <2>1, AppendProperties DEF StorageInv, StorageTypes
  <2>4. n \in Nat /\ n <= MaxStored /\ 1..n = 1..Len(stored) \cup {n} /\ n \notin 1..Len(stored)
    BY <2>1, <1>0
  <2> HIDE DEF n
  <2>5. StorageTypes'
    BY <2>1, <2>2, <2>3, <2>4 DEF StorageInv, StorageTypes
  <2>6. FileOK(f)' /\ LinkOK(0)' /\ f # Nothing
    BY <2>1
    DEF FileOK, LinkOK, InStorage!Admitted, InStorage!Valid, InStorage!Clean, StorageInv,
       StorageTypes
  <2>7. \A key \in 1..Len(stored) : FileOK(stored[key])' /\ LinkOK(links[key])'
    BY <2>1, <2>2, <2>3
    DEF StorageInv, FileOK, LinkOK, InStorage!Valid, InStorage!Clean, InStorage!HasExpectedHeader
  <2>8. n \in kept' \/ n \in lost'
    BY <2>1
  <2>9. \A key \in 1..Len(stored) : /\ key \in kept' => key \in kept
                                    /\ key \in kept /\ key \notin kept' => key \in lost'
                                    /\ key \in lost => key \in lost'
    BY <2>1, <2>4
  <2> QED
    BY <2>2, <2>3, <2>4, <2>5, <2>6, <2>7, <2>8, <2>9 DEF StorageInv
<1>2. CASE InStorage!Restart
  BY <1>2 DEF InStorage!Restart, StorageInv, StorageTypes, FileOK, LinkOK
<1>3. ASSUME NEW key \in DOMAIN stored, NEW removed \in BOOLEAN,
             InStorage!Delete(key, removed) PROVE StorageInv'
  <2>1. CASE ~removed
    BY <1>3, <2>1 DEF InStorage!Delete, StorageInv, StorageTypes, FileOK, LinkOK
  <2>2. CASE removed
    <3>1. /\ stored' = [stored EXCEPT ![key] = Nothing] /\ kept' = kept \ {key}
          /\ UNCHANGED <<backend, fileClock, links, withdrawn, lost>>
      BY <1>3, <2>2 DEF InStorage!Delete, InStorage!RemoveObject
    <3>2. /\ stored' \in Seq(Files \cup {Nothing}) /\ Len(stored') = Len(stored)
          /\ stored'[key] = Nothing
          /\ \A k \in 1..Len(stored) : k # key => stored'[k] = stored[k]
      BY <3>1, <1>0, ExceptSeq DEF StorageInv, StorageTypes
    <3>3. StorageTypes'
      BY <3>1, <3>2 DEF StorageInv, StorageTypes
    <3> QED
      BY <3>1, <3>2, <3>3, <1>0 DEF StorageInv, FileOK, LinkOK
  <2> QED
    BY <2>1, <2>2
<1>4. ASSUME NEW key \in DOMAIN stored, NEW seconds \in 0..LinkLife + 1,
             InStorage!Link(key, seconds) PROVE StorageInv'
  <2> DEFINE n == IF fileClock + seconds > links[key] THEN fileClock + seconds ELSE links[key]
  <2>1. /\ InStorage!MayRead /\ seconds <= LinkLife /\ links' = [links EXCEPT ![key] = n]
        /\ UNCHANGED <<backend, fileClock, stored, kept, withdrawn, lost>>
    BY <1>4 DEF InStorage!Link, InStorage!LifeAllowed
  <2>2. n \in Nat /\ n <= fileClock + LinkLife
    BY <2>1, <1>0 DEF StorageInv, StorageTypes, LinkOK
  <2>3. LinkOK(n)
    BY <2>1, <2>2 DEF LinkOK, InStorage!MayRead
  <2> HIDE DEF n
  <2>4. /\ links' \in Seq(Nat) /\ Len(links') = Len(links) /\ links'[key] = n
        /\ \A k \in 1..Len(stored) : k # key => links'[k] = links[k]
    BY <2>1, <2>2, <1>0, ExceptSeq DEF StorageInv, StorageTypes
  <2>5. StorageTypes'
    BY <2>1, <2>4 DEF StorageInv, StorageTypes
  <2>6. \A k \in 1..Len(stored) : LinkOK(links'[k])
    BY <2>3, <2>4 DEF StorageInv
  <2> QED
    BY <2>1, <2>5, <2>6, <1>0 DEF StorageInv, FileOK, LinkOK
<1>5. CASE InStorage!Withdraw
  BY <1>5, <1>0 DEF InStorage!Withdraw, StorageInv, StorageTypes, FileOK, LinkOK
<1>6. CASE InStorage!Tick
  BY <1>6, <1>0 DEF InStorage!Tick, StorageInv, StorageTypes, FileOK, LinkOK
<1>7. CASE UNCHANGED InStorage!vars
  BY <1>7 DEF InStorage!vars, StorageInv, StorageTypes, FileOK, LinkOK
<1> QED
  BY <1>1, <1>2, <1>3, <1>4, <1>5, <1>6, <1>7 DEF InStorage!Next

(* What can be read fits, and files and records agree.                      *)
LEMMA StorageFit == StorageInv =>
  InStorage!ReadableIsFit /\ InStorage!RecordsAndObjects /\ InStorage!TypeOK
<1> SUFFICES ASSUME StorageInv PROVE InStorage!ReadableIsFit /\ InStorage!RecordsAndObjects /\ InStorage!TypeOK
  OBVIOUS
<1>1. /\ DOMAIN stored = 1..Len(stored)
      /\ \A key \in 1..Len(stored) : stored[key] \in Files \cup {Nothing} /\ links[key] \in Nat
  BY ElementOfSeq DEF StorageInv, StorageTypes
<1>2. InStorage!ReadableIsFit
  BY <1>1, StorageAssumption
    
     DEF StorageInv, StorageTypes, FileOK, LinkOK, InStorage!ReadableIsFit, InStorage!Readable,
        InStorage!Valid, InStorage!Clean, InStorage!HasExpectedHeader
<1> QED
  BY <1>1, <1>2 DEF StorageInv, StorageTypes, InStorage!RecordsAndObjects, InStorage!TypeOK

(***************************************************************************)
(* Sessions of the database.                                               *)
(***************************************************************************)
(* As long as nobody has entered over another, the session of the object is *)
(* that of the only user inside, and only this user has written in it.      *)
UnitsTypes ==
  /\ opened \in Seq([by: Coroutines, alone: BOOLEAN]) /\ pending \in Seq(SUBSET Coroutines)
  /\ Len(pending) = Len(opened) /\ Len(opened) <= MaxSessions
  /\ current \in 1..Len(opened) \cup {Nothing} /\ inside \subseteq Coroutines
  /\ closed \subseteq 1..Len(opened) /\ committed \subseteq Coroutines \X (1..Len(opened))

UnitsAlone ==
  /\ \/ inside = {}
     \/ current # Nothing /\ inside = {opened[current].by}
  /\ \A s \in 1..Len(opened) : pending[s] \subseteq {opened[s].by}

UnitsInv ==
  /\ UnitsTypes /\ InUnits!OwnSessions
  /\ current # Nothing => inside # {}
  /\ ~InUnits!Overlapped => UnitsAlone

(* The invariant of the sessions holds at the start.                        *)
LEMMA UnitsInit == InUnits!Init => UnitsInv
<1> SUFFICES ASSUME InUnits!Init PROVE UnitsInv
  OBVIOUS
<1>1. opened \in Seq([by: Coroutines, alone: BOOLEAN]) /\ pending \in Seq(SUBSET Coroutines)
      /\ Len(opened) = 0 /\ Len(pending) = 0 /\ DOMAIN opened = {}
  BY DEF InUnits!Init
<1> QED
  BY <1>1, UnitsAssumption
    
     DEF InUnits!Init, UnitsInv, UnitsTypes, UnitsAlone, InUnits!OwnSessions, InUnits!Overlapped,
        InUnits!Sessions

(* Every step of a coroutine keeps it.                                      *)
LEMMA UnitsNext == UnitsInv /\ [InUnits!Next]_InUnits!vars => UnitsInv'
<1> SUFFICES ASSUME UnitsInv, [InUnits!Next]_InUnits!vars PROVE UnitsInv'
  OBVIOUS
<1>0. DOMAIN opened = 1..Len(opened) /\ DOMAIN pending = 1..Len(opened) /\ Len(opened) \in Nat
  BY DEF UnitsInv, UnitsTypes
<1> USE UnitsAssumption DEF UnitsInv, UnitsAlone, InUnits!OwnSessions, InUnits!Overlapped, InUnits!Sessions
<1>1. ASSUME NEW u \in Coroutines, InUnits!Enter(u) PROVE UnitsInv'
  <2> DEFINE n == Len(opened) + 1
             o == [by |-> u, alone |-> inside = {}]
  <2>1. o \in [by: Coroutines, alone: BOOLEAN]
    OBVIOUS
  <2>2. /\ opened' = Append(opened, o) /\ pending' = Append(pending, {}) /\ current' = n
        /\ inside' = inside \cup {u} /\ closed' = closed /\ committed' = committed
        /\ u \notin inside /\ Len(opened) < MaxSessions
    BY <1>1 DEF InUnits!Enter
  <2>3. /\ opened' \in Seq([by: Coroutines, alone: BOOLEAN]) /\ Len(opened') = n
        /\ opened'[n] = o /\ \A s \in 1..Len(opened) : opened'[s] = opened[s]
    <3> HIDE DEF o
    <3> QED
      BY <2>1, <2>2, AppendProperties DEF UnitsTypes
  <2>10. opened'[n].by = u /\ (opened'[n].alone <=> inside = {})
    BY <2>3
  <2>4. /\ pending' \in Seq(SUBSET Coroutines) /\ Len(pending') = n /\ pending'[n] = {}
        /\ \A s \in 1..Len(opened) : pending'[s] = pending[s]
    BY <2>2, AppendProperties DEF UnitsTypes
  <2>5. DOMAIN opened' = 1..n /\ n \in Nat /\ 1..n = 1..Len(opened) \cup {n} /\ n \notin 1..Len(opened)
    BY <2>3, <1>0
  <2> HIDE DEF n, o
  <2>6. UnitsTypes'
    <3>1. n <= MaxSessions
      BY <2>2, <1>0 DEF n
    <3> QED
      BY <2>2, <2>3, <2>10, <2>4, <2>5, <3>1, <1>0 DEF UnitsTypes
  <2>7. ~InUnits!Overlapped' => ~InUnits!Overlapped /\ inside = {} /\ current = Nothing
    BY <2>3, <2>10, <2>5, <1>0
  <2>8. ~InUnits!Overlapped' => UnitsAlone'
    BY <2>2, <2>3, <2>10, <2>4, <2>5, <2>7, <1>0 DEF UnitsTypes
  <2>9. InUnits!OwnSessions'
    <3>1. ASSUME ~InUnits!Overlapped' PROVE \A s \in 1..n : s \in closed' \/ (s = current' /\ opened'[s].by \in inside')
      BY <3>1, <2>2, <2>3, <2>10, <2>5, <2>7, <1>0
    <3>2. ASSUME ~InUnits!Overlapped' PROVE \A c \in committed' : opened'[c[2]].by = c[1]
      BY <3>2, <2>2, <2>3, <2>10, <2>5, <2>7, <1>0 DEF UnitsTypes
    <3>3. ASSUME NEW s \in 1..n, s \notin closed',
                 s # current' PROVE \E t \in 1..n : t > s /\ ~opened'[t].alone
      <4>1. s \in 1..Len(opened)
        BY <3>3, <2>2, <2>5
      <4>2. CASE s = current
        <5>1. ~opened'[n].alone
          BY <4>2, <4>1, <2>3, <2>10 DEF UnitsTypes
        <5> QED
          BY <5>1, <4>1, <2>5, <1>0 DEF n
      <4>3. CASE s # current
        <5>1. PICK t \in 1..Len(opened) : t > s /\ ~opened[t].alone
          BY <4>1, <4>3, <3>3, <2>2, <1>0
        <5> QED
          BY <5>1, <2>3, <2>10, <2>5
      <4> QED
        BY <4>2, <4>3
    <3> QED
      BY <3>1, <3>2, <3>3, <2>5
  <2> QED
    BY <2>2, <2>6, <2>8, <2>9
<1>2. ASSUME NEW u \in Coroutines, InUnits!Write(u) PROVE UnitsInv'
  <2>1. /\ current \in 1..Len(opened) /\ u \in inside
        /\ UNCHANGED <<current, inside, opened, closed, committed>>
        /\ pending' = [pending EXCEPT ![current] = pending[current] \cup {u}]
    BY <1>2 DEF InUnits!Write, InUnits!HasSession, UnitsTypes
  <2>2. pending[current] \cup {u} \in SUBSET Coroutines
    BY <2>1, <1>0, ElementOfSeq DEF UnitsTypes
  <2>3. /\ pending' \in Seq(SUBSET Coroutines) /\ Len(pending') = Len(opened)
        /\ pending'[current] = pending[current] \cup {u}
        /\ \A s \in 1..Len(opened) : s # current => pending'[s] = pending[s]
    BY <2>1, <2>2, ExceptSeq DEF UnitsTypes
  <2>4. UnitsTypes'
    BY <2>1, <2>3 DEF UnitsTypes
  <2> QED
    BY <2>1, <2>3, <2>4, <1>0
<1>3. ASSUME NEW u \in Coroutines, InUnits!Commit(u) PROVE UnitsInv'
  <2>1. /\ current \in 1..Len(opened) /\ u \in inside
        /\ UNCHANGED <<current, inside, opened, closed>>
        /\ pending' = [pending EXCEPT ![current] = {}]
        /\ committed' = committed \cup {<<w, current>> : w \in pending[current]}
    BY <1>3 DEF InUnits!Commit, InUnits!HasSession, UnitsTypes
  <2>2. pending[current] \in SUBSET Coroutines
    BY <2>1, <1>0, ElementOfSeq DEF UnitsTypes
  <2>3. /\ pending' \in Seq(SUBSET Coroutines) /\ Len(pending') = Len(opened)
        /\ pending'[current] = {}
        /\ \A s \in 1..Len(opened) : s # current => pending'[s] = pending[s]
    BY <2>1, <2>2, ExceptSeq DEF UnitsTypes
  <2>4. UnitsTypes'
    BY <2>1, <2>2, <2>3 DEF UnitsTypes
  <2>5. ~InUnits!Overlapped => \A c \in committed' : opened[c[2]].by = c[1]
    BY <2>1
  <2> QED
    BY <2>1, <2>3, <2>4, <2>5, <1>0
<1>4. ASSUME NEW u \in Coroutines, NEW failed \in BOOLEAN, InUnits!Leave(u, failed) PROVE UnitsInv'
  <2>1. /\ u \in inside /\ inside' = inside \ {u} /\ current' = Nothing
        /\ UNCHANGED <<opened, committed>>
        /\ closed' = IF current = Nothing THEN closed ELSE closed \cup {current}
        /\ pending' = IF current = Nothing THEN pending ELSE [pending EXCEPT ![current] = {}]
    BY <1>4 DEF InUnits!Leave, InUnits!Closed
  <2>2. /\ pending' \in Seq(SUBSET Coroutines) /\ Len(pending') = Len(opened)
        /\ \A s \in 1..Len(opened) : pending'[s] \subseteq pending[s]
    <3>1. CASE current = Nothing
      BY <3>1, <2>1 DEF UnitsTypes
    <3>2. CASE current # Nothing
      BY <3>2, <2>1, ExceptSeq DEF UnitsTypes
    <3> QED
      BY <3>1, <3>2
  <2>3. UnitsTypes'
    BY <2>1, <2>2 DEF UnitsTypes
  <2>4. ~InUnits!Overlapped => UnitsAlone'
    BY <2>1, <2>2, <1>0
  <2>5. InUnits!OwnSessions'
    BY <2>1, <1>0 DEF UnitsTypes
  <2> QED
    BY <2>1, <2>3, <2>4, <2>5
<1>5. CASE UNCHANGED InUnits!vars
  BY <1>5 DEF InUnits!vars, UnitsTypes
<1> QED
  BY <1>1, <1>2, <1>3, <1>4, <1>5 DEF InUnits!Next

(* Sessions keep their types.                                               *)
LEMMA UnitsTyped == UnitsInv => InUnits!TypeOK
<1> SUFFICES ASSUME UnitsInv PROVE InUnits!TypeOK
  OBVIOUS
<1>1. \A s \in 1..Len(opened) : opened[s] \in [by: Coroutines, alone: BOOLEAN] /\ pending[s] \in SUBSET Coroutines
  BY ElementOfSeq DEF UnitsInv, UnitsTypes
<1> QED
  BY <1>1 DEF UnitsInv, UnitsTypes, InUnits!TypeOK, InUnits!Sessions

(***************************************************************************)
(* Migrations.                                                             *)
(***************************************************************************)
(* The tables that the migrations up to revision n leave.                   *)
SchemaAt(n, ts) ==
  /\ n = 0 => ts = {}
  /\ n = 1 => ts = {"core"}
  /\ n = 2 => ts = {"core", "extended"}
  /\ n = 3 => ts = {"core", "extended", "fields"} \/ ts = {}
  /\ n = 4 => ts = {"full"} \/ ts = {"full", "parse"}
  /\ n = 5 => ts = {"full", "parse"}

(* A run has come from the committed revision if it holds the tables, and   *)
(* is where it has begun if it does not.                                    *)
RunOK(r) ==
  /\ holder = r => /\ run[r].from = revision /\ InSchema!Running(r)
                   /\ SchemaAt(run[r].at, run[r].tables)
  /\ holder # r => run[r].at = run[r].from

(* A run that was rebuilt goes nowhere below revision 3.                    *)
RunRebuilt(r) ==
  holder = r /\ (revision >= 4 \/ (revision = 3 /\ tables = {})) =>
    run[r].at >= 4 \/ (run[r].at = 3 /\ run[r].tables = {})

SchemaInv ==
  /\ InSchema!TypeOK /\ SchemaAt(revision, tables)
  /\ \A r \in Migrators : RunOK(r) /\ RunRebuilt(r)

(* The invariant of the schema holds at the start.                          *)
LEMMA SchemaInit == InSchema!Init => SchemaInv
BY SchemaAssumption
  
   DEF InSchema!Init, SchemaInv, InSchema!TypeOK, SchemaAt, RunOK, RunRebuilt, InSchema!Running,
      InSchema!Stopped, InSchema!Revisions, InSchema!Groups

(* A migration takes the tables of a revision to those of the next one.     *)
LEMMA MigrationUp ==
  ASSUME NEW m \in 1..5, NEW ts \in SUBSET InSchema!Groups, SchemaAt(m - 1, ts),
         InSchema!CanUpgrade(m, ts)
  PROVE  SchemaAt(m, InSchema!Upgraded(m, ts)) /\ InSchema!Upgraded(m, ts) \in SUBSET InSchema!Groups
<1> USE DEF SchemaAt, InSchema!CanUpgrade, InSchema!Upgraded, InSchema!Added, InSchema!Core, InSchema!Extended, InSchema!Fields, InSchema!Full, InSchema!Parse, InSchema!Groups
<1>1. CASE m = 1
  <2>1. ts = {} /\ InSchema!Added[1] = {"core"}
    BY <1>1
  <2> QED
    BY <1>1, <2>1
<1>2. CASE m = 2
  BY <1>2
<1>3. CASE m = 3
  BY <1>3
<1>4. CASE m = 4
  BY <1>4
<1>5. CASE m = 5
  BY <1>5
<1>6. m = 1 \/ m = 2 \/ m = 3 \/ m = 4 \/ m = 5
  OBVIOUS
<1> QED
  BY <1>1, <1>2, <1>3, <1>4, <1>5, <1>6

(* What a downgrade leaves.                                                 *)
LEMMA MigrationDown ==
  ASSUME NEW m \in 1..5, NEW ts \in SUBSET InSchema!Groups, SchemaAt(m, ts),
         InSchema!CanDowngrade(m, ts)
  PROVE  /\ SchemaAt(m - 1, InSchema!Downgraded(m, ts))
         /\ InSchema!Downgraded(m, ts) \in SUBSET InSchema!Groups
         /\ m >= 4 \/ (m = 3 /\ ts = {}) =>
              m - 1 >= 4 \/ (m - 1 = 3 /\ InSchema!Downgraded(m, ts) = {})
<1> USE DEF SchemaAt, InSchema!CanDowngrade, InSchema!Downgraded, InSchema!Added, InSchema!Core, InSchema!Extended, InSchema!Fields, InSchema!Full, InSchema!Parse, InSchema!Groups
<1>1. CASE m = 1
  BY <1>1
<1>2. CASE m = 2
  BY <1>2
<1>3. CASE m = 3
  BY <1>3
<1>4. CASE m = 4
  BY <1>4
<1>5. CASE m = 5
  BY <1>5
<1>6. m = 1 \/ m = 2 \/ m = 3 \/ m = 4 \/ m = 5
  OBVIOUS
<1> QED
  BY <1>1, <1>2, <1>3, <1>4, <1>5, <1>6

(* Every migration keeps the invariant.                                     *)
LEMMA SchemaNext == SchemaInv /\ [InSchema!Next]_InSchema!vars => SchemaInv'
<1> SUFFICES ASSUME SchemaInv, [InSchema!Next]_InSchema!vars PROVE SchemaInv'
  OBVIOUS
<1>1. ASSUME NEW r \in Migrators, NEW target \in InSchema!Revisions,
             InSchema!Begin(r, target) PROVE SchemaInv'
  BY <1>1, SchemaAssumption
  DEF InSchema!Begin, SchemaInv, InSchema!TypeOK, RunOK, RunRebuilt, InSchema!Running
<1>2. ASSUME NEW r \in Migrators, InSchema!Up(r) PROVE SchemaInv'
  <2> DEFINE m == run[r].at + 1
             ts == InSchema!Upgraded(m, InSchema!Seen(r))
  <2>1. /\ run[r].at \in InSchema!Revisions /\ run[r].to \in InSchema!Revisions /\ m \in 1..5
        /\ InSchema!Seen(r) \in SUBSET InSchema!Groups /\ SchemaAt(m - 1, InSchema!Seen(r))
        /\ run[r].from = revision
    BY <1>2, SchemaAssumption
    DEF InSchema!Up, InSchema!Holds, InSchema!Seen, SchemaInv, InSchema!TypeOK, RunOK,
       InSchema!Revisions
  <2>2. InSchema!CanUpgrade(m, InSchema!Seen(r))
    BY <1>2 DEF InSchema!Up
  <2>3. SchemaAt(m, ts) /\ ts \in SUBSET InSchema!Groups
    BY <2>1, <2>2, MigrationUp
  <2>4. /\ holder' = r /\ revision' = revision /\ tables' = tables
        /\ run' = [run EXCEPT ![r] = [from |-> run[r].from, at |-> m, to |-> run[r].to, tables |-> ts]]
    <3> DEFINE mid == [run[r] EXCEPT !.at = m]
    <3>1. mid = [from |-> run[r].from, at |-> m, to |-> run[r].to, tables |-> run[r].tables]
      BY DEF SchemaInv, InSchema!TypeOK
    <3>2. run' = [run EXCEPT ![r] = [mid EXCEPT !.tables = ts]]
      BY <1>2 DEF InSchema!Up
    <3>3. [mid EXCEPT !.tables = ts] = [from |-> run[r].from, at |-> m, to |-> run[r].to, tables |-> ts]
      <4> HIDE DEF mid, ts, m
      <4> QED
        BY <3>1
    <3> QED
      BY <1>2, <3>2, <3>3 DEF InSchema!Up
  <2> HIDE DEF ts
  <2>5. m \in InSchema!Revisions
    BY <2>1 DEF InSchema!Revisions
  <2>6. InSchema!TypeOK'
    BY <2>1, <2>3, <2>4, <2>5 DEF SchemaInv, InSchema!TypeOK
  <2>7. run[r].at >= 4 \/ (run[r].at = 3 /\ InSchema!Seen(r) = {}) => m >= 4
    BY <2>1 DEF InSchema!Revisions
  <2>8. revision >= 4 \/ (revision = 3 /\ tables = {}) => m >= 4
    BY <1>2, <2>1, <2>7, SchemaAssumption
      
       DEF InSchema!Up, InSchema!Holds, InSchema!Seen, SchemaInv, InSchema!TypeOK, RunOK,
          RunRebuilt, InSchema!Revisions
  <2>9. run[r].from # run[r].to
    BY <1>2, SchemaAssumption
    DEF InSchema!Up, InSchema!Holds, SchemaInv, RunOK, InSchema!Running, InSchema!TypeOK,
       InSchema!Revisions
  <2>10. /\ run'[r] = [from |-> run[r].from, at |-> m, to |-> run[r].to, tables |-> ts]
         /\ \A s \in Migrators \ {r} : run'[s] = run[s] /\ holder # s
    BY <1>2, <2>4, SchemaAssumption DEF InSchema!Up, InSchema!Holds, SchemaInv, InSchema!TypeOK
  <2> HIDE DEF m
  <2>11. ASSUME NEW s \in Migrators PROVE RunOK(s)' /\ RunRebuilt(s)'
    <3>1. CASE s = r
      BY <3>1, <2>1, <2>3, <2>4, <2>8, <2>9, <2>10 DEF RunOK, RunRebuilt, InSchema!Running
    <3>2. CASE s # r
      BY <3>2, <2>4, <2>10 DEF SchemaInv, RunOK, RunRebuilt, InSchema!Running
    <3> QED
      BY <3>1, <3>2
  <2> QED
    BY <2>4, <2>6, <2>11 DEF SchemaInv
<1>3. ASSUME NEW r \in Migrators, InSchema!Down(r) PROVE SchemaInv'
  <2> DEFINE m == run[r].at
             ts == InSchema!Downgraded(m, InSchema!Seen(r))
  <2>1. /\ run[r].at \in InSchema!Revisions /\ run[r].to \in InSchema!Revisions /\ m \in 1..5
        /\ InSchema!Seen(r) \in SUBSET InSchema!Groups /\ SchemaAt(m, InSchema!Seen(r))
        /\ run[r].from = revision
    BY <1>3, SchemaAssumption
    DEF InSchema!Down, InSchema!Holds, InSchema!Seen, SchemaInv, InSchema!TypeOK, RunOK,
       InSchema!Revisions
  <2>2. InSchema!CanDowngrade(m, InSchema!Seen(r))
    BY <1>3 DEF InSchema!Down
  <2>3. /\ SchemaAt(m - 1, ts) /\ ts \in SUBSET InSchema!Groups
        /\ m >= 4 \/ (m = 3 /\ InSchema!Seen(r) = {}) => m - 1 >= 4 \/ (m - 1 = 3 /\ ts = {})
    BY <2>1, <2>2, MigrationDown
  <2>4. /\ holder' = r /\ revision' = revision /\ tables' = tables
        /\ run' = [run EXCEPT ![r] = [from |-> run[r].from, at |-> m - 1, to |-> run[r].to, tables |-> ts]]
    <3> DEFINE mid == [run[r] EXCEPT !.at = m - 1]
    <3>1. mid = [from |-> run[r].from, at |-> m - 1, to |-> run[r].to, tables |-> run[r].tables]
      BY DEF SchemaInv, InSchema!TypeOK
    <3>2. run' = [run EXCEPT ![r] = [mid EXCEPT !.tables = ts]]
      BY <1>3 DEF InSchema!Down
    <3>3. [mid EXCEPT !.tables = ts] = [from |-> run[r].from, at |-> m - 1, to |-> run[r].to, tables |-> ts]
      <4> HIDE DEF mid, ts, m
      <4> QED
        BY <3>1
    <3> QED
      BY <1>3, <3>2, <3>3 DEF InSchema!Down
  <2> HIDE DEF ts
  <2>5. m - 1 \in InSchema!Revisions
    BY <2>1 DEF InSchema!Revisions
  <2>6. InSchema!TypeOK'
    BY <2>1, <2>3, <2>4, <2>5 DEF SchemaInv, InSchema!TypeOK
  <2>8. revision >= 4 \/ (revision = 3 /\ tables = {}) => m - 1 >= 4 \/ (m - 1 = 3 /\ ts = {})
    BY <1>3, <2>1, <2>3, SchemaAssumption
      
       DEF InSchema!Down, InSchema!Holds, InSchema!Seen, SchemaInv, InSchema!TypeOK, RunOK,
          RunRebuilt, InSchema!Revisions
  <2>9. run[r].from # run[r].to
    BY <1>3, SchemaAssumption
    DEF InSchema!Down, InSchema!Holds, SchemaInv, RunOK, InSchema!Running, InSchema!TypeOK,
       InSchema!Revisions
  <2>10. /\ run'[r] = [from |-> run[r].from, at |-> m - 1, to |-> run[r].to, tables |-> ts]
         /\ \A s \in Migrators \ {r} : run'[s] = run[s] /\ holder # s
    BY <1>3, <2>4, SchemaAssumption DEF InSchema!Down, InSchema!Holds, SchemaInv, InSchema!TypeOK
  <2> HIDE DEF m
  <2>11. ASSUME NEW s \in Migrators PROVE RunOK(s)' /\ RunRebuilt(s)'
    <3>1. CASE s = r
      BY <3>1, <2>1, <2>3, <2>4, <2>8, <2>9, <2>10 DEF RunOK, RunRebuilt, InSchema!Running
    <3>2. CASE s # r
      BY <3>2, <2>4, <2>10 DEF SchemaInv, RunOK, RunRebuilt, InSchema!Running
    <3> QED
      BY <3>1, <3>2
  <2> QED
    BY <2>4, <2>6, <2>11 DEF SchemaInv
<1>4. ASSUME NEW r \in Migrators, InSchema!Commit(r) PROVE SchemaInv'
  <2>1. holder = r
    BY <1>4 DEF InSchema!Commit, SchemaInv, InSchema!TypeOK, RunOK, InSchema!Running
  <2> QED
    BY <1>4, <2>1, SchemaAssumption
      
       DEF InSchema!Commit, SchemaInv, InSchema!TypeOK, RunOK, RunRebuilt, InSchema!Running,
          InSchema!Stopped, InSchema!Revisions
<1>5. ASSUME NEW r \in Migrators, InSchema!Rollback(r) PROVE SchemaInv'
  BY <1>5, SchemaAssumption
  DEF InSchema!Rollback, SchemaInv, InSchema!TypeOK, RunOK, RunRebuilt, InSchema!Running,
     InSchema!Stopped, InSchema!Revisions
<1>6. CASE UNCHANGED InSchema!vars
  BY <1>6 DEF InSchema!vars, SchemaInv, InSchema!TypeOK, RunOK, RunRebuilt, InSchema!Running
<1> QED
  BY <1>1, <1>2, <1>3, <1>4, <1>5, <1>6 DEF InSchema!Next

(* The tables are those of the revision.                                    *)
LEMMA SchemaIsWhole == SchemaInv => InSchema!SchemaWhole
BY DEF SchemaInv, SchemaAt, InSchema!SchemaWhole

(* Only the run that holds the tables commits, from the revision it read.   *)
LEMMA SchemaGoesUp ==
  SchemaInv /\ [InSchema!Next]_InSchema!vars =>
    [(revision >= 4 \/ (revision = 3 /\ tables = {})) => revision' >= 3]_InSchema!vars
<1> SUFFICES ASSUME SchemaInv, [InSchema!Next]_InSchema!vars,
                    revision >= 4 \/ (revision = 3 /\ tables = {})
             PROVE  revision' >= 3
  OBVIOUS
<1>1. ASSUME NEW r \in Migrators, InSchema!Commit(r) PROVE revision' >= 3
  BY <1>1
  DEF InSchema!Commit, SchemaInv, InSchema!TypeOK, RunOK, RunRebuilt, InSchema!Running,
     InSchema!Revisions
<1>2. CASE revision' = revision
  BY <1>2 DEF SchemaInv, InSchema!TypeOK, InSchema!Revisions
<1> QED
  BY <1>1, <1>2
  DEF InSchema!Next, InSchema!Begin, InSchema!Up, InSchema!Down, InSchema!Rollback, InSchema!vars

(* What the recursive function of UpgradesToHead gives: the tables after    *)
(* each of the migrations that remain.                                      *)
LEMMA SchemaNeverStuck == SchemaInv => InSchema!UpgradeNeverStuck
<1> SUFFICES ASSUME SchemaInv PROVE InSchema!UpgradeNeverStuck
  OBVIOUS
<1> DEFINE n == revision
           t1 == IF n = 0 THEN InSchema!Upgraded(1, tables) ELSE tables
           t2 == IF n <= 1 THEN InSchema!Upgraded(2, t1) ELSE tables
           t3 == IF n <= 2 THEN InSchema!Upgraded(3, t2) ELSE tables
           t4 == IF n <= 3 THEN InSchema!Upgraded(4, t3) ELSE tables
           t5 == IF n <= 4 THEN InSchema!Upgraded(5, t4) ELSE tables
           g == [m \in n..5 |-> IF m = 0 THEN tables ELSE IF m = 1 THEN t1 ELSE IF m = 2 THEN t2
                                ELSE IF m = 3 THEN t3 ELSE IF m = 4 THEN t4 ELSE t5]
           after[m \in n..5] == IF m = n THEN tables ELSE InSchema!Upgraded(m, after[m - 1])
<1>1. n \in 0..5
  BY DEF SchemaInv, InSchema!TypeOK, InSchema!Revisions
<1>2. g = [m \in n..5 |-> IF m = n THEN tables ELSE InSchema!Upgraded(m, g[m - 1])]
  <2> SUFFICES ASSUME NEW m \in n..5
               PROVE  g[m] = IF m = n THEN tables ELSE InSchema!Upgraded(m, g[m - 1])
    OBVIOUS
  <2>1. m \in 0..5 /\ n <= m
    BY <1>1
  <2>2. m = n => g[m] = tables
    BY <2>1, <1>1
  <2>3. m # n => m - 1 \in n..5
    BY <2>1, <1>1
  <2>4. m # n => g[m] = InSchema!Upgraded(m, g[m - 1])
    BY <2>1, <2>3, <1>1
  <2> QED
    BY <2>2, <2>4
<1>3. after = [m \in n..5 |-> IF m = n THEN tables ELSE InSchema!Upgraded(m, after[m - 1])]
  <2> HIDE DEF g
  <2> QED
    BY <1>2, Zenon
<1>4. \A m \in n..5 : after[m] = IF m = n THEN tables ELSE InSchema!Upgraded(m, after[m - 1])
  <2> HIDE DEF after
  <2> QED
    BY <1>3
<1>5. \A m \in n + 1..5 : InSchema!CanUpgrade(m, after[m - 1])
  <2> HIDE DEF after
  <2>1. SchemaAt(n, after[n]) /\ after[n] \in SUBSET InSchema!Groups
    BY <1>1, <1>4 DEF SchemaInv, InSchema!TypeOK
  <2>2. \A m \in 1..5, ts \in SUBSET InSchema!Groups : SchemaAt(m - 1, ts) =>
          InSchema!CanUpgrade(m, ts)
    <3> SUFFICES ASSUME NEW m \in 1..5, NEW ts \in SUBSET InSchema!Groups, SchemaAt(m - 1, ts)
                 PROVE  InSchema!CanUpgrade(m, ts)
      OBVIOUS
    <3> QED
      BY DEF SchemaAt, InSchema!CanUpgrade
  <2>3. ASSUME NEW m \in 1..5, n < m, SchemaAt(m - 1, after[m - 1]),
               after[m - 1] \in SUBSET InSchema!Groups
        PROVE  SchemaAt(m, after[m]) /\ after[m] \in SUBSET InSchema!Groups
    <3>1. after[m] = InSchema!Upgraded(m, after[m - 1])
      BY <1>1, <1>4, <2>3
    <3> QED
      BY <3>1, <2>2, <2>3, MigrationUp
  <2>4. \A m \in 0..5 : n <= m => SchemaAt(m, after[m]) /\ after[m] \in SUBSET InSchema!Groups
    <3> DEFINE Good(m) == n <= m => SchemaAt(m, after[m]) /\ after[m] \in SUBSET InSchema!Groups
    <3>1. Good(0)
      BY <1>1, <2>1
    <3>2. ASSUME NEW m \in 1..5, Good(m - 1) PROVE Good(m)
      <4>1. CASE n = m
        BY <4>1, <2>1
      <4>2. CASE n < m
        BY <4>2, <3>2, <2>3, <1>1
      <4> QED
        BY <4>1, <4>2, <1>1
    <3> HIDE DEF Good
    <3>3. Good(1)
      BY <3>1, <3>2
    <3>4. Good(2)
      BY <3>3, <3>2
    <3>5. Good(3)
      BY <3>4, <3>2
    <3>6. Good(4)
      BY <3>5, <3>2
    <3>7. Good(5)
      BY <3>6, <3>2
    <3>8. \A m \in 0..5 : Good(m)
      BY <3>1, <3>3, <3>4, <3>5, <3>6, <3>7
    <3> QED
      BY <3>8 DEF Good
  <2> QED
    BY <1>1, <2>2, <2>4
<1>6. InSchema!UpgradesToHead(n, tables)
  BY <1>5, Zenon DEF InSchema!UpgradesToHead
<1> QED
  BY <1>6 DEF InSchema!UpgradeNeverStuck

(***************************************************************************)
(* Demonstration data.                                                     *)
(***************************************************************************)
(* The statements one by one.                                               *)
LEMMA SeedRows ==
  /\ Len(InSeed!Rows) = 21
  /\ InSeed!Rows[1] = InSeed!Row("roles", "key", {})
  /\ InSeed!Rows[2] = InSeed!Row("permissions", "key", {})
  /\ InSeed!Rows[3] = InSeed!Row("users", "key", {})
  /\ InSeed!Rows[4] = InSeed!Row("user_roles", "key", {"users", "roles"})
  /\ InSeed!Rows[5] = InSeed!Row("role_permissions", "key", {"roles", "permissions"})
  /\ InSeed!Rows[6] = InSeed!Row("documents", "id", {"users"})
  /\ InSeed!Rows[7] = InSeed!Row("document_versions", "key", {"documents", "users"})
  /\ InSeed!Rows[8] = InSeed!Row("line_items", "key", {"documents", "document_versions"})
  /\ InSeed!Rows[9] = InSeed!Row("status_logs", "id", {"documents", "document_versions", "users"})
  /\ InSeed!Rows[10] = InSeed!Row("workflows", "id", {})
  /\ InSeed!Rows[11] = InSeed!Row("workflow_nodes", "key", {"workflows", "users"})
  /\ InSeed!Rows[12] = InSeed!Row("approval_instances", "id",
                    {"workflows", "workflow_nodes", "documents", "document_versions"})
  /\ InSeed!Rows[13] = InSeed!Row("approval_tasks", "id", {"approval_instances", "workflow_nodes", "users"})
  /\ InSeed!Rows[14] = InSeed!Row("analysis_tasks", "key", {"documents", "document_versions"})
  /\ InSeed!Rows[15] = InSeed!Row("risk_findings", "id", {"analysis_tasks", "document_versions"})
  /\ InSeed!Rows[16] = InSeed!Row("review_reports", "id", {"analysis_tasks", "documents", "document_versions"})
  /\ InSeed!Rows[17] = InSeed!Row("review_sessions", "id", {"users", "documents", "document_versions"})
  /\ InSeed!Rows[18] = InSeed!Row("session_messages", "id", {"review_sessions"})
  /\ InSeed!Rows[19] = InSeed!Row("market_prices", "id", {})
  /\ InSeed!Rows[20] = InSeed!Row("suppliers", "key", {})
  /\ InSeed!Rows[21] = InSeed!Row("audit_logs", "id", {"users"})
BY
DEF InSeed!Rows, InSeed!UserRows, InSeed!DocumentRows, InSeed!ApprovalRows, InSeed!AnalysisRows,
   InSeed!SupportRows

(* A statement refers to rows of earlier statements, and to no supplier;    *)
(* only those of keyed tables can find their key taken.                     *)
LEMMA SeedReferences ==
  ASSUME NEW n \in 1..21
  PROVE  /\ InSeed!Rows[n].refs \subseteq {InSeed!Rows[k].table : k \in 1..n - 1}
         /\ "suppliers" \notin InSeed!Rows[n].refs
         /\ InSeed!Rows[n].table = "suppliers" => InSeed!Rows[n].target = "key"
<1>1. CASE n = 1
  BY <1>1, SeedRows DEF InSeed!Row
<1>2. CASE n = 2
  BY <1>2, SeedRows DEF InSeed!Row
<1>3. CASE n = 3
  BY <1>3, SeedRows DEF InSeed!Row
<1>4. CASE n = 4
  BY <1>4, SeedRows DEF InSeed!Row
<1>5. CASE n = 5
  BY <1>5, SeedRows DEF InSeed!Row
<1>6. CASE n = 6
  BY <1>6, SeedRows DEF InSeed!Row
<1>7. CASE n = 7
  BY <1>7, SeedRows DEF InSeed!Row
<1>8. CASE n = 8
  BY <1>8, SeedRows DEF InSeed!Row
<1>9. CASE n = 9
  BY <1>9, SeedRows DEF InSeed!Row
<1>10. CASE n = 10
  BY <1>10, SeedRows DEF InSeed!Row
<1>11. CASE n = 11
  BY <1>11, SeedRows DEF InSeed!Row
<1>12. CASE n = 12
  BY <1>12, SeedRows DEF InSeed!Row
<1>13. CASE n = 13
  BY <1>13, SeedRows DEF InSeed!Row
<1>14. CASE n = 14
  BY <1>14, SeedRows DEF InSeed!Row
<1>15. CASE n = 15
  BY <1>15, SeedRows DEF InSeed!Row
<1>16. CASE n = 16
  BY <1>16, SeedRows DEF InSeed!Row
<1>17. CASE n = 17
  BY <1>17, SeedRows DEF InSeed!Row
<1>18. CASE n = 18
  BY <1>18, SeedRows DEF InSeed!Row
<1>19. CASE n = 19
  BY <1>19, SeedRows DEF InSeed!Row
<1>20. CASE n = 20
  BY <1>20, SeedRows DEF InSeed!Row
<1>21. CASE n = 21
  BY <1>21, SeedRows DEF InSeed!Row
<1>22. \/ n = 1 \/ n = 2 \/ n = 3 \/ n = 4 \/ n = 5 \/ n = 6 \/ n = 7 \/ n = 8 \/ n = 9
       \/ n = 10 \/ n = 11 \/ n = 12 \/ n = 13 \/ n = 14 \/ n = 15 \/ n = 16 \/ n = 17
       \/ n = 18 \/ n = 19 \/ n = 20 \/ n = 21
  OBVIOUS
<1> QED
  BY <1>1, <1>2, <1>3, <1>4, <1>5, <1>6, <1>7, <1>8, <1>9, <1>10, <1>11, <1>12, <1>13, <1>14,
     <1>15, <1>16, <1>17, <1>18, <1>19, <1>20, <1>21, <1>22

(* What the tables of the demonstration data are.                           *)
LEMMA SeedTables ==
  /\ InSeed!Tables = {InSeed!Rows[n].table : n \in 1..21}
  /\ \A n \in 1..21 : InSeed!Rows[n].table \in InSeed!Tables
BY SeedRows DEF InSeed!Tables

(* Each row that a process has inserted refers to rows that it sees; each   *)
(* statement before its next one has found its row there, has inserted it,  *)
(* or has skipped it because its key is somebody else's.                    *)
SeederOK(r) ==
  /\ seeder[r].at \in 0..22 /\ seeder[r].inserted \in SUBSET InSeed!Tables
  /\ seeder[r].inserted \cap taken = {}
  /\ \A k \in 1..21 : k < seeder[r].at => InSeed!Ignored(r, InSeed!Rows[k])
  /\ \A t \in seeder[r].inserted :
       \E k \in 1..21 : InSeed!Rows[k].table = t /\ InSeed!Rows[k].refs \subseteq InSeed!Visible(r)
  /\ seeder[r].ended = "rejected" => taken \ {"suppliers"} # {}

SeederRecords ==
  [at: Int, inserted: SUBSET InSeed!Tables, starts: Int, ended: {"never", "rejected", "done", "lost"}]

SeedInv ==
  /\ taken \subseteq InSeed!Keyed /\ seeded \subseteq InSeed!Tables /\ taken \cap seeded = {}
  /\ seeder \in [Seeders -> SeederRecords]
  /\ \A r \in Seeders : SeederOK(r)
  /\ InSeed!SeededWhole

(* The invariant of the demonstration data holds at the start.              *)
LEMMA SeedInit == InSeed!Init => SeedInv
BY DEF InSeed!Init, InSeed!Idle, SeedInv, SeederRecords, SeederOK, InSeed!SeededWhole

(* A statement that is rejected has a key of its own or one that it refers  *)
(* to in the hands of somebody else.                                        *)
LEMMA SeedRejected ==
  ASSUME SeedInv, NEW r \in Seeders, seeder[r].at \in 1..21,
         ~InSeed!Ignored(r, InSeed!Rows[seeder[r].at]), InSeed!Rejected(r, InSeed!Rows[seeder[r].at])
  PROVE  taken \ {"suppliers"} # {}
<1> DEFINE n == seeder[r].at
<1>1. CASE InSeed!Rows[n].table \in taken
  BY <1>1, SeedReferences DEF InSeed!Ignored
<1>2. CASE ~(InSeed!Rows[n].refs \subseteq InSeed!Visible(r))
  <2>1. PICK t \in InSeed!Rows[n].refs : t \notin InSeed!Visible(r)
    BY <1>2
  <2>2. PICK k \in 1..n - 1 : t = InSeed!Rows[k].table
    BY SeedReferences
  <2>3. k \in 1..21 /\ k < n
    OBVIOUS
  <2>4. InSeed!Ignored(r, InSeed!Rows[k])
    BY <2>3 DEF SeedInv, SeederOK
  <2>5. t \in taken /\ t # "suppliers"
    BY <2>1, <2>2, <2>4, SeedReferences DEF InSeed!Ignored
  <2> QED
    BY <2>5
<1> QED
  BY <1>1, <1>2 DEF InSeed!Rejected

(* At the end of the script all rows are there: a key that somebody else    *)
(* has would have been missed by a later row, which nobody else can have.   *)
LEMMA SeedComplete ==
  ASSUME SeedInv, NEW r \in Seeders, seeder[r].at = 22
  PROVE  InSeed!Tables \ {"suppliers"} \subseteq seeded \cup seeder[r].inserted
<1>1. CASE seeded # {}
  BY <1>1 DEF SeedInv, InSeed!SeededWhole
<1>2. CASE seeded = {}
  <2> DEFINE ins == seeder[r].inserted
  <2>1. \A k \in 1..21 : InSeed!Rows[k].table \in ins \/ InSeed!Rows[k].table \in taken
    BY <1>2 DEF SeedInv, SeederOK, InSeed!Ignored, InSeed!Visible
  <2>2. \A k \in 1..21 : InSeed!Rows[k].table \notin InSeed!Keyed => InSeed!Rows[k].table \in ins
    BY <2>1 DEF SeedInv
  <2>3. ASSUME NEW n \in 1..21, InSeed!Rows[n].table \in ins,
               \A k \in 1..21 : InSeed!Rows[k].table = InSeed!Rows[n].table => k = n
        PROVE  InSeed!Rows[n].refs \subseteq ins
    <3>1. PICK k \in 1..21 : InSeed!Rows[k].table = InSeed!Rows[n].table /\ InSeed!Rows[k].refs \subseteq InSeed!Visible(r)
      BY <2>3 DEF SeedInv, SeederOK
    <3> QED
      BY <3>1, <2>3, <1>2 DEF InSeed!Visible
  <2>4. "user_roles" \in ins /\ "role_permissions" \in ins /\ "document_versions" \in ins
        /\ "risk_findings" \in ins
    BY <2>2, SeedRows DEF InSeed!Row, InSeed!Keyed
  <2> DEFINE Once(n) == \A k \in 1..21 : InSeed!Rows[k].table = InSeed!Rows[n].table => k = n
  <2>5. Once(4) /\ Once(5)
    BY SeedRows DEF InSeed!Row
  <2>6. Once(7) /\ Once(15)
    BY SeedRows DEF InSeed!Row
  <2>7. InSeed!Rows[4].refs \subseteq ins /\ InSeed!Rows[5].refs \subseteq ins
    BY <2>3, <2>4, <2>5, SeedRows DEF InSeed!Row
  <2>8. InSeed!Rows[7].refs \subseteq ins /\ InSeed!Rows[15].refs \subseteq ins
    BY <2>3, <2>4, <2>6, SeedRows DEF InSeed!Row
  <2>9. InSeed!Keyed \ {"suppliers"} \subseteq ins
    BY <2>7, <2>8, SeedRows DEF InSeed!Row, InSeed!Keyed
  <2> QED
    BY <2>2, <2>9, SeedTables
<1> QED
  BY <1>1, <1>2

(* What an assignment of some fields makes of the record of a process.      *)
LEMMA SeedStarts ==
  ASSUME NEW s \in SeederRecords, NEW a, NEW b
  PROVE  [s EXCEPT !.at = a, !.starts = b]
           = [at |-> a, inserted |-> s.inserted, starts |-> b, ended |-> s.ended]
<1> DEFINE x == [s EXCEPT !.at = a]
<1>1. x = [at |-> a, inserted |-> s.inserted, starts |-> s.starts, ended |-> s.ended]
  BY DEF SeederRecords
<1>2. [s EXCEPT !.at = a, !.starts = b] = [x EXCEPT !.starts = b]
  OBVIOUS
<1> HIDE DEF x
<1> QED
  BY <1>1, <1>2

(* What a run inserts.                                                      *)
LEMMA SeedInserts ==
  ASSUME NEW s \in SeederRecords, NEW a, NEW b
  PROVE  [s EXCEPT !.at = a, !.inserted = b]
           = [at |-> a, inserted |-> b, starts |-> s.starts, ended |-> s.ended]
<1> DEFINE x == [s EXCEPT !.at = a]
<1>1. x = [at |-> a, inserted |-> s.inserted, starts |-> s.starts, ended |-> s.ended]
  BY DEF SeederRecords
<1>2. [s EXCEPT !.at = a, !.inserted = b] = [x EXCEPT !.inserted = b]
  OBVIOUS
<1> HIDE DEF x
<1> QED
  BY <1>1, <1>2

(* Every step of a run keeps the invariant.                                 *)
LEMMA SeedNext == SeedInv /\ [InSeed!Next]_InSeed!vars => SeedInv'
<1> SUFFICES ASSUME SeedInv, [InSeed!Next]_InSeed!vars PROVE SeedInv'
  OBVIOUS
<1>1. ASSUME NEW r \in Seeders, InSeed!Start(r) PROVE SeedInv'
  <2>1. seeder[r] \in SeederRecords /\ UNCHANGED <<taken, seeded>>
    BY <1>1 DEF InSeed!Start, SeedInv
  <2>2. seeder' = [seeder EXCEPT ![r] = [at |-> 1, inserted |-> seeder[r].inserted,
                                           starts |-> seeder[r].starts + 1, ended |-> seeder[r].ended]]
    <3> DEFINE new == [seeder[r] EXCEPT !.at = 1, !.starts = seeder[r].starts + 1]
    <3>1. new = [at |-> 1, inserted |-> seeder[r].inserted, starts |-> seeder[r].starts + 1, ended |-> seeder[r].ended]
      BY <2>1, SeedStarts, Zenon
    <3>2. seeder' = [seeder EXCEPT ![r] = new]
      BY <1>1, <2>1 DEF InSeed!Start
    <3> QED
      BY <3>1, <3>2, Zenon
  <2> QED
    BY <2>1, <2>2
    DEF SeedInv, SeederRecords, SeederOK, InSeed!SeededWhole, InSeed!Ignored, InSeed!Visible
<1>2. ASSUME NEW r \in Seeders, NEW ended \in {"rejected", "lost"}, InSeed!Abort(r, ended),
             UNCHANGED taken,
             ended = "rejected" => taken \ {"suppliers"} # {}
      PROVE  SeedInv'
  <2>1. seeder[r] \in SeederRecords /\ UNCHANGED <<taken, seeded>>
    BY <1>2 DEF InSeed!Abort, SeedInv
  <2>2. seeder' = [seeder EXCEPT ![r] = [at |-> 0, inserted |-> {},
                                           starts |-> seeder[r].starts, ended |-> ended]]
    <3> DEFINE new == [seeder[r] EXCEPT !.at = 0, !.inserted = {}, !.ended = ended]
    <3> DEFINE y == [seeder[r] EXCEPT !.at = 0, !.inserted = {}]
    <3>3. y = [at |-> 0, inserted |-> {}, starts |-> seeder[r].starts, ended |-> seeder[r].ended]
      BY <2>1, SeedInserts, Zenon
    <3>4. new = [y EXCEPT !.ended = ended]
      OBVIOUS
    <3>1. new = [at |-> 0, inserted |-> {}, starts |-> seeder[r].starts, ended |-> ended]
      <4> HIDE DEF y, new
      <4> QED
        BY <3>3, <3>4
    <3>2. seeder' = [seeder EXCEPT ![r] = new]
      BY <1>2, <2>1 DEF InSeed!Abort, InSeed!Undo
    <3> QED
      BY <3>1, <3>2, Zenon
  <2> QED
    BY <1>2, <2>1, <2>2
    DEF SeedInv, SeederRecords, SeederOK, InSeed!SeededWhole, InSeed!Ignored, InSeed!Visible
<1>3. ASSUME NEW r \in Seeders, InSeed!Insert(r) PROVE SeedInv'
  <2> DEFINE n == seeder[r].at
             row == InSeed!Rows[n]
  <2>1. n \in 1..21 /\ UNCHANGED taken
    BY <1>3, SeedRows DEF InSeed!Insert
  <2>2. CASE ~InSeed!Ignored(r, row) /\ InSeed!Rejected(r, row)
    <3>1. taken \ {"suppliers"} # {}
      BY <2>1, <2>2, SeedRejected
    <3>2. InSeed!Abort(r, "rejected")
      BY <1>3, <2>2 DEF InSeed!Insert
    <3> QED
      BY <1>2, <2>1, <3>1, <3>2
  <2>3. CASE InSeed!Ignored(r, row)
    <3>1. seeder[r] \in SeederRecords /\ UNCHANGED seeded
      BY <1>3, <2>3 DEF InSeed!Insert, SeedInv
    <3>2. seeder' = [seeder EXCEPT ![r] = [at |-> n + 1, inserted |-> seeder[r].inserted,
                                             starts |-> seeder[r].starts, ended |-> seeder[r].ended]]
      <4> DEFINE new == [seeder[r] EXCEPT !.at = n + 1, !.inserted = seeder[r].inserted]
      <4>1. new = [at |-> n + 1, inserted |-> seeder[r].inserted, starts |-> seeder[r].starts, ended |-> seeder[r].ended]
        BY <3>1, SeedInserts, Zenon
      <4>2. seeder' = [seeder EXCEPT ![r] = new]
        BY <1>3, <2>3, <3>1 DEF InSeed!Insert
      <4> QED
        BY <4>1, <4>2, Zenon
    <3>4. seeder'[r].inserted \in SUBSET InSeed!Tables /\ n + 1 \in 0..22
      BY <2>1, <3>1, <3>2, SeedTables DEF SeedInv, SeederRecords
    <3> QED
      BY <2>1, <2>3, <3>1, <3>2, <3>4
      DEF SeedInv, SeederRecords, SeederOK, InSeed!SeededWhole, InSeed!Ignored, InSeed!Visible
  <2>4. CASE ~InSeed!Ignored(r, row) /\ ~InSeed!Rejected(r, row)
    <3>1. seeder[r] \in SeederRecords /\ UNCHANGED seeded
      BY <1>3, <2>4 DEF InSeed!Insert, SeedInv
    <3>2. seeder' = [seeder EXCEPT ![r] = [at |-> n + 1, inserted |-> seeder[r].inserted \cup {row.table},
                                             starts |-> seeder[r].starts, ended |-> seeder[r].ended]]
      <4> DEFINE new == [seeder[r] EXCEPT !.at = n + 1, !.inserted = seeder[r].inserted \cup {row.table}]
      <4>1. new = [at |-> n + 1, inserted |-> seeder[r].inserted \cup {row.table}, starts |-> seeder[r].starts, ended |-> seeder[r].ended]
        BY <3>1, SeedInserts, Zenon
      <4>2. seeder' = [seeder EXCEPT ![r] = new]
        BY <1>3, <2>4, <3>1 DEF InSeed!Insert
      <4> QED
        BY <4>1, <4>2, Zenon
    <3>4. seeder'[r].inserted \in SUBSET InSeed!Tables /\ n + 1 \in 0..22
      BY <2>1, <3>1, <3>2, SeedTables DEF SeedInv, SeederRecords
    <3>3. row.table \notin taken /\ row.refs \subseteq InSeed!Visible(r)
      BY <2>4 DEF InSeed!Rejected
    <3>5. /\ seeder'[r].at = n + 1 /\ seeder'[r].inserted = seeder[r].inserted \cup {row.table}
          /\ seeder'[r].ended = seeder[r].ended
          /\ \A s \in Seeders \ {r} : seeder'[s] = seeder[s]
          /\ seeder' \in [Seeders -> SeederRecords]
      BY <3>1, <3>2, <3>4 DEF SeedInv, SeederRecords
    <3>6. /\ InSeed!Visible(r)' = InSeed!Visible(r) \cup {row.table}
          /\ \A s \in Seeders \ {r} : InSeed!Visible(s)' = InSeed!Visible(s)
      BY <3>1, <3>5 DEF InSeed!Visible
    <3>7. SeederOK(r)'
      <4>1. \A k \in 1..21 : k < n + 1 => InSeed!Ignored(r, InSeed!Rows[k])'
        BY <2>1, <3>6 DEF SeedInv, SeederOK, InSeed!Ignored
      <4>2. \A t \in seeder[r].inserted \cup {row.table} :
              \E k \in 1..21 : InSeed!Rows[k].table = t /\ InSeed!Rows[k].refs \subseteq InSeed!Visible(r)'
        BY <2>1, <3>3, <3>6 DEF SeedInv, SeederOK
      <4>3. /\ n + 1 \in 0..22 /\ seeder[r].inserted \cup {row.table} \in SUBSET InSeed!Tables
            /\ (seeder[r].inserted \cup {row.table}) \cap taken = {}
            /\ seeder[r].ended = "rejected" => taken \ {"suppliers"} # {}
        BY <3>3, <3>4, <3>5 DEF SeedInv, SeederOK
      <4> HIDE DEF n, row
      <4> QED
        BY <2>1, <3>5, <4>1, <4>2, <4>3 DEF SeederOK
    <3>8. ASSUME NEW s \in Seeders \ {r} PROVE SeederOK(s)'
      BY <2>1, <3>1, <3>5, <3>6 DEF SeedInv, SeederOK, InSeed!Ignored
    <3> QED
      BY <2>1, <3>1, <3>5, <3>7, <3>8 DEF SeedInv, InSeed!SeededWhole
  <2> QED
    BY <2>2, <2>3, <2>4
<1>4. ASSUME NEW r \in Seeders, InSeed!Commit(r) PROVE SeedInv'
  <2>1. seeder[r].at = 22 /\ UNCHANGED taken /\ seeded' = seeded \cup seeder[r].inserted
    BY <1>4, SeedRows DEF InSeed!Commit
  <2>2. InSeed!SeededWhole'
    BY <2>1, SeedComplete DEF InSeed!SeededWhole
  <2>3. seeder[r] \in SeederRecords
    BY DEF SeedInv
  <2>4. seeder' = [seeder EXCEPT ![r] = [at |-> 0, inserted |-> {},
                                           starts |-> seeder[r].starts, ended |-> "done"]]
    <3> DEFINE new == [seeder[r] EXCEPT !.at = 0, !.inserted = {}, !.ended = "done"]
    <3> DEFINE y == [seeder[r] EXCEPT !.at = 0, !.inserted = {}]
    <3>3. y = [at |-> 0, inserted |-> {}, starts |-> seeder[r].starts, ended |-> seeder[r].ended]
      BY <2>3, SeedInserts, Zenon
    <3>4. new = [y EXCEPT !.ended = "done"]
      OBVIOUS
    <3>1. new = [at |-> 0, inserted |-> {}, starts |-> seeder[r].starts, ended |-> "done"]
      <4> HIDE DEF y, new
      <4> QED
        BY <3>3, <3>4
    <3>2. seeder' = [seeder EXCEPT ![r] = new]
      BY <1>4, <2>3 DEF InSeed!Commit, InSeed!Undo
    <3> QED
      BY <3>1, <3>2, Zenon
  <2> QED
    BY <2>1, <2>2, <2>3, <2>4 DEF SeedInv, SeederRecords, SeederOK, InSeed!Ignored, InSeed!Visible
<1>5. ASSUME NEW r \in Seeders, InSeed!Break(r) PROVE SeedInv'
  BY <1>5, <1>2 DEF InSeed!Break
<1>6. ASSUME NEW table \in InSeed!Keyed, InSeed!Take(table) PROVE SeedInv'
  BY <1>6 DEF InSeed!Take, SeedInv, SeederOK, InSeed!SeededWhole, InSeed!Ignored, InSeed!Visible
<1>7. CASE UNCHANGED InSeed!vars
  BY <1>7 DEF InSeed!vars, SeedInv, SeederOK, InSeed!SeededWhole, InSeed!Ignored, InSeed!Visible
<1> QED
  BY <1>1, <1>3, <1>4, <1>5, <1>6, <1>7 DEF InSeed!Next

(* There is all of the data or none.                                        *)
LEMMA SeedTold == SeedInv => InSeed!TypeOK /\ InSeed!RejectedOnlyIfTaken
BY SeedRows DEF SeedInv, SeederRecords, SeederOK, InSeed!TypeOK, InSeed!RejectedOnlyIfTaken

(***************************************************************************)
(* Requests and probes.                                                    *)
(***************************************************************************)
Ids == {Given, Made, Nothing}
Answers == [status: Nat, body: Ids, header: Ids, details: SUBSET Dependencies]

(* A request that is being handled has the id of its client or a new one;   *)
(* a probe has found each dependency so as it was at some time since.       *)
RequestOK ==
  /\ request \in [handler: {"route", "health_ready", Nothing}, given: {Given, Nothing}, id: Ids]
  /\ httpResponse \in Answers \cup {Nothing}
  /\ request.handler # Nothing =>
       request.id = IF request.given = Nothing THEN Made ELSE request.given
  /\ request.handler = Nothing => request = InHttp!NoRequest /\ httpResponse = Nothing

ProbesOK ==
  /\ request.handler # Nothing => up \subseteq wasUp /\ Dependencies \ up \subseteq wasDown
  /\ request.handler # "health_ready" => \A d \in Dependencies : probed[d] = Nothing
  /\ \A d \in Dependencies :
       /\ probed[d] = "ok" => d \in wasUp
       /\ probed[d] = "unavailable" => d \in wasDown

RequestsInv == InHttp!TypeOK /\ RequestOK /\ ProbesOK /\ InHttp!ProbeWasTrue /\ InHttp!ErrorsNamed

(* The invariant of the requests holds at the start.                        *)
LEMMA RequestsInit == InHttp!Init => RequestsInv
BY RequestsAssumption
  
   DEF InHttp!Init, InHttp!NoRequest, RequestsInv, InHttp!TypeOK, RequestOK, ProbesOK,
      InHttp!ProbeWasTrue, InHttp!ErrorsNamed, Ids, Answers

(* Every step of a request or a probe keeps it.                             *)
LEMMA RequestsNext == RequestsInv /\ [InHttp!Next]_InHttp!vars => RequestsInv'
<1> SUFFICES ASSUME RequestsInv, [InHttp!Next]_InHttp!vars PROVE RequestsInv'
  OBVIOUS
<1> USE RequestsAssumption
   
    DEF RequestsInv, InHttp!TypeOK, RequestOK, ProbesOK, InHttp!ProbeWasTrue, InHttp!ErrorsNamed,
       Ids, Answers, InHttp!NoRequest
<1>1. ASSUME NEW handler \in {"route", "health_ready"}, NEW given \in {Given, Nothing},
             InHttp!Receive(handler, given)
      PROVE  RequestsInv'
  BY <1>1 DEF InHttp!Receive
<1>2. ASSUME NEW d \in Dependencies, InHttp!Flip(d) PROVE RequestsInv'
  BY <1>2 DEF InHttp!Flip
<1>3. ASSUME NEW d \in Dependencies, InHttp!Check(d) PROVE RequestsInv'
  BY <1>3 DEF InHttp!Check
<1>4. CASE InHttp!AnswerProbe
  BY <1>4
  DEF InHttp!AnswerProbe, InHttp!Ready, InHttp!Success, InHttp!ErrorResponse, InHttp!StatusOf
<1>5. CASE InHttp!Return
  BY <1>5 DEF InHttp!Return, InHttp!Success
<1>6. ASSUME NEW kind \in DOMAIN InHttp!StatusOf \ {"not_ready"},
             InHttp!Raise(kind) PROVE RequestsInv'
  BY <1>6 DEF InHttp!Raise, InHttp!ErrorResponse, InHttp!StatusOf
<1>7. CASE UNCHANGED InHttp!vars
  BY <1>7 DEF InHttp!vars
<1> QED
  BY <1>1, <1>2, <1>3, <1>4, <1>5, <1>6, <1>7 DEF InHttp!Next

(***************************************************************************)
(* Queries.                                                                *)
(***************************************************************************)
(* What is known of a query at each of its stages: what has been found of   *)
(* the services that were called before.                                    *)
Usable(service) == service \in settings.urls /\ InQuery!Package(service) \in settings.packages

QuerySettings ==
  settings \in [enabled: BOOLEAN, urls: SUBSET InQuery!Services, reranks: BOOLEAN,
                packages: SUBSET {"httpx", "pymilvus"}]

QueryStages ==
  /\ stage # "answered" <=> ragOutcome = Nothing
  /\ stage \in InQuery!Services => settings.enabled
  /\ stage \in {"milvus", "reranker"} => Usable("embedding")
  /\ stage = "reranker" => Usable("milvus") /\ settings.reranks
  /\ ragOutcome = "success" =>
       /\ settings.enabled /\ Usable("embedding") /\ Usable("milvus")
       /\ anyHits /\ settings.reranks => Usable("reranker")

QueryInv ==
  /\ InQuery!TypeOK /\ InQuery!CodeIsTrue /\ QuerySettings /\ QueryStages
  /\ InQuery!Services \ serviceUp \subseteq serviceDown

(* The invariant of a query holds at the start.                             *)
LEMMA QueryInit == InQuery!Init => QueryInv
<1> SUFFICES ASSUME InQuery!Init PROVE QueryInv
  OBVIOUS
<1>1. InQuery!TypeOK
  <2>1. serviceOutages \in 0..MaxFlips
    BY QueryAssumption DEF InQuery!Init
  <2> QED
    BY <2>1 DEF InQuery!Init, InQuery!TypeOK, InQuery!Services
<1>3. QuerySettings
  BY DEF InQuery!Init, QuerySettings
<1>2. InQuery!CodeIsTrue /\ QueryStages
  BY QueryAssumption
  DEF InQuery!Init, InQuery!CodeIsTrue, QueryStages, InQuery!Services, InQuery!Codes
<1> QED
  BY <1>1, <1>2, <1>3 DEF InQuery!Init, QueryInv

(* Every step of a query keeps it.                                          *)
LEMMA QueryNext == QueryInv /\ [InQuery!Next]_InQuery!vars => QueryInv'
<1> SUFFICES ASSUME QueryInv, [InQuery!Next]_InQuery!vars PROVE QueryInv'
  OBVIOUS
<1> USE QueryAssumption DEF QueryInv, InQuery!TypeOK, InQuery!CodeIsTrue, QuerySettings, QueryStages, Usable, InQuery!Codes
<1>1. ASSUME NEW service \in InQuery!Services, InQuery!Flip(service) PROVE QueryInv'
  BY <1>1 DEF InQuery!Flip, InQuery!Services, InQuery!Package, InQuery!Needed
<1>2. ASSUME NEW blank \in BOOLEAN, InQuery!Begin(blank) PROVE QueryInv'
  BY <1>2 DEF InQuery!Begin, InQuery!Ends, InQuery!Services, InQuery!Package, InQuery!Needed
<1>3. CASE InQuery!Embed
  BY <1>3
  DEF InQuery!Embed, InQuery!Call, InQuery!Broken, InQuery!Ends, InQuery!Services,
     InQuery!Package, InQuery!Needed
<1>4. CASE InQuery!Rerank
  BY <1>4
  DEF InQuery!Rerank, InQuery!Call, InQuery!Broken, InQuery!Ends, InQuery!Services,
     InQuery!Package, InQuery!Needed
<1>5. ASSUME NEW found \in BOOLEAN, InQuery!Search(found) PROVE QueryInv'
  BY <1>5
  DEF InQuery!Search, InQuery!Call, InQuery!Broken, InQuery!Ends, InQuery!Services,
     InQuery!Package, InQuery!Needed
<1>6. CASE UNCHANGED InQuery!vars
  BY <1>6 DEF InQuery!vars, InQuery!Services, InQuery!Package, InQuery!Needed
<1> QED
  BY <1>1, <1>2, <1>3, <1>4, <1>5, <1>6 DEF InQuery!Next

(* A query succeeds only with all it needs.                                 *)
LEMMA QuerySucceeds == QueryInv => InQuery!SuccessNeedsAll
BY
DEF QueryInv, QuerySettings, QueryStages, Usable, InQuery!SuccessNeedsAll, InQuery!Needed,
   InQuery!Services, InQuery!Package

(***************************************************************************)
(* Attachments of the in-memory service.                                   *)
(***************************************************************************)
AttachmentRecords ==
  [content: Contents, storage: {"stored", "failed", "deleted"}, retries: {0, 3, 4},
   parse: {"pending", "parsing", "succeeded", "failed", "manual_review"}]
KeptOf(all) == {n \in 1..Len(all) : all[n].storage # "deleted"}
LargeOf(all) == {n \in KeptOf(all) : InFiles!SizeOf[all[n].content] = 2}

(* Contents are kept once and bounded, and the objects are those of the     *)
(* records that are not deleted.                                            *)
UploadsInv ==
  /\ versionStatus \in InFiles!Statuses
  /\ attachments \in Seq(AttachmentRecords)
  /\ \A m, n \in KeptOf(attachments) : attachments[m].content = attachments[n].content => m = n
  /\ Cardinality(KeptOf(attachments)) + Cardinality(LargeOf(attachments)) <= MaxSize
  /\ objects = KeptOf(attachments)

(* The sets that are counted are finite.                                    *)
LEMMA UploadsFinite ==
  ASSUME NEW all \in Seq(AttachmentRecords)
  PROVE  /\ IsFiniteSet(KeptOf(all)) /\ Cardinality(KeptOf(all)) \in Nat
         /\ IsFiniteSet(LargeOf(all)) /\ Cardinality(LargeOf(all)) \in Nat
<1>1. IsFiniteSet(1..Len(all)) /\ KeptOf(all) \subseteq 1..Len(all) /\ LargeOf(all) \subseteq 1..Len(all)
  BY FS_Interval, LenProperties DEF KeptOf, LargeOf
<1>2. IsFiniteSet(KeptOf(all)) /\ IsFiniteSet(LargeOf(all))
  BY <1>1, FS_Subset
<1> QED
  BY <1>2, FS_CardinalityType

(* The invariant of the attachments holds at the start.                     *)
LEMMA UploadsInit == InFiles!Init => UploadsInv
<1> SUFFICES ASSUME InFiles!Init PROVE UploadsInv
  OBVIOUS
<1>1. attachments \in Seq(AttachmentRecords) /\ Len(attachments) = 0 /\ 1..0 = {}
  BY DEF InFiles!Init
<1>2. KeptOf(attachments) = {} /\ LargeOf(attachments) = {}
  BY <1>1 DEF KeptOf, LargeOf
<1>3. Cardinality(KeptOf(attachments)) = 0 /\ Cardinality(LargeOf(attachments)) = 0
  BY <1>2, FS_EmptySet
<1> QED
  BY <1>1, <1>2, <1>3, UploadsAssumption DEF InFiles!Init, UploadsInv

(* A record that is put in the place of one that is not deleted, of the     *)
(* same content, keeps the invariant.                                       *)
LEMMA UploadsReplace ==
  ASSUME UploadsInv, NEW n \in KeptOf(attachments), NEW r \in AttachmentRecords,
         r.content = attachments[n].content,
         attachments' = [attachments EXCEPT ![n] = r], versionStatus' = versionStatus,
         objects' = IF r.storage = "deleted" THEN objects \ {n} ELSE objects
  PROVE  UploadsInv'
<1>1. /\ attachments \in Seq(AttachmentRecords) /\ DOMAIN attachments = 1..Len(attachments)
      /\ n \in 1..Len(attachments) /\ \A m \in 1..Len(attachments) : attachments[m] \in AttachmentRecords
  BY ElementOfSeq DEF UploadsInv, KeptOf
<1>2. attachments' \in Seq(AttachmentRecords) /\ Len(attachments') = Len(attachments)
  BY <1>1, ExceptSeq
<1>3. \A m \in 1..Len(attachments) : attachments'[m] = IF m = n THEN r ELSE attachments[m]
  BY <1>1
<1>4. KeptOf(attachments') = IF r.storage = "deleted" THEN KeptOf(attachments) \ {n} ELSE KeptOf(attachments)
  BY <1>2, <1>3 DEF KeptOf
<1>5. LargeOf(attachments') \subseteq LargeOf(attachments)
  BY <1>3, <1>4 DEF LargeOf, KeptOf
<1>6. /\ Cardinality(KeptOf(attachments')) <= Cardinality(KeptOf(attachments))
      /\ Cardinality(LargeOf(attachments')) <= Cardinality(LargeOf(attachments))
  BY <1>1, <1>4, <1>5, UploadsFinite, FS_Subset
<1>7. Cardinality(KeptOf(attachments')) + Cardinality(LargeOf(attachments')) <= MaxSize
  <2>1. /\ Cardinality(KeptOf(attachments)) \in Nat /\ Cardinality(LargeOf(attachments)) \in Nat
    BY <1>1, UploadsFinite
  <2>2. /\ Cardinality(KeptOf(attachments')) \in Nat /\ Cardinality(LargeOf(attachments')) \in Nat
    BY <1>2, UploadsFinite
  <2>3. Cardinality(KeptOf(attachments)) + Cardinality(LargeOf(attachments)) <= MaxSize
    BY DEF UploadsInv
  <2> QED
    BY <1>6, <2>1, <2>2, <2>3, UploadsAssumption
<1>8. \A i, j \in KeptOf(attachments') : attachments'[i].content = attachments'[j].content => i = j
  BY <1>1, <1>3, <1>4 DEF UploadsInv, KeptOf
<1>9. objects' = KeptOf(attachments')
  BY <1>4 DEF UploadsInv
<1> QED
  BY <1>2, <1>7, <1>8, <1>9 DEF UploadsInv

(* Every step of the attachments keeps it.                                  *)
LEMMA UploadsNext == UploadsInv /\ [InFiles!Next]_InFiles!vars => UploadsInv'
<1> SUFFICES ASSUME UploadsInv, [InFiles!Next]_InFiles!vars PROVE UploadsInv'
  OBVIOUS
<1>a. /\ attachments \in Seq(AttachmentRecords) /\ DOMAIN attachments = 1..Len(attachments)
      /\ Len(attachments) \in Nat
      /\ \A n \in 1..Len(attachments) : attachments[n] \in AttachmentRecords
      /\ InFiles!Live = KeptOf(attachments)
  BY ElementOfSeq, LenProperties DEF UploadsInv, KeptOf, InFiles!Live
<1>1. ASSUME NEW c \in Contents, InFiles!Upload(c) PROVE UploadsInv'
  <2> DEFINE r == [content |-> c, storage |-> "stored", parse |-> "pending", retries |-> 0]
             k == Len(attachments) + 1
  <2>1. /\ attachments' = Append(attachments, r) /\ objects' = objects \cup {k}
        /\ versionStatus' = versionStatus
        /\ ~InFiles!Duplicate(c) /\ InFiles!Sizes(InFiles!Live) + InFiles!SizeOf[c] <= MaxSize
    BY <1>1 DEF InFiles!Upload, InFiles!Admitted, InFiles!HasRoom
  <2>2. r \in AttachmentRecords
    BY DEF AttachmentRecords
  <2>3. r.content = c /\ r.storage = "stored"
    OBVIOUS
  <2> HIDE DEF r
  <2>4. /\ attachments' \in Seq(AttachmentRecords) /\ Len(attachments') = k /\ attachments'[k] = r
        /\ \A n \in 1..Len(attachments) : attachments'[n] = attachments[n]
    BY <1>a, <2>1, <2>2, AppendProperties
  <2>5. KeptOf(attachments') = KeptOf(attachments) \cup {k} /\ k \notin KeptOf(attachments)
    BY <1>a, <2>3, <2>4 DEF KeptOf
  <2>6. LargeOf(attachments') = LargeOf(attachments) \cup (IF InFiles!SizeOf[c] = 2 THEN {k} ELSE {}) /\ k \notin LargeOf(attachments)
    BY <1>a, <2>3, <2>4, <2>5 DEF LargeOf, KeptOf
  <2>7. Cardinality(KeptOf(attachments) \cup {k}) = Cardinality(KeptOf(attachments)) + 1
    BY <1>a, <2>5, UploadsFinite, FS_AddElement
  <2>8. Cardinality(LargeOf(attachments) \cup {k}) = Cardinality(LargeOf(attachments)) + 1
    BY <1>a, <2>6, UploadsFinite, FS_AddElement
  <2>9. InFiles!Sizes(InFiles!Live) = Cardinality(KeptOf(attachments)) + Cardinality(LargeOf(attachments))
    BY <1>a, CardinalitiesAgree DEF InFiles!Sizes, LargeOf
  <2>10. InFiles!SizeOf[c] \in {1, 2}
    BY DEF InFiles!SizeOf
  <2>11. Cardinality(LargeOf(attachments')) = Cardinality(LargeOf(attachments)) + (IF InFiles!SizeOf[c] = 2 THEN 1 ELSE 0)
    <3>1. Cardinality(LargeOf(attachments)) \in Nat
      BY <1>a, UploadsFinite
    <3>2. CASE InFiles!SizeOf[c] = 2
      BY <2>6, <2>8, <3>2
    <3>3. CASE InFiles!SizeOf[c] # 2
      <4>1. LargeOf(attachments') = LargeOf(attachments)
        BY <2>6, <3>3
      <4> QED
        BY <3>1, <3>3, <4>1
    <3> QED
      BY <3>2, <3>3
  <2>12. Cardinality(KeptOf(attachments')) + Cardinality(LargeOf(attachments')) <= MaxSize
    BY <1>a, <2>1, <2>5, <2>7, <2>9, <2>10, <2>11, UploadsFinite, UploadsAssumption
  <2>13. \A n \in KeptOf(attachments) : attachments[n].content # c
    BY <1>a, <2>1 DEF InFiles!Duplicate
  <2>14. \A i, j \in KeptOf(attachments') : attachments'[i].content = attachments'[j].content =>
           i = j
    BY <2>3, <2>4, <2>5, <2>13 DEF UploadsInv, KeptOf
  <2> QED
    BY <2>1, <2>4, <2>5, <2>12, <2>14 DEF UploadsInv
<1>2. ASSUME NEW c \in Contents, NEW removed \in BOOLEAN,
             InFiles!UploadFails(c, removed) PROVE UploadsInv'
  BY <1>2 DEF InFiles!UploadFails, UploadsInv, KeptOf, LargeOf
<1>3. ASSUME NEW n \in 1..MaxRecords, NEW removed \in BOOLEAN,
             InFiles!Delete(n, removed) PROVE UploadsInv'
  <2> DEFINE r == [attachments[n] EXCEPT !.storage = InFiles!AfterDeletion(removed)]
  <2>1. /\ n \in KeptOf(attachments) /\ attachments' = [attachments EXCEPT ![n] = r]
        /\ versionStatus' = versionStatus
        /\ objects' = IF removed THEN objects \ {n} ELSE objects
    BY <1>a, <1>3 DEF InFiles!Delete
  <2>2. attachments[n] \in AttachmentRecords /\ InFiles!AfterDeletion(removed) \in {"failed", "deleted"}
        /\ (InFiles!AfterDeletion(removed) = "deleted" <=> removed)
    BY <1>a, <2>1 DEF KeptOf, InFiles!AfterDeletion
  <2>3. r \in AttachmentRecords /\ r.content = attachments[n].content /\ r.storage = InFiles!AfterDeletion(removed)
    BY <2>2 DEF AttachmentRecords
  <2> HIDE DEF r
  <2> QED
    BY <2>1, <2>2, <2>3, UploadsReplace
<1>4. ASSUME NEW n \in 1..MaxRecords, NEW parse \in {"parsing", "succeeded", "failed"},
             InFiles!Mark(n, parse)
      PROVE  UploadsInv'
  <2> DEFINE r == [attachments[n] EXCEPT !.parse = parse]
  <2>1. /\ n \in KeptOf(attachments) /\ attachments' = [attachments EXCEPT ![n] = r]
        /\ versionStatus' = versionStatus /\ objects' = objects
    BY <1>a, <1>4 DEF InFiles!Mark
  <2>2. attachments[n] \in AttachmentRecords /\ attachments[n].storage # "deleted"
    BY <1>a, <2>1 DEF KeptOf
  <2>3. r \in AttachmentRecords /\ r.content = attachments[n].content /\ r.storage # "deleted"
    BY <2>2 DEF AttachmentRecords
  <2> HIDE DEF r
  <2> QED
    BY <2>1, <2>3, UploadsReplace
<1>5. ASSUME NEW n \in 1..MaxRecords, NEW attempt \in 3..4,
             InFiles!Retry(n, attempt) PROVE UploadsInv'
  <2> DEFINE r == [attachments[n] EXCEPT !.retries = attempt,
                                     !.parse = IF attempt > 3 THEN "manual_review" ELSE "pending"]
  <2>1. /\ n \in KeptOf(attachments) /\ attachments' = [attachments EXCEPT ![n] = r]
        /\ versionStatus' = versionStatus /\ objects' = objects
    BY <1>a, <1>5 DEF InFiles!Retry
  <2>2. attachments[n] \in AttachmentRecords /\ attachments[n].storage # "deleted" /\ attempt \in {3, 4}
    BY <1>a, <2>1 DEF KeptOf
  <2>3. r \in AttachmentRecords /\ r.content = attachments[n].content /\ r.storage # "deleted"
    BY <2>2 DEF AttachmentRecords
  <2> HIDE DEF r
  <2> QED
    BY <2>1, <2>3, UploadsReplace
<1>6. ASSUME NEW s \in InFiles!Statuses, InFiles!Move(s) PROVE UploadsInv'
  BY <1>6 DEF InFiles!Move, UploadsInv, KeptOf, LargeOf
<1>7. CASE UNCHANGED InFiles!vars
  BY <1>7 DEF InFiles!vars, UploadsInv, KeptOf, LargeOf
<1> QED
  BY <1>1, <1>2, <1>3, <1>4, <1>5, <1>6, <1>7 DEF InFiles!Next

(* A file is stored once, within the limits, and has its object.            *)
LEMMA UploadsMet == UploadsInv =>
  InFiles!OnceAndBounded /\ InFiles!ObjectPerRecord /\ InFiles!TypeOK
<1> SUFFICES ASSUME UploadsInv PROVE InFiles!OnceAndBounded /\ InFiles!ObjectPerRecord /\ InFiles!TypeOK
  OBVIOUS
<1>1. /\ DOMAIN attachments = 1..Len(attachments)
      /\ \A n \in 1..Len(attachments) : attachments[n] \in AttachmentRecords
  BY ElementOfSeq DEF UploadsInv
<1>2. {n \in DOMAIN attachments : attachments[n].storage # "deleted"} = KeptOf(attachments)
  BY <1>1 DEF KeptOf
<1>3. InFiles!Sizes(KeptOf(attachments)) = Cardinality(KeptOf(attachments)) + Cardinality(LargeOf(attachments))
  BY CardinalitiesAgree DEF InFiles!Sizes, LargeOf
<1>4. InFiles!OnceAndBounded
  BY <1>2, <1>3 DEF UploadsInv, InFiles!OnceAndBounded
<1>5. InFiles!ObjectPerRecord
  BY <1>2 DEF UploadsInv, InFiles!ObjectPerRecord
<1>6. InFiles!TypeOK
  BY <1>1 DEF UploadsInv, InFiles!TypeOK, AttachmentRecords
<1> QED
  BY <1>4, <1>5, <1>6

(***************************************************************************)
(* Logins of the in-memory service.                                        *)
(***************************************************************************)
AuditEvents == [action: {"login_failure", "login_success", "logout"}, name: Names, keys: SUBSET InAuth!Keys, at: 0..MaxTime]
IssuedTokens == [name: Names, version: 1..MaxPermission, exp: Int]

(* The failures of a key that are later than a time, of those that its      *)
(* list has and of those that the audit log tells since its last success.   *)
FailuresSince(k, time) == {i \in 1..Len(failures[k]) : failures[k][i] > time}
LoggedSince(k, time) ==
  {m \in 1..Len(audited) :
     /\ audited[m].action = "login_failure" /\ k \in audited[m].keys
     /\ audited[m].at > time
     /\ \A n \in m..Len(audited) : ~(audited[n].action = "login_success" /\ k \in audited[n].keys)}

LoginsTypes ==
  /\ authClock \in 0..MaxTime
  /\ account \in [Names -> [version: 1..MaxPermission, active: BOOLEAN] \cup {Nothing}]
  /\ failures \in [InAuth!Keys -> Seq(0..MaxTime)]
  /\ tokens \in Seq(IssuedTokens)
  /\ revokedTill \in Seq(Int) /\ Len(revokedTill) = Len(tokens)
  /\ audited \in Seq(AuditEvents) /\ Len(audited) <= MaxAudited

LoginsCounted ==
  \A k \in InAuth!Keys :
    /\ \A time \in Int : Cardinality(FailuresSince(k, time)) = Cardinality(LoggedSince(k, time))
    /\ Cardinality(FailuresSince(k, authClock - Window)) <= MaxAttempts

(* A token is that of a registered user and no newer than the permissions;  *)
(* a revocation ends in the last second of the token or later.              *)
TokenOK(t) ==
  /\ account[tokens[t].name] # Nothing
  /\ tokens[t].version <= account[tokens[t].name].version
  /\ revokedTill[t] = 0 \/ tokens[t].exp - revokedTill[t] < Second

LoginsInv == LoginsTypes /\ LoginsCounted /\ \A t \in 1..Len(tokens) : TokenOK(t)

(* Whole seconds of a span of time.                                         *)
LEMMA LoginSeconds ==
  ASSUME NEW ticks \in Int
  PROVE  InAuth!WholeSeconds(ticks) \in Int /\ InAuth!WholeSeconds(ticks) > ticks - Second
<1> DEFINE q == ticks \div Second
<1>1. Second \in Nat \ {0}
  BY LoginsAssumption
<1>2. q \in Int /\ q * Second \in Int /\ q * Second > ticks - Second
  BY <1>1
<1>3. InAuth!WholeSeconds(ticks) = q * Second
  BY DEF InAuth!WholeSeconds
<1> QED
  BY <1>2, <1>3

(* Finitely many failures are counted.                                      *)
LEMMA LoginsFinite ==
  ASSUME LoginsTypes, NEW k \in InAuth!Keys, NEW time \in Int
  PROVE  /\ IsFiniteSet(FailuresSince(k, time)) /\ Cardinality(FailuresSince(k, time)) \in Nat
         /\ IsFiniteSet(LoggedSince(k, time)) /\ Cardinality(LoggedSince(k, time)) \in Nat
<1>1. Len(failures[k]) \in Nat /\ Len(audited) \in Nat
  BY LenProperties DEF LoginsTypes
<1>2. IsFiniteSet(1..Len(failures[k])) /\ IsFiniteSet(1..Len(audited))
  BY <1>1, FS_Interval
<1>3. FailuresSince(k, time) \subseteq 1..Len(failures[k]) /\ LoggedSince(k, time) \subseteq 1..Len(audited)
  BY DEF FailuresSince, LoggedSince
<1>4. IsFiniteSet(FailuresSince(k, time)) /\ IsFiniteSet(LoggedSince(k, time))
  BY <1>2, <1>3, FS_Subset
<1> QED
  BY <1>4, FS_CardinalityType

(* The invariant of the logins holds at the start.                          *)
LEMMA LoginsInit == InAuth!Init => LoginsInv
<1> SUFFICES ASSUME InAuth!Init PROVE LoginsInv
  OBVIOUS
<1>1. /\ tokens \in Seq(IssuedTokens) /\ revokedTill \in Seq(Int) /\ audited \in Seq(AuditEvents)
      /\ failures \in [InAuth!Keys -> Seq(0..MaxTime)]
      /\ Len(tokens) = 0 /\ Len(revokedTill) = 0 /\ Len(audited) = 0 /\ 1..0 = {}
      /\ \A k \in InAuth!Keys : Len(failures[k]) = 0
  BY DEF InAuth!Init
<1>2. LoginsTypes
  BY <1>1, LoginsAssumption DEF InAuth!Init, LoginsTypes
<1>3. \A k \in InAuth!Keys, time \in Int : FailuresSince(k, time) = {} /\ LoggedSince(k, time) = {}
  BY <1>1 DEF FailuresSince, LoggedSince
<1>4. authClock - Window \in Int
  BY <1>2, LoginsAssumption DEF LoginsTypes
<1>5. LoginsCounted
  <2>1. Cardinality({}) = 0 /\ 0 <= MaxAttempts
    BY FS_EmptySet, LoginsAssumption
  <2>2. \A k \in InAuth!Keys : FailuresSince(k, authClock - Window) = {}
    BY <1>3, <1>4
  <2> QED
    BY <1>3, <2>1, <2>2 DEF LoginsCounted
<1> QED
  BY <1>1, <1>2, <1>5 DEF LoginsInv

(* A new event of the audit log, as the counts of a key see it.             *)
LEMMA LoginsAudit ==
  ASSUME LoginsTypes, NEW e \in AuditEvents, audited' = Append(audited, e), NEW k \in InAuth!Keys,
         NEW time \in Int
  PROVE  LoggedSince(k, time)' =
           IF e.action = "login_success" /\ k \in e.keys THEN {}
           ELSE LoggedSince(k, time) \cup
                  (IF e.action = "login_failure" /\ k \in e.keys /\ e.at > time THEN {Len(audited) + 1} ELSE {})
<1>1. audited \in Seq(AuditEvents) /\ Len(audited) \in Nat
  BY LenProperties DEF LoginsTypes
<1>2. /\ Len(audited') = Len(audited) + 1 /\ audited'[Len(audited) + 1] = e
      /\ \A n \in 1..Len(audited) : audited'[n] = audited[n]
  BY <1>1, AppendProperties
<1>3. CASE e.action = "login_success" /\ k \in e.keys
  BY <1>1, <1>2, <1>3 DEF LoggedSince
<1>4. CASE ~(e.action = "login_success" /\ k \in e.keys)
  <2>1. ASSUME NEW m \in 1..Len(audited)
        PROVE  m \in LoggedSince(k, time)' <=> m \in LoggedSince(k, time)
    <3>1. m..(Len(audited) + 1) = m..Len(audited) \cup {Len(audited) + 1} /\ m..Len(audited) \subseteq 1..Len(audited)
      BY <1>1, <2>1
    <3>2. (\A n \in m..(Len(audited) + 1) : ~(audited'[n].action = "login_success" /\ k \in audited'[n].keys))
            <=> (\A n \in m..Len(audited) : ~(audited[n].action = "login_success" /\ k \in audited[n].keys))
      BY <1>2, <1>4, <3>1
    <3>3. m \in 1..(Len(audited) + 1) /\ audited'[m] = audited[m]
      BY <1>1, <1>2, <2>1
    <3> QED
      BY <1>2, <2>1, <3>2, <3>3 DEF LoggedSince
  <2>2. Len(audited) + 1 \in LoggedSince(k, time)' <=>
          e.action = "login_failure" /\ k \in e.keys /\ e.at > time
    <3>1. (Len(audited) + 1)..(Len(audited) + 1) = {Len(audited) + 1} /\ Len(audited) + 1 \in 1..(Len(audited) + 1)
      BY <1>1
    <3> QED
      BY <1>2, <1>4, <3>1 DEF LoggedSince
  <2>3. LoggedSince(k, time)' \subseteq 1..(Len(audited) + 1) /\ LoggedSince(k, time) \subseteq 1..Len(audited)
    BY <1>2 DEF LoggedSince
  <2>4. 1..(Len(audited) + 1) = 1..Len(audited) \cup {Len(audited) + 1}
    BY <1>1
  <2> QED
    BY <1>4, <2>1, <2>2, <2>3, <2>4
<1> QED
  BY <1>3, <1>4

(* The list of failures of a key that has a further one, at this time.      *)
LEMMA LoginsRecord ==
  ASSUME LoginsTypes, NEW k \in InAuth!Keys, failures'[k] = Append(failures[k], authClock),
         NEW time \in Int
  PROVE  FailuresSince(k, time)' =
           FailuresSince(k, time) \cup (IF authClock > time THEN {Len(failures[k]) + 1} ELSE {})
<1>1. failures[k] \in Seq(0..MaxTime) /\ authClock \in 0..MaxTime
  BY DEF LoginsTypes
<1>2. Len(failures[k]) \in Nat
  BY <1>1, LenProperties
<1>3. /\ Len(failures'[k]) = Len(failures[k]) + 1 /\ failures'[k][Len(failures[k]) + 1] = authClock
      /\ \A n \in 1..Len(failures[k]) : failures'[k][n] = failures[k][n]
  BY <1>1, AppendProperties
<1>4. 1..(Len(failures[k]) + 1) = 1..Len(failures[k]) \cup {Len(failures[k]) + 1}
  BY <1>2
<1> QED
  BY <1>3, <1>4 DEF FailuresSince

(* A failed login counts as much in the list of its key as in the log.      *)
LEMMA LoginsBothCount ==
  ASSUME LoginsTypes, NEW e \in AuditEvents, audited' = Append(audited, e),
         e.action = "login_failure", e.at = authClock, NEW k \in e.keys, k \in InAuth!Keys,
         failures'[k] = Append(failures[k], authClock), NEW time \in Int,
         Cardinality(FailuresSince(k, time)) = Cardinality(LoggedSince(k, time))
  PROVE  /\ Cardinality(FailuresSince(k, time)') = Cardinality(LoggedSince(k, time)')
         /\ Cardinality(FailuresSince(k, time)') <= Cardinality(FailuresSince(k, time)) + 1
         /\ Cardinality(FailuresSince(k, time)') \in Nat
<1> DEFINE F == FailuresSince(k, time)
           G == LoggedSince(k, time)
<1>1. /\ FailuresSince(k, time)' = F \cup (IF authClock > time THEN {Len(failures[k]) + 1} ELSE {})
      /\ LoggedSince(k, time)' = G \cup (IF authClock > time THEN {Len(audited) + 1} ELSE {})
  BY LoginsRecord, LoginsAudit
<1>2. /\ IsFiniteSet(F) /\ Cardinality(F) \in Nat /\ IsFiniteSet(G) /\ Cardinality(G) \in Nat
  BY LoginsFinite
<1>3. Len(failures[k]) \in Nat /\ Len(audited) \in Nat
  BY LenProperties DEF LoginsTypes
<1>4. Len(failures[k]) + 1 \notin F /\ Len(audited) + 1 \notin G
  BY <1>3 DEF FailuresSince, LoggedSince
<1> HIDE DEF F, G
<1>5. /\ Cardinality(F \cup {Len(failures[k]) + 1}) = Cardinality(F) + 1
      /\ Cardinality(G \cup {Len(audited) + 1}) = Cardinality(G) + 1
  BY <1>2, <1>4, FS_AddElement
<1>6. Cardinality(F) = Cardinality(G)
  BY DEF F, G
<1>7. CASE authClock > time
  <2>1. /\ FailuresSince(k, time)' = F \cup {Len(failures[k]) + 1}
        /\ LoggedSince(k, time)' = G \cup {Len(audited) + 1}
    BY <1>1, <1>7
  <2>2. /\ Cardinality(FailuresSince(k, time)') = Cardinality(F) + 1
        /\ Cardinality(LoggedSince(k, time)') = Cardinality(G) + 1
    BY <1>5, <2>1
  <2> QED
    BY <1>2, <1>6, <2>2 DEF F
<1>8. CASE ~(authClock > time)
  <2>1. FailuresSince(k, time)' = F /\ LoggedSince(k, time)' = G
    BY <1>1, <1>8
  <2>2. /\ Cardinality(FailuresSince(k, time)') = Cardinality(F)
        /\ Cardinality(LoggedSince(k, time)') = Cardinality(G)
    BY <2>1
  <2> QED
    BY <1>2, <1>6, <2>2 DEF F
<1> QED
  BY <1>7, <1>8

(* What does not touch the list of a key, and does not log it.              *)
LEMMA LoginsOther ==
  ASSUME LoginsTypes, NEW e \in AuditEvents, audited' = Append(audited, e), NEW k \in InAuth!Keys,
         k \notin e.keys, failures'[k] = failures[k], NEW time \in Int
  PROVE  FailuresSince(k, time)' = FailuresSince(k, time) /\ LoggedSince(k, time)' = LoggedSince(k, time)
<1>1. LoggedSince(k, time)' = LoggedSince(k, time)
  BY LoginsAudit
<1>2. FailuresSince(k, time)' = FailuresSince(k, time)
  BY DEF FailuresSince
<1> QED
  BY <1>1, <1>2

(* Every step of a login keeps it.                                          *)
LEMMA LoginsNext == LoginsInv /\ [InAuth!Next]_InAuth!vars => LoginsInv'
<1> SUFFICES ASSUME LoginsInv, [InAuth!Next]_InAuth!vars PROVE LoginsInv'
  OBVIOUS
<1>a. /\ LoginsTypes /\ LoginsCounted /\ authClock - Window \in Int /\ authClock \in 0..MaxTime
      /\ DOMAIN tokens = 1..Len(tokens) /\ Len(tokens) \in Nat
      /\ \A t \in 1..Len(tokens) : tokens[t] \in IssuedTokens /\ TokenOK(t) /\ revokedTill[t] \in Int
      /\ \A name \in Names : account[name] # Nothing =>
           account[name] \in [version: 1..MaxPermission, active: BOOLEAN]
  <2>1. LoginsTypes /\ LoginsCounted /\ \A t \in 1..Len(tokens) : TokenOK(t)
    BY DEF LoginsInv
  <2>2. tokens \in Seq(IssuedTokens) /\ revokedTill \in Seq(Int) /\ Len(revokedTill) = Len(tokens)
    BY <2>1 DEF LoginsTypes
  <2>3. \A t \in 1..Len(tokens) : tokens[t] \in IssuedTokens /\ revokedTill[t] \in Int
    BY <2>2, ElementOfSeq
  <2>4. DOMAIN tokens = 1..Len(tokens) /\ Len(tokens) \in Nat
    BY <2>2, LenProperties
  <2>5. authClock \in 0..MaxTime /\ authClock - Window \in Int
    BY <2>1, LoginsAssumption DEF LoginsTypes
  <2>6. \A name \in Names : account[name] # Nothing =>
          account[name] \in [version: 1..MaxPermission, active: BOOLEAN]
    BY <2>1 DEF LoginsTypes
  <2> QED
    BY <2>1, <2>3, <2>4, <2>5, <2>6
<1>1. CASE InAuth!Tick
  <2>1. /\ authClock' = authClock + 1 /\ authClock < MaxTime /\ account' = account
        /\ failures' = failures
        /\ tokens' = tokens /\ revokedTill' = revokedTill /\ audited' = audited
    BY <1>1 DEF InAuth!Tick
  <2>2. LoginsTypes'
    BY <1>a, <2>1, LoginsAssumption DEF LoginsTypes
  <2>3. LoginsCounted'
    <3> SUFFICES ASSUME NEW k \in InAuth!Keys
                 PROVE  /\ \A time \in Int : Cardinality(FailuresSince(k, time)') = Cardinality(LoggedSince(k, time)')
                        /\ Cardinality(FailuresSince(k, authClock - Window)') <= MaxAttempts
      BY DEF LoginsCounted
    <3>1. \A time \in Int : FailuresSince(k, time)' = FailuresSince(k, time) /\ LoggedSince(k, time)' = LoggedSince(k, time)
      BY <2>1 DEF FailuresSince, LoggedSince
    <3>2. FailuresSince(k, authClock - Window)' \subseteq FailuresSince(k, authClock - Window)
      <4>1. failures[k] \in Seq(0..MaxTime)
        BY <1>a DEF LoginsTypes
      <4>2. \A n \in 1..Len(failures[k]) : failures[k][n] \in 0..MaxTime
        BY <4>1, ElementOfSeq
      <4> QED
        BY <1>a, <2>1, <4>2, LoginsAssumption DEF FailuresSince
    <3>3. /\ IsFiniteSet(FailuresSince(k, authClock - Window))
          /\ Cardinality(FailuresSince(k, authClock - Window)) \in Nat
          /\ Cardinality(FailuresSince(k, authClock - Window)) <= MaxAttempts
      BY <1>a, LoginsFinite DEF LoginsCounted
    <3>4. /\ Cardinality(FailuresSince(k, authClock - Window)') <= Cardinality(FailuresSince(k, authClock - Window))
          /\ Cardinality(FailuresSince(k, authClock - Window)') \in Nat
      BY <3>2, <3>3, FS_Subset, FS_CardinalityType
    <3>5. Cardinality(FailuresSince(k, authClock - Window)') <= MaxAttempts
      BY <3>3, <3>4, LoginsAssumption
    <3> QED
      BY <1>a, <3>1, <3>5 DEF LoginsCounted
  <2>4. \A t \in 1..Len(tokens') : TokenOK(t)'
    BY <1>a, <2>1 DEF TokenOK
  <2> QED
    BY <2>2, <2>3, <2>4 DEF LoginsInv
<1>b. ASSUME authClock' = authClock, failures' = failures, audited' = audited PROVE LoginsCounted'
  <2>1. \A k \in InAuth!Keys, time \in Int :
          FailuresSince(k, time)' = FailuresSince(k, time) /\ LoggedSince(k, time)' = LoggedSince(k, time)
    BY <1>b DEF FailuresSince, LoggedSince
  <2>2. \A k \in InAuth!Keys : FailuresSince(k, authClock - Window)' = FailuresSince(k, authClock - Window)
    BY <1>a, <1>b, <2>1
  <2> QED
    BY <1>a, <2>1, <2>2 DEF LoginsCounted
<1>2. ASSUME NEW name \in Names,
             InAuth!Register(name) \/ InAuth!Disable(name) \/ InAuth!UpdateRoles(name) PROVE LoginsInv'
  <2>1. /\ authClock' = authClock /\ failures' = failures /\ tokens' = tokens
        /\ revokedTill' = revokedTill /\ audited' = audited
    BY <1>2 DEF InAuth!Register, InAuth!Disable, InAuth!UpdateRoles
  <2>2. \E a \in [version: 1..MaxPermission, active: BOOLEAN] :
          /\ account' = [account EXCEPT ![name] = a]
          /\ account[name] # Nothing => a.version >= account[name].version
    <3>1. CASE InAuth!Register(name)
      <4> DEFINE a == [version |-> 1, active |-> TRUE]
      <4>1. a \in [version: 1..MaxPermission, active: BOOLEAN] /\ account' = [account EXCEPT ![name] = a]
        BY <3>1, LoginsAssumption DEF InAuth!Register
      <4>2. account[name] = Nothing
        BY <3>1 DEF InAuth!Register
      <4> HIDE DEF a
      <4> QED
        BY <4>1, <4>2
    <3>2. CASE InAuth!Disable(name)
      <4> DEFINE a == [account[name] EXCEPT !.active = FALSE]
      <4>1. account[name] \in [version: 1..MaxPermission, active: BOOLEAN] /\ account' = [account EXCEPT ![name] = a]
        BY <1>a, <3>2 DEF InAuth!Disable
      <4>2. a \in [version: 1..MaxPermission, active: BOOLEAN] /\ a.version = account[name].version
            /\ account[name].version \in Nat
        <5>1. account[name].version \in 1..MaxPermission
          BY <4>1
        <5>2. account[name].version \in Nat
          BY <5>1, LoginsAssumption
        <5>3. a.version = account[name].version /\ a.active = FALSE
              /\ a = [version |-> a.version, active |-> a.active]
          <6>1. account[name] \in [version: 1..MaxPermission, active: BOOLEAN]
            BY <4>1
          <6>2. a \in [version: 1..MaxPermission, active: BOOLEAN]
            BY <6>1
          <6>3. a.version = account[name].version /\ a.active = FALSE
            BY <6>1
          <6> HIDE DEF a
          <6> QED
            BY <6>2, <6>3
        <5> HIDE DEF a
        <5> QED
          BY <5>1, <5>2, <5>3
      <4> HIDE DEF a
      <4>3. a.version >= account[name].version
        BY <4>2
      <4> QED
        BY <4>1, <4>2, <4>3
    <3>3. CASE InAuth!UpdateRoles(name)
      <4> DEFINE a == [account[name] EXCEPT !.version = account[name].version + 1]
      <4>1. /\ account[name] \in [version: 1..MaxPermission, active: BOOLEAN]
            /\ account' = [account EXCEPT ![name] = a] /\ account[name].version < MaxPermission
        BY <1>a, <3>3 DEF InAuth!UpdateRoles
      <4>2. a \in [version: 1..MaxPermission, active: BOOLEAN] /\ a.version = account[name].version + 1
            /\ account[name].version \in Nat
        <5>1. account[name].version \in 1..MaxPermission
          BY <4>1
        <5>2. account[name].version \in Nat /\ account[name].version + 1 \in 1..MaxPermission
          BY <4>1, <5>1, LoginsAssumption
        <5>3. account[name].active \in BOOLEAN
          BY <4>1
        <5>4. a = [version |-> account[name].version + 1, active |-> account[name].active]
          BY <4>1
        <5> HIDE DEF a
        <5> QED
          BY <5>2, <5>3, <5>4
      <4> HIDE DEF a
      <4>3. a.version >= account[name].version
        BY <4>2
      <4> QED
        BY <4>1, <4>2, <4>3
    <3> QED
      BY <1>2, <3>1, <3>2, <3>3
  <2>3. PICK a \in [version: 1..MaxPermission, active: BOOLEAN] :
          /\ account' = [account EXCEPT ![name] = a]
          /\ account[name] # Nothing => a.version >= account[name].version
    BY <2>2
  <2>4. LoginsTypes'
    BY <1>a, <2>1, <2>3 DEF LoginsTypes
  <2>5. LoginsCounted'
    BY <1>b, <2>1
  <2>6. ASSUME NEW t \in 1..Len(tokens) PROVE TokenOK(t)'
    <3>1. /\ tokens[t].name \in Names /\ tokens[t].version \in Nat /\ TokenOK(t)
          /\ account[tokens[t].name] # Nothing
      BY <1>a DEF IssuedTokens, TokenOK
    <3>2. CASE tokens[t].name = name
      <4>1. account'[name] = a /\ a # Nothing /\ a.version \in Nat /\ account[name].version \in Nat
        BY <1>a, <2>3, <3>1, <3>2, LoginsAssumption DEF LoginsTypes
      <4> QED
        BY <2>1, <2>3, <3>1, <3>2, <4>1 DEF TokenOK
    <3>3. CASE tokens[t].name # name
      BY <2>1, <2>3, <3>1, <3>3 DEF TokenOK
    <3> QED
      BY <3>2, <3>3
  <2> QED
    BY <2>1, <2>4, <2>5, <2>6 DEF LoginsInv
<1>3. ASSUME NEW name \in Names, NEW keys \in InAuth!KeysOf(name),
             InAuth!LoginFails(name, keys) PROVE LoginsInv'
  <2> DEFINE e == [action |-> "login_failure", name |-> name, keys |-> keys, at |-> authClock]
  <2>1. /\ authClock' = authClock /\ account' = account /\ tokens' = tokens
        /\ revokedTill' = revokedTill
        /\ failures' = [k \in InAuth!Keys |-> IF k \in keys THEN Append(failures[k], authClock) ELSE failures[k]]
        /\ audited' = Append(audited, e) /\ Len(audited) < MaxAudited
        /\ \A k \in keys : ~InAuth!Blocked(k)
    BY <1>3 DEF InAuth!LoginFails, InAuth!Recorded, InAuth!Audit
  <2>2. keys \subseteq InAuth!Keys
    BY DEF InAuth!KeysOf, InAuth!Keys
  <2>3. e \in AuditEvents
    BY <1>a, <2>2 DEF AuditEvents
  <2>4. e.action = "login_failure" /\ e.at = authClock /\ e.keys = keys
    OBVIOUS
  <2> HIDE DEF e
  <2>5. LoginsTypes'
    <3>1. \A k \in InAuth!Keys : failures[k] \in Seq(0..MaxTime) /\ Append(failures[k], authClock) \in Seq(0..MaxTime)
      <4>1. \A k \in InAuth!Keys : failures[k] \in Seq(0..MaxTime)
        BY <1>a DEF LoginsTypes
      <4> QED
        BY <1>a, <4>1, AppendProperties
    <3>2. failures' \in [InAuth!Keys -> Seq(0..MaxTime)]
      BY <2>1, <3>1
    <3>3. audited' \in Seq(AuditEvents) /\ Len(audited') = Len(audited) + 1 /\ Len(audited) \in Nat
      BY <1>a, <2>1, <2>3, AppendProperties, LenProperties DEF LoginsTypes
    <3> QED
      BY <1>a, <2>1, <3>2, <3>3, LoginsAssumption DEF LoginsTypes
  <2>6. LoginsCounted'
    <3> SUFFICES ASSUME NEW k \in InAuth!Keys
                 PROVE  /\ \A time \in Int : Cardinality(FailuresSince(k, time)') = Cardinality(LoggedSince(k, time)')
                        /\ Cardinality(FailuresSince(k, authClock - Window)') <= MaxAttempts
      BY DEF LoginsCounted
    <3>1. \A time \in Int : Cardinality(FailuresSince(k, time)) = Cardinality(LoggedSince(k, time))
      BY <1>a DEF LoginsCounted
    <3>3. CASE k \in keys
      <4>1. failures'[k] = Append(failures[k], authClock)
        BY <2>1, <3>3
      <4>2. \A time \in Int : /\ Cardinality(FailuresSince(k, time)') = Cardinality(LoggedSince(k, time)')
                              /\ Cardinality(FailuresSince(k, time)') <= Cardinality(FailuresSince(k, time)) + 1
                              /\ Cardinality(FailuresSince(k, time)') \in Nat
        BY <1>a, <2>1, <2>3, <2>4, <3>1, <3>3, <4>1, LoginsBothCount
      <4>3. DOMAIN failures[k] = 1..Len(failures[k])
        BY <1>a, LenProperties DEF LoginsTypes
      <4>4. Cardinality(FailuresSince(k, authClock - Window)) < MaxAttempts
            /\ Cardinality(FailuresSince(k, authClock - Window)) \in Nat
        <5>1. Cardinality(FailuresSince(k, authClock - Window)) \in Nat
          BY <1>a, LoginsFinite
        <5>2. InAuth!Active(k) = FailuresSince(k, authClock - Window)
          BY <4>3 DEF InAuth!Active, FailuresSince
        <5>3. ~(Cardinality(FailuresSince(k, authClock - Window)) >= MaxAttempts)
          BY <2>1, <3>3, <5>2, CardinalitiesAgree DEF InAuth!Blocked
        <5> QED
          BY <5>1, <5>3, LoginsAssumption
      <4>5. Cardinality(FailuresSince(k, authClock - Window)') <= Cardinality(FailuresSince(k, authClock - Window)) + 1
        BY <1>a, <2>1, <4>2
      <4>6. Cardinality(FailuresSince(k, authClock - Window)') \in Nat
        BY <1>a, <2>1, <4>2
      <4> QED
        BY <4>2, <4>4, <4>5, <4>6, LoginsAssumption
    <3>4. CASE k \notin keys
      <4>1. failures'[k] = failures[k]
        BY <2>1, <3>4
      <4>2. \A time \in Int : FailuresSince(k, time)' = FailuresSince(k, time) /\ LoggedSince(k, time)' = LoggedSince(k, time)
        BY <1>a, <2>1, <2>3, <2>4, <3>4, <4>1, LoginsOther
      <4> QED
        BY <1>a, <2>1, <3>1, <4>2 DEF LoginsCounted
    <3> QED
      BY <3>3, <3>4
  <2>7. \A t \in 1..Len(tokens') : TokenOK(t)'
    BY <1>a, <2>1 DEF TokenOK
  <2> QED
    BY <2>5, <2>6, <2>7 DEF LoginsInv
<1>4. ASSUME NEW name \in Names, NEW keys \in InAuth!KeysOf(name),
             InAuth!LoginSucceeds(name, keys) PROVE LoginsInv'
  <2> DEFINE e == [action |-> "login_success", name |-> name, keys |-> keys, at |-> authClock]
             new == [name |-> name, version |-> account[name].version, exp |-> InAuth!WholeSeconds(authClock + Life)]
  <2>1. /\ authClock' = authClock /\ account' = account
        /\ tokens' = Append(tokens, new) /\ revokedTill' = Append(revokedTill, 0)
        /\ failures' = [k \in InAuth!Keys |-> IF k \in keys THEN <<>> ELSE failures[k]]
        /\ audited' = Append(audited, e) /\ Len(audited) < MaxAudited
        /\ account[name] # Nothing
    BY <1>4 DEF InAuth!LoginSucceeds, InAuth!Audit, InAuth!Cleared, InAuth!CanLogIn
  <2>2. keys \subseteq InAuth!Keys
    BY DEF InAuth!KeysOf, InAuth!Keys
  <2>3. e \in AuditEvents
    BY <1>a, <2>2 DEF AuditEvents
  <2>4. e.action = "login_success" /\ e.at = authClock /\ e.keys = keys
    OBVIOUS
  <2>5. new \in IssuedTokens /\ new.name = name /\ new.version = account[name].version
    <3>1. authClock + Life \in Int
      BY <1>a, LoginsAssumption
    <3>2. InAuth!WholeSeconds(authClock + Life) \in Int
      BY <3>1, LoginSeconds
    <3>3. account[name] \in [version: 1..MaxPermission, active: BOOLEAN]
      BY <1>a, <2>1
    <3> QED
      BY <3>2, <3>3 DEF IssuedTokens
  <2> HIDE DEF e, new
  <2>6. /\ tokens' \in Seq(IssuedTokens) /\ Len(tokens') = Len(tokens) + 1
        /\ tokens'[Len(tokens) + 1] = new /\ \A t \in 1..Len(tokens) : tokens'[t] = tokens[t]
    BY <1>a, <2>1, <2>5, AppendProperties DEF LoginsTypes
  <2>7. /\ revokedTill' \in Seq(Int) /\ Len(revokedTill') = Len(tokens) + 1
        /\ revokedTill'[Len(tokens) + 1] = 0 /\ \A t \in 1..Len(tokens) : revokedTill'[t] = revokedTill[t]
    <3>1. revokedTill \in Seq(Int) /\ Len(revokedTill) = Len(tokens) /\ 0 \in Int
      BY <1>a DEF LoginsTypes
    <3> QED
      BY <2>1, <3>1, AppendProperties
  <2>8. LoginsTypes'
    <3>1. \A k \in InAuth!Keys : failures[k] \in Seq(0..MaxTime)
      BY <1>a DEF LoginsTypes
    <3>0. <<>> \in Seq(0..MaxTime)
      OBVIOUS
    <3>2. failures' \in [InAuth!Keys -> Seq(0..MaxTime)]
      BY <2>1, <3>0, <3>1
    <3>3. audited' \in Seq(AuditEvents) /\ Len(audited') = Len(audited) + 1 /\ Len(audited) \in Nat
      BY <1>a, <2>1, <2>3, AppendProperties, LenProperties DEF LoginsTypes
    <3> QED
      BY <1>a, <2>1, <2>6, <2>7, <3>2, <3>3, LoginsAssumption DEF LoginsTypes
  <2>9. LoginsCounted'
    <3> SUFFICES ASSUME NEW k \in InAuth!Keys
                 PROVE  /\ \A time \in Int : Cardinality(FailuresSince(k, time)') = Cardinality(LoggedSince(k, time)')
                        /\ Cardinality(FailuresSince(k, authClock - Window)') <= MaxAttempts
      BY DEF LoginsCounted
    <3>1. CASE k \in keys
      <4>1. failures'[k] = <<>> /\ Len(failures'[k]) = 0 /\ 1..0 = {}
        BY <2>1, <3>1
      <4>2. \A time \in Int : FailuresSince(k, time)' = {}
        BY <4>1 DEF FailuresSince
      <4>3. \A time \in Int : LoggedSince(k, time)' = {}
        BY <1>a, <2>1, <2>3, <2>4, <3>1, LoginsAudit
      <4>4. Cardinality({}) = 0 /\ 0 <= MaxAttempts
        BY FS_EmptySet, LoginsAssumption
      <4> QED
        BY <1>a, <2>1, <4>2, <4>3, <4>4
    <3>2. CASE k \notin keys
      <4>1. failures'[k] = failures[k]
        BY <2>1, <3>2
      <4>2. \A time \in Int : FailuresSince(k, time)' = FailuresSince(k, time) /\ LoggedSince(k, time)' = LoggedSince(k, time)
        BY <1>a, <2>1, <2>3, <2>4, <3>2, <4>1, LoginsOther
      <4> QED
        BY <1>a, <2>1, <4>2 DEF LoginsCounted
    <3> QED
      BY <3>1, <3>2
  <2>10. ASSUME NEW t \in 1..Len(tokens') PROVE TokenOK(t)'
    <3>1. t \in 1..Len(tokens) \/ t = Len(tokens) + 1
      BY <1>a, <2>6
    <3>2. CASE t \in 1..Len(tokens)
      BY <1>a, <2>1, <2>6, <2>7, <3>2 DEF TokenOK
    <3>3. CASE t = Len(tokens) + 1
      <4>1. account[name].version \in Nat
        BY <1>a, <2>1, LoginsAssumption
      <4> QED
        BY <2>1, <2>5, <2>6, <2>7, <3>3, <4>1 DEF TokenOK
    <3> QED
      BY <3>1, <3>2, <3>3
  <2> QED
    BY <2>8, <2>9, <2>10 DEF LoginsInv
<1>5. ASSUME NEW t \in DOMAIN tokens, InAuth!Logout(t) PROVE LoginsInv'
  <2> DEFINE e == [action |-> "logout", name |-> tokens[t].name, keys |-> {}, at |-> authClock]
             remaining == InAuth!WholeSeconds(tokens[t].exp - authClock)
             till == authClock + (IF remaining < Second THEN Second ELSE remaining)
  <2>1. /\ authClock' = authClock /\ account' = account /\ tokens' = tokens /\ failures' = failures
        /\ revokedTill' = [revokedTill EXCEPT ![t] = till]
        /\ audited' = Append(audited, e) /\ Len(audited) < MaxAudited
    BY <1>5 DEF InAuth!Logout, InAuth!Audit
  <2>2. t \in 1..Len(tokens) /\ tokens[t].name \in Names /\ tokens[t].exp \in Int
    BY <1>a DEF IssuedTokens
  <2>3. e \in AuditEvents
    BY <1>a, <2>2 DEF AuditEvents
  <2>4. e.action = "logout" /\ e.keys = {}
    OBVIOUS
  <2>5. till \in Int /\ tokens[t].exp - till < Second
    <3>1. tokens[t].exp - authClock \in Int
      BY <1>a, <2>2
    <3>2. remaining \in Int /\ remaining > tokens[t].exp - authClock - Second
      BY <3>1, LoginSeconds
    <3> HIDE DEF remaining
    <3> QED
      BY <1>a, <2>2, <3>2, LoginsAssumption
  <2> HIDE DEF e, till
  <2>6. /\ revokedTill' \in Seq(Int) /\ Len(revokedTill') = Len(revokedTill)
        /\ revokedTill'[t] = till /\ \A u \in 1..Len(tokens) : u # t =>
             revokedTill'[u] = revokedTill[u]
    <3>1. revokedTill \in Seq(Int) /\ Len(revokedTill) = Len(tokens)
      BY <1>a DEF LoginsTypes
    <3>2. DOMAIN revokedTill = 1..Len(tokens)
      BY <3>1, LenProperties
    <3> QED
      BY <2>1, <2>2, <2>5, <3>1, <3>2, ExceptSeq
  <2>7. LoginsTypes'
    <3>1. audited' \in Seq(AuditEvents) /\ Len(audited') = Len(audited) + 1 /\ Len(audited) \in Nat
      BY <1>a, <2>1, <2>3, AppendProperties, LenProperties DEF LoginsTypes
    <3> QED
      BY <1>a, <2>1, <2>6, <3>1, LoginsAssumption DEF LoginsTypes
  <2>8. LoginsCounted'
    <3>1. \A k \in InAuth!Keys, time \in Int :
            FailuresSince(k, time)' = FailuresSince(k, time) /\ LoggedSince(k, time)' = LoggedSince(k, time)
      BY <1>a, <2>1, <2>3, <2>4, LoginsOther
    <3> QED
      BY <1>a, <2>1, <3>1 DEF LoginsCounted
  <2>9. ASSUME NEW u \in 1..Len(tokens') PROVE TokenOK(u)'
    <3>1. u \in 1..Len(tokens) /\ TokenOK(u)
      BY <1>a, <2>1
    <3>2. CASE u = t
      BY <2>1, <2>5, <2>6, <3>1, <3>2 DEF TokenOK
    <3>3. CASE u # t
      BY <2>1, <2>6, <3>1, <3>3 DEF TokenOK
    <3> QED
      BY <3>2, <3>3
  <2> QED
    BY <2>7, <2>8, <2>9 DEF LoginsInv
<1>6. CASE UNCHANGED InAuth!vars
  <2>1. /\ authClock' = authClock /\ account' = account /\ tokens' = tokens /\ failures' = failures
        /\ revokedTill' = revokedTill /\ audited' = audited
    BY <1>6 DEF InAuth!vars
  <2>2. LoginsCounted'
    BY <1>b, <2>1
  <2> QED
    BY <1>a, <2>1, <2>2 DEF LoginsInv, LoginsTypes, TokenOK
<1> QED
  BY <1>1, <1>2, <1>3, <1>4, <1>5, <1>6 DEF InAuth!Next

(* The limiter counts what the log tells.                                   *)
LEMMA LoginsLimited == LoginsInv => InAuth!AttemptsLimited /\ InAuth!TypeOK
<1> SUFFICES ASSUME LoginsInv PROVE InAuth!AttemptsLimited /\ InAuth!TypeOK
  OBVIOUS
<1>1. LoginsTypes /\ LoginsCounted /\ authClock - Window \in Int
  BY LoginsAssumption DEF LoginsInv, LoginsTypes
<1>2. \A k \in InAuth!Keys : DOMAIN failures[k] = 1..Len(failures[k])
  BY <1>1, LenProperties DEF LoginsTypes
<1>3. DOMAIN audited = 1..Len(audited)
  BY <1>1, LenProperties DEF LoginsTypes
<1>4. \A k \in InAuth!Keys : InAuth!Active(k) = FailuresSince(k, authClock - Window)
  BY <1>2 DEF InAuth!Active, FailuresSince
<1>5. \A k \in InAuth!Keys : InAuth!LoggedFailures(k) = LoggedSince(k, authClock - Window)
  BY <1>3 DEF InAuth!LoggedFailures, LoggedSince
<1>6. InAuth!AttemptsLimited
  BY <1>1, <1>4, <1>5, CardinalitiesAgree DEF InAuth!AttemptsLimited, LoginsCounted
<1>7. \A t \in DOMAIN tokens : tokens[t].name \in Names
  <2>1. DOMAIN tokens = 1..Len(tokens) /\ \A t \in 1..Len(tokens) : tokens[t] \in IssuedTokens
    BY <1>1, LenProperties, ElementOfSeq DEF LoginsTypes
  <2> QED
    BY <2>1 DEF IssuedTokens
<1>8. InAuth!TypeOK
  BY <1>1, <1>4, <1>7, CardinalitiesAgree DEF InAuth!TypeOK, LoginsTypes, LoginsCounted
<1> QED
  BY <1>6, <1>8

(* A token comes back only in its last second.                              *)
LEMMA LoginsRefused ==
  LoginsInv /\ [InAuth!Next]_InAuth!vars =>
    [\A t \in DOMAIN tokens :
       ~InAuth!Accepted(t) /\ InAuth!Accepted(t)' =>
         tokens[t].exp - authClock' < Second]_InAuth!vars
<1> SUFFICES ASSUME LoginsInv, [InAuth!Next]_InAuth!vars, NEW t \in DOMAIN tokens,
                    ~InAuth!Accepted(t), InAuth!Accepted(t)'
             PROVE  tokens[t].exp - authClock' < Second
  OBVIOUS
<1>1. /\ tokens \in Seq(IssuedTokens) /\ DOMAIN tokens = 1..Len(tokens) /\ Len(tokens) \in Nat
      /\ revokedTill \in Seq(Int) /\ Len(revokedTill) = Len(tokens)
      /\ authClock \in 0..MaxTime
      /\ account \in [Names -> [version: 1..MaxPermission, active: BOOLEAN] \cup {Nothing}]
  BY LenProperties DEF LoginsInv, LoginsTypes
<1>2. /\ tokens[t] \in IssuedTokens /\ revokedTill[t] \in Int /\ TokenOK(t)
      /\ tokens[t].name \in Names /\ tokens[t].version \in Nat /\ tokens[t].exp \in Int
  <2>1. tokens[t] \in IssuedTokens /\ revokedTill[t] \in Int
    BY <1>1, ElementOfSeq
  <2>2. TokenOK(t)
    BY <1>1 DEF LoginsInv
  <2>3. tokens[t].version \in 1..MaxPermission /\ tokens[t].name \in Names /\ tokens[t].exp \in Int
    BY <2>1 DEF IssuedTokens
  <2> QED
    BY <2>1, <2>2, <2>3, LoginsAssumption
<1>3. account[tokens[t].name] \in [version: 1..MaxPermission, active: BOOLEAN]
  BY <1>1, <1>2 DEF TokenOK
<1>4. CASE InAuth!Tick
  BY <1>1, <1>2, <1>4, LoginsAssumption
  DEF InAuth!Tick, InAuth!Accepted, InAuth!Valid, InAuth!Revoked, TokenOK
<1>5. ASSUME NEW name \in Names,
             InAuth!Register(name) \/ InAuth!Disable(name) \/ InAuth!UpdateRoles(name) PROVE FALSE
  <2>1. /\ authClock' = authClock /\ tokens' = tokens /\ revokedTill' = revokedTill
        /\ name # tokens[t].name => account'[tokens[t].name] = account[tokens[t].name]
    BY <1>1, <1>2, <1>5 DEF InAuth!Register, InAuth!Disable, InAuth!UpdateRoles
  <2>2. account'[tokens[t].name].active => account[tokens[t].name].active
    <3>1. CASE name # tokens[t].name
      BY <2>1, <3>1
    <3>2. CASE name = tokens[t].name /\ InAuth!Disable(name)
      BY <1>1, <1>2, <1>3, <3>2 DEF InAuth!Disable
    <3>3. CASE name = tokens[t].name /\ InAuth!UpdateRoles(name)
      BY <1>1, <1>2, <1>3, <3>3 DEF InAuth!UpdateRoles
    <3>4. CASE name = tokens[t].name /\ InAuth!Register(name)
      BY <1>2, <3>4 DEF InAuth!Register, TokenOK
    <3> QED
      BY <1>5, <3>1, <3>2, <3>3, <3>4
  <2>3. account'[tokens[t].name].version = tokens[t].version =>
          account[tokens[t].name].version = tokens[t].version
    BY <1>1, <1>2, <1>3, <1>5, <2>1, LoginsAssumption
    DEF InAuth!Register, InAuth!Disable, InAuth!UpdateRoles, TokenOK
  <2> QED
    BY <2>1, <2>2, <2>3 DEF InAuth!Accepted, InAuth!Valid, InAuth!Revoked
<1>6. ASSUME NEW name \in Names, NEW keys \in InAuth!KeysOf(name),
             InAuth!LoginFails(name, keys) PROVE FALSE
  BY <1>6 DEF InAuth!LoginFails, InAuth!Accepted, InAuth!Valid, InAuth!Revoked
<1>7. ASSUME NEW name \in Names, NEW keys \in InAuth!KeysOf(name),
             InAuth!LoginSucceeds(name, keys) PROVE FALSE
  <2>1. \E new : tokens' = Append(tokens, new)
    BY <1>7 DEF InAuth!LoginSucceeds
  <2>2. revokedTill' = Append(revokedTill, 0) /\ authClock' = authClock /\ account' = account
    BY <1>7 DEF InAuth!LoginSucceeds
  <2>3. revokedTill'[t] = revokedTill[t]
    BY <1>1, <2>2, AppendProperties
  <2>4. tokens'[t] = tokens[t]
    BY <1>1, <2>1
  <2> QED
    BY <2>2, <2>3, <2>4 DEF InAuth!Accepted, InAuth!Valid, InAuth!Revoked
<1>8. ASSUME NEW u \in DOMAIN tokens, InAuth!Logout(u) PROVE FALSE
  <2> DEFINE remaining == InAuth!WholeSeconds(tokens[u].exp - authClock)
             till == authClock + (IF remaining < Second THEN Second ELSE remaining)
  <2>1. authClock' = authClock /\ account' = account /\ tokens' = tokens /\ revokedTill' = [revokedTill EXCEPT ![u] = till]
    BY <1>8 DEF InAuth!Logout
  <2>2. tokens[u].exp - authClock \in Int
    <3>1. tokens[u] \in IssuedTokens
      BY <1>1, ElementOfSeq
    <3>2. tokens[u].exp \in Int
      BY <3>1 DEF IssuedTokens
    <3> QED
      BY <1>1, <3>2, LoginsAssumption
  <2>3. remaining \in Int
    BY <2>2, LoginSeconds
  <2> HIDE DEF remaining
  <2>4. till \in Int /\ authClock < till
    BY <1>1, <2>3, LoginsAssumption
  <2> HIDE DEF till
  <2>5. DOMAIN revokedTill = 1..Len(tokens)
    BY <1>1, LenProperties
  <2>6. revokedTill'[t] = IF t = u THEN till ELSE revokedTill[t]
    BY <1>1, <2>1, <2>5
  <2> QED
    BY <2>1, <2>4, <2>6 DEF InAuth!Accepted, InAuth!Valid, InAuth!Revoked
<1>9. CASE UNCHANGED InAuth!vars
  BY <1>9 DEF InAuth!vars, InAuth!Accepted, InAuth!Valid, InAuth!Revoked
<1> QED
  BY <1>4, <1>5, <1>6, <1>7, <1>8, <1>9 DEF InAuth!Next

(***************************************************************************)
(* Review of findings.                                                     *)
(***************************************************************************)
FindingRows ==
  [rule: InReview!RuleCodes, level: InReview!Levels, evidence: {Nothing, "blank", "complete", "foreign"}, task: 1..MaxTasks,
   review_status: InReview!FindingStatuses, finding_status: InReview!FindingStatuses \cup {Nothing}]

(* A finding as its rule has left it: flagged where evidence is missing.    *)
Undecided(f) ==
  /\ f.finding_status \in {"matched", "manual_review"}
  /\ f.evidence \in {Nothing, "blank", "complete"}
  /\ f.evidence # "complete" => f.finding_status = "manual_review"

FindingOK(n) ==
  IF n \in reviewed THEN findings[n].finding_status \in {"confirmed", "dismissed"}
  ELSE Undecided(findings[n]) \/ findings[n] = InReview!Seeded

(* An evaluation has rows that nobody has decided, of the newest task that  *)
(* it saw.                                                                  *)
EvaluationOK(r) ==
  \/ evaluationReq[r] = InReview!Idle
  \/ /\ evaluationReq[r] \in [task: 1..MaxTasks, rows: Seq(FindingRows), seen: 1..MaxTasks]
     /\ Len(evaluationReq[r].rows) = Len(Rules) /\ evaluationReq[r].task = evaluationReq[r].seen
     /\ evaluationReq[r].seen <= tasks
     /\ \A n \in 1..Len(Rules) : Undecided(evaluationReq[r].rows[n]) /\ evaluationReq[r].rows[n].task = evaluationReq[r].task

ReviewInv ==
  /\ tasks \in 0..MaxTasks
  /\ findings \in Seq(FindingRows)
  /\ evaluationReq \in [Requests -> {InReview!Idle} \cup [task: 1..MaxTasks, rows: Seq(FindingRows), seen: 1..MaxTasks]]
  /\ reviewed \subseteq 1..Len(findings)
  /\ \A n \in 1..Len(findings) : FindingOK(n)
  /\ \A r \in Requests : EvaluationOK(r)

(* The invariant of the review holds at the start.                          *)
LEMMA ReviewInit == InReview!Init => ReviewInv
<1> SUFFICES ASSUME InReview!Init PROVE ReviewInv
  OBVIOUS
<1>1. InReview!Seeded \in FindingRows
  BY ReviewAssumption
  DEF InReview!Seeded, FindingRows, InReview!RuleCodes, InReview!Levels, InReview!FindingStatuses
<1>2. findings \in Seq(FindingRows) /\ \A n \in 1..Len(findings) : findings[n] = InReview!Seeded
  <2>1. CASE findings = <<>>
    <3>1. findings \in Seq(FindingRows) /\ Len(findings) = 0 /\ 1..0 = {}
      BY <2>1
    <3> QED
      BY <3>1
  <2>2. CASE findings = <<InReview!Seeded>>
    <3> HIDE DEF InReview!Seeded
    <3>1. findings \in Seq(FindingRows) /\ Len(findings) = 1 /\ findings[1] = InReview!Seeded /\ 1..1 = {1}
      BY <1>1, <2>2
    <3> QED
      BY <3>1
  <2> QED
    BY <2>1, <2>2 DEF InReview!Init
<1>3. tasks \in 0..MaxTasks
  BY ReviewAssumption DEF InReview!Init
<1> QED
  BY <1>2, <1>3 DEF InReview!Init, ReviewInv, FindingOK, EvaluationOK

(* What the rules say of a context are findings that nobody has decided.    *)
LEMMA ReviewBatch ==
  ASSUME NEW context \in Contexts, NEW task \in 1..MaxTasks
  PROVE  /\ InReview!Batch(context, task) \in Seq(FindingRows)
         /\ Len(InReview!Batch(context, task)) = Len(Rules)
         /\ \A n \in 1..Len(Rules) :
              Undecided(InReview!Batch(context, task)[n]) /\ InReview!Batch(context, task)[n].task = task
<1>1. /\ Rules \in Seq(InReview!RuleCodes) /\ DOMAIN Rules = 1..Len(Rules) /\ Len(Rules) \in Nat
      /\ \A n \in 1..Len(Rules) : Rules[n] \in InReview!RuleCodes
  BY ReviewAssumption, LenProperties, ElementOfSeq
<1>2. context.evidence \in {Nothing, "blank", "complete"}
  BY ReviewAssumption DEF InReview!Fields
<1>3. ASSUME NEW rule \in InReview!RuleCodes
      PROVE  /\ InReview!Row(InReview!Finding(context, rule), task) \in FindingRows
             /\ Undecided(InReview!Row(InReview!Finding(context, rule), task))
             /\ InReview!Row(InReview!Finding(context, rule), task).task = task
  <2>1. CASE InReview!Missing(context, rule) \/ ~InReview!Complete(context.evidence)
    <3> HIDE DEF InReview!Missing, InReview!RuleCodes
    <3>1. InReview!Finding(context, rule)
            = [rule |-> rule, level |-> "medium", status |-> "manual_review", evidence |-> context.evidence]
      BY <2>1 DEF InReview!Finding
    <3> QED
      BY <1>2, <1>3, <3>1
      DEF InReview!Row, FindingRows, Undecided, InReview!Levels, InReview!FindingStatuses
  <2>2. CASE ~(InReview!Missing(context, rule) \/ ~InReview!Complete(context.evidence))
    <3> HIDE DEF InReview!Missing, InReview!RuleCodes
    <3>1. PICK level \in InReview!Levels : InReview!Finding(context, rule)
            = [rule |-> rule, level |-> level, status |-> "matched", evidence |-> context.evidence]
      <4> DEFINE l == IF InReview!Alarm(context, rule) THEN InReview!AlarmLevel(rule) ELSE "low"
      <4>1. l \in InReview!Levels
        BY DEF InReview!AlarmLevel, InReview!Levels
      <4>2. InReview!Finding(context, rule)
              = [rule |-> rule, level |-> l, status |-> "matched", evidence |-> context.evidence]
        BY <2>2 DEF InReview!Finding
      <4> HIDE DEF l
      <4> QED
        BY <4>1, <4>2
    <3>2. context.evidence = "complete"
      BY <2>2 DEF InReview!Complete
    <3> QED
      BY <1>3, <3>1, <3>2 DEF InReview!Row, FindingRows, Undecided, InReview!FindingStatuses
  <2> QED
    BY <2>1, <2>2
<1> DEFINE b == InReview!Batch(context, task)
<1>4. /\ b \in [1..Len(Rules) -> FindingRows]
      /\ \A n \in 1..Len(Rules) : Undecided(b[n]) /\ b[n].task = task
  BY <1>1, <1>3 DEF InReview!Batch
<1> HIDE DEF b
<1>5. b \in Seq(FindingRows)
  BY <1>1, <1>4, SeqDef
<1>6. DOMAIN b = 1..Len(Rules) /\ DOMAIN b = 1..Len(b) /\ Len(b) \in Nat
  BY <1>4, <1>5, LenProperties
<1>7. Len(b) = Len(Rules)
  BY <1>1, <1>6
<1> QED
  BY <1>4, <1>5, <1>7 DEF b

(* A decided finding, as it is stored.                                      *)
LEMMA ReviewUpdate ==
  ASSUME NEW row \in FindingRows, NEW status \in {"confirmed", "dismissed"},
         NEW evidence \in {Nothing, "blank", "complete"}
  PROVE  /\ InReview!Update(row, status, evidence) \in FindingRows
         /\ InReview!Update(row, status, evidence).finding_status = status
         /\ InReview!Update(row, status, evidence).rule = row.rule
         /\ InReview!Update(row, status, evidence).level = row.level
         /\ InReview!Update(row, status, evidence).task = row.task
BY DEF InReview!Update, FindingRows, InReview!FindingStatuses

(* Every step of an evaluation or a review keeps it.                        *)
LEMMA ReviewNext == ReviewInv /\ [InReview!Next]_InReview!vars => ReviewInv'
<1> SUFFICES ASSUME ReviewInv, [InReview!Next]_InReview!vars PROVE ReviewInv'
  OBVIOUS
<1>a. /\ findings \in Seq(FindingRows) /\ Len(findings) \in Nat
      /\ DOMAIN findings = 1..Len(findings)
      /\ \A n \in 1..Len(findings) : findings[n] \in FindingRows /\ FindingOK(n)
  BY LenProperties, ElementOfSeq DEF ReviewInv
<1>b. InReview!Idle \in {InReview!Idle} \cup [task: 1..MaxTasks, rows: Seq(FindingRows), seen: 1..MaxTasks]
  OBVIOUS
<1>1. CASE InReview!StartTask
  <2>1. /\ tasks' = tasks + 1 /\ tasks < MaxTasks /\ findings' = findings
        /\ evaluationReq' = evaluationReq /\ reviewed' = reviewed
    BY <1>1 DEF InReview!StartTask
  <2>2. tasks' \in 0..MaxTasks
    BY <2>1, ReviewAssumption DEF ReviewInv
  <2>3. ASSUME NEW r \in Requests PROVE EvaluationOK(r)'
    <3>1. CASE evaluationReq[r] = InReview!Idle
      BY <2>1, <3>1 DEF EvaluationOK
    <3>2. CASE evaluationReq[r] # InReview!Idle
      <4>1. EvaluationOK(r) /\ tasks \in Int
        BY ReviewAssumption DEF ReviewInv
      <4>2. evaluationReq[r].seen \in Int /\ evaluationReq[r].seen <= tasks
        BY <3>2, <4>1, ReviewAssumption DEF EvaluationOK
      <4>3. evaluationReq'[r].seen <= tasks'
        BY <2>1, <4>1, <4>2
      <4> QED
        BY <2>1, <3>2, <4>1, <4>3 DEF EvaluationOK
    <3> QED
      BY <3>1, <3>2
  <2>4. \A n \in 1..Len(findings') : FindingOK(n)'
    BY <1>a, <2>1 DEF FindingOK
  <2> QED
    BY <2>1, <2>2, <2>3, <2>4 DEF ReviewInv
<1>2. ASSUME NEW r \in Requests, NEW context \in Contexts,
             InReview!BeginEvaluate(r, context) PROVE ReviewInv'
  <2> DEFINE b == InReview!Batch(context, tasks)
             new == [task |-> tasks, rows |-> b, seen |-> tasks]
  <2>1. /\ tasks \in 1..MaxTasks /\ evaluationReq' = [evaluationReq EXCEPT ![r] = new]
        /\ tasks' = tasks /\ findings' = findings /\ reviewed' = reviewed
    BY <1>2, ReviewAssumption DEF InReview!BeginEvaluate, InReview!LatestTask, ReviewInv
  <2>2. /\ b \in Seq(FindingRows) /\ Len(b) = Len(Rules)
        /\ \A n \in 1..Len(Rules) : Undecided(b[n]) /\ b[n].task = tasks
    BY <2>1, ReviewBatch
  <2> HIDE DEF b
  <2>3. /\ new \in [task: 1..MaxTasks, rows: Seq(FindingRows), seen: 1..MaxTasks]
        /\ new.rows = b /\ new.task = tasks /\ new.seen = tasks
    BY <2>1, <2>2
  <2> HIDE DEF new
  <2>4. /\ evaluationReq' \in [Requests -> {InReview!Idle} \cup [task: 1..MaxTasks, rows: Seq(FindingRows), seen: 1..MaxTasks]]
        /\ \A q \in Requests : evaluationReq'[q] = IF q = r THEN new ELSE evaluationReq[q]
    BY <2>1, <2>3 DEF ReviewInv
  <2>5. ASSUME NEW q \in Requests PROVE EvaluationOK(q)'
    <3>1. CASE q = r
      <4>1. tasks <= tasks /\ tasks' = tasks
        BY <2>1, ReviewAssumption
      <4> QED
        BY <2>2, <2>3, <2>4, <3>1, <4>1 DEF EvaluationOK
    <3>2. CASE q # r
      BY <2>1, <2>4, <3>2 DEF ReviewInv, EvaluationOK
    <3> QED
      BY <3>1, <3>2
  <2>6. \A n \in 1..Len(findings') : FindingOK(n)'
    BY <1>a, <2>1 DEF FindingOK
  <2> QED
    BY <2>1, <2>4, <2>5, <2>6 DEF ReviewInv
<1>3. ASSUME NEW r \in Requests, InReview!AppendFindings(r) PROVE ReviewInv'
  <2> DEFINE seeds == evaluationReq[r].rows
  <2>1. /\ evaluationReq[r] # InReview!Idle /\ findings' = findings \o seeds
        /\ evaluationReq' = [evaluationReq EXCEPT ![r] = InReview!Idle]
        /\ tasks' = tasks /\ reviewed' = reviewed
    BY <1>3 DEF InReview!AppendFindings
  <2>2. seeds \in Seq(FindingRows) /\ Len(seeds) = Len(Rules) /\ \A n \in 1..Len(seeds) : Undecided(seeds[n])
    BY <2>1 DEF ReviewInv, EvaluationOK
  <2> HIDE DEF seeds
  <2>3. /\ findings' \in Seq(FindingRows) /\ Len(findings') = Len(findings) + Len(seeds)
        /\ Len(seeds) \in Nat
        /\ \A n \in 1..(Len(findings) + Len(seeds)) :
             findings'[n] = IF n <= Len(findings) THEN findings[n] ELSE seeds[n - Len(findings)]
    <3>1. Len(seeds) \in Nat
      BY <2>2, LenProperties
    <3>2. /\ findings \o seeds \in Seq(FindingRows)
          /\ Len(findings \o seeds) = Len(findings) + Len(seeds)
          /\ \A n \in 1..(Len(findings) + Len(seeds)) :
               (findings \o seeds)[n] = IF n <= Len(findings) THEN findings[n] ELSE seeds[n - Len(findings)]
      BY <1>a, <2>2, ConcatProperties
    <3> QED
      BY <2>1, <3>1, <3>2
  <2>4. /\ evaluationReq' \in [Requests -> {InReview!Idle} \cup [task: 1..MaxTasks, rows: Seq(FindingRows), seen: 1..MaxTasks]]
        /\ \A q \in Requests : evaluationReq'[q] = IF q = r THEN InReview!Idle ELSE evaluationReq[q]
    BY <1>b, <2>1 DEF ReviewInv
  <2>5. \A q \in Requests : EvaluationOK(q)'
    BY <2>1, <2>4 DEF ReviewInv, EvaluationOK
  <2>6. ASSUME NEW n \in 1..Len(findings') PROVE FindingOK(n)'
    <3>1. CASE n <= Len(findings)
      BY <1>a, <2>1, <2>3, <3>1 DEF FindingOK
    <3>2. CASE ~(n <= Len(findings))
      <4>1. n - Len(findings) \in 1..Len(seeds) /\ findings'[n] = seeds[n - Len(findings)]
        BY <1>a, <2>3, <3>2
      <4>2. n \notin reviewed'
        BY <1>a, <2>1, <3>2 DEF ReviewInv
      <4> QED
        BY <2>2, <4>1, <4>2 DEF FindingOK
    <3> QED
      BY <3>1, <3>2
  <2>7. reviewed' \subseteq 1..Len(findings')
    BY <1>a, <2>1, <2>3 DEF ReviewInv
  <2> QED
    BY <2>1, <2>3, <2>4, <2>5, <2>6, <2>7 DEF ReviewInv
<1>4. ASSUME NEW r \in Requests, InReview!EvaluateFails(r) PROVE ReviewInv'
  <2>1. evaluationReq' = [evaluationReq EXCEPT ![r] = InReview!Idle] /\ tasks' = tasks /\ findings' = findings /\ reviewed' = reviewed
    BY <1>4 DEF InReview!EvaluateFails
  <2>2. /\ evaluationReq' \in [Requests -> {InReview!Idle} \cup [task: 1..MaxTasks, rows: Seq(FindingRows), seen: 1..MaxTasks]]
        /\ \A q \in Requests : evaluationReq'[q] = IF q = r THEN InReview!Idle ELSE evaluationReq[q]
    BY <1>b, <2>1 DEF ReviewInv
  <2>3. \A q \in Requests : EvaluationOK(q)'
    BY <2>1, <2>2 DEF ReviewInv, EvaluationOK
  <2>4. \A n \in 1..Len(findings') : FindingOK(n)'
    BY <1>a, <2>1 DEF FindingOK
  <2> QED
    BY <2>1, <2>2, <2>3, <2>4 DEF ReviewInv
<1>5. ASSUME NEW n \in DOMAIN findings, NEW status \in {"confirmed", "dismissed"},
             NEW evidence \in {Nothing, "blank", "complete"}, InReview!Review(n, status, evidence)
      PROVE  ReviewInv'
  <2> DEFINE row == InReview!Update(findings[n], status, evidence)
  <2>1. /\ findings' = [findings EXCEPT ![n] = row] /\ reviewed' = reviewed \cup {n}
        /\ tasks' = tasks /\ evaluationReq' = evaluationReq
    BY <1>5 DEF InReview!Review
  <2>2. row \in FindingRows /\ row.finding_status = status
    BY <1>a, ReviewUpdate
  <2> HIDE DEF row
  <2>3. /\ findings' \in Seq(FindingRows) /\ Len(findings') = Len(findings)
        /\ \A m \in 1..Len(findings) : findings'[m] = IF m = n THEN row ELSE findings[m]
    BY <1>a, <2>1, <2>2, ExceptSeq
  <2>4. \A m \in 1..Len(findings') : FindingOK(m)'
    BY <1>a, <2>1, <2>2, <2>3 DEF FindingOK
  <2>5. \A r \in Requests : EvaluationOK(r)'
    BY <2>1 DEF ReviewInv, EvaluationOK
  <2> QED
    BY <1>a, <2>1, <2>3, <2>4, <2>5 DEF ReviewInv
<1>6. ASSUME NEW n \in DOMAIN findings, NEW status \in {"confirmed", "dismissed"},
             InReview!PatchReviewStatus(n, status)
      PROVE  ReviewInv'
  BY <1>5, <1>6 DEF InReview!PatchReviewStatus
<1>7. ASSUME NEW n \in DOMAIN findings, NEW status \in {"confirmed", "dismissed"},
             NEW evidence \in {Nothing, "blank", "complete"}, InReview!UpdateManualReview(n, status, evidence)
      PROVE  ReviewInv'
  BY <1>5, <1>7 DEF InReview!UpdateManualReview
<1>8. CASE UNCHANGED InReview!vars
  BY <1>8 DEF InReview!vars, ReviewInv, FindingOK, EvaluationOK
<1> QED
  BY <1>1, <1>2, <1>3, <1>4, <1>6, <1>7, <1>8 DEF InReview!Next

(* What counts of the findings, and what of them still asks for a person.   *)
LEMMA ReviewDecides == ReviewInv => InReview!LevelIsConfirmed /\ InReview!ManualKept
<1> SUFFICES ASSUME ReviewInv PROVE InReview!LevelIsConfirmed /\ InReview!ManualKept
  OBVIOUS
<1>1. /\ DOMAIN findings = 1..Len(findings) /\ reviewed \subseteq 1..Len(findings)
      /\ \A n \in 1..Len(findings) : findings[n] \in FindingRows /\ FindingOK(n)
  BY LenProperties, ElementOfSeq DEF ReviewInv
<1>2. \A n \in 1..Len(findings) \ reviewed :
        /\ InReview!Status(findings[n]) \in {"matched", "manual_review", "pending"}
        /\ findings[n].evidence \in {Nothing, "blank"} =>
             InReview!Status(findings[n]) = "manual_review"
  BY <1>1, ReviewAssumption
  DEF FindingOK, Undecided, InReview!Seeded, InReview!Status, InReview!FindingStatuses
<1>3. \A n \in reviewed : InReview!Status(findings[n]) \in {"confirmed", "dismissed"}
  BY <1>1, ReviewAssumption DEF FindingOK, InReview!Status, InReview!FindingStatuses
<1> DEFINE counts == {n \in reviewed : InReview!Status(findings[n]) = "confirmed" /\ findings[n].evidence = "complete"}
           levels == {findings[n].level : n \in counts}
<1>4. InReview!Confirmed(InReview!Read) = {InReview!ToFinding(findings[n]) : n \in counts}
  <2>1. \A n \in 1..Len(findings) :
          /\ InReview!ToFinding(findings[n]).status = InReview!Status(findings[n])
          /\ InReview!ToFinding(findings[n]).evidence = findings[n].evidence
    BY DEF InReview!ToFinding
  <2>2. \A n \in 1..Len(findings) :
          n \in counts <=> InReview!ToFinding(findings[n]).status = "confirmed" /\ InReview!Complete(InReview!ToFinding(findings[n]).evidence)
    BY <1>1, <1>2, <1>3, <2>1 DEF InReview!Complete
  <2>3. \A n \in counts : n \in 1..Len(findings)
    BY <1>1
  <2> HIDE DEF counts
  <2> QED
    BY <1>1, <2>2, <2>3 DEF InReview!Confirmed, InReview!Read
<1>5. {f.level : f \in InReview!Confirmed(InReview!Read)} = levels
  <2>1. \A n \in counts : InReview!ToFinding(findings[n]).level = findings[n].level
    BY DEF InReview!ToFinding
  <2> HIDE DEF counts
  <2> QED
    BY <1>4, <2>1
<1>6. InReview!Level(InReview!Read) = InReview!Highest(levels)
  BY <1>5 DEF InReview!Level
<1>7. levels \subseteq InReview!Levels
  BY <1>1 DEF FindingRows
<1>8. InReview!LevelIsConfirmed
  <2> HIDE DEF levels
  <2>1. \A l \in levels : InReview!Rank[l] <= InReview!Rank[InReview!Highest(levels)]
    BY <1>7 DEF InReview!Rank, InReview!Highest, InReview!Levels
  <2>2. InReview!Highest(levels) # "none" => InReview!Highest(levels) \in levels
    BY DEF InReview!Highest
  <2> USE DEF levels
  <2>3. \A n \in counts : InReview!Rank[findings[n].level] <= InReview!Rank[InReview!Level(InReview!Read)]
    BY <1>6, <2>1
  <2>4. InReview!Level(InReview!Read) # "none" =>
          \E n \in counts : findings[n].level = InReview!Level(InReview!Read)
    BY <1>6, <2>2
  <2> HIDE DEF levels
  <2> QED
    BY <2>3, <2>4 DEF InReview!LevelIsConfirmed
<1>9. InReview!ManualRequired(InReview!Read) <=> \E n \in DOMAIN findings \ reviewed : InReview!Status(findings[n]) = "manual_review"
  <2>1. InReview!ManualRequired(InReview!Read) <=> \E n \in DOMAIN findings : InReview!Status(findings[n]) = "manual_review"
    <3>1. \A n \in DOMAIN findings : InReview!ToFinding(findings[n]).status = InReview!Status(findings[n])
      BY DEF InReview!ToFinding
    <3> QED
      BY <3>1 DEF InReview!ManualRequired, InReview!Read
  <2> QED
    BY <1>1, <1>3, <2>1
<1>10. InReview!ManualKept
  BY <1>1, <1>2, <1>9 DEF InReview!ManualKept
<1> QED
  BY <1>8, <1>10

(* A finding that is appended has the newest task that its evaluation saw.  *)
LEMMA ReviewBinds ==
  ReviewInv /\ [InReview!Next]_InReview!vars =>
    [\A n \in DOMAIN findings' \ DOMAIN findings :
       \/ findings'[n].task = tasks
       \/ \E r \in Requests : evaluationReq[r] # InReview!Idle /\ evaluationReq'[r] = InReview!Idle /\ evaluationReq[r].seen < tasks]_InReview!vars
<1> SUFFICES ASSUME ReviewInv, [InReview!Next]_InReview!vars,
                    NEW n \in DOMAIN findings' \ DOMAIN findings
             PROVE  \/ findings'[n].task = tasks
                    \/ \E r \in Requests : evaluationReq[r] # InReview!Idle /\ evaluationReq'[r] = InReview!Idle /\ evaluationReq[r].seen < tasks
  OBVIOUS
<1>1. PICK r \in Requests : InReview!AppendFindings(r)
  <2>1. CASE \E r \in Requests : InReview!AppendFindings(r)
    BY <2>1
  <2>2. CASE ~\E r \in Requests : InReview!AppendFindings(r)
    <3>1. findings' = findings \/ \E m \in DOMAIN findings : \E entry : findings' = [findings EXCEPT ![m] = entry]
      BY <2>2
      DEF InReview!Next, InReview!vars, InReview!StartTask, InReview!BeginEvaluate,
         InReview!EvaluateFails, InReview!PatchReviewStatus, InReview!UpdateManualReview,
         InReview!Review
    <3>2. DOMAIN findings' = DOMAIN findings
      BY <3>1
    <3> QED
      BY <3>2
  <2> QED
    BY <2>1, <2>2
<1> DEFINE seeds == evaluationReq[r].rows
<1>2. /\ evaluationReq[r] # InReview!Idle /\ findings' = findings \o seeds
      /\ evaluationReq' = [evaluationReq EXCEPT ![r] = InReview!Idle]
  BY <1>1 DEF InReview!AppendFindings
<1>3. /\ seeds \in Seq(FindingRows) /\ Len(seeds) = Len(Rules) /\ \A m \in 1..Len(seeds) : seeds[m].task = evaluationReq[r].seen
      /\ evaluationReq[r].seen \in 1..MaxTasks /\ evaluationReq[r].seen <= tasks
      /\ tasks \in 0..MaxTasks
  BY <1>2 DEF ReviewInv, EvaluationOK
<1> HIDE DEF seeds
<1>4. /\ findings \in Seq(FindingRows) /\ DOMAIN findings = 1..Len(findings)
      /\ Len(findings) \in Nat
      /\ Len(seeds) \in Nat
  BY <1>3, LenProperties DEF ReviewInv
<1>5. /\ findings \o seeds \in Seq(FindingRows)
      /\ Len(findings \o seeds) = Len(findings) + Len(seeds)
      /\ \A m \in 1..(Len(findings) + Len(seeds)) :
           (findings \o seeds)[m] = IF m <= Len(findings) THEN findings[m] ELSE seeds[m - Len(findings)]
  BY <1>3, <1>4, ConcatProperties
<1>6. DOMAIN findings' = 1..(Len(findings) + Len(seeds))
  BY <1>2, <1>5, LenProperties
<1>7. n - Len(findings) \in 1..Len(seeds) /\ findings'[n] = seeds[n - Len(findings)]
  BY <1>2, <1>4, <1>5, <1>6
<1>8. findings'[n].task = evaluationReq[r].seen
  BY <1>3, <1>7
<1>9. evaluationReq'[r] = InReview!Idle
  BY <1>2 DEF ReviewInv
<1>10. evaluationReq[r].seen = tasks \/ evaluationReq[r].seen < tasks
  BY <1>3, ReviewAssumption
<1> QED
  BY <1>2, <1>8, <1>9, <1>10

(* A review replaces a finding by one with the same facts.                  *)
LEMMA ReviewKeepsFacts ==
  ReviewInv /\ [InReview!Next]_InReview!vars =>
    [\A n \in DOMAIN findings :
       /\ n \in DOMAIN findings'
       /\ findings'[n].rule = findings[n].rule /\ findings'[n].level = findings[n].level
       /\ findings'[n].task = findings[n].task]_InReview!vars
<1> SUFFICES ASSUME ReviewInv, [InReview!Next]_InReview!vars, NEW n \in DOMAIN findings
             PROVE  /\ n \in DOMAIN findings'
                    /\ findings'[n].rule = findings[n].rule
                    /\ findings'[n].level = findings[n].level
                    /\ findings'[n].task = findings[n].task
  OBVIOUS
<1>a. /\ findings \in Seq(FindingRows) /\ DOMAIN findings = 1..Len(findings)
      /\ Len(findings) \in Nat
      /\ \A m \in 1..Len(findings) : findings[m] \in FindingRows
  BY LenProperties, ElementOfSeq DEF ReviewInv
<1>1. ASSUME NEW m \in DOMAIN findings, NEW status \in {"confirmed", "dismissed"},
             NEW evidence \in {Nothing, "blank", "complete"}, InReview!Review(m, status, evidence)
      PROVE  /\ n \in DOMAIN findings'
             /\ findings'[n].rule = findings[n].rule /\ findings'[n].level = findings[n].level
             /\ findings'[n].task = findings[n].task
  <2> DEFINE row == InReview!Update(findings[m], status, evidence)
  <2>1. findings' = [findings EXCEPT ![m] = row]
    BY <1>1 DEF InReview!Review
  <2>2. /\ row.rule = findings[m].rule /\ row.level = findings[m].level
        /\ row.task = findings[m].task
    BY <1>a, ReviewUpdate
  <2> HIDE DEF row
  <2> QED
    BY <2>1, <2>2
<1>2. CASE \E m \in DOMAIN findings, status \in {"confirmed", "dismissed"} :
             \/ InReview!PatchReviewStatus(m, status)
             \/ \E evidence \in {Nothing, "blank", "complete"} : InReview!UpdateManualReview(m, status, evidence)
  BY <1>1, <1>2 DEF InReview!PatchReviewStatus, InReview!UpdateManualReview
<1>3. ASSUME NEW r \in Requests, InReview!AppendFindings(r)
      PROVE  n \in DOMAIN findings' /\ findings'[n] = findings[n]
  <2> DEFINE seeds == evaluationReq[r].rows
  <2>1. evaluationReq[r] # InReview!Idle /\ findings' = findings \o seeds
    BY <1>3 DEF InReview!AppendFindings
  <2>2. seeds \in Seq(FindingRows)
    BY <2>1 DEF ReviewInv, EvaluationOK
  <2> HIDE DEF seeds
  <2>3. Len(seeds) \in Nat
    BY <2>2, LenProperties
  <2>4. /\ findings \o seeds \in Seq(FindingRows)
        /\ Len(findings \o seeds) = Len(findings) + Len(seeds)
        /\ \A m \in 1..(Len(findings) + Len(seeds)) :
             (findings \o seeds)[m] = IF m <= Len(findings) THEN findings[m] ELSE seeds[m - Len(findings)]
    BY <1>a, <2>2, ConcatProperties
  <2>5. DOMAIN findings' = 1..(Len(findings) + Len(seeds))
    BY <2>1, <2>4, LenProperties
  <2> QED
    BY <1>a, <2>1, <2>3, <2>4, <2>5
<1>4. CASE findings' = findings
  BY <1>4
<1> QED
  BY <1>2, <1>3, <1>4
  DEF InReview!Next, InReview!vars, InReview!StartTask, InReview!BeginEvaluate,
     InReview!EvaluateFails

(* Findings keep their types.                                               *)
LEMMA ReviewTyped == ReviewInv => InReview!TypeOK
<1> SUFFICES ASSUME ReviewInv PROVE InReview!TypeOK
  OBVIOUS
<1>1. \A r \in Requests : evaluationReq[r].task \in 0..MaxTasks /\ Len(evaluationReq[r].rows) \in {0, Len(Rules)}
  <2> SUFFICES ASSUME NEW r \in Requests
               PROVE  evaluationReq[r].task \in 0..MaxTasks /\ Len(evaluationReq[r].rows) \in {0, Len(Rules)}
    OBVIOUS
  <2>1. CASE evaluationReq[r] = InReview!Idle
    BY <2>1, ReviewAssumption DEF InReview!Idle
  <2>2. CASE evaluationReq[r] # InReview!Idle
    BY <2>2, ReviewAssumption DEF ReviewInv, EvaluationOK
  <2> QED
    BY <2>1, <2>2
<1>2. DOMAIN findings = 1..Len(findings)
  BY LenProperties DEF ReviewInv
<1> QED
  BY <1>1, <1>2 DEF ReviewInv, InReview!TypeOK, FindingRows

(***************************************************************************)
(* Manual reviews.                                                         *)
(***************************************************************************)
SaidDecisions == [status: {"confirmed", "dismissed"}, reviewer: Reviewers, evidence: InManual!Fields.evidence]

(* The decisions on a record, and what is left of them.                     *)
DecisionsOK(id) ==
  /\ said[id] \in Seq(SaidDecisions) /\ Len(said[id]) <= MaxDecisions
  /\ record[id] \in [status: {Nothing, "pending", "confirmed", "dismissed"}, reviewer: Reviewers \cup {Nothing}]
  /\ finding[id].evidence \in InManual!Fields.evidence
  /\ record[id] # InManual!NoRecord => finding[id].status = "manual_review"
  /\ record[id] = InManual!NoRecord => Len(said[id]) = 0
  /\ record[id].status \in {"confirmed", "dismissed"} <=> Len(said[id]) > 0
  /\ Len(said[id]) > 0 =>
       /\ record[id] = [status |-> said[id][Len(said[id])].status, reviewer |-> said[id][Len(said[id])].reviewer]
       /\ LET given == {m \in 1..Len(said[id]) : said[id][m].evidence # Nothing} IN
          given # {} => \E m \in given :
            finding[id].evidence = said[id][m].evidence /\ \A k \in given : k <= m

ManualInv ==
  /\ finding \in [InManual!Ids -> [rule: {Nothing, "amount", "supplier"}, level: {"none"} \cup InManual!Levels,
                          status: InManual!FindingStatuses, evidence: InManual!Fields.evidence]]
  /\ DOMAIN record = InManual!Ids /\ DOMAIN said = InManual!Ids
  /\ \A id \in InManual!Ids : DecisionsOK(id)

(* The invariant of the manual reviews holds at the start.                  *)
LEMMA ManualInit == InManual!Init => ManualInv
<1> SUFFICES ASSUME InManual!Init PROVE ManualInv
  OBVIOUS
<1>1. InManual!NoFinding \in [rule: {Nothing, "amount", "supplier"}, level: {"none"} \cup InManual!Levels,
                     status: InManual!FindingStatuses, evidence: InManual!Fields.evidence]
  BY DEF InManual!NoFinding, InManual!Fields, InManual!FindingStatuses
<1>2. finding \in [InManual!Ids -> [rule: {Nothing, "amount", "supplier"}, level: {"none"} \cup InManual!Levels,
                           status: InManual!FindingStatuses, evidence: InManual!Fields.evidence]]
  BY <1>1 DEF InManual!Init
<1>3. ASSUME NEW id \in InManual!Ids PROVE DecisionsOK(id)
  <2>1. said[id] \in Seq(SaidDecisions) /\ Len(said[id]) = 0 /\ record[id] = InManual!NoRecord /\ finding[id] = InManual!NoFinding
    BY DEF InManual!Init
  <2> QED
    BY <2>1, ManualAssumption
    DEF DecisionsOK, InManual!NoRecord, InManual!NoFinding, InManual!Fields,
       InManual!FindingStatuses
<1> QED
  BY <1>2, <1>3 DEF InManual!Init, ManualInv

(* Every manual review keeps it.                                            *)
LEMMA ManualNext == ManualInv /\ [InManual!Next]_InManual!vars => ManualInv'
<1> SUFFICES ASSUME ManualInv, [InManual!Next]_InManual!vars PROVE ManualInv'
  OBVIOUS
<1> DEFINE Found == [rule: {Nothing, "amount", "supplier"}, level: {"none"} \cup InManual!Levels,
                     status: InManual!FindingStatuses, evidence: InManual!Fields.evidence]
<1>1. ASSUME NEW id \in InManual!Ids, NEW suspicious \in [{"amount", "supplier"} -> BOOLEAN],
             NEW evidence \in InManual!Fields.evidence, NEW judged \in InManual!Judged(suspicious, evidence), InManual!Create(id, judged)
      PROVE  ManualInv'
  <2> DEFINE new == [status |-> "pending", reviewer |-> Nothing]
  <2>1. /\ record[id] = InManual!NoRecord /\ judged.status = "manual_review"
        /\ record' = [record EXCEPT ![id] = new] /\ finding' = [finding EXCEPT ![id] = judged]
        /\ said' = said
    BY <1>1 DEF InManual!Create
  <2>2. judged \in Found
    <3>1. PICK rule \in {"amount", "supplier"} : judged = InManual!Judge(rule, suspicious[rule], evidence)
      BY DEF InManual!Judged
    <3>2. CASE ~InManual!Complete(evidence)
      BY <3>1, <3>2 DEF InManual!Judge, InManual!Levels, InManual!FindingStatuses, InManual!Fields
    <3>3. CASE InManual!Complete(evidence)
      BY <3>1, <3>3 DEF InManual!Judge, InManual!Levels, InManual!FindingStatuses
    <3> QED
      BY <3>2, <3>3
  <2>3. new \in [status: {Nothing, "pending", "confirmed", "dismissed"}, reviewer: Reviewers \cup {Nothing}]
        /\ new.status = "pending" /\ new # InManual!NoRecord
    BY ManualAssumption DEF InManual!NoRecord, InManual!FindingStatuses
  <2> HIDE DEF new
  <2>4. finding' \in [InManual!Ids -> Found]
    BY <2>1, <2>2 DEF ManualInv
  <2> HIDE DEF Found
  <2>5. ASSUME NEW i \in InManual!Ids PROVE DecisionsOK(i)'
    <3>1. CASE i = id
      <4>1. record'[i] = new /\ finding'[i] = judged /\ said'[i] = said[i]
        BY <2>1, <3>1 DEF ManualInv
      <4>2. said[i] \in Seq(SaidDecisions) /\ Len(said[i]) = 0 /\ Len(said[i]) <= MaxDecisions
        BY <2>1, <3>1 DEF ManualInv, DecisionsOK
      <4>3. judged.evidence \in InManual!Fields.evidence
        BY <2>2 DEF Found
      <4> QED
        BY <2>1, <2>3, <4>1, <4>2, <4>3 DEF DecisionsOK
    <3>2. CASE i # id
      <4>1. record'[i] = record[i] /\ finding'[i] = finding[i] /\ said'[i] = said[i]
        BY <2>1, <3>2 DEF ManualInv
      <4> QED
        BY <4>1 DEF ManualInv, DecisionsOK
    <3> QED
      BY <3>1, <3>2
  <2> QED
    BY <2>1, <2>4, <2>5 DEF ManualInv, Found
<1>2. ASSUME NEW id \in InManual!Ids, NEW reviewer \in Reviewers,
             NEW status \in {"confirmed", "dismissed"},
             NEW evidence \in InManual!Fields.evidence, InManual!Decide(id, reviewer, status, evidence)
      PROVE  ManualInv'
  <2> DEFINE new == [status |-> status, reviewer |-> reviewer]
             e == [status |-> status, reviewer |-> reviewer, evidence |-> evidence]
             k == Len(said[id]) + 1
  <2>1. /\ record[id] # InManual!NoRecord /\ Len(said[id]) < MaxDecisions
        /\ record' = [record EXCEPT ![id] = new]
        /\ finding' = IF evidence = Nothing THEN finding ELSE [finding EXCEPT ![id].evidence = evidence]
        /\ said' = [said EXCEPT ![id] = Append(said[id], e)]
    BY <1>2 DEF InManual!Decide
  <2>2. /\ e \in SaidDecisions /\ e.status = status /\ e.reviewer = reviewer
        /\ e.evidence = evidence
    BY DEF SaidDecisions
  <2>3. new \in [status: {Nothing, "pending", "confirmed", "dismissed"}, reviewer: Reviewers \cup {Nothing}]
        /\ new.status = status /\ new # InManual!NoRecord
    BY ManualAssumption DEF InManual!NoRecord, InManual!FindingStatuses
  <2> HIDE DEF e
  <2>4. /\ said[id] \in Seq(SaidDecisions) /\ Len(said[id]) \in Nat /\ Len(said[id]) <= MaxDecisions
        /\ finding[id] \in Found /\ finding[id].status = "manual_review"
    BY <2>1, LenProperties DEF ManualInv, DecisionsOK
  <2>5. /\ said'[id] \in Seq(SaidDecisions) /\ Len(said'[id]) = k /\ said'[id][k] = e
        /\ \A n \in 1..Len(said[id]) : said'[id][n] = said[id][n]
    <3>1. said'[id] = Append(said[id], e)
      BY <2>1 DEF ManualInv
    <3> QED
      BY <2>2, <2>4, <3>1, AppendProperties
  <2>6. finding' \in [InManual!Ids -> Found] /\ finding'[id].status = "manual_review"
        /\ finding'[id].evidence = (IF evidence = Nothing THEN finding[id].evidence ELSE evidence)
    <3>1. CASE evidence = Nothing
      BY <2>1, <2>4, <3>1 DEF ManualInv
    <3>2. CASE evidence # Nothing
      <4> DEFINE f == [finding[id] EXCEPT !.evidence = evidence]
      <4>1. f \in Found /\ f.status = "manual_review" /\ f.evidence = evidence
        BY <2>4
      <4>2. finding' = [finding EXCEPT ![id] = f]
        BY <2>1, <3>2
      <4> HIDE DEF f, Found
      <4>3. finding \in [InManual!Ids -> Found]
        BY DEF ManualInv, Found
      <4> QED
        BY <3>2, <4>1, <4>2, <4>3
    <3> QED
      BY <3>1, <3>2
  <2>7. DecisionsOK(id)'
    <3> DEFINE given == {m \in 1..k : said'[id][m].evidence # Nothing}
               before == {m \in 1..Len(said[id]) : said[id][m].evidence # Nothing}
    <3>1. record'[id] = new
      BY <2>1 DEF ManualInv
    <3>2. given = before \cup (IF evidence = Nothing THEN {} ELSE {k})
      <4>1. 1..k = 1..Len(said[id]) \cup {k}
        BY <2>4
      <4> QED
        BY <2>2, <2>5, <4>1
    <3>3. given # {} =>
            \E m \in given : finding'[id].evidence = said'[id][m].evidence /\ \A n \in given : n <= m
      <4>1. CASE evidence # Nothing
        <5>1. k \in given /\ finding'[id].evidence = said'[id][k].evidence
          BY <2>2, <2>5, <2>6, <3>2, <4>1
        <5>2. \A n \in given : n <= k
          BY <2>4
        <5> HIDE DEF given
        <5> QED
          BY <5>1, <5>2
      <4>2. CASE evidence = Nothing
        <5>1. given = before
          BY <3>2, <4>2
        <5>2. before # {} =>
                \E m \in before : finding[id].evidence = said[id][m].evidence /\ \A n \in before : n <= m
          <6>1. before # {} => Len(said[id]) > 0
            BY <2>4
          <6> QED
            BY <6>1 DEF ManualInv, DecisionsOK
        <5>3. \A m \in before : said'[id][m] = said[id][m]
          BY <2>5
        <5> HIDE DEF given, before
        <5> QED
          BY <2>6, <4>2, <5>1, <5>2, <5>3
      <4> QED
        BY <4>1, <4>2
    <3>4. record'[id] = [status |-> said'[id][k].status, reviewer |-> said'[id][k].reviewer]
      BY <2>2, <2>5, <3>1
    <3>5. k > 0 /\ k <= MaxDecisions
      BY <2>1, <2>4, ManualAssumption
    <3>6. finding'[id].evidence \in InManual!Fields.evidence
      BY <2>6
    <3> HIDE DEF new, k
    <3> QED
      BY <2>3, <2>5, <2>6, <3>1, <3>3, <3>4, <3>5, <3>6 DEF DecisionsOK
  <2>8. ASSUME NEW i \in InManual!Ids, i # id PROVE DecisionsOK(i)'
    <3>1. record'[i] = record[i] /\ finding'[i] = finding[i] /\ said'[i] = said[i]
      BY <2>1, <2>8 DEF ManualInv
    <3> QED
      BY <3>1 DEF ManualInv, DecisionsOK
  <2> QED
    BY <2>1, <2>6, <2>7, <2>8 DEF ManualInv
<1>3. CASE UNCHANGED InManual!vars
  BY <1>3 DEF InManual!vars, ManualInv, DecisionsOK
<1> QED
  BY <1>1, <1>2, <1>3 DEF InManual!Next

(* The last decision stands; while there are records, a person is asked.    *)
LEMMA ManualStands == ManualInv =>
  InManual!LastOneStands /\ InManual!DecisionsDoNotCount /\ InManual!TypeOK
<1> SUFFICES ASSUME ManualInv PROVE InManual!LastOneStands /\ InManual!DecisionsDoNotCount /\ InManual!TypeOK
  OBVIOUS
<1>1. InManual!LastOneStands
  BY DEF ManualInv, DecisionsOK, InManual!LastOneStands
<1> DEFINE known == {finding[id] : id \in {i \in InManual!Ids : record[i] # InManual!NoRecord}}
<1>2. \A f \in known : f.status = "manual_review"
  BY DEF ManualInv, DecisionsOK
<1> HIDE DEF known
<1>3. InManual!Confirmed(known) = {}
  BY <1>2 DEF InManual!Confirmed
<1>4. {f.level : f \in InManual!Confirmed(known)} = {}
  BY <1>3
<1>5. InManual!Level(known) = "none"
  BY <1>4 DEF InManual!Level, InManual!Highest
<1>6. known # {} <=> InManual!ManualRequired(known)
  BY <1>2 DEF InManual!ManualRequired
<1>7. InManual!DecisionsDoNotCount
  BY <1>5, <1>6 DEF InManual!DecisionsDoNotCount, known
<1>8. InManual!TypeOK
  BY DEF ManualInv, DecisionsOK, InManual!TypeOK
<1> QED
  BY <1>1, <1>7, <1>8

(***************************************************************************)
(* Calls that keep nothing.                                                *)
(***************************************************************************)
(* An evaluation has confirmed nothing, and asks for a person only where     *)
(* data is missing.                                                         *)
LEMMA CallsAlone ==
  ASSUME NEW c
  PROVE  LET found == {InCalls!Finding(c, rule) : rule \in InCalls!RuleCodes} IN
         /\ InCalls!Level(found) = "none"
         /\ InCalls!ManualRequired(found)
              => c.evidence # "complete" \/ \E f \in DOMAIN InCalls!Fields : c[f] = Nothing
<1> DEFINE found == {InCalls!Finding(c, rule) : rule \in InCalls!RuleCodes}
<1>1. \A f \in found : f.status \in {"matched", "manual_review"}
  BY DEF InCalls!Finding
<1>2. InCalls!Level(found) = "none"
  <2> HIDE DEF found
  <2>1. InCalls!Confirmed(found) = {}
    BY <1>1 DEF InCalls!Confirmed
  <2>2. {f.level : f \in InCalls!Confirmed(found)} = {}
    BY <2>1
  <2> QED
    BY <2>2 DEF InCalls!Level, InCalls!Highest
<1>3. ASSUME InCalls!ManualRequired(found), c.evidence = "complete"
      PROVE  \E f \in DOMAIN InCalls!Fields : c[f] = Nothing
  <2>1. PICK rule \in InCalls!RuleCodes : InCalls!Finding(c, rule).status = "manual_review"
    BY <1>3 DEF InCalls!ManualRequired
  <2>2. InCalls!Missing(c, rule)
    BY <1>3, <2>1 DEF InCalls!Finding, InCalls!Complete
  <2>3. {"invoice_total", "line_item_total", "contract_amount", "payment_amount", "batch_total",
         "payment_count", "expense_limit", "market_unit_price", "market_price_min",
         "market_price_max"} \subseteq DOMAIN InCalls!Fields
    BY DEF InCalls!Fields
  <2> HIDE DEF found
  <2> QED
    BY <2>2, <2>3 DEF InCalls!Missing
<1> HIDE DEF found
<1>4. InCalls!ManualRequired(found)
        => c.evidence # "complete" \/ \E f \in DOMAIN InCalls!Fields : c[f] = Nothing
  BY <1>3
<1> QED
  BY <1>2, <1>4 DEF found

(* What places are divided by has a value.                                  *)
ProductOf(f) == f = [n \in 0..MaxHits |-> IF n = 0 THEN 1 ELSE f[n - 1] * (K + n)]

(* What places are divided by is a number.                                  *)
LEMMA CallsProduct == InCalls!Denominator \in Nat
<1> DEFINE Products(m, g) == g[0] = 1 /\ \A n \in 1..m : g[n] = g[n - 1] * (K + n)
           S == {m \in 0..MaxHits : \E g \in [0..m -> Nat] : Products(m, g)}
<1>1. MaxHits \in Nat /\ K \in Nat
  BY CallsAssumption
<1>2. 0 \in S
  <2> DEFINE z == [n \in 0..0 |-> 1]
  <2>1. z \in [0..0 -> Nat] /\ z[0] = 1 /\ 0 \in 0..MaxHits
    BY <1>1
  <2>2. Products(0, z)
    BY <2>1
  <2> HIDE DEF z, Products
  <2> QED
    BY <2>1, <2>2
<1>3. ASSUME NEW m \in 0..MaxHits, m < MaxHits, m \in S PROVE m + 1 \in S
  <2>1. m + 1 \in 0..MaxHits /\ m + 1 \in 1..MaxHits /\ m \in Nat
    BY <1>1, <1>3
  <2>2. PICK g \in [0..m -> Nat] : Products(m, g)
    BY <1>3
  <2> DEFINE p == g[m] * (K + (m + 1))
             h == [n \in 0..m + 1 |-> IF n = m + 1 THEN p ELSE g[n]]
  <2>3. p \in Nat /\ g[m] \in Nat
    <3>1. g[m] \in Nat /\ K + (m + 1) \in Nat
      BY <1>1, <2>1
    <3> QED
      BY <3>1
  <2>4. h \in [0..m + 1 -> Nat]
    <3>1. ASSUME NEW n \in 0..m + 1, n # m + 1 PROVE n \in 0..m
      BY <2>1, <3>1
    <3> HIDE DEF p
    <3> QED
      BY <2>3, <3>1
  <2>5. h[0] = 1
    BY <2>1, <2>2
  <2>6. ASSUME NEW n \in 1..m + 1 PROVE h[n] = h[n - 1] * (K + n)
    <3>1. n \in 0..m + 1 /\ n - 1 \in 0..m + 1 /\ n - 1 # m + 1 /\ n - 1 \in 0..m
      BY <2>1
    <3>2. CASE n = m + 1
      <4>1. h[n] = g[m] * (K + (m + 1)) /\ h[n - 1] = g[n - 1] /\ n - 1 = m
        BY <2>1, <3>1, <3>2
      <4> QED
        BY <3>2, <4>1
    <3>3. CASE n # m + 1
      <4>1. n \in 1..m /\ h[n] = g[n] /\ h[n - 1] = g[n - 1]
        BY <2>1, <3>1, <3>3
      <4> QED
        BY <2>2, <4>1
    <3> QED
      BY <3>2, <3>3
  <2>7. Products(m + 1, h)
    BY <2>5, <2>6
  <2> HIDE DEF h, Products
  <2> QED
    BY <2>1, <2>4, <2>7
<1>4. MaxHits \in 0..MaxHits
  BY <1>1
<1>5. MaxHits \in S
  <2> HIDE DEF S
  <2> QED
    BY <1>1, <1>2, <1>3, <1>4, Induction
<1>6. PICK g \in [0..MaxHits -> Nat] : Products(MaxHits, g)
  BY <1>5
<1>7. g = [n \in 0..MaxHits |-> IF n = 0 THEN 1 ELSE g[n - 1] * (K + n)]
  <2>1. \A n \in 0..MaxHits : n # 0 => n \in 1..MaxHits
    BY <1>1
  <2>2. \A n \in 0..MaxHits : g[n] = IF n = 0 THEN 1 ELSE g[n - 1] * (K + n)
    BY <1>6, <2>1
  <2> QED
    BY <2>2
<1> DEFINE f == CHOOSE h : ProductOf(h)
<1>8. ProductOf(f)
  BY <1>7 DEF ProductOf
<1>9. InCalls!Denominator = f[MaxHits]
  BY DEF InCalls!Denominator, ProductOf
<1> HIDE DEF f, Products
<1>10. f[0] = 1 /\ \A n \in 1..MaxHits : f[n] = f[n - 1] * (K + n)
  <2>1. \A n \in 1..MaxHits : n \in 0..MaxHits /\ n # 0
    BY <1>1
  <2> QED
    BY <1>1, <1>8, <2>1 DEF ProductOf
<1> DEFINE T == {n \in 0..MaxHits : f[n] \in Nat}
<1>11. 0 \in T
  BY <1>1, <1>10
<1>12. ASSUME NEW n \in 0..MaxHits, n < MaxHits, n \in T PROVE n + 1 \in T
  <2>1. n + 1 \in 1..MaxHits /\ n + 1 \in 0..MaxHits /\ (n + 1) - 1 = n /\ f[n] \in Nat /\ K + (n + 1) \in Nat
    BY <1>1, <1>12
  <2>2. f[n + 1] = f[n] * (K + (n + 1))
    BY <1>10, <2>1
  <2>3. f[n] * (K + (n + 1)) \in Nat
    BY <2>1
  <2> QED
    BY <2>1, <2>2, <2>3
<1>13. MaxHits \in T
  <2> HIDE DEF T
  <2> QED
    BY <1>1, <1>4, <1>11, <1>12, Induction
<1> QED
  BY <1>9, <1>13

(* What is divided by less is no less.                                      *)
LEMMA CallsDivided ==
  ASSUME NEW D \in Nat, NEW x \in Nat \ {0}, NEW y \in Nat \ {0}, x <= y
  PROVE  D \div x \in Nat /\ D \div y \in Nat /\ D \div y <= D \div x
<1> DEFINE p == D \div x
           q == D \div y
<1>1. p \in Int /\ q \in Int
  OBVIOUS
<1>2. x * p <= D /\ D < x * (p + 1)
  OBVIOUS
<1>3. y * q <= D /\ D < y * (q + 1)
  OBVIOUS
<1> HIDE DEF p, q
<1>4. p \in Nat /\ q \in Nat
  <2>1. ASSUME NEW z \in Nat \ {0}, NEW r \in Int, D < z * (r + 1) PROVE r \in Nat
    <3>1. ASSUME r < 0 PROVE FALSE
      <4>1. r + 1 <= 0
        BY <3>1
      <4>2. z * (r + 1) <= 0
        BY <4>1
      <4> QED
        BY <2>1, <4>2
    <3> QED
      BY <3>1
  <2> QED
    BY <1>1, <1>2, <1>3, <2>1
<1>5. ASSUME p < q PROVE FALSE
  <2>1. x * (p + 1) <= x * q
    BY <1>4, <1>5
  <2>2. x * q <= y * q
    BY <1>4
  <2>3. x * (p + 1) \in Int /\ x * q \in Int /\ y * q \in Int
    BY <1>4
  <2> QED
    BY <1>2, <1>3, <2>1, <2>2, <2>3
<1> QED
  BY <1>4, <1>5 DEF p, q

(* A list of hits has each at one place.                                    *)
LEMMA CallsLists ==
  ASSUME NEW s \in InCalls!Lists
  PROVE  /\ s \in Seq(Hits) /\ Len(s) \in Nat /\ Len(s) <= MaxHits /\ DOMAIN s = 1..Len(s)
         /\ IsFiniteSet(InCalls!HitsOf(s)) /\ InCalls!HitsOf(s) \subseteq Hits
         /\ \A c \in InCalls!HitsOf(s) : InCalls!At(c, s) \in 1..Len(s) /\ s[InCalls!At(c, s)] = c
<1>1. PICK n \in 0..MaxHits : s \in [1..n -> Hits]
  BY DEF InCalls!Lists
<1>2. n \in Nat /\ s \in Seq(Hits) /\ Len(s) = n /\ DOMAIN s = 1..n /\ n <= MaxHits
  BY <1>1, CallsAssumption
<1>3. IsFiniteSet(InCalls!HitsOf(s)) /\ InCalls!HitsOf(s) \subseteq Hits
  <2>1. IsFiniteSet(1..n)
    BY <1>2, FS_Interval
  <2>2. s \in Surjection(1..n, InCalls!HitsOf(s))
    BY <1>1 DEF InCalls!HitsOf, Surjection
  <2>3. IsFiniteSet(InCalls!HitsOf(s))
    BY <2>1, <2>2, FS_Surjection
  <2> QED
    BY <1>1, <2>3 DEF InCalls!HitsOf
<1>4. \A c \in InCalls!HitsOf(s) : InCalls!At(c, s) \in DOMAIN s /\ s[InCalls!At(c, s)] = c
  BY DEF InCalls!HitsOf, InCalls!At
<1> QED
  BY <1>2, <1>3, <1>4

(* A hit scores no less for a list that ranks it no lower.                  *)
LEMMA CallsParts ==
  ASSUME NEW s \in InCalls!Lists, NEW b, NEW c
  PROVE  /\ InCalls!PartOf(b, s) \in Nat /\ InCalls!Rank(b, s) \in Nat
         /\ InCalls!Rank(b, s) <= InCalls!Rank(c, s) => InCalls!PartOf(b, s) >= InCalls!PartOf(c, s)
         /\ InCalls!Rank(b, s) <= InCalls!Rank(c, s) /\ c \in InCalls!HitsOf(s) =>
              b \in InCalls!HitsOf(s)
<1>1. /\ Len(s) \in Nat /\ Len(s) <= MaxHits
      /\ \A h \in InCalls!HitsOf(s) : InCalls!At(h, s) \in 1..Len(s)
  BY CallsLists
<1>2. MaxHits \in Nat /\ K \in Nat /\ InCalls!Denominator \in Nat
  BY CallsAssumption, CallsProduct
<1>3. /\ b \in InCalls!HitsOf(s) =>
           InCalls!Rank(b, s) = InCalls!At(b, s) /\ InCalls!PartOf(b, s) = InCalls!Denominator \div (K + InCalls!At(b, s))
      /\ b \notin InCalls!HitsOf(s) => InCalls!Rank(b, s) = MaxHits + 1 /\ InCalls!PartOf(b, s) = 0
      /\ c \in InCalls!HitsOf(s) =>
           InCalls!Rank(c, s) = InCalls!At(c, s) /\ InCalls!PartOf(c, s) = InCalls!Denominator \div (K + InCalls!At(c, s))
      /\ c \notin InCalls!HitsOf(s) => InCalls!Rank(c, s) = MaxHits + 1 /\ InCalls!PartOf(c, s) = 0
  BY DEF InCalls!Rank, InCalls!PartOf
<1>4. /\ b \in InCalls!HitsOf(s) =>
           K + InCalls!At(b, s) \in Nat \ {0} /\ InCalls!At(b, s) \in Nat /\ InCalls!At(b, s) <= MaxHits
      /\ c \in InCalls!HitsOf(s) =>
           K + InCalls!At(c, s) \in Nat \ {0} /\ InCalls!At(c, s) \in Nat /\ InCalls!At(c, s) <= MaxHits
  BY <1>1, <1>2
<1>5. InCalls!Rank(b, s) \in Nat
  BY <1>2, <1>3, <1>4
<1>6. InCalls!PartOf(b, s) \in Nat
  <2>1. CASE b \in InCalls!HitsOf(s)
    <3>1. InCalls!Denominator \div (K + InCalls!At(b, s)) \in Nat
      <4>1. K + InCalls!At(b, s) \in Nat \ {0} /\ K + InCalls!At(b, s) <= K + InCalls!At(b, s)
        BY <1>4, <2>1
      <4> QED
        BY <1>2, <4>1, CallsDivided
    <3> QED
      BY <1>3, <2>1, <3>1
  <2> QED
    BY <1>3, <2>1
<1>7. ASSUME InCalls!Rank(b, s) <= InCalls!Rank(c, s), c \in InCalls!HitsOf(s)
      PROVE  b \in InCalls!HitsOf(s) /\ InCalls!PartOf(b, s) >= InCalls!PartOf(c, s)
  <2>1. b \in InCalls!HitsOf(s)
    BY <1>2, <1>3, <1>4, <1>7
  <2>2. K + InCalls!At(b, s) <= K + InCalls!At(c, s)
    BY <1>2, <1>3, <1>4, <1>7, <2>1
  <2>3. InCalls!Denominator \div (K + InCalls!At(c, s)) <= InCalls!Denominator \div (K + InCalls!At(b, s))
    BY <1>2, <1>4, <1>7, <2>1, <2>2, CallsDivided
  <2>4. InCalls!Denominator \div (K + InCalls!At(c, s)) \in Nat /\ InCalls!Denominator \div (K + InCalls!At(b, s)) \in Nat
    BY <1>2, <1>4, <1>7, <2>1, <2>2, CallsDivided
  <2> QED
    BY <1>3, <1>7, <2>1, <2>3, <2>4
<1>8. InCalls!Rank(b, s) <= InCalls!Rank(c, s) => InCalls!PartOf(b, s) >= InCalls!PartOf(c, s)
  BY <1>3, <1>6, <1>7
<1> QED
  BY <1>5, <1>6, <1>7, <1>8

(* Fusing.                                                                  *)
LEMMA CallsFused ==
  ASSUME NEW d \in InCalls!Lists, NEW s \in InCalls!Lists
  PROVE  /\ InCalls!Distinct(InCalls!Fused(d, s))
         /\ InCalls!HitsOf(InCalls!Fused(d, s)) = InCalls!HitsOf(d) \cup InCalls!HitsOf(s)
         /\ \A n \in DOMAIN InCalls!Fused(d, s) : InCalls!Fused(d, s)[n] \in Hits
         /\ \A m, n \in DOMAIN InCalls!Fused(d, s) :
              /\ InCalls!Rank(InCalls!Fused(d, s)[m], d) <= InCalls!Rank(InCalls!Fused(d, s)[n], d)
              /\ InCalls!Rank(InCalls!Fused(d, s)[m], s) < InCalls!Rank(InCalls!Fused(d, s)[n], s)
              => m < n
<1> DEFINE D == InCalls!HitsOf(d) \cup InCalls!HitsOf(s)
           A == [c \in D |-> InCalls!Ahead(c, d, s)]
           N == Cardinality(D)
<1>1. IsFiniteSet(D) /\ D \subseteq Hits /\ N \in Nat
  BY CallsLists, FS_Union, FS_CardinalityType
<1>2. /\ Len(d) \in Nat /\ Len(s) \in Nat
      /\ \A c \in InCalls!HitsOf(d) : InCalls!At(c, d) \in 1..Len(d) /\ d[InCalls!At(c, d)] = c
      /\ \A c \in InCalls!HitsOf(s) : InCalls!At(c, s) \in 1..Len(s) /\ s[InCalls!At(c, s)] = c
  BY CallsLists
<1>3. \A c \in D : InCalls!Score(c, d, s) \in Nat
  BY CallsParts DEF InCalls!Score
<1>4. \A c \in D : InCalls!MetAt(c, d, s) \in Nat
  BY <1>2 DEF InCalls!MetAt
<1>5. ASSUME NEW b \in D, NEW c \in D, InCalls!MetAt(b, d, s) = InCalls!MetAt(c, d, s) PROVE b = c
  <2>1. CASE b \in InCalls!HitsOf(d) /\ c \in InCalls!HitsOf(d)
    BY <1>2, <1>5, <2>1 DEF InCalls!MetAt
  <2>2. CASE b \notin InCalls!HitsOf(d) /\ c \notin InCalls!HitsOf(d)
    <3>1. b \in InCalls!HitsOf(s) /\ c \in InCalls!HitsOf(s) /\ Len(d) + InCalls!At(b, s) = Len(d) + InCalls!At(c, s)
      BY <1>5, <2>2 DEF InCalls!MetAt
    <3>2. InCalls!At(b, s) = InCalls!At(c, s)
      BY <1>2, <3>1
    <3> QED
      BY <1>2, <3>1, <3>2
  <2>3. CASE b \in InCalls!HitsOf(d) /\ c \notin InCalls!HitsOf(d)
    BY <1>2, <1>5, <2>3 DEF InCalls!MetAt
  <2>4. CASE b \notin InCalls!HitsOf(d) /\ c \in InCalls!HitsOf(d)
    BY <1>2, <1>5, <2>4 DEF InCalls!MetAt
  <2> QED
    BY <2>1, <2>2, <2>3, <2>4
<1>6. \A b, c \in D : b \in A[c] <=> \/ InCalls!Score(b, d, s) > InCalls!Score(c, d, s)
                                     \/ InCalls!Score(b, d, s) = InCalls!Score(c, d, s) /\ InCalls!MetAt(b, d, s) <= InCalls!MetAt(c, d, s)
  BY DEF InCalls!Ahead
<1>7. A \in [D -> SUBSET D]
  BY DEF InCalls!Ahead
<1>8. \A c \in D : Cardinality(A[c]) = InCalls!PlaceOf(c, d, s)
  BY CardinalitiesAgree DEF InCalls!PlaceOf
<1>9. InCalls!Fused(d, s) = [n \in 1..N |-> CHOOSE c \in D : InCalls!PlaceOf(c, d, s) = n]
  BY CardinalitiesAgree DEF InCalls!Fused
<1> HIDE DEF A, D, N
<1>10. \A c \in D : c \in A[c]
  BY <1>3, <1>4, <1>6
<1>11. ASSUME NEW b \in D, NEW c \in D, b # c
       PROVE  \/ A[b] \subseteq A[c] /\ c \notin A[b]
              \/ A[c] \subseteq A[b] /\ b \notin A[c]
  <2>1. ASSUME NEW i \in D, NEW j \in D, j \notin A[i] PROVE A[i] \subseteq A[j]
    <3> SUFFICES ASSUME NEW x \in A[i] PROVE x \in A[j]
      OBVIOUS
    <3>1. x \in D
      BY <1>7
    <3> QED
      BY <1>3, <1>4, <1>6, <2>1, <3>1
  <2>2. InCalls!MetAt(b, d, s) # InCalls!MetAt(c, d, s)
    BY <1>5, <1>11
  <2>3. c \notin A[b] \/ b \notin A[c]
    BY <1>3, <1>4, <1>6, <2>2
  <2> QED
    BY <2>1, <2>3
<1>12. /\ \A c \in D : Cardinality(A[c]) \in 1..N
       /\ \A b, c \in D : Cardinality(A[b]) = Cardinality(A[c]) => b = c
       /\ \A b, c \in D : b \in A[c] => Cardinality(A[b]) <= Cardinality(A[c])
       /\ \A n \in 1..N : \E c \in D : Cardinality(A[c]) = n
  <2>1. \A b, c \in D : b # c => \/ A[b] \subseteq A[c] /\ c \notin A[b]
                                 \/ A[c] \subseteq A[b] /\ b \notin A[c]
    BY <1>11
  <2>2. /\ \A c \in D : Cardinality(A[c]) \in 1..Cardinality(D)
        /\ \A b, c \in D : Cardinality(A[b]) = Cardinality(A[c]) => b = c
        /\ \A b, c \in D : b \in A[c] => Cardinality(A[b]) <= Cardinality(A[c])
        /\ \A n \in 1..Cardinality(D) : \E c \in D : Cardinality(A[c]) = n
    BY <1>1, <1>7, <1>10, <2>1, OrderPlaces
  <2> QED
    BY <2>2 DEF N
<1> DEFINE hit(n) == CHOOSE c \in D : InCalls!PlaceOf(c, d, s) = n
<1>13. \A n \in 1..N : hit(n) \in D /\ InCalls!PlaceOf(hit(n), d, s) = n
  <2>1. \A n \in 1..N : \E c \in D : InCalls!PlaceOf(c, d, s) = n
    BY <1>8, <1>12
  <2> QED
    BY <2>1
<1>14. DOMAIN InCalls!Fused(d, s) = 1..N /\ \A n \in 1..N : InCalls!Fused(d, s)[n] = hit(n)
  BY <1>9
<1> HIDE DEF hit
<1>15. InCalls!Distinct(InCalls!Fused(d, s))
  <2> SUFFICES ASSUME NEW m \in 1..N, NEW n \in 1..N, hit(m) = hit(n) PROVE n = m
    BY <1>14 DEF InCalls!Distinct
  <2> QED
    BY <1>13
<1>16. InCalls!HitsOf(InCalls!Fused(d, s)) = D
  <2>1. ASSUME NEW c \in D PROVE \E n \in 1..N : hit(n) = c
    <3>1. InCalls!PlaceOf(c, d, s) \in 1..N
      BY <1>8, <1>12
    <3>2. hit(InCalls!PlaceOf(c, d, s)) \in D /\ InCalls!PlaceOf(hit(InCalls!PlaceOf(c, d, s)), d, s) = InCalls!PlaceOf(c, d, s)
      BY <1>13, <3>1
    <3>3. hit(InCalls!PlaceOf(c, d, s)) = c
      BY <1>8, <1>12, <3>2
    <3> QED
      BY <3>1, <3>3
  <2> QED
    BY <1>13, <1>14, <2>1 DEF InCalls!HitsOf
<1>17. ASSUME NEW m \in 1..N, NEW n \in 1..N,
              InCalls!Rank(hit(m), d) <= InCalls!Rank(hit(n), d), InCalls!Rank(hit(m), s) < InCalls!Rank(hit(n), s)
       PROVE  m < n
  <2> DEFINE b == hit(m)
             c == hit(n)
  <2>1. b \in D /\ c \in D /\ InCalls!PlaceOf(b, d, s) = m /\ InCalls!PlaceOf(c, d, s) = n
    BY <1>13
  <2>2. InCalls!Rank(b, d) <= InCalls!Rank(c, d) /\ InCalls!Rank(b, s) < InCalls!Rank(c, s)
    BY <1>17
  <2> HIDE DEF b, c
  <2>3. /\ InCalls!PartOf(b, d) \in Nat /\ InCalls!PartOf(c, d) \in Nat
        /\ InCalls!PartOf(b, s) \in Nat /\ InCalls!PartOf(c, s) \in Nat
        /\ InCalls!Rank(b, s) \in Nat /\ InCalls!Rank(c, s) \in Nat /\ InCalls!Rank(b, d) \in Nat
        /\ InCalls!Rank(c, d) \in Nat
    BY CallsParts
  <2>4. InCalls!Rank(b, s) <= InCalls!Rank(c, s)
    BY <2>2, <2>3
  <2>5. /\ InCalls!PartOf(b, d) >= InCalls!PartOf(c, d) /\ (c \in InCalls!HitsOf(d) => b \in InCalls!HitsOf(d))
        /\ InCalls!PartOf(b, s) >= InCalls!PartOf(c, s) /\ (c \in InCalls!HitsOf(s) => b \in InCalls!HitsOf(s))
    BY <2>2, <2>4, CallsParts
  <2>6. InCalls!Score(b, d, s) >= InCalls!Score(c, d, s) /\ InCalls!Score(b, d, s) \in Nat /\ InCalls!Score(c, d, s) \in Nat
    BY <2>3, <2>5 DEF InCalls!Score
  <2>7. InCalls!MetAt(b, d, s) <= InCalls!MetAt(c, d, s)
    <3>1. CASE c \in InCalls!HitsOf(d)
      <4>1. b \in InCalls!HitsOf(d) /\ InCalls!Rank(b, d) = InCalls!At(b, d) /\ InCalls!Rank(c, d) = InCalls!At(c, d)
        BY <2>5, <3>1 DEF InCalls!Rank
      <4> QED
        BY <2>2, <3>1, <4>1 DEF InCalls!MetAt
    <3>2. CASE c \notin InCalls!HitsOf(d)
      <4>1. c \in InCalls!HitsOf(s) /\ b \in InCalls!HitsOf(s)
        BY <2>1, <2>5, <3>2 DEF D
      <4>2. InCalls!At(b, s) <= InCalls!At(c, s)
        BY <2>4, <4>1 DEF InCalls!Rank
      <4>3. InCalls!At(b, s) \in 1..Len(s) /\ InCalls!At(c, s) \in 1..Len(s)
        BY <1>2, <4>1
      <4>4. CASE b \in InCalls!HitsOf(d)
        <5>1. InCalls!At(b, d) \in 1..Len(d)
          BY <1>2, <4>4
        <5> QED
          BY <1>2, <3>2, <4>3, <4>4, <5>1 DEF InCalls!MetAt
      <4>5. CASE b \notin InCalls!HitsOf(d)
        BY <1>2, <3>2, <4>2, <4>3, <4>5 DEF InCalls!MetAt
      <4> QED
        BY <4>4, <4>5
    <3> QED
      BY <3>1, <3>2
  <2>8. b \in A[c]
    BY <1>6, <2>1, <2>6, <2>7
  <2>9. m <= n
    BY <1>8, <1>12, <2>1, <2>8
  <2>10. b # c
    BY <2>2, <2>3
  <2> QED
    BY <2>1, <2>9, <2>10, <1>8, <1>12
<1>18. \A m, n \in 1..N : InCalls!Rank(hit(m), d) <= InCalls!Rank(hit(n), d) /\ InCalls!Rank(hit(m), s) < InCalls!Rank(hit(n), s) => m < n
  BY <1>17
<1>19. \A n \in 1..N : hit(n) \in Hits
  BY <1>1, <1>13
<1> QED
  BY <1>14, <1>15, <1>16, <1>18, <1>19 DEF D

(* What a comparison answers.                                               *)
LEMMA CallsCompare ==
  ASSUME NEW q \in InCalls!Questions, InCalls!Compared(q).status \in {"matched", "out_of_range"}
  PROVE  LET covered == InCalls!Compared(q).status = "matched" IN
         /\ q.low > q.high => ~covered
         /\ q.low <= q.high /\ InCalls!Compared(q).difference < 0 => ~covered /\ q.actual < q.low
         /\ covered => InCalls!Compared(q).difference \in 0..(q.high - q.low)
         /\ ~covered => InCalls!Compared(q).difference # 0 \/ q.low > q.high
         /\ InCalls!Compared(q).ratio = Nothing => 0 \in {q.low, q.high}
<1>1. q.actual \in 0..MaxAmount /\ q.low \in InCalls!Bounds /\ q.high \in InCalls!Bounds
  BY DEF InCalls!Questions
<1>2. q.currency /\ q.low # Nothing /\ q.high # Nothing
  BY DEF InCalls!Compared, InCalls!Error
<1>3. q.actual \in Nat /\ q.low \in Nat /\ q.high \in Nat
  BY <1>1, <1>2, CallsAssumption DEF InCalls!Bounds
<1> DEFINE base == InCalls!Baseline(q)
<1>4. base = (IF q.actual > q.high THEN q.high ELSE q.low) /\ base \in Nat
  BY <1>3 DEF InCalls!Baseline
<1>5. InCalls!Compared(q) =
        [status |-> IF q.low <= q.actual /\ q.actual <= q.high THEN "matched" ELSE "out_of_range",
         difference |-> q.actual - base, ratio |-> IF base = 0 THEN Nothing ELSE <<q.actual - base, base>>]
  BY <1>2 DEF InCalls!Compared
<1> HIDE DEF base
<1>6. /\ InCalls!Compared(q).status = (IF q.low <= q.actual /\ q.actual <= q.high THEN "matched" ELSE "out_of_range")
      /\ InCalls!Compared(q).difference = q.actual - base
      /\ base # 0 => InCalls!Compared(q).ratio = <<q.actual - base, base>>
  BY <1>5
<1>7. base # 0 => InCalls!Compared(q).ratio # Nothing
  <2>1. <<q.actual - base, base>> \in Int \X Int
    BY <1>3, <1>4
  <2> QED
    BY <1>6, <2>1, CallsAssumption
<1> QED
  BY <1>3, <1>4, <1>6, <1>7

(* A payload whose model is that of the document's type.                    *)
LEMMA CallsAccepted ==
  ASSUME NEW r \in InCalls!Commands
  PROVE  LET b == r.payload.body IN
         /\ InCalls!Accepted(r) <=> InCalls!Fits(r.type, r.payload) /\ (r.type = "prepayment" => r.payload.tag # Nothing)
         /\ InCalls!Accepted(r) =>
              /\ b.kind = "batch" => b.count > 0 /\ b.total = InCalls!Total(b.details)
              /\ b.kind = "expense" => InCalls!Total(b.details) >= Len(b.details)
<1> DEFINE p == r.payload
           named == [p EXCEPT !.tag = InCalls!Resolved(p)]
<1>1. /\ r.type \in InCalls!TypeSet
      /\ p \in [tag: InCalls!TypeSet \cup {Nothing}, currency: {"CNY", "USD"}, body: InCalls!Bodies]
      /\ p.body \in InCalls!Bodies
  BY DEF InCalls!Commands, InCalls!Payloads
<1>2. named.tag = InCalls!Resolved(p) /\ named.currency = p.currency /\ named.body = p.body
  BY <1>1
<1>3. InCalls!Accepted(r) <=> InCalls!Fitting(p) # {} /\ named.tag = r.type /\ InCalls!Fits(r.type, named)
  BY DEF InCalls!Accepted
<1> HIDE DEF named
<1>4. /\ DOMAIN InCalls!Models = 1..5 /\ InCalls!Models[1] = "public_payment"
      /\ InCalls!Models[2] = "prepayment"
      /\ InCalls!Models[3] = "batch_payment" /\ InCalls!Models[4] = "expense_reimbursement"
      /\ InCalls!Models[5] = "travel_reimbursement"
  BY DEF InCalls!Models
<1>5. InCalls!TypeSet = {InCalls!Models[n] : n \in 1..5}
  BY <1>4 DEF InCalls!TypeSet
<1>6. InCalls!Fitting(p) \subseteq 1..5 /\ \A n \in 1..5 : n \in InCalls!Fitting(p) <=> InCalls!Fits(InCalls!Models[n], p)
  BY <1>4 DEF InCalls!Fitting
<1>7. ASSUME InCalls!Fitting(p) # {}
      PROVE  \E n \in InCalls!Fitting(p) : InCalls!Resolved(p) = InCalls!Models[n] /\ \A m \in InCalls!Fitting(p) : n <= m
  <2>1. \E n \in InCalls!Fitting(p) : \A m \in InCalls!Fitting(p) : n <= m
    <3>1. ASSUME NEW S \in SUBSET (1..5), S # {} PROVE \E n \in S : \A m \in S : n <= m
      <4>1. CASE 1 \in S
        BY <4>1
      <4>2. CASE 1 \notin S /\ 2 \in S
        BY <4>2
      <4>3. CASE 1 \notin S /\ 2 \notin S /\ 3 \in S
        BY <4>3
      <4>4. CASE 1 \notin S /\ 2 \notin S /\ 3 \notin S /\ 4 \in S
        BY <4>4
      <4>5. CASE 1 \notin S /\ 2 \notin S /\ 3 \notin S /\ 4 \notin S
        <5>1. \A m \in S : m = 5
          BY <4>5
        <5>2. 5 \in S
          BY <3>1, <5>1
        <5> QED
          BY <5>1, <5>2
      <4> QED
        BY <4>1, <4>2, <4>3, <4>4, <4>5
    <3> QED
      BY <1>6, <1>7, <3>1
  <2> DEFINE n == CHOOSE n \in InCalls!Fitting(p) : \A m \in InCalls!Fitting(p) : n <= m
  <2>2. n \in InCalls!Fitting(p) /\ \A m \in InCalls!Fitting(p) : n <= m
    BY <2>1
  <2>3. InCalls!Resolved(p) = InCalls!Models[n]
    BY DEF InCalls!Resolved
  <2> QED
    BY <2>2, <2>3
<1>8. \A type : InCalls!Fits(type, p) =>
        /\ p.tag \in {type, Nothing} /\ InCalls!CurrencyValid(p)
        /\ \/ type \in {"public_payment", "prepayment"} /\ InCalls!PaymentValid(p.body)
           \/ type = "batch_payment" /\ InCalls!BatchValid(p.body)
           \/ type = "expense_reimbursement" /\ InCalls!ExpenseValid(p.body)
           \/ type = "travel_reimbursement" /\ InCalls!TravelValid(p.body)
  BY DEF InCalls!Fits
<1>9. \A n, m \in 1..5 : n < m /\ InCalls!Fits(InCalls!Models[n], p) /\ InCalls!Fits(InCalls!Models[m], p) => n = 1 /\ m = 2
  <2> SUFFICES ASSUME NEW n \in 1..5, NEW m \in 1..5, n < m, InCalls!Fits(InCalls!Models[n], p),
                      InCalls!Fits(InCalls!Models[m], p)
               PROVE  n = 1 /\ m = 2
    OBVIOUS
  <2> DEFINE kind(k) == IF k <= 2 THEN "payment" ELSE IF k = 3 THEN "batch"
                        ELSE IF k = 4 THEN "expense" ELSE "travel"
  <2>1. \A k \in 1..5 : InCalls!Fits(InCalls!Models[k], p) => p.body.kind = kind(k)
    BY <1>4, <1>8
    DEF InCalls!PaymentValid, InCalls!BatchValid, InCalls!ExpenseValid, InCalls!TravelValid
  <2>2. kind(n) = kind(m)
    BY <2>1
  <2> QED
    BY <2>2
<1>10. ASSUME InCalls!Accepted(r) PROVE InCalls!Fits(r.type, p) /\ (r.type = "prepayment" => p.tag # Nothing)
  <2>1. PICK n \in InCalls!Fitting(p) : InCalls!Resolved(p) = InCalls!Models[n] /\ \A m \in InCalls!Fitting(p) : n <= m
    BY <1>3, <1>7, <1>10
  <2>2. r.type = InCalls!Models[n] /\ n \in 1..5 /\ InCalls!Fits(InCalls!Models[n], p)
    BY <1>2, <1>3, <1>6, <1>10, <2>1
  <2>3. ASSUME r.type = "prepayment", p.tag = Nothing PROVE FALSE
    <3>1. n = 2
      <4>1. n = 1 \/ n = 2 \/ n = 3 \/ n = 4 \/ n = 5
        BY <2>2
      <4> QED
        BY <1>4, <2>2, <2>3, <4>1
    <3>2. InCalls!PaymentValid(p.body) /\ InCalls!CurrencyValid(p)
      BY <1>8, <2>2, <2>3
    <3>3. InCalls!Fits(InCalls!Models[1], p)
      BY <1>4, <2>3, <3>2 DEF InCalls!Fits
    <3>4. 1 \in InCalls!Fitting(p)
      BY <1>6, <3>3
    <3> QED
      BY <2>1, <3>1, <3>4
  <2> QED
    BY <2>2, <2>3
<1>11. ASSUME InCalls!Fits(r.type, p),
              r.type = "prepayment" => p.tag # Nothing PROVE InCalls!Accepted(r)
  <2>1. PICK k \in 1..5 : r.type = InCalls!Models[k]
    BY <1>1, <1>5
  <2>2. k \in InCalls!Fitting(p)
    BY <1>6, <1>11, <2>1
  <2>3. PICK n \in InCalls!Fitting(p) : InCalls!Resolved(p) = InCalls!Models[n] /\ \A m \in InCalls!Fitting(p) : n <= m
    BY <1>7, <2>2
  <2>4. n \in 1..5 /\ InCalls!Fits(InCalls!Models[n], p) /\ n <= k
    BY <1>6, <2>2, <2>3
  <2>5. n = k
    <3> SUFFICES ASSUME n # k PROVE FALSE
      OBVIOUS
    <3>1. n = 1 /\ k = 2
      BY <1>9, <1>11, <2>1, <2>4
    <3>2. p.tag \in {"public_payment", Nothing} /\ p.tag \in {"prepayment", Nothing} /\ p.tag # Nothing
      BY <1>4, <1>8, <1>11, <2>1, <2>4, <3>1
    <3> QED
      BY <3>2
  <2>6. named.tag = r.type
    BY <1>2, <2>1, <2>3, <2>5
  <2>7. InCalls!Fits(r.type, named)
    BY <1>2, <1>11, <2>6 DEF InCalls!Fits, InCalls!CurrencyValid
  <2> QED
    BY <1>3, <2>2, <2>6, <2>7
<1>12. ASSUME InCalls!Fits(r.type, p),
              p.body.kind = "batch" PROVE p.body.count > 0 /\ p.body.total = InCalls!Total(p.body.details)
  <2>1. InCalls!BatchValid(p.body)
    BY <1>8, <1>12 DEF InCalls!PaymentValid, InCalls!ExpenseValid, InCalls!TravelValid
  <2>2. p.body.count \in 0..MaxDetails
    BY <1>1, <1>12 DEF InCalls!Bodies
  <2> QED
    BY <2>1, <2>2 DEF InCalls!BatchValid
<1>13. ASSUME InCalls!Fits(r.type, p),
              p.body.kind = "expense" PROVE InCalls!Total(p.body.details) >= Len(p.body.details)
  <2> DEFINE s == p.body.details
  <2>1. InCalls!ExpenseValid(p.body)
    BY <1>8, <1>13 DEF InCalls!PaymentValid, InCalls!BatchValid, InCalls!TravelValid
  <2>2. s \in InCalls!Details
    BY <1>1, <1>13 DEF InCalls!Bodies
  <2>3. PICK n \in 0..MaxDetails : s \in [1..n -> InCalls!Paid]
    BY <2>2 DEF InCalls!Details
  <2>4. n \in Nat /\ \A q \in InCalls!Paid : q \in Int
    BY DEF InCalls!Paid
  <2>5. s \in [1..n -> Int]
    BY <2>3, <2>4
  <2>6. s \in Seq(Int) /\ DOMAIN s = 1..Len(s)
    BY <2>4, <2>5
  <2>7. \A q \in 1..Len(s) : s[q] >= 1
    <3>1. \A q \in 1..Len(s) : s[q] > 0 /\ s[q] \in Int
      BY <2>1, <2>6, ElementOfSeq DEF InCalls!ExpenseValid
    <3> QED
      BY <3>1
  <2>8. InCalls!Total(s) = Sum(s)
    BY DEF InCalls!Total, Sum, SumOf
  <2> HIDE DEF s
  <2>9. Sum(s) >= Len(s)
    BY <2>6, <2>7, SumPositive
  <2> QED
    BY <2>8, <2>9 DEF s
<1> QED
  BY <1>10, <1>11, <1>12, <1>13

(* Data with some fields changed has evidence, or none.                     *)
Varied(set) == UNION {{[c EXCEPT ![f] = v] : v \in InCalls!Fields[f]} : c \in set, f \in DOMAIN InCalls!Fields}
VariedOf(h) == h = [n \in 0..MaxChanges |-> IF n = 0 THEN {InCalls!Unsuspicious} ELSE Varied(h[n - 1])]

(* Data with some fields changed has evidence, or none.                     *)
LEMMA CallsContexts ==
  \A context \in InCalls!Changed[MaxChanges] : context.evidence \in InCalls!Fields.evidence
<1> DEFINE Ups(m, g) == /\ g = [n \in 0..m |-> g[n]]
                        /\ g[0] = {InCalls!Unsuspicious} /\ \A n \in 1..m : g[n] = Varied(g[n - 1])
           S == {m \in 0..MaxChanges : \E g : Ups(m, g)}
           Known(c) == "evidence" \in DOMAIN c /\ c.evidence \in InCalls!Fields.evidence
<1>1. MaxChanges \in Nat /\ MaxChanges \in 0..MaxChanges
  BY CallsAssumption
<1>2. 0 \in S
  <2> DEFINE z == [n \in 0..0 |-> {InCalls!Unsuspicious}]
  <2>1. z = [n \in 0..0 |-> z[n]] /\ z[0] = {InCalls!Unsuspicious} /\ 0 \in 0..MaxChanges
    BY <1>1
  <2>2. Ups(0, z)
    BY <2>1
  <2> HIDE DEF z, Ups
  <2> QED
    BY <2>1, <2>2
<1>3. ASSUME NEW m \in 0..MaxChanges, m < MaxChanges, m \in S PROVE m + 1 \in S
  <2>1. m + 1 \in 0..MaxChanges /\ m \in Nat
    BY <1>1, <1>3
  <2>2. PICK g : Ups(m, g)
    BY <1>3
  <2> DEFINE h == [n \in 0..m + 1 |-> IF n = m + 1 THEN Varied(g[m]) ELSE g[n]]
  <2>3. h = [n \in 0..m + 1 |-> h[n]]
    OBVIOUS
  <2>4. h[0] = {InCalls!Unsuspicious}
    BY <2>1, <2>2
  <2>5. ASSUME NEW n \in 1..m + 1 PROVE h[n] = Varied(h[n - 1])
    <3>1. n \in 0..m + 1 /\ n - 1 \in 0..m + 1 /\ n - 1 # m + 1 /\ n - 1 \in 0..m
      BY <2>1
    <3>2. CASE n = m + 1
      <4>1. h[n] = Varied(g[m]) /\ h[n - 1] = g[n - 1] /\ n - 1 = m
        BY <2>1, <3>1, <3>2
      <4> QED
        BY <4>1
    <3>3. CASE n # m + 1
      <4>1. n \in 1..m /\ h[n] = g[n] /\ h[n - 1] = g[n - 1]
        BY <2>1, <3>1, <3>3
      <4> QED
        BY <2>2, <4>1
    <3> QED
      BY <3>2, <3>3
  <2> HIDE DEF h
  <2>6. Ups(m + 1, h)
    BY <2>3, <2>4, <2>5
  <2> HIDE DEF Ups
  <2> QED
    BY <2>1, <2>6
<1>4. MaxChanges \in S
  <2> HIDE DEF S
  <2> QED
    BY <1>1, <1>2, <1>3, Induction
<1>5. PICK g : Ups(MaxChanges, g)
  BY <1>4
<1>6. VariedOf(g)
  <2>1. \A n \in 0..MaxChanges : n # 0 => n \in 1..MaxChanges
    BY <1>1
  <2>2. \A n \in 0..MaxChanges : g[n] = IF n = 0 THEN {InCalls!Unsuspicious} ELSE Varied(g[n - 1])
    BY <1>5, <2>1
  <2> QED
    BY <1>5, <2>2 DEF VariedOf
<1> DEFINE f == CHOOSE h : VariedOf(h)
<1>7. VariedOf(f)
  BY <1>6
<1>8. InCalls!Changed = f
  BY DEF InCalls!Changed, VariedOf, Varied
<1> HIDE DEF f, Ups
<1>9. f[0] = {InCalls!Unsuspicious} /\ \A n \in 1..MaxChanges : f[n] = Varied(f[n - 1])
  <2>1. 0 \in 0..MaxChanges /\ \A n \in 1..MaxChanges : n \in 0..MaxChanges /\ n # 0
    BY <1>1
  <2> QED
    BY <1>7, <2>1 DEF VariedOf
<1> DEFINE T == {n \in 0..MaxChanges : \A c \in f[n] : Known(c)}
<1>10. 0 \in T
  <2>1. Known(InCalls!Unsuspicious)
    BY DEF InCalls!Unsuspicious, InCalls!Fields
  <2> HIDE DEF Known
  <2> QED
    BY <1>1, <1>9, <2>1
<1>11. ASSUME NEW n \in 0..MaxChanges, n < MaxChanges, n \in T PROVE n + 1 \in T
  <2>1. n + 1 \in 1..MaxChanges /\ n + 1 \in 0..MaxChanges /\ (n + 1) - 1 = n
    BY <1>1, <1>11
  <2>2. f[n + 1] = Varied(f[n])
    BY <1>9, <2>1
  <2>3. ASSUME NEW c \in Varied(f[n]) PROVE Known(c)
    <3>1. \E b \in f[n] : \E k \in DOMAIN InCalls!Fields : \E v \in InCalls!Fields[k] : c = [b EXCEPT ![k] = v]
      BY DEF Varied
    <3>2. PICK b \in f[n] : \E k \in DOMAIN InCalls!Fields : \E v \in InCalls!Fields[k] : c = [b EXCEPT ![k] = v]
      BY <3>1
    <3>3. PICK k \in DOMAIN InCalls!Fields : \E v \in InCalls!Fields[k] : c = [b EXCEPT ![k] = v]
      BY <3>2
    <3>4. PICK v \in InCalls!Fields[k] : c = [b EXCEPT ![k] = v]
      BY <3>3
    <3>5. Known(b)
      BY <1>11
    <3>6. DOMAIN c = DOMAIN b /\ c["evidence"] = IF k = "evidence" THEN v ELSE b["evidence"]
      BY <3>4, <3>5
    <3> QED
      BY <3>4, <3>5, <3>6
  <2> HIDE DEF Known
  <2> QED
    BY <2>1, <2>2, <2>3
<1>12. MaxChanges \in T
  <2> HIDE DEF T
  <2> QED
    BY <1>1, <1>10, <1>11, Induction
<1> QED
  BY <1>8, <1>12

CallsInv ==
  /\ InCalls!TypeOK /\ InCalls!NothingDecidedAlone
  /\ InCalls!DifferenceReads /\ InCalls!AcceptedFits /\ InCalls!FusedAgrees

(* Nothing has been answered at the start.                                  *)
LEMMA CallsInit == InCalls!Init => CallsInv
BY
DEF InCalls!Init, CallsInv, InCalls!TypeOK, InCalls!NothingDecidedAlone,
   InCalls!DifferenceReads, InCalls!AcceptedFits,
       InCalls!FusedAgrees, InCalls!Called

(* A call of one function says nothing of the others.                       *)
LEMMA CallsNext == CallsInv /\ [InCalls!Next]_InCalls!vars => CallsInv'
<1> SUFFICES ASSUME CallsInv, [InCalls!Next]_InCalls!vars PROVE CallsInv'
  OBVIOUS
<1>1. ASSUME NEW context \in InCalls!Changed[MaxChanges], InCalls!Evaluate(context) PROVE CallsInv'
  <2>1. asked' = [of |-> "evaluate", with |-> context]
        /\ answer' = [rule \in InCalls!RuleCodes |-> InCalls!Finding(context, rule)]
    BY <1>1 DEF InCalls!Evaluate, InCalls!Calls
  <2>2. asked'.of = "evaluate" /\ asked'.with = context
    BY <2>1
  <2>3. {answer'[rule] : rule \in InCalls!RuleCodes}
        = {InCalls!Finding(context, rule) : rule \in InCalls!RuleCodes}
    BY <2>1
  <2>4. InCalls!NothingDecidedAlone'
    BY <2>2, <2>3, CallsAlone DEF InCalls!NothingDecidedAlone
  <2>5. InCalls!DifferenceReads' /\ InCalls!AcceptedFits' /\ InCalls!FusedAgrees'
    BY <2>2 DEF InCalls!DifferenceReads, InCalls!AcceptedFits, InCalls!FusedAgrees, InCalls!Called
  <2>6. InCalls!TypeOK'
    <3>1. context.evidence \in InCalls!Fields.evidence
      BY CallsContexts
    <3>2. ASSUME NEW rule \in InCalls!RuleCodes
          PROVE  InCalls!Finding(context, rule) \in [rule: InCalls!RuleCodes, level: InCalls!Levels,
                   status: {"matched", "manual_review"}, evidence: InCalls!Fields.evidence]
      <4>1. InCalls!AlarmLevel(rule) \in InCalls!Levels
        BY DEF InCalls!AlarmLevel, InCalls!Levels
      <4> HIDE DEF InCalls!Fields
      <4> QED
        BY <3>1, <4>1 DEF InCalls!Finding, InCalls!Levels
    <3>3. answer' \in [InCalls!RuleCodes -> [rule: InCalls!RuleCodes, level: InCalls!Levels,
                         status: {"matched", "manual_review"}, evidence: InCalls!Fields.evidence]]
      BY <2>1, <3>2
    <3> QED
      BY <2>2, <3>3 DEF InCalls!TypeOK, InCalls!Called
  <2> QED
    BY <2>4, <2>5, <2>6 DEF CallsInv
<1>2. ASSUME NEW q \in InCalls!Questions, InCalls!Compare(q) PROVE CallsInv'
  <2>1. asked'.of = "compare" /\ asked'.with = q /\ answer' = InCalls!Compared(q)
    BY <1>2 DEF InCalls!Compare, InCalls!Calls
  <2>2. InCalls!NothingDecidedAlone' /\ InCalls!AcceptedFits' /\ InCalls!FusedAgrees'
    BY <2>1
    DEF InCalls!NothingDecidedAlone, InCalls!AcceptedFits,
       InCalls!FusedAgrees, InCalls!Called
  <2>3. InCalls!DifferenceReads'
    BY <2>1, CallsCompare DEF InCalls!DifferenceReads
  <2>4. InCalls!TypeOK'
    <3>1. InCalls!Compared(q).status \in {"matched", "out_of_range", "reference_unavailable", "error"}
      BY DEF InCalls!Compared, InCalls!Error
    <3> QED
      BY <2>1, <3>1 DEF InCalls!TypeOK, InCalls!Called
  <2> QED
    BY <2>2, <2>3, <2>4 DEF CallsInv
<1>3. ASSUME NEW r \in InCalls!Commands, InCalls!Validate(r) PROVE CallsInv'
  <2>1. /\ asked'.of = "validate" /\ asked'.with = r
        /\ answer' = IF InCalls!Accepted(r) THEN "accepted" ELSE "refused"
    BY <1>3 DEF InCalls!Validate, InCalls!Calls
  <2>2. InCalls!NothingDecidedAlone' /\ InCalls!DifferenceReads' /\ InCalls!FusedAgrees'
    BY <2>1
    DEF InCalls!NothingDecidedAlone, InCalls!DifferenceReads,
       InCalls!FusedAgrees, InCalls!Called
  <2>3. InCalls!AcceptedFits'
    <3>1. answer' = "accepted" <=> InCalls!Accepted(r)
      BY <2>1
    <3> QED
      BY <2>1, <3>1, CallsAccepted DEF InCalls!AcceptedFits
  <2>4. InCalls!TypeOK'
    BY <2>1 DEF InCalls!TypeOK, InCalls!Called
  <2> QED
    BY <2>2, <2>3, <2>4 DEF CallsInv
<1>4. ASSUME NEW d \in InCalls!Lists, NEW s \in InCalls!Lists, InCalls!Fuse(d, s) PROVE CallsInv'
  <2>1. asked' = [of |-> "fuse", with |-> [dense |-> d, sparse |-> s]] /\ answer' = InCalls!Fused(d, s)
    BY <1>4 DEF InCalls!Fuse, InCalls!Calls
  <2>2. asked'.of = "fuse" /\ asked'.with.dense = d /\ asked'.with.sparse = s
    BY <2>1
  <2>3. InCalls!NothingDecidedAlone' /\ InCalls!DifferenceReads' /\ InCalls!AcceptedFits'
    BY <2>2
    DEF InCalls!NothingDecidedAlone, InCalls!DifferenceReads,
       InCalls!AcceptedFits, InCalls!Called
  <2>4. InCalls!FusedAgrees'
    BY <2>1, <2>2, CallsFused DEF InCalls!FusedAgrees
  <2>5. InCalls!TypeOK'
    BY <2>1, <2>2, CallsFused DEF InCalls!TypeOK, InCalls!Called
  <2> QED
    BY <2>3, <2>4, <2>5 DEF CallsInv
<1>5. CASE UNCHANGED InCalls!vars
  BY <1>5
  DEF InCalls!vars, CallsInv, InCalls!TypeOK, InCalls!NothingDecidedAlone,
     InCalls!DifferenceReads, InCalls!AcceptedFits,
    InCalls!FusedAgrees, InCalls!Called
<1> QED
  BY <1>1, <1>2, <1>3, <1>4, <1>5 DEF InCalls!Next

(***************************************************************************)
(* Data scopes.                                                            *)
(***************************************************************************)
(* A verdict is what the two checks, or the filter and the check, answer.   *)
Verdicts ==
  {InAccess!Unasked}
  \cup {[op |-> "authorize", permission |-> q[1], configuration |-> q[2],
         allowed |-> InAccess!Authorized(principal, q[1], resource, q[2])] : q \in InAccess!Permissions \X BOOLEAN}
  \cup {[op |-> "query", listed |-> InAccess!Listed(principal, resource, c),
         accessible |-> InAccess!CanAccess(principal, resource, c)] : c \in BOOLEAN}

ScopesInv ==
  principal \in InAccess!Principals /\ resource \in InAccess!Resources /\ verdict \in Verdicts

(* Nobody has asked at the start.                                           *)
LEMMA ScopesInit == InAccess!Init => ScopesInv
BY DEF InAccess!Init, ScopesInv, Verdicts

(* Every answer is one to its question.                                     *)
LEMMA ScopesNext == ScopesInv /\ [InAccess!Next]_InAccess!vars => ScopesInv'
<1> SUFFICES ASSUME ScopesInv, [InAccess!Next]_InAccess!vars PROVE ScopesInv'
  OBVIOUS
<1>1. principal' = principal /\ resource' = resource
  BY DEF InAccess!Next, InAccess!Authorize, InAccess!Query, InAccess!vars
<1>2. Verdicts' = Verdicts
  BY <1>1
  DEF Verdicts, InAccess!Authorized, InAccess!HasPermission, InAccess!KeptOut, InAccess!Listed,
     InAccess!DocumentsListed, InAccess!CanAccess
<1>3. verdict' \in Verdicts
  <2>1. ASSUME NEW permission \in InAccess!Permissions, NEW configuration \in BOOLEAN,
               InAccess!Authorize(permission, configuration)
        PROVE  verdict' \in Verdicts
    <3>1. <<permission, configuration>> \in InAccess!Permissions \X BOOLEAN
      OBVIOUS
    <3> QED
      BY <2>1, <3>1 DEF InAccess!Authorize, Verdicts
  <2>2. ASSUME NEW configuration \in BOOLEAN,
               InAccess!Query(configuration) PROVE verdict' \in Verdicts
    BY <2>2 DEF InAccess!Query, Verdicts
  <2>3. CASE UNCHANGED InAccess!vars
    BY <2>3 DEF ScopesInv, InAccess!vars
  <2> QED
    BY <2>1, <2>2, <2>3 DEF InAccess!Next
<1> QED
  BY <1>1, <1>2, <1>3 DEF ScopesInv

(* What the filter lets through passes the check; the check passes more     *)
(* only for one who is an applicant and in finance.                         *)
LEMMA ScopesAgree ==
  ASSUME NEW p \in InAccess!Principals, NEW r \in InAccess!Resources, NEW c \in BOOLEAN
  PROVE  /\ InAccess!Listed(p, r, c) => InAccess!CanAccess(p, r, c)
         /\ InAccess!CanAccess(p, r, c) /\ ~InAccess!Listed(p, r, c) =>
              {"applicant", "finance"} \subseteq p.roles
BY DEF InAccess!Listed, InAccess!DocumentsListed, InAccess!CanAccess

(* What a principal could do with one of his roles alone.                   *)
Alone(p, role, permission, r, c) == InAccess!Authorized([p EXCEPT !.roles = {role}], permission, r, c)

(* What one role allows.                                                    *)
LEMMA ScopesAlone ==
  ASSUME NEW p \in InAccess!Principals, NEW role \in InAccess!Roles,
         NEW permission \in InAccess!Permissions,
         NEW r \in InAccess!Resources, NEW c \in BOOLEAN
  PROVE  Alone(p, role, permission, r, c) <=>
           /\ p.active /\ permission \in InAccess!RolePermissions[role]
           /\ permission \in InAccess!OwnPermissions => r.owner = p.id
           /\ permission \in InAccess!TaskPermissions => r.assignee \in {Nothing, p.id}
           /\ permission = "finance:read:scoped" => r.org \in p.orgs \cup {Nothing}
           /\ ~(role = "admin" /\ ~c /\ permission \in InAccess!BusinessPermissions)
<1> DEFINE q == [p EXCEPT !.roles = {role}]
<1>1. q.roles = {role} /\ q.id = p.id /\ q.orgs = p.orgs /\ q.active = p.active
  BY DEF InAccess!Principals
<1> HIDE DEF q
<1> SUFFICES InAccess!Authorized(q, permission, r, c) <=>
           /\ p.active /\ permission \in InAccess!RolePermissions[role]
           /\ permission \in InAccess!OwnPermissions => r.owner = p.id
           /\ permission \in InAccess!TaskPermissions => r.assignee \in {Nothing, p.id}
           /\ permission = "finance:read:scoped" => r.org \in p.orgs \cup {Nothing}
           /\ ~(role = "admin" /\ ~c /\ permission \in InAccess!BusinessPermissions)
  BY DEF q, Alone
<1> HIDE DEF InAccess!RolePermissions, InAccess!OwnPermissions, InAccess!TaskPermissions, InAccess!BusinessPermissions
<1> QED
  BY <1>1 DEF InAccess!Authorized, InAccess!HasPermission, InAccess!KeptOut

(* What is authorized is authorized for one of the roles alone; what is     *)
(* refused although one of the roles allows it, is refused an administrator.*)
LEMMA ScopesRoles ==
  ASSUME NEW p \in InAccess!Principals, NEW permission \in InAccess!Permissions,
         NEW r \in InAccess!Resources, NEW c \in BOOLEAN
  PROVE  /\ InAccess!Authorized(p, permission, r, c) =>
              \E role \in p.roles : Alone(p, role, permission, r, c)
         /\ ~InAccess!Authorized(p, permission, r, c) /\ (\E role \in p.roles : Alone(p, role, permission, r, c))
              => "admin" \in p.roles
         /\ ~c /\ permission \in InAccess!BusinessPermissions /\ InAccess!Authorized(p, permission, r, c) =>
              "admin" \notin p.roles
<1>1. \A role \in p.roles :
        Alone(p, role, permission, r, c) <=>
          /\ p.active /\ permission \in InAccess!RolePermissions[role]
          /\ permission \in InAccess!OwnPermissions => r.owner = p.id
          /\ permission \in InAccess!TaskPermissions => r.assignee \in {Nothing, p.id}
          /\ permission = "finance:read:scoped" => r.org \in p.orgs \cup {Nothing}
          /\ ~(role = "admin" /\ ~c /\ permission \in InAccess!BusinessPermissions)
  <2>1. p.roles \subseteq InAccess!Roles
    BY DEF InAccess!Principals
  <2> QED
    BY <2>1, ScopesAlone
<1>2. InAccess!Authorized(p, permission, r, c) =>
        /\ \E role \in p.roles : Alone(p, role, permission, r, c)
        /\ permission \in InAccess!BusinessPermissions /\ ~c => "admin" \notin p.roles
  BY <1>1 DEF InAccess!Authorized, InAccess!HasPermission, InAccess!KeptOut
<1>3. ~InAccess!Authorized(p, permission, r, c) /\ (\E role \in p.roles : Alone(p, role, permission, r, c)) => "admin" \in p.roles
  BY <1>1 DEF InAccess!Authorized, InAccess!HasPermission, InAccess!KeptOut
<1> QED
  BY <1>2, <1>3

(* The filter and the check agree, and more roles allow more.               *)
LEMMA ScopesMet == ScopesInv =>
  InAccess!ListedIsAccessible /\ InAccess!OnlyAdminTakesAway /\ InAccess!TypeOK
<1> SUFFICES ASSUME ScopesInv PROVE InAccess!ListedIsAccessible /\ InAccess!OnlyAdminTakesAway /\ InAccess!TypeOK
  OBVIOUS
<1>1. CASE verdict = InAccess!Unasked
  BY <1>1
  DEF ScopesInv, InAccess!ListedIsAccessible, InAccess!OnlyAdminTakesAway, InAccess!TypeOK,
     InAccess!Unasked
<1>2. ASSUME NEW permission \in InAccess!Permissions, NEW c \in BOOLEAN,
             verdict = [op |-> "authorize", permission |-> permission, configuration |-> c,
                        allowed |-> InAccess!Authorized(principal, permission, resource, c)]
      PROVE  InAccess!ListedIsAccessible /\ InAccess!OnlyAdminTakesAway /\ InAccess!TypeOK
  <2>1. /\ verdict.op = "authorize" /\ verdict.permission = permission /\ verdict.configuration = c
        /\ verdict.allowed <=> InAccess!Authorized(principal, permission, resource, c)
    BY <1>2
  <2>2. InAccess!ListedIsAccessible /\ InAccess!TypeOK
    BY <2>1 DEF ScopesInv, InAccess!ListedIsAccessible, InAccess!TypeOK
  <2>3. InAccess!OnlyAdminTakesAway
    <3>1. principal \in InAccess!Principals /\ resource \in InAccess!Resources
      BY DEF ScopesInv
    <3>2. /\ verdict.allowed =>
               \E role \in principal.roles : Alone(principal, role, permission, resource, c)
          /\ ~verdict.allowed /\ (\E role \in principal.roles : Alone(principal, role, permission, resource, c))
               => "admin" \in principal.roles
          /\ verdict.allowed /\ permission \in InAccess!BusinessPermissions /\ ~c =>
               "admin" \notin principal.roles
      BY <2>1, <3>1, ScopesRoles
    <3>3. \A role : Alone(principal, role, permission, resource, c)
                      <=> InAccess!Authorized([principal EXCEPT !.roles = {role}], verdict.permission, resource,
                                     verdict.configuration)
      BY <2>1 DEF Alone
    <3> QED
      BY <2>1, <3>2, <3>3 DEF InAccess!OnlyAdminTakesAway
  <2> QED
    BY <2>2, <2>3
<1>3. ASSUME NEW c \in BOOLEAN,
             verdict = [op |-> "query", listed |-> InAccess!Listed(principal, resource, c),
                        accessible |-> InAccess!CanAccess(principal, resource, c)]
      PROVE  InAccess!ListedIsAccessible /\ InAccess!OnlyAdminTakesAway /\ InAccess!TypeOK
  <2>1. /\ verdict.op = "query"
        /\ verdict.listed <=> InAccess!Listed(principal, resource, c)
        /\ verdict.accessible <=> InAccess!CanAccess(principal, resource, c)
    BY <1>3
  <2> QED
    BY <2>1, ScopesAgree
    DEF ScopesInv, InAccess!ListedIsAccessible, InAccess!OnlyAdminTakesAway, InAccess!TypeOK
<1>4. \/ verdict = InAccess!Unasked
      \/ \E permission \in InAccess!Permissions, c \in BOOLEAN :
           verdict = [op |-> "authorize", permission |-> permission, configuration |-> c,
                      allowed |-> InAccess!Authorized(principal, permission, resource, c)]
      \/ \E c \in BOOLEAN :
           verdict = [op |-> "query", listed |-> InAccess!Listed(principal, resource, c),
                      accessible |-> InAccess!CanAccess(principal, resource, c)]
  BY DEF ScopesInv, Verdicts
<1> QED
  BY <1>1, <1>2, <1>3, <1>4

(***************************************************************************)
(* Lists of tasks and documents.                                           *)
(***************************************************************************)
(* Rows are told apart by the time they were made at: the place of a row is *)
(* the rank of its time.                                                    *)
ListRows == [at: 1..MaxRows, owner: Owners, status: {"pending", "approved"}]
Apart(set) == \A r, s \in set : r.at = s.at => r = s
Times(set) == {row.at : row \in set}
TimeRank(times, a) == Cardinality({b \in times : b >= a})

(* What was there at first and the pages so far should have shown.          *)
PassedBy(times, first, got, bound) ==
  {a \in times : a \in first \ got /\ TimeRank(times, a) <= bound}
Shown == Times(InLists!Listed(listReader.filter))
Passed == PassedBy(Shown, listReader.first, listReader.got, (listReader.page - 1) * PageSize)

ListsTypes ==
  /\ listClock \in 0..MaxRows
  /\ making \in [Writers -> ListRows \cup {Nothing}]
  /\ rows \in SUBSET ListRows /\ IsFiniteSet(rows)
  /\ listReader \in [filter: {"all", "pending"}, page: Nat, first: SUBSET (1..MaxRows),
                 got: SUBSET (1..MaxRows), left: Nat]

(* No two rows, made or committed, have one time.                           *)
ListsApart ==
  /\ Apart(rows) /\ \A row \in rows : row.at <= listClock
  /\ \A w \in Writers : making[w] # Nothing =>
       /\ making[w].at <= listClock /\ making[w].status = "pending"
       /\ \A row \in rows : row.at # making[w].at
       /\ \A v \in Writers : making[v] # Nothing /\ making[v].at = making[w].at => v = w

ListsOwn ==
  \A a \in listReader.first \cup listReader.got : \E row \in rows : row.at = a /\ row.owner = Reader

ListsPassed ==
  listReader.page > 0 =>
    listReader.page > 1 /\ IsFiniteSet(Passed) /\ Cardinality(Passed) <= listReader.left

ListsInv == ListsTypes /\ ListsApart /\ ListsOwn /\ ListsPassed

(* Ranks of different numbers are the numbers from one to how many there are.*)
LEMMA ListsRank ==
  ASSUME NEW S \in SUBSET Nat, IsFiniteSet(S)
  PROVE  /\ Cardinality(S) \in Nat
         /\ \A a \in S : TimeRank(S, a) \in 1..Cardinality(S)
         /\ \A a, b \in S : TimeRank(S, a) = TimeRank(S, b) => a = b
         /\ \A n \in 1..Cardinality(S) : \E a \in S : TimeRank(S, a) = n
<1> DEFINE After(a) == {b \in S : b >= a}
<1>1. Cardinality(S) \in Nat
  BY FS_CardinalityType
<1>2. ASSUME NEW a \in S
      PROVE  /\ IsFiniteSet(After(a)) /\ Cardinality(After(a)) \in Nat
             /\ Cardinality(After(a)) <= Cardinality(S) /\ Cardinality(After(a)) >= 1
  <2>1. After(a) \in SUBSET S /\ a \in After(a)
    OBVIOUS
  <2> HIDE DEF After
  <2>2. IsFiniteSet(After(a)) /\ Cardinality(After(a)) <= Cardinality(S)
    BY <2>1, FS_Subset
  <2>3. Cardinality(After(a)) \in Nat
    BY <2>2, FS_CardinalityType
  <2>4. Cardinality(After(a)) # 0
    BY <2>1, <2>2, FS_EmptySet
  <2> QED
    BY <2>2, <2>3, <2>4
<1>3. ASSUME NEW a \in S, NEW b \in S, a < b
      PROVE  Cardinality(After(b)) < Cardinality(After(a))
  <2>1. After(b) \in SUBSET After(a) /\ a \in After(a) /\ a \notin After(b)
    <3>1. \A c \in S : c \in Nat
      OBVIOUS
    <3>2. a \in After(a) /\ a \notin After(b)
      BY <1>3, <3>1
    <3>3. \A c \in After(b) : c \in After(a)
      BY <1>3, <3>1
    <3> QED
      BY <3>2, <3>3
  <2>2. IsFiniteSet(After(a)) /\ Cardinality(After(a)) \in Nat /\ Cardinality(After(b)) \in Nat
    BY <1>2
  <2> HIDE DEF After
  <2>3. Cardinality(After(b)) <= Cardinality(After(a)) /\ Cardinality(After(b)) # Cardinality(After(a))
    BY <2>1, <2>2, FS_Subset
  <2> QED
    BY <2>2, <2>3
<1>4. \A a \in S : TimeRank(S, a) = Cardinality(After(a))
  BY DEF TimeRank
<1> HIDE DEF After
<1>5. \A a \in S : TimeRank(S, a) \in 1..Cardinality(S)
  BY <1>1, <1>2, <1>4
<1>6. \A a, b \in S : TimeRank(S, a) = TimeRank(S, b) => a = b
  <2> SUFFICES ASSUME NEW a \in S, NEW b \in S, TimeRank(S, a) = TimeRank(S, b), a # b PROVE FALSE
    OBVIOUS
  <2>1. a < b \/ b < a
    OBVIOUS
  <2>2. Cardinality(After(a)) \in Nat /\ Cardinality(After(b)) \in Nat
    BY <1>2
  <2>3. Cardinality(After(a)) = Cardinality(After(b))
    BY <1>4
  <2> QED
    BY <1>3, <2>1, <2>2, <2>3
<1>7. \A n \in 1..Cardinality(S) : \E a \in S : TimeRank(S, a) = n
  <2> DEFINE f == [a \in S |-> TimeRank(S, a)]
             T == 1..Cardinality(S)
  <2>1. f \in Injection(S, T)
    <3>1. f \in [S -> T]
      BY <1>5
    <3>2. \A a, b \in S : f[a] = f[b] => a = b
      BY <1>6
    <3> HIDE DEF f, T
    <3> QED
      BY <3>1, <3>2 DEF Injection, IsInjective
  <2>2. IsFiniteSet(T) /\ Cardinality(T) = Cardinality(S)
    BY <1>1, FS_Interval
  <2>3. f \in Surjection(S, T)
    <3> HIDE DEF f, T
    <3> QED
      BY <2>1, <2>2, FS_Injection
  <2>4. \A n \in T : \E a \in S : f[a] = n
    <3> HIDE DEF f, T
    <3> QED
      BY <2>3 DEF Surjection
  <2> QED
    BY <2>4
<1> QED
  BY <1>1, <1>5, <1>6, <1>7

(* There are as many rows as times.                                         *)
LEMMA ListsTimes ==
  ASSUME NEW T \in SUBSET ListRows, IsFiniteSet(T), Apart(T)
  PROVE  /\ IsFiniteSet(Times(T)) /\ Cardinality(Times(T)) = Cardinality(T)
         /\ Times(T) \in SUBSET (1..MaxRows) /\ Times(T) \in SUBSET Nat
<1> DEFINE f == [row \in T |-> row.at]
           S == Times(T)
<1>1. f \in [T -> S] /\ (\A r, s \in T : f[r] = f[s] => r = s) /\ (\A a \in S : \E r \in T : f[r] = a)
  BY DEF Apart, Times
<1>2. S \in SUBSET (1..MaxRows)
  BY DEF ListRows, Times
<1> HIDE DEF f, S
<1>3. f \in Bijection(T, S)
  BY <1>1 DEF Bijection, Injection, IsInjective, Surjection
<1>4. ExistsBijection(T, S)
  BY <1>3 DEF ExistsBijection
<1>5. IsFiniteSet(S) /\ Cardinality(S) = Cardinality(T)
  BY <1>4, FS_Bijection
<1>6. S \in SUBSET Nat
  BY <1>2, ListsAssumption
<1> QED
  BY <1>2, <1>5, <1>6 DEF S

(* The place of a row is the rank of its time.                              *)
LEMMA ListsPlace ==
  ASSUME NEW T \in SUBSET ListRows, IsFiniteSet(T), Apart(T), NEW row \in T
  PROVE  InLists!Place(T, row) = TimeRank(Times(T), row.at)
<1> DEFINE U == {other \in T : other.at >= row.at}
<1>1. U \in SUBSET T
  OBVIOUS
<1>2. Times(U) = {b \in Times(T) : b >= row.at}
  BY DEF Times
<1>3. InLists!Place(T, row) = Cardinality(U)
  BY CardinalitiesAgree DEF InLists!Place
<1> HIDE DEF U
<1>4. IsFiniteSet(U) /\ Apart(U) /\ U \in SUBSET ListRows
  BY <1>1, FS_Subset DEF Apart
<1>5. Cardinality(Times(U)) = Cardinality(U)
  BY <1>4, ListsTimes
<1> QED
  BY <1>2, <1>3, <1>5 DEF TimeRank

(* The list has every row once, at its place.                               *)
LEMMA ListsNewest ==
  ASSUME NEW T \in SUBSET ListRows, IsFiniteSet(T), Apart(T)
  PROVE  /\ InLists!Newest(T) \in Seq(T) /\ Len(InLists!Newest(T)) = Cardinality(T)
         /\ Cardinality(T) \in Nat
         /\ \A n \in 1..Cardinality(T) : TimeRank(Times(T), InLists!Newest(T)[n].at) = n
         /\ \A row \in T : /\ TimeRank(Times(T), row.at) \in 1..Cardinality(T)
                           /\ InLists!Newest(T)[TimeRank(Times(T), row.at)] = row
<1>1. /\ IsFiniteSet(Times(T)) /\ Cardinality(Times(T)) = Cardinality(T) /\ Times(T) \in SUBSET Nat
  BY ListsTimes
<1>2. /\ Cardinality(T) \in Nat
      /\ \A a \in Times(T) : TimeRank(Times(T), a) \in 1..Cardinality(T)
      /\ \A a, b \in Times(T) : TimeRank(Times(T), a) = TimeRank(Times(T), b) => a = b
      /\ \A n \in 1..Cardinality(T) : \E a \in Times(T) : TimeRank(Times(T), a) = n
  BY <1>1, ListsRank
<1>3. \A n \in 1..Cardinality(T) : \E row \in T : InLists!Place(T, row) = n
  <2> SUFFICES ASSUME NEW n \in 1..Cardinality(T) PROVE \E row \in T : InLists!Place(T, row) = n
    OBVIOUS
  <2>1. PICK a \in Times(T) : TimeRank(Times(T), a) = n
    BY <1>2
  <2>2. PICK row \in T : row.at = a
    BY DEF Times
  <2> QED
    BY <2>1, <2>2, ListsPlace
<1> DEFINE at(n) == CHOOSE row \in T : InLists!Place(T, row) = n
<1>4. \A n \in 1..Cardinality(T) : at(n) \in T /\ InLists!Place(T, at(n)) = n
  BY <1>3
<1>5. InLists!Newest(T) = [n \in 1..Cardinality(T) |-> at(n)]
  BY CardinalitiesAgree DEF InLists!Newest
<1> HIDE DEF at
<1>6. /\ InLists!Newest(T) \in [1..Cardinality(T) -> T]
      /\ \A n \in 1..Cardinality(T) : InLists!Newest(T)[n] \in T /\ InLists!Place(T, InLists!Newest(T)[n]) = n
  BY <1>4, <1>5
<1>7. InLists!Newest(T) \in Seq(T) /\ Len(InLists!Newest(T)) = Cardinality(T)
  BY <1>2, <1>6
<1>8. \A n \in 1..Cardinality(T) : TimeRank(Times(T), InLists!Newest(T)[n].at) = n
  BY <1>6, ListsPlace
<1>9. ASSUME NEW row \in T
      PROVE  /\ TimeRank(Times(T), row.at) \in 1..Cardinality(T)
             /\ InLists!Newest(T)[TimeRank(Times(T), row.at)] = row
  <2> DEFINE n == TimeRank(Times(T), row.at)
  <2>1. row.at \in Times(T) /\ n \in 1..Cardinality(T)
    BY <1>2 DEF Times
  <2>2. InLists!Newest(T)[n] \in T /\ InLists!Newest(T)[n].at \in Times(T) /\ TimeRank(Times(T), InLists!Newest(T)[n].at) = n
    BY <1>6, <1>8, <2>1 DEF Times
  <2>3. InLists!Newest(T)[n].at = row.at
    BY <1>2, <2>1, <2>2
  <2> QED
    BY <2>1, <2>2, <2>3 DEF Apart
<1> QED
  BY <1>2, <1>7, <1>8, <1>9

(* Pages follow each other.                                                 *)
LEMMA ListsPages ==
  ASSUME NEW p \in Nat, p >= 1
  PROVE  (p - 1) * PageSize \in Nat /\ p * PageSize = (p - 1) * PageSize + PageSize
BY ListsAssumption

(* A page has the rows whose rank it stands for.                            *)
LEMMA ListsPage ==
  ASSUME NEW T \in SUBSET ListRows, IsFiniteSet(T), Apart(T), NEW p \in Nat, p >= 1
  PROVE  LET page == InLists!Page(InLists!Newest(T), p) IN
         {page[n].at : n \in DOMAIN page} =
           {a \in Times(T) : /\ TimeRank(Times(T), a) > (p - 1) * PageSize
                             /\ TimeRank(Times(T), a) <= p * PageSize}
<1> DEFINE list == InLists!Newest(T)
           from == (p - 1) * PageSize
           to == InLists!Least(p * PageSize, Len(list))
           page == SubSeq(list, from + 1, to)
<1>1. /\ list \in Seq(T) /\ Len(list) = Cardinality(T) /\ Cardinality(T) \in Nat
      /\ \A n \in 1..Cardinality(T) : TimeRank(Times(T), list[n].at) = n
      /\ \A row \in T : /\ TimeRank(Times(T), row.at) \in 1..Cardinality(T)
                        /\ list[TimeRank(Times(T), row.at)] = row
  BY ListsNewest
<1>2. from \in Nat /\ p * PageSize = from + PageSize /\ PageSize \in Nat
  BY ListsPages, ListsAssumption
<1>3. InLists!Page(list, p) = page
  BY DEF InLists!Page
<1>4. to \in Nat /\ to <= Len(list) /\ to <= p * PageSize /\ (to = Len(list) \/ to = p * PageSize)
  BY <1>1, <1>2 DEF InLists!Least
<1> HIDE DEF list, from, to
<1>5. \A i \in from + 1..to : list[i] \in T
  BY <1>1, <1>2, <1>4, ElementOfSeq
<1>6. /\ page \in Seq(T) /\ Len(page) = (IF from + 1 <= to THEN to - (from + 1) + 1 ELSE 0)
      /\ \A i \in 1..to - (from + 1) + 1 : page[i] = list[from + 1 + i - 1]
  BY <1>2, <1>4, <1>5, SubSeqProperties
<1>7. /\ DOMAIN page = 1..to - from
      /\ \A i \in 1..to - from : page[i] = list[from + i]
  <2>1. DOMAIN page = 1..Len(page)
    BY <1>6, LenProperties
  <2>2. 1..Len(page) = 1..to - from
    BY <1>2, <1>4, <1>6
  <2> HIDE DEF page
  <2>3. ASSUME NEW i \in 1..to - from PROVE page[i] = list[from + i]
    <3>1. from + 1 + i - 1 = from + i /\ i \in 1..to - (from + 1) + 1
      BY <1>2, <1>4
    <3> QED
      BY <1>6, <3>1
  <2> QED
    BY <2>1, <2>2, <2>3
<1> HIDE DEF page
<1>8. ASSUME NEW i \in 1..to - from
      PROVE  /\ page[i].at \in Times(T)
             /\ TimeRank(Times(T), page[i].at) > from
             /\ TimeRank(Times(T), page[i].at) <= p * PageSize
  <2>1. from + i \in 1..Cardinality(T) /\ from + i > from /\ from + i <= p * PageSize
    BY <1>1, <1>2, <1>4
  <2>2. list[from + i] \in T
    BY <1>1, <2>1, ElementOfSeq
  <2> QED
    BY <1>1, <1>7, <2>1, <2>2 DEF Times
<1>9. ASSUME NEW a \in Times(T), TimeRank(Times(T), a) > from, TimeRank(Times(T), a) <= p * PageSize
      PROVE  \E i \in 1..to - from : page[i].at = a
  <2>1. PICK row \in T : row.at = a
    BY DEF Times
  <2> DEFINE k == TimeRank(Times(T), a)
  <2>2. k \in 1..Cardinality(T) /\ list[k] = row /\ k > from /\ k <= p * PageSize
    BY <1>1, <1>9, <2>1
  <2> HIDE DEF k
  <2>3. k - from \in 1..to - from /\ from + (k - from) = k
    BY <1>1, <1>2, <1>4, <2>2
  <2> QED
    BY <1>7, <2>1, <2>2, <2>3
<1>10. {page[n].at : n \in DOMAIN page} =
          {a \in Times(T) : TimeRank(Times(T), a) > from /\ TimeRank(Times(T), a) <= p * PageSize}
  BY <1>7, <1>8, <1>9
<1> QED
  BY <1>3, <1>10 DEF list, from

(* More numbers rank a number no higher, and one less by one at most.       *)
LEMMA ListsMore ==
  ASSUME NEW S \in SUBSET Nat, IsFiniteSet(S), NEW R \in SUBSET S, NEW a
  PROVE  TimeRank(R, a) \in Nat /\ TimeRank(S, a) \in Nat /\ TimeRank(R, a) <= TimeRank(S, a)
<1> DEFINE U == {b \in R : b >= a}
           V == {b \in S : b >= a}
<1>1. U \in SUBSET V /\ V \in SUBSET S
  OBVIOUS
<1> HIDE DEF U, V
<1>2. IsFiniteSet(V)
  BY <1>1, FS_Subset
<1>3. IsFiniteSet(U) /\ Cardinality(U) <= Cardinality(V)
  BY <1>1, <1>2, FS_Subset
<1>4. Cardinality(U) \in Nat /\ Cardinality(V) \in Nat
  BY <1>2, <1>3, FS_CardinalityType
<1> QED
  BY <1>3, <1>4 DEF TimeRank, U, V

(* One number less ranks another lower by one at most.                      *)
LEMMA ListsLess ==
  ASSUME NEW S \in SUBSET Nat, IsFiniteSet(S), NEW c \in S, NEW a \in S
  PROVE  TimeRank(S, a) <= TimeRank(S \ {c}, a) + 1
<1> DEFINE V == {b \in S : b >= a}
           U == {b \in S \ {c} : b >= a}
<1>1. V \in SUBSET (U \cup {c}) /\ U \in SUBSET S
  OBVIOUS
<1> HIDE DEF U, V
<1>2. IsFiniteSet(U) /\ Cardinality(U) \in Nat
  BY <1>1, FS_Subset, FS_CardinalityType
<1>3. IsFiniteSet(U \cup {c}) /\ Cardinality(U \cup {c}) <= Cardinality(U) + 1
      /\ Cardinality(U \cup {c}) \in Nat
  <2>1. IsFiniteSet(U \cup {c}) /\ Cardinality(U \cup {c}) = (IF c \in U THEN Cardinality(U) ELSE Cardinality(U) + 1)
    BY <1>2, FS_AddElement
  <2> QED
    BY <1>2, <2>1
<1>4. IsFiniteSet(V) /\ Cardinality(V) <= Cardinality(U \cup {c})
  BY <1>1, <1>3, FS_Subset
<1>5. Cardinality(V) \in Nat
  BY <1>4, FS_CardinalityType
<1> QED
  BY <1>2, <1>3, <1>4, <1>5 DEF TimeRank, U, V

(* A row that leaves brings at most one row up to the bound.                *)
LEMMA ListsLeave ==
  ASSUME NEW S \in SUBSET Nat, IsFiniteSet(S), NEW c \in S, NEW first, NEW got, NEW bound \in Nat
  PROVE  LET before == PassedBy(S, first, got, bound)
             after == PassedBy(S \ {c}, first, got, bound)
         IN IsFiniteSet(after) /\ Cardinality(after) <= Cardinality(before) + 1
<1> DEFINE before == PassedBy(S, first, got, bound)
           after == PassedBy(S \ {c}, first, got, bound)
           above == {a \in S : TimeRank(S, a) = bound + 1}
<1>1. before \in SUBSET S /\ above \in SUBSET S
  BY DEF PassedBy
<1>2. after \in SUBSET (before \cup above)
  <2> SUFFICES ASSUME NEW a \in after PROVE a \in before \cup above
    OBVIOUS
  <2>1. /\ a \in S /\ a \in first \ got /\ TimeRank(S \ {c}, a) <= bound
    BY DEF PassedBy
  <2>2. TimeRank(S, a) <= TimeRank(S \ {c}, a) + 1
    BY <2>1, ListsLess
  <2>3. TimeRank(S, a) \in Nat /\ TimeRank(S \ {c}, a) \in Nat
    BY ListsMore, S \ {c} \in SUBSET S
  <2> QED
    BY <2>1, <2>2, <2>3 DEF PassedBy
<1>3. \A a, b \in above : a = b
  BY ListsRank
<1> HIDE DEF before, after, above
<1>4. \E x : above \in SUBSET {x}
  BY <1>3
<1>5. PICK x : above \in SUBSET {x}
  BY <1>4
<1>6. IsFiniteSet(before) /\ Cardinality(before) \in Nat
  BY <1>1, FS_Subset, FS_CardinalityType
<1>7. IsFiniteSet(before \cup {x}) /\ Cardinality(before \cup {x}) <= Cardinality(before) + 1
      /\ Cardinality(before \cup {x}) \in Nat
  <2>1. /\ IsFiniteSet(before \cup {x})
        /\ Cardinality(before \cup {x}) = (IF x \in before THEN Cardinality(before) ELSE Cardinality(before) + 1)
    BY <1>6, FS_AddElement
  <2> QED
    BY <1>6, <2>1
<1>8. after \in SUBSET (before \cup {x})
  BY <1>2, <1>5
<1>9. IsFiniteSet(after) /\ Cardinality(after) <= Cardinality(before \cup {x})
  BY <1>7, <1>8, FS_Subset
<1>10. Cardinality(after) \in Nat
  BY <1>9, FS_CardinalityType
<1>11. IsFiniteSet(after) /\ Cardinality(after) <= Cardinality(before) + 1
  BY <1>6, <1>7, <1>9, <1>10
<1> QED
  BY <1>11 DEF before, after

(* The invariant of the lists holds at the start.                           *)
LEMMA ListsInit == InLists!Init => ListsInv
<1> SUFFICES ASSUME InLists!Init PROVE ListsInv
  OBVIOUS
<1>1. ListsTypes
  <2>1. IsFiniteSet({})
    BY FS_EmptySet
  <2>2. listReader \in [filter: {"all", "pending"}, page: Nat, first: SUBSET (1..MaxRows),
                    got: SUBSET (1..MaxRows), left: Nat]
    BY DEF InLists!Init, InLists!NotReading
  <2> QED
    BY <2>1, <2>2, ListsAssumption DEF InLists!Init, ListsTypes
<1>2. ListsApart /\ ListsOwn /\ ListsPassed
  BY DEF InLists!Init, InLists!NotReading, ListsApart, Apart, ListsOwn, ListsPassed
<1> QED
  BY <1>1, <1>2 DEF ListsInv

(* What a list is of.                                                       *)
LEMMA ListsListed ==
  ASSUME ListsInv, NEW filter
  PROVE  /\ InLists!Listed(filter) \in SUBSET ListRows /\ IsFiniteSet(InLists!Listed(filter))
         /\ Apart(InLists!Listed(filter))
         /\ Times(InLists!Listed(filter)) \in SUBSET Nat
         /\ Times(InLists!Listed(filter)) \in SUBSET (1..MaxRows)
         /\ IsFiniteSet(Times(InLists!Listed(filter)))
<1>1. InLists!Listed(filter) \in SUBSET rows
  BY DEF InLists!Listed
<1>2. /\ InLists!Listed(filter) \in SUBSET ListRows /\ IsFiniteSet(InLists!Listed(filter))
      /\ Apart(InLists!Listed(filter))
  BY <1>1, FS_Subset DEF ListsInv, ListsTypes, ListsApart, Apart
<1> QED
  BY <1>2, ListsTimes

(* A row that is being made keeps the invariant of the lists.               *)
LEMMA ListsMake ==
  ASSUME ListsInv, NEW w \in Writers, NEW owner \in Owners, InLists!Make(w, owner)
  PROVE  ListsInv'
<1> DEFINE new == [at |-> listClock + 1, owner |-> owner, status |-> "pending"]
<1>1. /\ listClock' = listClock + 1 /\ listClock \in 0..MaxRows /\ listClock < MaxRows
      /\ listClock \in Int
      /\ making' = [making EXCEPT ![w] = new] /\ rows' = rows /\ listReader' = listReader
      /\ making \in [Writers -> ListRows \cup {Nothing}]
  BY ListsAssumption DEF InLists!Make, ListsInv, ListsTypes
<1>2. new \in ListRows /\ new.at = listClock + 1 /\ new.status = "pending"
  <2>1. listClock + 1 \in 1..MaxRows
    BY <1>1, ListsAssumption
  <2> QED
    BY <2>1 DEF ListRows
<1> HIDE DEF new
<1>3. /\ making'[w] = new /\ \A v \in Writers \ {w} : making'[v] = making[v]
      /\ making' \in [Writers -> ListRows \cup {Nothing}]
  BY <1>1, <1>2
<1>4. ListsTypes'
  BY <1>1, <1>3, ListsAssumption DEF ListsInv, ListsTypes
<1>5. \A row \in rows : row.at \in Int /\ row.at <= listClock
  BY DEF ListsInv, ListsTypes, ListsApart, ListRows
<1>6. \A v \in Writers : making[v] # Nothing => making[v].at \in Int /\ making[v].at <= listClock
  <2>1. \A v \in Writers : making[v] # Nothing => making[v] \in ListRows
    BY <1>1
  <2> QED
    BY <2>1 DEF ListsInv, ListsApart, ListRows
<1>7. ListsApart'
  <2>1. Apart(rows)' /\ \A row \in rows' : row.at <= listClock'
    BY <1>1, <1>5 DEF ListsInv, ListsApart, Apart
  <2>2. ASSUME NEW v \in Writers, making'[v] # Nothing
        PROVE  /\ making'[v].at <= listClock' /\ making'[v].status = "pending"
               /\ \A row \in rows' : row.at # making'[v].at
               /\ \A u \in Writers : making'[u] # Nothing /\ making'[u].at = making'[v].at => u = v
    <3>1. CASE v = w
      BY <1>1, <1>2, <1>3, <1>5, <1>6, <3>1
    <3>2. CASE v # w
      BY <1>1, <1>2, <1>3, <1>6, <2>2, <3>2 DEF ListsInv, ListsApart
    <3> QED
      BY <3>1, <3>2
  <2> QED
    BY <2>1, <2>2 DEF ListsApart
<1>8. ListsOwn' /\ ListsPassed'
  <2>1. Passed' = Passed
    BY <1>1 DEF Passed, Shown, InLists!Listed
  <2> QED
    BY <1>1, <2>1 DEF ListsInv, ListsOwn, ListsPassed
<1> QED
  BY <1>4, <1>7, <1>8 DEF ListsInv

(* A row that is committed keeps it.                                        *)
LEMMA ListsCommit ==
  ASSUME ListsInv, NEW w \in Writers, InLists!Commit(w)
  PROVE  ListsInv'
<1> DEFINE new == making[w]
<1>1. /\ new # Nothing /\ rows' = rows \cup {new} /\ making' = [making EXCEPT ![w] = Nothing]
      /\ listClock' = listClock /\ listReader' = listReader
      /\ making \in [Writers -> ListRows \cup {Nothing}]
  BY DEF InLists!Commit, ListsInv, ListsTypes
<1>2. /\ new \in ListRows /\ new.at <= listClock /\ \A row \in rows : row.at # new.at
      /\ \A v \in Writers : making[v] # Nothing /\ making[v].at = new.at => v = w
  BY <1>1 DEF ListsInv, ListsApart
<1>3. /\ making'[w] = Nothing /\ \A v \in Writers \ {w} : making'[v] = making[v] /\ making[v] \in ListRows \cup {Nothing}
      /\ making' \in [Writers -> ListRows \cup {Nothing}]
  BY <1>1
<1> HIDE DEF new
<1>4. ListsTypes'
  <2>1. IsFiniteSet(rows \cup {new})
    BY FS_AddElement DEF ListsInv, ListsTypes
  <2> QED
    BY <1>1, <1>2, <1>3, <2>1 DEF ListsInv, ListsTypes
<1>5. ListsApart'
  <2>1. Apart(rows)' /\ \A row \in rows' : row.at <= listClock'
    BY <1>1, <1>2 DEF ListsInv, ListsApart, Apart
  <2>2. ASSUME NEW v \in Writers, making'[v] # Nothing
        PROVE  /\ making'[v].at <= listClock' /\ making'[v].status = "pending"
               /\ \A row \in rows' : row.at # making'[v].at
               /\ \A u \in Writers : making'[u] # Nothing /\ making'[u].at = making'[v].at => u = v
    <3>1. v # w /\ making'[v] = making[v] /\ making[v] # Nothing
      BY <1>3, <2>2
    <3>2. /\ making[v].at <= listClock /\ making[v].status = "pending"
          /\ \A row \in rows : row.at # making[v].at
          /\ \A u \in Writers : making[u] # Nothing /\ making[u].at = making[v].at => u = v
      BY <3>1 DEF ListsInv, ListsApart
    <3>3. making[v].at # new.at
      BY <1>2, <3>1
    <3> QED
      BY <1>1, <1>3, <3>1, <3>2, <3>3
  <2> QED
    BY <2>1, <2>2 DEF ListsApart
<1>6. ListsOwn'
  BY <1>1 DEF ListsInv, ListsOwn
<1>7. ListsPassed'
  <2> SUFFICES ASSUME listReader.page > 0
               PROVE  listReader.page > 1 /\ IsFiniteSet(Passed') /\ Cardinality(Passed') <= listReader.left
    BY <1>1 DEF ListsPassed
  <2>1. listReader.page > 1 /\ IsFiniteSet(Passed) /\ Cardinality(Passed) <= listReader.left
    BY DEF ListsInv, ListsPassed
  <2> DEFINE S == Shown
             S2 == Shown'
  <2>2. S2 \in SUBSET Nat /\ IsFiniteSet(S2)
    <3>2. InLists!Listed(listReader.filter)' \in SUBSET rows'
      BY <1>1 DEF InLists!Listed
    <3>3. /\ InLists!Listed(listReader.filter)' \in SUBSET ListRows
          /\ IsFiniteSet(InLists!Listed(listReader.filter)')
          /\ Apart(InLists!Listed(listReader.filter)')
      <4>1. rows' \in SUBSET ListRows /\ IsFiniteSet(rows') /\ Apart(rows')
        BY <1>4, <1>5 DEF ListsTypes, ListsApart, Apart
      <4> QED
        BY <3>2, <4>1, FS_Subset DEF Apart
    <3>4. Times(InLists!Listed(listReader.filter)') \in SUBSET Nat /\ IsFiniteSet(Times(InLists!Listed(listReader.filter)'))
      BY <3>3, ListsTimes
    <3>1. S2 = Times(InLists!Listed(listReader.filter)')
      BY <1>1 DEF Shown, Times
    <3> QED
      BY <3>1, <3>4
  <2>3. S \in SUBSET S2
    BY <1>1 DEF Shown, Times, InLists!Listed
  <2>4. \A a \in S2 : a \in listReader.first => a \in S
    <3> SUFFICES ASSUME NEW a \in S2, a \in listReader.first PROVE a \in S
      OBVIOUS
    <3>1. PICK row \in rows' : row.at = a /\ row.owner = Reader /\ (listReader.filter = "all" \/ row.status = listReader.filter)
      BY <1>1 DEF Shown, Times, InLists!Listed
    <3>2. \E old \in rows : old.at = a
      BY DEF ListsInv, ListsOwn
    <3>3. row # new
      BY <1>2, <3>1, <3>2
    <3> QED
      BY <1>1, <3>1, <3>3 DEF Shown, Times, InLists!Listed
  <2>5. /\ Passed = PassedBy(S, listReader.first, listReader.got, (listReader.page - 1) * PageSize)
        /\ Passed' = PassedBy(S2, listReader.first, listReader.got, (listReader.page - 1) * PageSize)
    BY <1>1 DEF Passed, PassedBy
  <2>6. (listReader.page - 1) * PageSize \in Nat
    BY <2>1, ListsPages DEF ListsInv, ListsTypes
  <2> DEFINE bound == (listReader.page - 1) * PageSize
  <2> HIDE DEF S, S2, bound
  <2>7. Passed' \in SUBSET Passed
    <3> SUFFICES ASSUME NEW a \in Passed' PROVE a \in Passed
      OBVIOUS
    <3>1. a \in S2 /\ a \in listReader.first \ listReader.got /\ TimeRank(S2, a) <= bound
      BY <2>5 DEF PassedBy, bound
    <3>2. a \in S
      BY <2>4, <3>1
    <3>3. TimeRank(S, a) \in Nat /\ TimeRank(S2, a) \in Nat /\ TimeRank(S, a) <= TimeRank(S2, a)
      BY <2>2, <2>3, ListsMore
    <3>4. TimeRank(S, a) <= bound
      BY <2>6, <3>1, <3>3 DEF bound
    <3> QED
      BY <2>5, <3>1, <3>2, <3>4 DEF PassedBy, bound
  <2>8. IsFiniteSet(Passed') /\ Cardinality(Passed') <= Cardinality(Passed)
    BY <2>1, <2>7, FS_Subset
  <2>9. Cardinality(Passed') \in Nat /\ Cardinality(Passed) \in Nat /\ listReader.left \in Nat
    BY <2>1, <2>8, FS_CardinalityType DEF ListsInv, ListsTypes
  <2> QED
    BY <2>1, <2>8, <2>9
<1> QED
  BY <1>4, <1>5, <1>6, <1>7 DEF ListsInv

(* A decision keeps it: a row leaves a list.                                *)
LEMMA ListsDecide ==
  ASSUME ListsInv, NEW row \in rows, InLists!Decide(row)
  PROVE  ListsInv'
<1> DEFINE new == [row EXCEPT !.status = "approved"]
           gone == listReader.page > 0 /\ row \in InLists!Listed(listReader.filter) /\ listReader.filter = "pending"
<1>1. /\ row.status = "pending" /\ rows' = (rows \ {row}) \cup {new} /\ listClock' = listClock
      /\ making' = making
      /\ listReader' = [listReader EXCEPT !.left = IF gone THEN listReader.left + 1 ELSE listReader.left]
      /\ row \in ListRows /\ rows \in SUBSET ListRows /\ IsFiniteSet(rows)
      /\ listReader \in [filter: {"all", "pending"}, page: Nat, first: SUBSET (1..MaxRows),
                     got: SUBSET (1..MaxRows), left: Nat]
  BY DEF InLists!Decide, ListsInv, ListsTypes
<1>2. new \in ListRows /\ new.at = row.at /\ new.owner = row.owner /\ new.status = "approved"
  BY <1>1 DEF ListRows
<1>3. /\ listReader'.filter = listReader.filter /\ listReader'.page = listReader.page
      /\ listReader'.first = listReader.first
      /\ listReader'.got = listReader.got
      /\ listReader'.left = (IF gone THEN listReader.left + 1 ELSE listReader.left)
      /\ listReader' \in [filter: {"all", "pending"}, page: Nat, first: SUBSET (1..MaxRows),
                      got: SUBSET (1..MaxRows), left: Nat]
  BY <1>1
<1> HIDE DEF new, gone
<1>4. ListsTypes'
  <2>1. IsFiniteSet((rows \ {row}) \cup {new})
    BY <1>1, FS_AddElement, FS_RemoveElement
  <2> QED
    BY <1>1, <1>2, <1>3, <2>1 DEF ListsInv, ListsTypes
<1>5. \A r \in rows' : \E s \in rows : s.at = r.at /\ s.owner = r.owner
  BY <1>1, <1>2
<1>6. \A s \in rows : \E r \in rows' : s.at = r.at /\ s.owner = r.owner
  BY <1>1, <1>2
<1>7. ListsApart'
  <2>1. Apart(rows)'
    BY <1>1, <1>2 DEF ListsInv, ListsApart, Apart
  <2>2. \A r \in rows' : r.at <= listClock'
    BY <1>1, <1>5 DEF ListsInv, ListsApart
  <2>3. ASSUME NEW v \in Writers, making'[v] # Nothing
        PROVE  /\ making'[v].at <= listClock' /\ making'[v].status = "pending"
               /\ \A r \in rows' : r.at # making'[v].at
               /\ \A u \in Writers : making'[u] # Nothing /\ making'[u].at = making'[v].at => u = v
    BY <1>1, <1>5, <2>3 DEF ListsInv, ListsApart
  <2> QED
    BY <2>1, <2>2, <2>3 DEF ListsApart
<1>8. ListsOwn'
  BY <1>3, <1>6 DEF ListsInv, ListsOwn
<1>9. ListsPassed'
  <2> SUFFICES ASSUME listReader.page > 0
               PROVE  listReader.page > 1 /\ IsFiniteSet(Passed') /\ Cardinality(Passed') <= listReader'.left
    BY <1>3 DEF ListsPassed
  <2>1. listReader.page > 1 /\ IsFiniteSet(Passed) /\ Cardinality(Passed) <= listReader.left
    BY DEF ListsInv, ListsPassed
  <2> DEFINE S == Shown
             S2 == Shown'
             bound == (listReader.page - 1) * PageSize
  <2>2. bound \in Nat
    BY <1>1, <2>1, ListsPages
  <2>3. Cardinality(Passed) \in Nat /\ listReader.left \in Nat
    BY <1>1, <2>1, FS_CardinalityType
  <2>4. /\ Passed = PassedBy(S, listReader.first, listReader.got, bound)
        /\ Passed' = PassedBy(S2, listReader.first, listReader.got, bound)
    BY <1>3 DEF Passed, PassedBy
  <2>5. S \in SUBSET Nat /\ IsFiniteSet(S)
    BY ListsListed DEF Shown
  <2>6. CASE gone
    <3>1. row \in InLists!Listed(listReader.filter) /\ listReader.filter = "pending" /\ row.at \in S
      BY <2>6 DEF gone, Shown, Times
    <3>2. InLists!Listed(listReader.filter)' = InLists!Listed(listReader.filter) \ {row}
      BY <1>1, <1>2, <1>3, <3>1 DEF InLists!Listed
    <3>3. S2 = Times(InLists!Listed(listReader.filter) \ {row})
      BY <3>2 DEF Shown, Times
    <3>4. Times(InLists!Listed(listReader.filter) \ {row}) = S \ {row.at}
      <4>1. Apart(InLists!Listed(listReader.filter))
        BY ListsListed
      <4> QED
        BY <3>1, <4>1 DEF Shown, Times, Apart
    <3> HIDE DEF S, S2, bound
    <3>5. IsFiniteSet(Passed') /\ Cardinality(Passed') <= Cardinality(Passed) + 1
      BY <2>2, <2>4, <2>5, <3>1, <3>3, <3>4, ListsLeave
    <3>6. Cardinality(Passed') \in Nat /\ listReader'.left = listReader.left + 1
      BY <1>3, <2>6, <3>5, FS_CardinalityType
    <3> QED
      BY <2>1, <2>3, <3>5, <3>6
  <2>7. CASE ~gone
    <3>1. S2 = S
      <4>1. row \in InLists!Listed(listReader.filter) => listReader.filter = "all"
        BY <1>1, <2>7 DEF gone
      <4>2. \A r \in InLists!Listed(listReader.filter)' : \E s \in InLists!Listed(listReader.filter) : s.at = r.at
        BY <1>1, <1>2, <1>3, <4>1 DEF InLists!Listed
      <4>3. \A s \in InLists!Listed(listReader.filter) : \E r \in InLists!Listed(listReader.filter)' : s.at = r.at
        BY <1>1, <1>2, <1>3, <4>1 DEF InLists!Listed
      <4>4. \A a \in S2 : a \in S
        BY <4>2 DEF Shown, Times
      <4>5. \A a \in S : a \in S2
        BY <4>3 DEF Shown, Times
      <4> QED
        BY <4>4, <4>5
    <3> HIDE DEF S, S2, bound
    <3>2. Passed' = Passed /\ listReader'.left = listReader.left
      BY <1>3, <2>4, <2>7, <3>1
    <3> QED
      BY <2>1, <3>2
  <2> QED
    BY <2>6, <2>7
<1> QED
  BY <1>4, <1>7, <1>8, <1>9 DEF ListsInv

(* The page adds to what has been got the times of its ranks.               *)
LEMMA ListsGot ==
  ASSUME ListsInv, NEW filter, NEW p \in Nat, p >= 1
  PROVE  LET page == InLists!Page(InLists!Newest(InLists!Listed(filter)), p) IN
         {page[n].at : n \in DOMAIN page} =
           {a \in Times(InLists!Listed(filter)) : /\ TimeRank(Times(InLists!Listed(filter)), a) > (p - 1) * PageSize
                                                  /\ TimeRank(Times(InLists!Listed(filter)), a) <= p * PageSize}
<1>1. /\ InLists!Listed(filter) \in SUBSET ListRows /\ IsFiniteSet(InLists!Listed(filter))
      /\ Apart(InLists!Listed(filter))
  BY ListsListed
<1> DEFINE T == InLists!Listed(filter)
<1> HIDE DEF T
<1>2. /\ T \in SUBSET ListRows /\ IsFiniteSet(T) /\ Apart(T)
  BY <1>1 DEF T
<1>3. LET page == InLists!Page(InLists!Newest(T), p) IN
      {page[n].at : n \in DOMAIN page} =
        {a \in Times(T) : TimeRank(Times(T), a) > (p - 1) * PageSize /\ TimeRank(Times(T), a) <= p * PageSize}
  BY <1>2, ListsPage
<1> QED
  BY <1>3 DEF T

(* A first page keeps it.                                                   *)
LEMMA ListsOpen ==
  ASSUME ListsInv, NEW filter \in Filters, InLists!Open(filter)
  PROVE  ListsInv'
<1> DEFINE S == Times(InLists!Listed(filter))
           page == InLists!Page(InLists!Newest(InLists!Listed(filter)), 1)
           seen == {page[n].at : n \in DOMAIN page}
<1>1. /\ listReader' = [filter |-> filter, page |-> 2, left |-> 0, first |-> S, got |-> seen]
      /\ listClock' = listClock /\ making' = making /\ rows' = rows
  BY DEF InLists!Open, Times
<1>2. seen = {a \in S : TimeRank(S, a) > (1 - 1) * PageSize /\ TimeRank(S, a) <= 1 * PageSize}
  BY ListsGot
<1>3. S \in SUBSET Nat /\ S \in SUBSET (1..MaxRows) /\ IsFiniteSet(S)
  BY ListsListed
<1>4. \A a \in S : \E row \in rows : row.at = a /\ row.owner = Reader
  BY DEF Times, InLists!Listed
<1>5. Shown' = S
  BY <1>1 DEF Shown, Times, InLists!Listed
<1> HIDE DEF S, seen
<1>6. /\ listReader'.filter = filter /\ listReader'.page = 2 /\ listReader'.left = 0
      /\ listReader'.first = S
      /\ listReader'.got = seen /\ seen \in SUBSET S
  BY <1>1, <1>2
<1>7. ListsTypes'
  <2>1. filter \in {"all", "pending"} /\ S \in SUBSET (1..MaxRows) /\ seen \in SUBSET (1..MaxRows)
    BY <1>3, <1>6, ListsAssumption
  <2>2. listReader' \in [filter: {"all", "pending"}, page: Nat, first: SUBSET (1..MaxRows),
                     got: SUBSET (1..MaxRows), left: Nat]
    BY <1>1, <2>1
  <2> QED
    BY <1>1, <2>2 DEF ListsInv, ListsTypes
<1>8. ListsApart'
  BY <1>1 DEF ListsInv, ListsApart, Apart
<1>9. ListsOwn'
  BY <1>1, <1>4, <1>6 DEF ListsOwn
<1>10. ListsPassed'
  <2>1. \A a \in S : TimeRank(S, a) \in Nat /\ TimeRank(S, a) >= 1
    <3>1. \A a \in S : TimeRank(S, a) \in 1..Cardinality(S)
      BY <1>3, ListsRank
    <3>2. Cardinality(S) \in Nat
      BY <1>3, FS_CardinalityType
    <3> QED
      BY <3>1, <3>2
  <2>2. (1 - 1) * PageSize = 0 /\ 1 * PageSize = PageSize /\ (2 - 1) * PageSize = PageSize
    BY ListsAssumption
  <2>3. PassedBy(S, S, seen, PageSize) = {}
    BY <1>2, <2>1, <2>2 DEF PassedBy
  <2>4. Passed' = {}
    BY <1>5, <1>6, <2>2, <2>3 DEF Passed
  <2>5. IsFiniteSet({}) /\ Cardinality({}) = 0
    BY FS_EmptySet
  <2> QED
    BY <1>6, <2>4, <2>5 DEF ListsPassed
<1> QED
  BY <1>7, <1>8, <1>9, <1>10 DEF ListsInv

(* A page keeps it.                                                         *)
LEMMA ListsTurn ==
  ASSUME ListsInv, InLists!Turn
  PROVE  ListsInv'
<1> DEFINE S == Times(InLists!Listed(listReader.filter))
           page == InLists!Page(InLists!Newest(InLists!Listed(listReader.filter)), listReader.page)
           seen == {page[n].at : n \in DOMAIN page}
           mid == [listReader EXCEPT !.page = listReader.page + 1]
<1>1. /\ listReader.page > 0 /\ listClock' = listClock /\ making' = making /\ rows' = rows
      /\ listReader' = [listReader EXCEPT !.page = listReader.page + 1, !.got = listReader.got \cup seen]
  BY DEF InLists!Turn
<1>2. listReader \in [filter: {"all", "pending"}, page: Nat, first: SUBSET (1..MaxRows),
                  got: SUBSET (1..MaxRows), left: Nat]
  BY DEF ListsInv, ListsTypes
<1>3. listReader.page > 1 /\ IsFiniteSet(Passed) /\ Cardinality(Passed) <= listReader.left /\ listReader.page \in Nat
  BY <1>1, <1>2 DEF ListsInv, ListsPassed
<1>4. seen = {a \in S : TimeRank(S, a) > (listReader.page - 1) * PageSize /\ TimeRank(S, a) <= listReader.page * PageSize}
  BY <1>3, ListsGot
<1>5. S \in SUBSET Nat /\ S \in SUBSET (1..MaxRows) /\ IsFiniteSet(S)
  BY ListsListed
<1>6. \A a \in S : \E row \in rows : row.at = a /\ row.owner = Reader
  BY DEF Times, InLists!Listed
<1> HIDE DEF seen
<1>7. /\ listReader'.filter = listReader.filter /\ listReader'.page = listReader.page + 1
      /\ listReader'.left = listReader.left
      /\ listReader'.first = listReader.first /\ listReader'.got = listReader.got \cup seen
      /\ seen \in SUBSET S
  BY <1>1, <1>2, <1>4
<1>8. Shown' = S /\ Shown = S
  BY <1>1, <1>7 DEF Shown, Times, InLists!Listed
<1> HIDE DEF S
<1>9. ListsTypes'
  <2>1. listReader.page + 1 \in Nat /\ listReader.got \in SUBSET (1..MaxRows) /\ seen \in SUBSET (1..MaxRows)
    BY <1>2, <1>3, <1>5, <1>7
  <2>2. listReader' \in [filter: {"all", "pending"}, page: Nat, first: SUBSET (1..MaxRows),
                     got: SUBSET (1..MaxRows), left: Nat]
    BY <1>1, <1>2, <2>1
  <2> QED
    BY <1>1, <2>2 DEF ListsInv, ListsTypes
<1>10. ListsApart'
  BY <1>1 DEF ListsInv, ListsApart, Apart
<1>11. ListsOwn'
  BY <1>1, <1>6, <1>7 DEF ListsInv, ListsOwn
<1>12. ListsPassed'
  <2> DEFINE before == (listReader.page - 1) * PageSize
             after == listReader.page * PageSize
  <2>2. /\ Passed = PassedBy(S, listReader.first, listReader.got, before)
        /\ Passed' = PassedBy(S, listReader.first, listReader.got \cup seen, after)
    <3>1. Passed' = PassedBy(Shown', listReader'.first, listReader'.got, (listReader'.page - 1) * PageSize)
      BY DEF Passed, PassedBy
    <3>2. Passed = PassedBy(Shown, listReader.first, listReader.got, (listReader.page - 1) * PageSize)
      BY DEF Passed
    <3>3. (listReader'.page - 1) * PageSize = after
      <4>1. listReader'.page - 1 = listReader.page
        BY <1>3, <1>7
      <4> QED
        BY <4>1
    <3> HIDE DEF after
    <3> QED
      BY <1>7, <1>8, <3>1, <3>2, <3>3
  <2>3. before \in Nat /\ after = before + PageSize
    BY <1>3, ListsPages
  <2>4. \A a \in S : TimeRank(S, a) \in Nat
    <3>1. S \in SUBSET S
      OBVIOUS
    <3> QED
      BY <1>5, <3>1, ListsMore
  <2>5. seen = {a \in S : TimeRank(S, a) > before /\ TimeRank(S, a) <= after}
    BY <1>4
  <2> HIDE DEF before, after
  <2>6. Passed' \in SUBSET Passed
    BY <2>2, <2>3, <2>4, <2>5 DEF PassedBy
  <2>7. IsFiniteSet(Passed') /\ Cardinality(Passed') <= Cardinality(Passed)
    BY <1>3, <2>6, FS_Subset
  <2>8. Cardinality(Passed') \in Nat /\ Cardinality(Passed) \in Nat
    BY <1>3, <2>7, FS_CardinalityType
  <2> QED
    BY <1>2, <1>3, <1>7, <2>7, <2>8 DEF ListsPassed
<1> QED
  BY <1>9, <1>10, <1>11, <1>12 DEF ListsInv

(* Every step of the lists keeps it.                                        *)
LEMMA ListsNext == ListsInv /\ [InLists!Next]_InLists!vars => ListsInv'
<1> SUFFICES ASSUME ListsInv, [InLists!Next]_InLists!vars PROVE ListsInv'
  OBVIOUS
<1>1. CASE UNCHANGED InLists!vars
  <2>1. listClock' = listClock /\ making' = making /\ rows' = rows /\ listReader' = listReader
    BY <1>1 DEF InLists!vars
  <2>2. Passed' = Passed
    BY <2>1 DEF Passed, Shown, InLists!Listed
  <2> QED
    BY <2>1, <2>2 DEF ListsInv, ListsTypes, ListsApart, Apart, ListsOwn, ListsPassed
<1> QED
  BY <1>1, ListsMake, ListsCommit, ListsDecide, ListsOpen, ListsTurn DEF InLists!Next

(* At the end all ranks have been passed.                                   *)
LEMMA ListsMet == ListsInv => InLists!TypeOK /\ InLists!MissedAsDecided /\ InLists!ShownOpens
<1> SUFFICES ASSUME ListsInv PROVE InLists!TypeOK /\ InLists!MissedAsDecided /\ InLists!ShownOpens
  OBVIOUS
<1>1. /\ listReader \in [filter: {"all", "pending"}, page: Nat, first: SUBSET (1..MaxRows),
                     got: SUBSET (1..MaxRows), left: Nat]
      /\ \A w \in Writers : making[w] # Nothing => making[w] \in ListRows
  BY DEF ListsInv, ListsTypes
<1>2. InLists!TypeOK
  BY <1>1 DEF ListsInv, ListsTypes, InLists!TypeOK, ListRows
<1>3. InLists!ShownOpens
  BY DEF ListsInv, ListsOwn, ListsApart, Apart, InLists!ShownOpens, InLists!Opens
<1>4. InLists!MissedAsDecided
  <2> SUFFICES ASSUME InLists!AtEnd
               PROVE  Cardinality({row \in InLists!Listed(listReader.filter) : row.at \in listReader.first \ listReader.got})
                        <= listReader.left
    BY CardinalitiesAgree DEF InLists!MissedAsDecided
  <2> DEFINE T == InLists!Listed(listReader.filter)
             S == Times(T)
             missed == {row \in T : row.at \in listReader.first \ listReader.got}
             bound == (listReader.page - 1) * PageSize
  <2>1. listReader.page > 1 /\ bound >= Cardinality(T)
    BY CardinalitiesAgree DEF InLists!AtEnd
  <2>2. IsFiniteSet(Passed) /\ Cardinality(Passed) <= listReader.left
    BY <1>1, <2>1 DEF ListsInv, ListsPassed
  <2>3. T \in SUBSET ListRows /\ IsFiniteSet(T) /\ Apart(T) /\ S \in SUBSET Nat /\ IsFiniteSet(S)
    BY ListsListed
  <2>4. Cardinality(S) = Cardinality(T)
    BY <2>3, ListsTimes
  <2>5. bound \in Nat
    BY <1>1, <2>1, ListsPages
  <2>6. Passed = PassedBy(S, listReader.first, listReader.got, bound)
    BY DEF Passed, Shown
  <2>7. Times(missed) = {a \in S : a \in listReader.first \ listReader.got}
    BY DEF Times
  <2>8. missed \in SUBSET T
    OBVIOUS
  <2> HIDE DEF T, S, missed, bound
  <2>9. \A a \in S : TimeRank(S, a) <= bound
    <3>1. Cardinality(S) \in Nat /\ \A a \in S : TimeRank(S, a) \in 1..Cardinality(S)
      BY <2>3, ListsRank
    <3> QED
      BY <2>1, <2>4, <2>5, <3>1
  <2>10. Passed = Times(missed)
    BY <2>6, <2>7, <2>9 DEF PassedBy
  <2>11. IsFiniteSet(missed) /\ Apart(missed) /\ missed \in SUBSET ListRows
    BY <2>3, <2>8, FS_Subset DEF Apart
  <2>12. Cardinality(Times(missed)) = Cardinality(missed)
    BY <2>11, ListsTimes
  <2> QED
    BY <2>2, <2>10, <2>12 DEF missed, T
<1> QED
  BY <1>2, <1>3, <1>4

(***************************************************************************)
(* Retrieval and its log.                                                  *)
(***************************************************************************)
(* The results of a query, and the rows of the log, which are answers too.  *)
Results == Errors \cup {"success"}
RetrievalRows == [at: 1..MaxLog, result: Results, count: Nat]
RetrievalFound ==
  [at: {"found"}, stamp: 1..MaxLog, result: Results, top: Nat,
   score: [Chunks -> InRetrieval!Scores] \cup {Nothing}, hits: Seq(Chunks)]
RetrievalCommitted == [at: {"committed"}, stamp: 1..MaxLog, result: Results, count: Nat]
Sorted(hits, score) == \A m, n \in DOMAIN hits : m < n => score[hits[m]] >= score[hits[n]]
RowOf(c) == [at |-> c.stamp, result |-> c.result, count |-> c.count]

RetrievalTypes ==
  /\ reranker \in BOOLEAN /\ clock \in 0..MaxLog
  /\ call \in [Requests -> {InRetrieval!Idle} \cup RetrievalFound \cup RetrievalCommitted]
  /\ log \in SUBSET RetrievalRows /\ IsFiniteSet(log) /\ \A row \in log : row.at <= clock
  /\ answers \in SUBSET log
  /\ reader \in [page: Nat, first: SUBSET log, got: SUBSET log]

(* What is found is as many chunks as asked for at most, each once and in   *)
(* the order of the scores; what is committed has its row.                  *)
RetrievalCalls ==
  \A r \in Requests :
    /\ call[r].at = "found" =>
         /\ call[r].stamp <= clock
         /\ Len(call[r].hits) <= call[r].top /\ InRetrieval!Distinct(call[r].hits)
         /\ reranker /\ call[r].result = "success" => Sorted(call[r].hits, call[r].score)
    /\ call[r].at = "committed" => RowOf(call[r]) \in log

(* What was there at first and has not been shown has its place after the   *)
(* pages so far.                                                            *)
RetrievalPassed ==
  /\ reader.page # 1
  /\ reader.page > 1 =>
       \A row \in reader.first \ reader.got : InRetrieval!Place(row) > (reader.page - 1) * PageSize

RetrievalInv == RetrievalTypes /\ RetrievalCalls /\ RetrievalPassed

(* Reranking gives the same chunks, the better ones first.                  *)
LEMMA RetrievalReranked ==
  ASSUME NEW N \in Nat, NEW hits \in [1..N -> Chunks], InRetrieval!Distinct(hits),
         NEW score \in [Chunks -> InRetrieval!Scores]
  PROVE  /\ InRetrieval!Rerank(hits, score) \in [1..N -> Chunks]
         /\ InRetrieval!Distinct(InRetrieval!Rerank(hits, score))
         /\ Sorted(InRetrieval!Rerank(hits, score), score)
<1> DEFINE D == 1..N
           A == [m \in D |-> InRetrieval!Before(hits, score, m)]
<1>1. D = DOMAIN hits /\ IsFiniteSet(D) /\ Cardinality(D) = N
  BY FS_Interval
<1>2. \A m \in D : score[hits[m]] \in Int
  BY DEF InRetrieval!Scores
<1>3. \A k, m \in D : k \in A[m] <=> \/ score[hits[k]] > score[hits[m]]
                                     \/ score[hits[k]] = score[hits[m]] /\ k <= m
  BY DEF InRetrieval!Before
<1>4. A \in [D -> SUBSET D]
  BY DEF InRetrieval!Before
<1>5. \A m \in D : Cardinality(A[m]) = InRetrieval!RankOf(hits, score, m)
  BY CardinalitiesAgree DEF InRetrieval!RankOf
<1> HIDE DEF A, D
<1>6. \A m \in D : m \in Int
  BY DEF D
<1>7. \A m \in D : m \in A[m]
  BY <1>2, <1>3, <1>6
<1>8. ASSUME NEW k \in D, NEW m \in D, k # m
      PROVE  \/ A[k] \subseteq A[m] /\ m \notin A[k]
             \/ A[m] \subseteq A[k] /\ k \notin A[m]
  <2>1. ASSUME NEW i \in D, NEW j \in D, j \notin A[i] PROVE A[i] \subseteq A[j]
    <3> SUFFICES ASSUME NEW x \in A[i] PROVE x \in A[j]
      OBVIOUS
    <3>1. x \in D
      BY <1>4
    <3> QED
      BY <1>2, <1>3, <1>6, <2>1, <3>1
  <2>2. m \notin A[k] \/ k \notin A[m]
    BY <1>2, <1>3, <1>6, <1>8
  <2> QED
    BY <2>1, <2>2
<1>9. /\ \A m \in D : Cardinality(A[m]) \in 1..N
      /\ \A k, m \in D : k \in A[m] => Cardinality(A[k]) <= Cardinality(A[m])
      /\ \A n \in 1..N : \E m \in D : Cardinality(A[m]) = n
  <2>1. IsFiniteSet(D) /\ A \in [D -> SUBSET D] /\ Cardinality(D) = N
    BY <1>1, <1>4
  <2>2. /\ \A m \in D : Cardinality(A[m]) \in 1..Cardinality(D)
        /\ \A k, m \in D : k \in A[m] => Cardinality(A[k]) <= Cardinality(A[m])
        /\ \A n \in 1..Cardinality(D) : \E m \in D : Cardinality(A[m]) = n
    <3>1. \A k, m \in D : k # m => \/ A[k] \subseteq A[m] /\ m \notin A[k]
                                   \/ A[m] \subseteq A[k] /\ k \notin A[m]
      BY <1>8
    <3> QED
      BY <1>7, <2>1, <3>1, OrderPlaces
  <2> QED
    BY <2>1, <2>2
<1>10. \A n \in 1..N : \E m \in D : InRetrieval!RankOf(hits, score, m) = n
  BY <1>5, <1>9
<1> DEFINE place(n) == CHOOSE m \in D : InRetrieval!RankOf(hits, score, m) = n
<1>11. \A n \in D : place(n) \in D /\ InRetrieval!RankOf(hits, score, place(n)) = n
  BY <1>10 DEF D
<1>12. InRetrieval!Rerank(hits, score) = [n \in D |-> hits[place(n)]]
  BY <1>1 DEF InRetrieval!Rerank
<1> HIDE DEF place
<1>13. InRetrieval!Rerank(hits, score) \in [1..N -> Chunks]
  <2>1. \A n \in D : hits[place(n)] \in Chunks
    BY <1>11 DEF D
  <2> QED
    BY <1>12, <2>1 DEF D
<1>14. DOMAIN InRetrieval!Rerank(hits, score) = D /\ \A n \in D : InRetrieval!Rerank(hits, score)[n] = hits[place(n)]
  BY <1>12
<1>15. InRetrieval!Distinct(InRetrieval!Rerank(hits, score))
  <2> SUFFICES ASSUME NEW m \in D, NEW n \in D, hits[place(m)] = hits[place(n)] PROVE n = m
    BY <1>14 DEF InRetrieval!Distinct
  <2>1. place(m) = place(n)
    BY <1>1, <1>11 DEF InRetrieval!Distinct
  <2> QED
    BY <1>11, <2>1
<1>16. Sorted(InRetrieval!Rerank(hits, score), score)
  <2> SUFFICES ASSUME NEW m \in D, NEW n \in D,
                      m < n PROVE score[hits[place(m)]] >= score[hits[place(n)]]
    BY <1>14 DEF Sorted
  <2>1. place(m) \in D /\ place(n) \in D
    BY <1>11
  <2>2. Cardinality(A[place(m)]) = m /\ Cardinality(A[place(n)]) = n
    BY <1>5, <1>11, <2>1
  <2>3. place(n) \notin A[place(m)]
    BY <1>6, <1>9, <2>1, <2>2
  <2> QED
    BY <1>2, <1>3, <2>1, <2>3
<1> QED
  BY <1>13, <1>15, <1>16

(* A query finds a sequence of chunks, each once, and in order.             *)
LEMMA RetrievalFinds ==
  ASSUME NEW top \in 1..MaxTop, NEW hits \in InRetrieval!Searches(top),
         NEW score \in [Chunks -> InRetrieval!Scores]
  PROVE  /\ hits \in Seq(Chunks) /\ Len(hits) <= top /\ InRetrieval!Distinct(hits)
         /\ InRetrieval!Rerank(hits, score) \in Seq(Chunks)
         /\ Len(InRetrieval!Rerank(hits, score)) <= top
         /\ InRetrieval!Distinct(InRetrieval!Rerank(hits, score))
         /\ Sorted(InRetrieval!Rerank(hits, score), score)
<1>1. top \in Nat /\ InRetrieval!Distinct(hits)
  BY RetrievalAssumption DEF InRetrieval!Searches
<1>2. PICK n \in 0..top : hits \in [1..n -> Chunks]
  BY DEF InRetrieval!Searches
<1>3. n \in Nat /\ n <= top
  BY <1>1
<1>4. hits \in Seq(Chunks) /\ Len(hits) <= top
  BY <1>2, <1>3
<1>5. /\ InRetrieval!Rerank(hits, score) \in [1..n -> Chunks]
      /\ InRetrieval!Distinct(InRetrieval!Rerank(hits, score))
      /\ Sorted(InRetrieval!Rerank(hits, score), score)
  BY <1>1, <1>2, <1>3, RetrievalReranked
<1>6. InRetrieval!Rerank(hits, score) \in Seq(Chunks) /\ Len(InRetrieval!Rerank(hits, score)) <= top
  BY <1>3, <1>5
<1> QED
  BY <1>1, <1>4, <1>5, <1>6

(* A row that comes later does not bring another one forward.               *)
LEMMA RetrievalPlaces ==
  ASSUME IsFiniteSet(log), IsFiniteSet(log'), log \subseteq log', NEW row
  PROVE  InRetrieval!Place(row) \in Nat /\ InRetrieval!Place(row)' \in Nat /\ InRetrieval!Place(row)' >= InRetrieval!Place(row)
<1> DEFINE U == {other \in log : other.at > row.at}
           V == {other \in log' : other.at > row.at}
<1>1. U \subseteq V /\ V \subseteq log'
  OBVIOUS
<1>2. InRetrieval!Place(row) = Cardinality(U) + 1
  BY CardinalitiesAgree DEF InRetrieval!Place
<1>3. InRetrieval!Place(row)' = Cardinality(V) + 1
  BY CardinalitiesAgree DEF InRetrieval!Place
<1> HIDE DEF U, V
<1>4. IsFiniteSet(V)
  BY <1>1, FS_Subset
<1>5. IsFiniteSet(U) /\ Cardinality(U) <= Cardinality(V)
  BY <1>1, <1>4, FS_Subset
<1>6. Cardinality(U) \in Nat /\ Cardinality(V) \in Nat
  BY <1>4, <1>5, FS_CardinalityType
<1> QED
  BY <1>2, <1>3, <1>5, <1>6

(* The invariant of retrieval holds at the start.                           *)
LEMMA RetrievalInit == InRetrieval!Init => RetrievalInv
<1> SUFFICES ASSUME InRetrieval!Init PROVE RetrievalInv
  OBVIOUS
<1>1. RetrievalTypes
  <2>1. IsFiniteSet({})
    BY FS_EmptySet
  <2>2. reader \in [page: Nat, first: SUBSET log, got: SUBSET log]
    BY DEF InRetrieval!Init
  <2>3. call \in [Requests -> {InRetrieval!Idle} \cup RetrievalFound \cup RetrievalCommitted]
    BY DEF InRetrieval!Init
  <2>4. clock \in 0..MaxLog
    BY RetrievalAssumption DEF InRetrieval!Init
  <2> QED
    BY <2>1, <2>2, <2>3, <2>4 DEF InRetrieval!Init, RetrievalTypes
<1>2. RetrievalCalls
  BY DEF InRetrieval!Init, RetrievalCalls, InRetrieval!Idle
<1>3. RetrievalPassed
  BY DEF InRetrieval!Init, RetrievalPassed
<1> QED
  BY <1>1, <1>2, <1>3 DEF RetrievalInv

(* A request finds something, or fails.                                     *)
LEMMA RetrievalFoundKept ==
  ASSUME RetrievalInv, NEW r \in Requests, NEW result \in Results, NEW top \in Nat,
         NEW score \in [Chunks -> InRetrieval!Scores] \cup {Nothing}, NEW hits \in Seq(Chunks),
         Len(hits) <= top, InRetrieval!Distinct(hits), reranker /\ result = "success" =>
           Sorted(hits, score),
         InRetrieval!Found(r, result, top, score, hits)
  PROVE  RetrievalInv'
<1> DEFINE new == [at |-> "found", stamp |-> clock + 1, result |-> result,
                   top |-> top, score |-> score, hits |-> hits]
<1>1. /\ clock \in 0..MaxLog /\ clock < MaxLog /\ clock' = clock + 1
      /\ clock + 1 \in 1..MaxLog /\ clock + 1 \in 0..MaxLog /\ MaxLog \in Nat
  BY RetrievalAssumption DEF RetrievalInv, RetrievalTypes, InRetrieval!Found
<1>2. /\ call' = [call EXCEPT ![r] = new]
      /\ reranker' = reranker /\ log' = log /\ answers' = answers /\ reader' = reader
  BY DEF InRetrieval!Found
<1>3. new \in RetrievalFound
  BY <1>1 DEF RetrievalFound
<1>4. /\ new.at = "found" /\ new.stamp = clock + 1 /\ new.result = result
      /\ new.top = top /\ new.score = score /\ new.hits = hits
  OBVIOUS
<1> HIDE DEF new
<1>5. /\ call' \in [Requests -> {InRetrieval!Idle} \cup RetrievalFound \cup RetrievalCommitted]
      /\ \A s \in Requests : call'[s] = IF s = r THEN new ELSE call[s]
  BY <1>2, <1>3 DEF RetrievalInv, RetrievalTypes
<1>6. RetrievalTypes'
  <2>1. \A row \in log : row.at <= clock /\ row.at \in Int
    BY <1>1 DEF RetrievalInv, RetrievalTypes, RetrievalRows
  <2>2. \A row \in log' : row.at <= clock'
    BY <1>1, <1>2, <2>1
  <2>3. /\ log' \in SUBSET RetrievalRows /\ IsFiniteSet(log') /\ answers' \in SUBSET log'
        /\ reader' \in [page: Nat, first: SUBSET log', got: SUBSET log'] /\ reranker' \in BOOLEAN
    BY <1>2 DEF RetrievalInv, RetrievalTypes
  <2> QED
    BY <1>1, <1>5, <2>2, <2>3 DEF RetrievalTypes
<1>7. RetrievalCalls'
  <2>1. ASSUME NEW s \in Requests
        PROVE  /\ call'[s].at = "found" =>
                    /\ call'[s].stamp <= clock'
                    /\ Len(call'[s].hits) <= call'[s].top /\ InRetrieval!Distinct(call'[s].hits)
                    /\ reranker' /\ call'[s].result = "success" =>
                         Sorted(call'[s].hits, call'[s].score)
               /\ call'[s].at = "committed" => RowOf(call'[s]) \in log'
    <3>1. CASE s = r
      BY <1>1, <1>2, <1>4, <1>5, <3>1
    <3>2. CASE s # r
      <4>1. call'[s] = call[s]
        BY <1>5, <3>2
      <4>2. call[s].at = "found" => call[s].stamp \in Int
        BY DEF RetrievalInv, RetrievalTypes, RetrievalFound, RetrievalCommitted, InRetrieval!Idle
      <4> QED
        BY <1>1, <1>2, <4>1, <4>2 DEF RetrievalInv, RetrievalCalls
    <3> QED
      BY <3>1, <3>2
  <2> QED
    BY <2>1 DEF RetrievalCalls
<1>8. RetrievalPassed'
  BY <1>2 DEF RetrievalInv, RetrievalPassed, InRetrieval!Place
<1> QED
  BY <1>6, <1>7, <1>8 DEF RetrievalInv

(* Every step of retrieval and of a reader keeps it.                        *)
LEMMA RetrievalNext == RetrievalInv /\ [InRetrieval!Next]_InRetrieval!vars => RetrievalInv'
<1> SUFFICES ASSUME RetrievalInv, [InRetrieval!Next]_InRetrieval!vars PROVE RetrievalInv'
  OBVIOUS
<1>0. /\ reranker \in BOOLEAN /\ clock \in 0..MaxLog
      /\ call \in [Requests -> {InRetrieval!Idle} \cup RetrievalFound \cup RetrievalCommitted]
      /\ log \in SUBSET RetrievalRows /\ IsFiniteSet(log)
      /\ answers \in SUBSET log
      /\ reader \in [page: Nat, first: SUBSET log, got: SUBSET log]
  BY DEF RetrievalInv, RetrievalTypes
<1>1. ASSUME NEW r \in Requests, NEW top \in 1..MaxTop,
             InRetrieval!Retrieve(r, top) PROVE RetrievalInv'
  <2>1. top \in Nat /\ "success" \in Results
    BY RetrievalAssumption DEF Results
  <2>2. CASE reranker
    <3>1. PICK hits \in InRetrieval!Searches(top) :
            \E score \in [Chunks -> InRetrieval!Scores] : InRetrieval!Found(r, "success", top, score, InRetrieval!Rerank(hits, score))
      BY <1>1, <2>2 DEF InRetrieval!Retrieve
    <3>2. PICK score \in [Chunks -> InRetrieval!Scores] : InRetrieval!Found(r, "success", top, score, InRetrieval!Rerank(hits, score))
      BY <3>1
    <3>3. /\ InRetrieval!Rerank(hits, score) \in Seq(Chunks)
          /\ Len(InRetrieval!Rerank(hits, score)) <= top
          /\ InRetrieval!Distinct(InRetrieval!Rerank(hits, score))
          /\ Sorted(InRetrieval!Rerank(hits, score), score)
      BY RetrievalFinds
    <3> QED
      BY <2>1, <3>2, <3>3, RetrievalFoundKept
  <2>3. CASE ~reranker
    <3>1. PICK hits \in InRetrieval!Searches(top) : InRetrieval!Found(r, "success", top, Nothing, hits)
      BY <1>1, <2>3 DEF InRetrieval!Retrieve
    <3>2. [c \in Chunks |-> 0] \in [Chunks -> InRetrieval!Scores]
      BY DEF InRetrieval!Scores
    <3>3. hits \in Seq(Chunks) /\ Len(hits) <= top /\ InRetrieval!Distinct(hits)
      BY <3>2, RetrievalFinds
    <3> QED
      BY <2>1, <2>3, <3>1, <3>3, RetrievalFoundKept
  <2> QED
    BY <2>2, <2>3
<1>2. ASSUME NEW r \in Requests, NEW error \in Errors,
             InRetrieval!Fails(r, error) PROVE RetrievalInv'
  <2>1. /\ <<>> \in Seq(Chunks) /\ Len(<<>>) = 0 /\ DOMAIN <<>> = {}
        /\ error \in Results /\ Nothing \in [Chunks -> InRetrieval!Scores] \cup {Nothing}
        /\ 0 \in Nat
    BY DEF Results
  <2>2. Len(<<>>) <= 0 /\ InRetrieval!Distinct(<<>>) /\ Sorted(<<>>, Nothing)
    BY <2>1 DEF InRetrieval!Distinct, Sorted
  <2>3. InRetrieval!Found(r, error, 0, Nothing, <<>>)
    BY <1>2 DEF InRetrieval!Fails
  <2> QED
    BY <2>1, <2>2, <2>3, RetrievalFoundKept
<1>3. ASSUME NEW r \in Requests, InRetrieval!Commit(r) PROVE RetrievalInv'
  <2> DEFINE row == [at |-> call[r].stamp, result |-> call[r].result, count |-> Len(call[r].hits)]
             new == [at |-> "committed", stamp |-> call[r].stamp,
                     result |-> call[r].result, count |-> Len(call[r].hits)]
  <2>1. /\ call' = [call EXCEPT ![r] = new] /\ log' = log \cup {row} /\ call[r].at = "found"
        /\ reranker' = reranker /\ clock' = clock /\ answers' = answers /\ reader' = reader
    BY <1>3 DEF InRetrieval!Commit, InRetrieval!RowsOf
  <2>2. call[r] \in RetrievalFound /\ call[r].stamp <= clock
    <3>1. call[r] \in {InRetrieval!Idle} \cup RetrievalFound \cup RetrievalCommitted
      BY <1>0
    <3>2. call[r] \in RetrievalFound
      BY <2>1, <3>1 DEF InRetrieval!Idle, RetrievalCommitted
    <3> QED
      BY <2>1, <3>2 DEF RetrievalInv, RetrievalCalls
  <2>3. Len(call[r].hits) \in Nat /\ call[r].stamp \in 1..MaxLog /\ call[r].result \in Results
    BY <2>2, LenProperties DEF RetrievalFound
  <2>4. new \in RetrievalCommitted /\ row \in RetrievalRows /\ row.at <= clock
    BY <2>2, <2>3 DEF RetrievalCommitted, RetrievalRows
  <2>5. new.at = "committed" /\ RowOf(new) = row
    BY DEF RowOf
  <2> HIDE DEF row, new
  <2>6. /\ call' \in [Requests -> {InRetrieval!Idle} \cup RetrievalFound \cup RetrievalCommitted]
        /\ \A s \in Requests : call'[s] = IF s = r THEN new ELSE call[s]
    BY <1>0, <2>1, <2>4
  <2>7. IsFiniteSet(log') /\ log \subseteq log'
    BY <1>0, <2>1, FS_AddElement
  <2>8. RetrievalTypes'
    <3>1. \A other \in log' : other.at <= clock'
      BY <2>1, <2>4 DEF RetrievalInv, RetrievalTypes
    <3>2. reader' \in [page: Nat, first: SUBSET log', got: SUBSET log']
      BY <1>0, <2>1, <2>7
    <3>3. log' \in SUBSET RetrievalRows /\ answers' \in SUBSET log'
      BY <1>0, <2>1, <2>4
    <3> QED
      BY <1>0, <2>1, <2>6, <2>7, <3>1, <3>2, <3>3 DEF RetrievalTypes
  <2>9. RetrievalCalls'
    <3>1. ASSUME NEW s \in Requests
          PROVE  /\ call'[s].at = "found" =>
                      /\ call'[s].stamp <= clock'
                      /\ Len(call'[s].hits) <= call'[s].top /\ InRetrieval!Distinct(call'[s].hits)
                      /\ reranker' /\ call'[s].result = "success" =>
                           Sorted(call'[s].hits, call'[s].score)
                 /\ call'[s].at = "committed" => RowOf(call'[s]) \in log'
      <4>1. CASE s = r
        BY <2>1, <2>5, <2>6, <4>1
      <4>2. CASE s # r
        BY <2>1, <2>6, <2>7, <4>2 DEF RetrievalInv, RetrievalCalls
      <4> QED
        BY <4>1, <4>2
    <3> QED
      BY <3>1 DEF RetrievalCalls
  <2>10. RetrievalPassed'
    <3>1. reader.page # 1 /\ reader.page \in Nat
      BY <1>0 DEF RetrievalInv, RetrievalPassed
    <3>2. ASSUME reader.page > 1, NEW other \in reader.first \ reader.got
          PROVE  InRetrieval!Place(other)' > (reader.page - 1) * PageSize
      <4>1. InRetrieval!Place(other) > (reader.page - 1) * PageSize
        BY <3>2 DEF RetrievalInv, RetrievalPassed
      <4>2. InRetrieval!Place(other) \in Nat /\ InRetrieval!Place(other)' \in Nat /\ InRetrieval!Place(other)' >= InRetrieval!Place(other)
        BY <1>0, <2>7, RetrievalPlaces
      <4>3. (reader.page - 1) * PageSize \in Int
        BY <3>1, RetrievalAssumption
      <4> QED
        BY <4>1, <4>2, <4>3
    <3> QED
      BY <2>1, <3>1, <3>2 DEF RetrievalPassed
  <2> QED
    BY <2>8, <2>9, <2>10 DEF RetrievalInv
<1>4. ASSUME NEW r \in Requests, InRetrieval!Answer(r) \/ InRetrieval!Break(r) PROVE RetrievalInv'
  <2>1. /\ call' = [call EXCEPT ![r] = InRetrieval!Idle]
        /\ reranker' = reranker /\ clock' = clock /\ log' = log /\ reader' = reader
    BY <1>4 DEF InRetrieval!Answer, InRetrieval!Break
  <2>2. /\ call' \in [Requests -> {InRetrieval!Idle} \cup RetrievalFound \cup RetrievalCommitted]
        /\ \A s \in Requests : call'[s] = IF s = r THEN InRetrieval!Idle ELSE call[s]
    BY <1>0, <2>1
  <2>3. answers' \in SUBSET log
    <3>1. CASE InRetrieval!Answer(r)
      <4>1. RowOf(call[r]) \in log /\ answers' = answers \cup {RowOf(call[r])}
        BY <3>1 DEF InRetrieval!Answer, RowOf, RetrievalInv, RetrievalCalls
      <4> QED
        BY <1>0, <4>1
    <3>2. CASE InRetrieval!Break(r)
      BY <1>0, <3>2 DEF InRetrieval!Break
    <3> QED
      BY <1>4, <3>1, <3>2
  <2>4. RetrievalTypes'
    <3>1. \A other \in log' : other.at <= clock'
      BY <2>1 DEF RetrievalInv, RetrievalTypes
    <3> QED
      BY <1>0, <2>1, <2>2, <2>3, <3>1 DEF RetrievalTypes
  <2>5. RetrievalCalls'
    <3>1. InRetrieval!Idle.at = "idle"
      BY DEF InRetrieval!Idle
    <3> QED
      BY <2>1, <2>2, <3>1 DEF RetrievalInv, RetrievalCalls
  <2>6. RetrievalPassed'
    BY <2>1 DEF RetrievalInv, RetrievalPassed, InRetrieval!Place
  <2> QED
    BY <2>4, <2>5, <2>6 DEF RetrievalInv
<1>5. ASSUME InRetrieval!TurnPage PROVE RetrievalInv'
  <2> DEFINE page == IF reader.page = 0 THEN 1 ELSE reader.page
             first == IF reader.page = 0 THEN log ELSE reader.first
  <2>1. /\ reader' = [page |-> page + 1, first |-> first, got |-> reader.got \cup InRetrieval!Page(page)]
        /\ reranker' = reranker /\ clock' = clock /\ log' = log /\ answers' = answers
        /\ call' = call
    BY <1>5 DEF InRetrieval!TurnPage
  <2>2. reader.page \in Nat /\ reader.page # 1 /\ page \in Nat /\ page >= 1 /\ page + 1 \in Nat
    BY <1>0 DEF RetrievalInv, RetrievalPassed
  <2>3. first \in SUBSET log /\ reader.got \in SUBSET log
    BY <1>0
  <2>4. \A row \in first \ reader.got : InRetrieval!Place(row) > (page - 1) * PageSize
    <3> SUFFICES ASSUME NEW row \in first \ reader.got PROVE InRetrieval!Place(row) > (page - 1) * PageSize
      OBVIOUS
    <3>1. CASE reader.page = 0
      <4>1. InRetrieval!Place(row) \in Nat /\ InRetrieval!Place(row) >= 1
        <5>1. {other \in log : other.at > row.at} \subseteq log
          OBVIOUS
        <5>2. IsFiniteSet({other \in log : other.at > row.at})
          BY <1>0, <5>1, FS_Subset
        <5>3. Cardinality({other \in log : other.at > row.at}) \in Nat
          BY <5>2, FS_CardinalityType
        <5>4. InRetrieval!Place(row) = Cardinality({other \in log : other.at > row.at}) + 1
          BY CardinalitiesAgree DEF InRetrieval!Place
        <5> QED
          BY <5>3, <5>4
      <4>2. page - 1 = 0 /\ 0 * PageSize = 0
        BY <3>1, RetrievalAssumption
      <4> QED
        BY <4>1, <4>2
    <3>2. CASE reader.page # 0
      <4>1. reader.page > 1 /\ page = reader.page /\ first = reader.first
        BY <2>2, <3>2
      <4> QED
        BY <4>1 DEF RetrievalInv, RetrievalPassed
    <3> QED
      BY <3>1, <3>2
  <2> HIDE DEF page, first
  <2>5. InRetrieval!Page(page) \in SUBSET log
    BY DEF InRetrieval!Page
  <2>6. /\ reader'.page = page + 1 /\ reader'.first = first
        /\ reader'.got = reader.got \cup InRetrieval!Page(page)
    BY <2>1
  <2>7. RetrievalTypes'
    <3>1. \A other \in log' : other.at <= clock'
      BY <2>1 DEF RetrievalInv, RetrievalTypes
    <3>2. reader' \in [page: Nat, first: SUBSET log', got: SUBSET log']
      BY <2>1, <2>2, <2>3, <2>5
    <3> QED
      BY <1>0, <2>1, <3>1, <3>2 DEF RetrievalTypes
  <2>8. RetrievalCalls'
    BY <2>1 DEF RetrievalInv, RetrievalCalls
  <2>9. RetrievalPassed'
    <3>1. reader'.page # 1
      BY <2>2, <2>6
    <3>2. ASSUME NEW row \in first \ (reader.got \cup InRetrieval!Page(page)) PROVE InRetrieval!Place(row) > ((page + 1) - 1) * PageSize
      <4>1. InRetrieval!Place(row) > InRetrieval!PageStart(page) /\ row \in log
        BY <2>3, <2>4 DEF InRetrieval!PageStart
      <4>2. ~(InRetrieval!Place(row) <= InRetrieval!PageStart(page) + PageSize)
        BY <4>1 DEF InRetrieval!Page
      <4>3. InRetrieval!PageStart(page) \in Nat /\ InRetrieval!PageStart(page) + PageSize = page * PageSize
        BY <2>2, RetrievalAssumption DEF InRetrieval!PageStart
      <4>4. InRetrieval!Place(row) \in Nat
        <5>1. log \subseteq log' /\ IsFiniteSet(log')
          BY <1>0, <2>1
        <5> QED
          BY <1>0, <5>1, RetrievalPlaces
      <4>5. (page + 1) - 1 = page /\ page * PageSize \in Int
        BY <2>2, RetrievalAssumption
      <4> QED
        BY <4>2, <4>3, <4>4, <4>5
    <3>3. \A row : InRetrieval!Place(row)' = InRetrieval!Place(row)
      BY <2>1 DEF InRetrieval!Place
    <3> QED
      BY <2>6, <3>1, <3>2, <3>3 DEF RetrievalPassed
  <2> QED
    BY <2>7, <2>8, <2>9 DEF RetrievalInv
<1>6. CASE UNCHANGED InRetrieval!vars
  <2>1. /\ reranker' = reranker /\ clock' = clock /\ log' = log /\ answers' = answers
        /\ call' = call /\ reader' = reader
    BY <1>6 DEF InRetrieval!vars
  <2>2. RetrievalTypes'
    BY <2>1 DEF RetrievalInv, RetrievalTypes
  <2>3. RetrievalCalls'
    BY <2>1 DEF RetrievalInv, RetrievalCalls
  <2>4. RetrievalPassed'
    BY <2>1 DEF RetrievalInv, RetrievalPassed, InRetrieval!Place
  <2> QED
    BY <2>2, <2>3, <2>4 DEF RetrievalInv
<1> QED
  BY <1>1, <1>2, <1>3, <1>4, <1>5, <1>6 DEF InRetrieval!Next

(* What is found is ranked, what is answered is logged, and the pages miss  *)
(* nothing of what was there at first.                                      *)
LEMMA RetrievalMet ==
  ASSUME RetrievalInv
  PROVE  InRetrieval!TypeOK /\ InRetrieval!RankedByScore /\ InRetrieval!AnsweredIsLogged /\ InRetrieval!PagesMissNothing
<1>0. /\ call \in [Requests -> {InRetrieval!Idle} \cup RetrievalFound \cup RetrievalCommitted]
      /\ log \in SUBSET RetrievalRows /\ IsFiniteSet(log)
      /\ answers \in SUBSET log /\ clock \in 0..MaxLog
      /\ reader \in [page: Nat, first: SUBSET log, got: SUBSET log]
  BY DEF RetrievalInv, RetrievalTypes
<1>1. InRetrieval!TypeOK
  <2>1. \A r \in Requests : call[r].at \in {"idle", "found", "committed"}
    BY <1>0 DEF InRetrieval!Idle, RetrievalFound, RetrievalCommitted
  <2>2. \A row \in log : row.at \in 1..clock /\ row.result \in Errors \cup {"success"}
    BY <1>0 DEF RetrievalInv, RetrievalTypes, RetrievalRows, Results
  <2> QED
    BY <1>0, <2>1, <2>2 DEF InRetrieval!TypeOK
<1>2. InRetrieval!RankedByScore
  BY DEF RetrievalInv, RetrievalCalls, InRetrieval!RankedByScore, Sorted
<1>3. InRetrieval!AnsweredIsLogged
  BY <1>0 DEF InRetrieval!AnsweredIsLogged
<1>4. InRetrieval!PagesMissNothing
  <2> SUFFICES ASSUME reader.page > 1, (reader.page - 1) * PageSize >= Cardinality(log),
                      NEW row \in reader.first, row \notin reader.got
               PROVE  FALSE
    BY CardinalitiesAgree DEF InRetrieval!PagesMissNothing
  <2>1. InRetrieval!Place(row) > (reader.page - 1) * PageSize
    BY DEF RetrievalInv, RetrievalPassed
  <2> DEFINE U == {other \in log : other.at > row.at}
  <2>2. row \in log /\ row \in RetrievalRows /\ row.at \in Int
    BY <1>0 DEF RetrievalRows
  <2>3. U \subseteq log /\ row \notin U
    BY <2>2
  <2>4. InRetrieval!Place(row) = Cardinality(U) + 1
    BY CardinalitiesAgree DEF InRetrieval!Place
  <2> HIDE DEF U
  <2>5. IsFiniteSet(U) /\ Cardinality(U) <= Cardinality(log) /\ (Cardinality(log) = Cardinality(U) => log = U)
    BY <1>0, <2>3, FS_Subset
  <2>6. Cardinality(U) \in Nat /\ Cardinality(log) \in Nat
    BY <1>0, <2>5, FS_CardinalityType
  <2>7. Cardinality(U) + 1 <= Cardinality(log)
    BY <2>2, <2>3, <2>5, <2>6
  <2>8. (reader.page - 1) * PageSize \in Int
    BY <1>0, RetrievalAssumption
  <2> QED
    BY <2>1, <2>4, <2>6, <2>7, <2>8
<1> QED
  BY <1>1, <1>2, <1>3, <1>4

(***************************************************************************)
(* Amounts of drafts.                                                      *)
(***************************************************************************)
(* What a document stores, and what a version freezes of it.                *)
AmountsStored == [own: InAmounts!OwnPayloads \cup {Nothing}, lines: InAmounts!LineLists \cup {Nothing}]
AmountsDocs ==
  [type: {"expense", "batch"}, total: InAmounts!Amounts, payload: AmountsStored,
   status: {"draft", "pending_review", "returned"}]
AmountsVersions ==
  [type: {"expense", "batch"}, total: InAmounts!Amounts, payload: AmountsStored, rows: InAmounts!LineLists]

AmountsTypes ==
  doc \in AmountsDocs /\ submissions \in Seq(AmountsVersions) /\ Len(submissions) <= MaxSubmissions

(* A version without a payload of its type has lines that add up, and no    *)
(* version has both; under review is the last one.                          *)
AmountsSubmitted ==
  /\ \A n \in 1..Len(submissions) :
       /\ submissions[n].payload.own = Nothing =>
            InAmounts!AddUp(submissions[n].total, submissions[n].rows)
       /\ submissions[n].payload.own = Nothing \/ submissions[n].payload.lines = Nothing
  /\ doc.status = "pending_review" =>
       /\ Len(submissions) > 0
       /\ submissions[Len(submissions)].total = doc.total
       /\ submissions[Len(submissions)].payload = doc.payload

AmountsInv == AmountsTypes /\ AmountsSubmitted

(* Lists of lines are the short sequences of amounts.                       *)
LEMMA AmountsLists ==
  /\ \A lines \in InAmounts!LineLists : lines \in Seq(InAmounts!Amounts) /\ Len(lines) \in Nat /\ Len(lines) <= MaxLines
  /\ \A lines \in Seq(InAmounts!Amounts) : Len(lines) <= MaxLines => lines \in InAmounts!LineLists
<1>1. ASSUME NEW lines \in InAmounts!LineLists
      PROVE  lines \in Seq(InAmounts!Amounts) /\ Len(lines) \in Nat /\ Len(lines) <= MaxLines
  <2>1. PICK n \in 0..MaxLines : lines \in [1..n -> InAmounts!Amounts]
    BY DEF InAmounts!LineLists
  <2>2. n \in Nat /\ n <= MaxLines
    BY AmountsAssumption
  <2> QED
    BY <2>1, <2>2
<1>2. ASSUME NEW lines \in Seq(InAmounts!Amounts),
             Len(lines) <= MaxLines PROVE lines \in InAmounts!LineLists
  <2>1. Len(lines) \in Nat /\ lines \in [1..Len(lines) -> InAmounts!Amounts]
    BY LenProperties
  <2>2. Len(lines) \in 0..MaxLines
    BY <1>2, <2>1, AmountsAssumption
  <2> QED
    BY <2>1, <2>2 DEF InAmounts!LineLists
<1> QED
  BY <1>1, <1>2

(* The invariant of the amounts holds at the start.                         *)
LEMMA AmountsInit == InAmounts!Init => AmountsInv
<1> SUFFICES ASSUME InAmounts!Init PROVE AmountsInv
  OBVIOUS
<1>1. submissions = <<>> /\ submissions \in Seq(AmountsVersions) /\ Len(submissions) = 0
  BY DEF InAmounts!Init
<1>2. PICK type \in {"expense", "batch"}, total \in InAmounts!Amounts :
        \E p \in InAmounts!Drafts(type) : doc = InAmounts!Drafted(type, total, p)
  BY DEF InAmounts!Init
<1>3. PICK p \in InAmounts!Drafts(type) : doc = InAmounts!Drafted(type, total, p)
  BY <1>2
<1>4. p \in AmountsStored
  BY DEF InAmounts!Drafts, InAmounts!Payload, AmountsStored
<1>5. doc \in AmountsDocs /\ doc.status = "draft"
  BY <1>3, <1>4 DEF InAmounts!Drafted, AmountsDocs
<1> QED
  BY <1>1, <1>5, AmountsAssumption DEF AmountsInv, AmountsTypes, AmountsSubmitted

(* An edit leaves what was submitted alone.                                 *)
LEMMA AmountsEdited ==
  ASSUME AmountsInv, doc' \in AmountsDocs, doc'.status # "pending_review", UNCHANGED submissions
  PROVE  AmountsInv'
BY DEF AmountsInv, AmountsTypes, AmountsSubmitted

(* Every edit, submission and return keeps it.                              *)
LEMMA AmountsNext == AmountsInv /\ [InAmounts!Next]_InAmounts!vars => AmountsInv'
<1> SUFFICES ASSUME AmountsInv, [InAmounts!Next]_InAmounts!vars PROVE AmountsInv'
  OBVIOUS
<1>0. /\ doc \in AmountsDocs /\ doc.payload \in AmountsStored
      /\ submissions \in Seq(AmountsVersions) /\ Len(submissions) \in Nat
      /\ Len(submissions) <= MaxSubmissions
  BY LenProperties DEF AmountsInv, AmountsTypes, AmountsDocs
<1>1. ASSUME NEW total \in InAmounts!Amounts, InAmounts!PatchTotal(total) PROVE AmountsInv'
  <2>1. doc' = [doc EXCEPT !.total = total] /\ InAmounts!Editable /\ UNCHANGED submissions
    BY <1>1 DEF InAmounts!PatchTotal
  <2>2. doc' \in AmountsDocs /\ doc'.status = doc.status
    BY <1>0, <2>1 DEF AmountsDocs
  <2> QED
    BY <2>1, <2>2, AmountsEdited DEF InAmounts!Editable
<1>2. ASSUME NEW lines \in InAmounts!LineLists, NEW total \in InAmounts!Amounts,
             InAmounts!PatchLines(lines, total) PROVE AmountsInv'
  <2>1. /\ doc' = [doc EXCEPT !.total = total, !.payload.lines = lines]
        /\ InAmounts!Editable /\ UNCHANGED submissions
    BY <1>2 DEF InAmounts!PatchLines
  <2>2. doc' \in AmountsDocs /\ doc'.status = doc.status
    BY <1>0, <2>1 DEF AmountsDocs, AmountsStored
  <2> QED
    BY <2>1, <2>2, AmountsEdited DEF InAmounts!Editable
<1>3. ASSUME NEW own \in InAmounts!OwnPayloads, InAmounts!PatchPayload(own) PROVE AmountsInv'
  <2>1. /\ doc' = [doc EXCEPT !.payload = InAmounts!Payload(own, Nothing)]
        /\ InAmounts!Editable /\ UNCHANGED submissions
    BY <1>3 DEF InAmounts!PatchPayload
  <2>2. InAmounts!Payload(own, Nothing) \in AmountsStored
    BY DEF InAmounts!Payload, AmountsStored
  <2>3. doc' \in AmountsDocs /\ doc'.status = doc.status
    BY <1>0, <2>1, <2>2 DEF AmountsDocs
  <2> QED
    BY <2>1, <2>3, AmountsEdited DEF InAmounts!Editable
<1>4. ASSUME NEW type \in {"expense", "batch"}, NEW lines \in InAmounts!LineLists \cup {Nothing},
             InAmounts!PatchType(type, lines)
      PROVE  AmountsInv'
  <2>1. /\ doc' = [doc EXCEPT !.type = type, !.payload = InAmounts!Payload(Nothing, lines)]
        /\ InAmounts!Editable /\ UNCHANGED submissions
    BY <1>4 DEF InAmounts!PatchType
  <2>2. InAmounts!Payload(Nothing, lines) \in AmountsStored
    BY DEF InAmounts!Payload, AmountsStored
  <2>3. doc' \in AmountsDocs /\ doc'.status = doc.status
    BY <1>0, <2>1, <2>2 DEF AmountsDocs
  <2> QED
    BY <2>1, <2>3, AmountsEdited DEF InAmounts!Editable
<1>5. ASSUME NEW amount \in InAmounts!Amounts, InAmounts!AddLine(amount) PROVE AmountsInv'
  <2> DEFINE old == doc.payload.lines
             new == IF old = Nothing THEN <<amount>> ELSE Append(old, amount)
  <2>1. /\ doc' = [doc EXCEPT !.payload.lines = new]
        /\ InAmounts!Editable /\ UNCHANGED submissions
        /\ InAmounts!LineCount(doc.payload) < MaxLines
    BY <1>5 DEF InAmounts!AddLine
  <2>2. new \in InAmounts!LineLists
    <3>1. CASE old = Nothing
      <4>1. <<amount>> \in Seq(InAmounts!Amounts) /\ Len(<<amount>>) = 1 /\ MaxLines >= 1
        BY <2>1, <3>1, AmountsAssumption DEF InAmounts!LineCount
      <4> QED
        BY <3>1, <4>1, AmountsLists
    <3>2. CASE old # Nothing
      <4>1. old \in InAmounts!LineLists /\ Len(old) < MaxLines
        BY <1>0, <2>1, <3>2 DEF InAmounts!LineCount, AmountsStored
      <4>2. old \in Seq(InAmounts!Amounts) /\ Len(old) \in Nat
        BY <4>1, AmountsLists
      <4>3. Append(old, amount) \in Seq(InAmounts!Amounts) /\ Len(Append(old, amount)) = Len(old) + 1
        BY <4>2, AppendProperties
      <4>4. Len(Append(old, amount)) <= MaxLines
        BY <4>1, <4>2, <4>3, AmountsAssumption
      <4> QED
        BY <3>2, <4>3, <4>4, AmountsLists
    <3> QED
      BY <3>1, <3>2
  <2> HIDE DEF new
  <2>3. doc' \in AmountsDocs /\ doc'.status = doc.status
    BY <1>0, <2>1, <2>2 DEF AmountsDocs, AmountsStored
  <2> QED
    BY <2>1, <2>3, AmountsEdited DEF InAmounts!Editable
<1>6. ASSUME NEW n \in 1..MaxLines, InAmounts!DeleteLine(n) PROVE AmountsInv'
  <2> DEFINE old == doc.payload.lines
             new == SubSeq(old, 1, n - 1) \o SubSeq(old, n + 1, Len(old))
  <2>1. /\ doc' = [doc EXCEPT !.payload.lines = new]
        /\ InAmounts!Editable /\ UNCHANGED submissions /\ n \in 1..InAmounts!LineCount(doc.payload)
    BY <1>6 DEF InAmounts!DeleteLine
  <2>2. old \in InAmounts!LineLists /\ n \in 1..Len(old)
    BY <1>0, <2>1 DEF InAmounts!LineCount, AmountsStored
  <2>3. old \in Seq(InAmounts!Amounts) /\ Len(old) \in Nat /\ Len(old) <= MaxLines
    BY <2>2, AmountsLists
  <2>4. new \in InAmounts!LineLists
    <3> DEFINE a == SubSeq(old, 1, n - 1)
               b == SubSeq(old, n + 1, Len(old))
    <3> HIDE DEF old
    <3>1. \A i \in 1..Len(old) : old[i] \in InAmounts!Amounts
      BY <2>3, ElementOfSeq
    <3>2. a \in Seq(InAmounts!Amounts) /\ Len(a) = n - 1
      <4>1. /\ 1 \in Int /\ n - 1 \in Int /\ \A i \in 1..n - 1 : old[i] \in InAmounts!Amounts
        BY <2>2, <2>3, <3>1
      <4>2. a \in Seq(InAmounts!Amounts) /\ Len(a) = IF 1 <= n - 1 THEN (n - 1) - 1 + 1 ELSE 0
        BY <4>1, SubSeqProperties
      <4> QED
        BY <2>2, <2>3, <4>2
    <3>3. b \in Seq(InAmounts!Amounts) /\ Len(b) = Len(old) - n
      <4>1. /\ n + 1 \in Int /\ Len(old) \in Int /\ \A i \in n + 1..Len(old) : old[i] \in InAmounts!Amounts
        BY <2>2, <2>3, <3>1
      <4>2. b \in Seq(InAmounts!Amounts) /\ Len(b) = IF n + 1 <= Len(old) THEN Len(old) - (n + 1) + 1 ELSE 0
        BY <4>1, SubSeqProperties
      <4> QED
        BY <2>2, <2>3, <4>2
    <3> HIDE DEF a, b
    <3>4. a \o b \in Seq(InAmounts!Amounts) /\ Len(a \o b) = Len(a) + Len(b)
      BY <3>2, <3>3, ConcatProperties
    <3>5. Len(a \o b) <= MaxLines
      BY <2>2, <2>3, <3>2, <3>3, <3>4, AmountsAssumption
    <3>6. a \o b \in InAmounts!LineLists
      BY <3>4, <3>5, AmountsLists
    <3> QED
      BY <3>6 DEF a, b
  <2> HIDE DEF new
  <2>5. doc' \in AmountsDocs /\ doc'.status = doc.status
    BY <1>0, <2>1, <2>4 DEF AmountsDocs, AmountsStored
  <2> QED
    BY <2>1, <2>5, AmountsEdited DEF InAmounts!Editable
<1>7. ASSUME InAmounts!Submit PROVE AmountsInv'
  <2> DEFINE version == [type |-> doc.type, total |-> doc.total, payload |-> doc.payload, rows |-> InAmounts!LineRows(doc)]
  <2>1. /\ submissions' = Append(submissions, version)
        /\ doc' = [doc EXCEPT !.status = "pending_review"]
        /\ InAmounts!Submittable(doc) /\ Len(submissions) < MaxSubmissions
    BY <1>7 DEF InAmounts!Submit
  <2>2. /\ doc.type = "expense" /\ doc.payload.own = Nothing =>
             InAmounts!LineRows(doc) = doc.payload.lines /\ doc.payload.lines \in InAmounts!LineLists
               /\ InAmounts!AddUp(doc.total, doc.payload.lines)
        /\ ~(doc.type = "expense" /\ doc.payload.own = Nothing) =>
             doc.payload.own # Nothing /\ doc.payload.lines = Nothing
    <3>1. CASE doc.type = "expense" /\ doc.payload.own = Nothing
      <4>1. InAmounts!LineCount(doc.payload) > 0 /\ InAmounts!AddUp(doc.total, doc.payload.lines)
        BY <2>1, <3>1 DEF InAmounts!Submittable
      <4>2. doc.payload.lines # Nothing
        BY <4>1 DEF InAmounts!LineCount
      <4> QED
        BY <1>0, <3>1, <4>1, <4>2 DEF InAmounts!LineRows, AmountsStored
    <3>2. CASE ~(doc.type = "expense" /\ doc.payload.own = Nothing)
      BY <2>1, <3>2 DEF InAmounts!Submittable, InAmounts!OwnValid
    <3> QED
      BY <3>1, <3>2
  <2>3. InAmounts!LineRows(doc) \in InAmounts!LineLists
    <3>1. CASE doc.type # "expense"
      <4>1. <<>> \in Seq(InAmounts!Amounts) /\ Len(<<>>) = 0 /\ 0 <= MaxLines
        BY AmountsAssumption
      <4>2. <<>> \in InAmounts!LineLists
        BY <4>1, AmountsLists
      <4> QED
        BY <3>1, <4>2 DEF InAmounts!LineRows
    <3>2. CASE doc.type = "expense" /\ doc.payload.own # Nothing
      BY <1>0, <3>2 DEF InAmounts!LineRows, AmountsStored, InAmounts!OwnPayloads
    <3>3. CASE doc.type = "expense" /\ doc.payload.own = Nothing
      BY <2>2, <3>3
    <3> QED
      BY <3>1, <3>2, <3>3
  <2>4. version \in AmountsVersions
    BY <1>0, <2>3 DEF AmountsVersions, AmountsDocs
  <2>5. /\ version.payload.own = Nothing => InAmounts!AddUp(version.total, version.rows)
        /\ version.payload.own = Nothing \/ version.payload.lines = Nothing
        /\ version.total = doc.total /\ version.payload = doc.payload
    BY <2>2
  <2> HIDE DEF version
  <2>6. /\ submissions' \in Seq(AmountsVersions) /\ Len(submissions') = Len(submissions) + 1
        /\ submissions'[Len(submissions) + 1] = version
        /\ \A n \in 1..Len(submissions) : submissions'[n] = submissions[n]
    BY <1>0, <2>1, <2>4, AppendProperties
  <2>7. /\ doc' \in AmountsDocs /\ doc'.total = doc.total /\ doc'.payload = doc.payload
    BY <1>0, <2>1 DEF AmountsDocs
  <2>8. Len(submissions') <= MaxSubmissions
    BY <1>0, <2>1, <2>6, AmountsAssumption
  <2>9. ASSUME NEW n \in 1..Len(submissions')
        PROVE  /\ submissions'[n].payload.own = Nothing =>
                    InAmounts!AddUp(submissions'[n].total, submissions'[n].rows)
               /\ submissions'[n].payload.own = Nothing \/ submissions'[n].payload.lines = Nothing
    <3>1. CASE n = Len(submissions) + 1
      BY <2>5, <2>6, <3>1
    <3>2. CASE n # Len(submissions) + 1
      <4>1. n \in 1..Len(submissions) /\ submissions'[n] = submissions[n]
        BY <1>0, <2>6, <3>2
      <4> QED
        BY <4>1 DEF AmountsInv, AmountsSubmitted
    <3> QED
      BY <3>1, <3>2
  <2>10. /\ Len(submissions') > 0
         /\ submissions'[Len(submissions')].total = doc'.total
         /\ submissions'[Len(submissions')].payload = doc'.payload
    BY <1>0, <2>5, <2>6, <2>7
  <2> QED
    BY <2>6, <2>7, <2>8, <2>9, <2>10 DEF AmountsInv, AmountsTypes, AmountsSubmitted
<1>8. ASSUME InAmounts!Return PROVE AmountsInv'
  <2>1. doc' = [doc EXCEPT !.status = "returned"] /\ UNCHANGED submissions
    BY <1>8 DEF InAmounts!Return
  <2>2. doc' \in AmountsDocs /\ doc'.status = "returned"
    BY <1>0, <2>1 DEF AmountsDocs
  <2> QED
    BY <2>1, <2>2, AmountsEdited
<1>9. CASE UNCHANGED InAmounts!vars
  BY <1>9 DEF InAmounts!vars, AmountsInv, AmountsTypes, AmountsSubmitted
<1> QED
  BY <1>1, <1>2, <1>3, <1>4, <1>5, <1>6, <1>7, <1>8, <1>9 DEF InAmounts!Next

(* The lines of several versions: all of them, and none just if none has    *)
(* any.                                                                     *)
RowsUpTo(s, h) == h = [n \in 0..Len(s) |-> IF n = 0 THEN <<>> ELSE h[n - 1] \o s[n].rows]

(* The lines of several versions.                                           *)
LEMMA AmountsRows ==
  ASSUME NEW s \in Seq(AmountsVersions), Len(s) > 0
  PROVE  \E q \in Seq(InAmounts!Amounts) :
           /\ InAmounts!RowsCompared(s) = q \o s[Len(s)].rows
           /\ Len(q) = 0 <=> \A m \in 1..Len(s) - 1 : s[m].rows = <<>>
<1> DEFINE N == Len(s)
           Ups(m, g) == g[0] = <<>> /\ \A n \in 1..m : g[n] = g[n - 1] \o s[n].rows
           S == {m \in 0..N : \E g \in [0..m -> Seq(InAmounts!Amounts)] : Ups(m, g)}
<1>1. N \in Nat /\ N \in 0..N /\ \A n \in 1..N : s[n].rows \in Seq(InAmounts!Amounts)
  <2>1. N \in Nat /\ \A n \in 1..N : s[n] \in AmountsVersions
    BY LenProperties, ElementOfSeq
  <2>2. \A v \in AmountsVersions : v.rows \in InAmounts!LineLists
    BY DEF AmountsVersions
  <2> QED
    BY <2>1, <2>2, AmountsLists
<1>2. 0 \in S
  <2> DEFINE z == [n \in 0..0 |-> <<>>]
  <2>1. z \in [0..0 -> Seq(InAmounts!Amounts)] /\ z[0] = <<>> /\ 0 \in 0..N
    BY <1>1
  <2>2. Ups(0, z)
    BY <2>1
  <2> HIDE DEF z, Ups
  <2> QED
    BY <2>1, <2>2
<1>3. ASSUME NEW m \in 0..N, m < N, m \in S PROVE m + 1 \in S
  <2>1. m + 1 \in 0..N /\ m + 1 \in 1..N /\ m \in Nat /\ s[m + 1].rows \in Seq(InAmounts!Amounts)
    BY <1>1, <1>3
  <2>2. PICK g \in [0..m -> Seq(InAmounts!Amounts)] : Ups(m, g)
    BY <1>3
  <2> DEFINE h == [n \in 0..m + 1 |-> IF n = m + 1 THEN g[m] \o s[m + 1].rows ELSE g[n]]
  <2>3. h \in [0..m + 1 -> Seq(InAmounts!Amounts)]
    <3>1. ASSUME NEW n \in 0..m + 1, n # m + 1 PROVE n \in 0..m
      BY <2>1, <3>1
    <3>2. g[m] \o s[m + 1].rows \in Seq(InAmounts!Amounts)
      <4>1. g[m] \in Seq(InAmounts!Amounts)
        BY <2>1
      <4> QED
        BY <2>1, <4>1, ConcatProperties
    <3> QED
      BY <3>1, <3>2
  <2>4. h[0] = <<>>
    BY <2>1, <2>2
  <2>5. ASSUME NEW n \in 1..m + 1 PROVE h[n] = h[n - 1] \o s[n].rows
    <3>1. n \in 0..m + 1 /\ n - 1 \in 0..m + 1 /\ n - 1 # m + 1 /\ n - 1 \in 0..m
      BY <2>1
    <3>2. CASE n = m + 1
      <4>1. h[n] = g[m] \o s[m + 1].rows /\ h[n - 1] = g[n - 1] /\ n - 1 = m
        BY <2>1, <3>1, <3>2
      <4> QED
        BY <3>2, <4>1
    <3>3. CASE n # m + 1
      <4>1. n \in 1..m /\ h[n] = g[n] /\ h[n - 1] = g[n - 1]
        BY <2>1, <3>1, <3>3
      <4> QED
        BY <2>2, <4>1
    <3> QED
      BY <3>2, <3>3
  <2>6. Ups(m + 1, h)
    BY <2>4, <2>5
  <2> HIDE DEF h, Ups
  <2> QED
    BY <2>1, <2>3, <2>6
<1>4. N \in S
  <2> HIDE DEF S
  <2> QED
    BY <1>1, <1>2, <1>3, Induction
<1>5. PICK g \in [0..N -> Seq(InAmounts!Amounts)] : Ups(N, g)
  BY <1>4
<1>6. g = [n \in 0..N |-> IF n = 0 THEN <<>> ELSE g[n - 1] \o s[n].rows]
  <2>1. \A n \in 0..N : n # 0 => n \in 1..N
    BY <1>1
  <2>2. \A n \in 0..N : g[n] = IF n = 0 THEN <<>> ELSE g[n - 1] \o s[n].rows
    BY <1>5, <2>1
  <2> QED
    BY <2>2
<1> DEFINE f == CHOOSE h : RowsUpTo(s, h)
<1>7. RowsUpTo(s, f)
  BY <1>6 DEF RowsUpTo
<1>8. InAmounts!RowsCompared(s) = f[N]
  BY DEF InAmounts!RowsCompared, RowsUpTo
<1> HIDE DEF f, Ups
<1>9. f[0] = <<>> /\ \A n \in 1..N : f[n] = f[n - 1] \o s[n].rows
  <2>1. 0 \in 0..N /\ \A n \in 1..N : n \in 0..N /\ n # 0
    BY <1>1
  <2> QED
    BY <1>7, <2>1 DEF RowsUpTo
<1> DEFINE T == {n \in 0..N : /\ f[n] \in Seq(InAmounts!Amounts)
                              /\ Len(f[n]) = 0 <=> \A m \in 1..n : s[m].rows = <<>>}
<1>10. 0 \in T
  <2>1. <<>> \in Seq(InAmounts!Amounts) /\ Len(<<>>) = 0 /\ 1..0 = {} /\ 0 \in 0..N
    BY <1>1
  <2> QED
    BY <1>9, <2>1
<1>11. ASSUME NEW n \in 0..N, n < N, n \in T PROVE n + 1 \in T
  <2>1. /\ n + 1 \in 1..N /\ n + 1 \in 0..N /\ (n + 1) - 1 = n /\ n \in Nat
        /\ s[n + 1].rows \in Seq(InAmounts!Amounts) /\ f[n] \in Seq(InAmounts!Amounts)
    BY <1>1, <1>11
  <2>2. f[n + 1] = f[n] \o s[n + 1].rows
    BY <1>9, <2>1
  <2>3. f[n + 1] \in Seq(InAmounts!Amounts) /\ Len(f[n + 1]) = Len(f[n]) + Len(s[n + 1].rows)
    BY <2>1, <2>2, ConcatProperties
  <2>4. Len(f[n]) \in Nat /\ Len(s[n + 1].rows) \in Nat
    BY <2>1, LenProperties
  <2>5. Len(f[n + 1]) = 0 <=> Len(f[n]) = 0 /\ Len(s[n + 1].rows) = 0
    <3>1. \A i, j \in Nat : i + j = 0 <=> i = 0 /\ j = 0
      OBVIOUS
    <3>2. Len(f[n]) + Len(s[n + 1].rows) = 0 <=> Len(f[n]) = 0 /\ Len(s[n + 1].rows) = 0
      BY <2>4, <3>1
    <3> QED
      BY <2>3, <3>2
  <2>6. Len(s[n + 1].rows) = 0 <=> s[n + 1].rows = <<>>
    BY <2>1, EmptySeq
  <2>7. (\A m \in 1..n + 1 : s[m].rows = <<>>) <=> (\A m \in 1..n : s[m].rows = <<>>) /\ s[n + 1].rows = <<>>
    <3>1. \A m \in 1..n + 1 : m \in 1..n \/ m = n + 1
      BY <2>1
    <3>2. n + 1 \in 1..n + 1 /\ \A m \in 1..n : m \in 1..n + 1
      BY <2>1
    <3> QED
      BY <3>1, <3>2
  <2>8. Len(f[n]) = 0 <=> \A m \in 1..n : s[m].rows = <<>>
    BY <1>11
  <2>9. Len(f[n + 1]) = 0 <=> \A m \in 1..n + 1 : s[m].rows = <<>>
    BY <2>5, <2>6, <2>7, <2>8
  <2> QED
    BY <2>1, <2>3, <2>9
<1>12. N - 1 \in 0..N /\ N \in 1..N
  BY <1>1
<1>13. N - 1 \in T
  <2>1. \A n \in 0..N : n < N /\ n \in T => n + 1 \in T
    BY <1>11
  <2> HIDE DEF T
  <2>2. \A n \in 0..N : n \in T
    BY <1>1, <1>10, <2>1, Induction
  <2> QED
    BY <1>12, <2>2
<1>14. f[N - 1] \in Seq(InAmounts!Amounts) /\ (Len(f[N - 1]) = 0 <=> \A m \in 1..N - 1 : s[m].rows = <<>>)
  BY <1>13
<1>15. InAmounts!RowsCompared(s) = f[N - 1] \o s[N].rows
  BY <1>8, <1>9, <1>12
<1> QED
  BY <1>14, <1>15

(* Totals are sums; of no amounts it is zero, of some it is more.           *)
LEMMA AmountsTotal ==
  ASSUME NEW q \in Seq(InAmounts!Amounts), NEW lines \in Seq(InAmounts!Amounts)
  PROVE  /\ InAmounts!Total(q) \in Int /\ InAmounts!Total(lines) \in Int
         /\ InAmounts!Total(q \o lines) = InAmounts!Total(q) + InAmounts!Total(lines)
         /\ InAmounts!Total(q) = 0 <=> Len(q) = 0
<1>1. \A a \in InAmounts!Amounts : a \in Int /\ a >= 1
  BY DEF InAmounts!Amounts
<1>2. q \in Seq(Int) /\ lines \in Seq(Int) /\ Len(q) \in Nat /\ \A n \in 1..Len(q) : q[n] >= 1
  <2>1. /\ q \in [1..Len(q) -> InAmounts!Amounts] /\ Len(q) \in Nat
        /\ lines \in [1..Len(lines) -> InAmounts!Amounts] /\ Len(lines) \in Nat
    BY LenProperties
  <2>2. q \in [1..Len(q) -> Int] /\ lines \in [1..Len(lines) -> Int]
    BY <1>1, <2>1
  <2>3. q \in Seq(Int) /\ lines \in Seq(Int)
    BY <2>1, <2>2
  <2> QED
    BY <1>1, <2>1, <2>3
<1>3. InAmounts!Total(q) = Sum(q) /\ InAmounts!Total(lines) = Sum(lines) /\ InAmounts!Total(q \o lines) = Sum(q \o lines)
  <2>1. InAmounts!Total(q) = Sum(q)
    BY DEF InAmounts!Total, Sum, SumOf
  <2>2. InAmounts!Total(lines) = Sum(lines)
    BY DEF InAmounts!Total, Sum, SumOf
  <2>3. InAmounts!Total(q \o lines) = Sum(q \o lines)
    BY DEF InAmounts!Total, Sum, SumOf
  <2> QED
    BY <2>1, <2>2, <2>3
<1>4. Sum(q) \in Int /\ Sum(lines) \in Int
  BY <1>2, SumExists
<1>5. Sum(q \o lines) = Sum(q) + Sum(lines)
  BY <1>2, SumOfBoth
<1>6. Sum(q) >= Len(q)
  BY <1>2, SumPositive
<1>7. Len(q) = 0 => Sum(q) = 0
  <2>1. PICK g \in [0..Len(q) -> Int] : g[0] = 0 /\ Sum(q) = g[Len(q)]
    BY <1>2, SumExists
  <2> QED
    BY <2>1
<1> QED
  BY <1>2, <1>3, <1>4, <1>5, <1>6, <1>7

(* What the invariant says of the amounts.                                  *)
LEMMA AmountsMet ==
  ASSUME AmountsInv
  PROVE  InAmounts!TypeOK /\ InAmounts!SubmittedAddsUp /\ InAmounts!OneListOfLines /\ InAmounts!ComparesFirstVersionOnly
<1>0. /\ doc \in AmountsDocs /\ submissions \in Seq(AmountsVersions) /\ Len(submissions) \in Nat
      /\ DOMAIN submissions = 1..Len(submissions)
      /\ \A n \in 1..Len(submissions) : submissions[n] \in AmountsVersions
  BY LenProperties, ElementOfSeq DEF AmountsInv, AmountsTypes
<1>1. InAmounts!TypeOK
  <2>1. Len(submissions) <= MaxSubmissions
    BY DEF AmountsInv, AmountsTypes
  <2> QED
    BY <1>0, <2>1 DEF InAmounts!TypeOK, AmountsDocs, AmountsStored
<1>2. InAmounts!SubmittedAddsUp
  BY <1>0 DEF InAmounts!SubmittedAddsUp, AmountsInv, AmountsSubmitted, InAmounts!AddUp
<1>3. InAmounts!OneListOfLines
  BY <1>0 DEF InAmounts!OneListOfLines, AmountsInv, AmountsSubmitted
<1>4. InAmounts!ComparesFirstVersionOnly
  <2> DEFINE n == Len(submissions)
             s == submissions
  <2> SUFFICES ASSUME n > 0, doc.status = "pending_review", doc.payload.own = Nothing
               PROVE  InAmounts!Total(InAmounts!RowsCompared(s)) = doc.total <=> \A m \in 1..n - 1 : s[m].rows = <<>>
    BY DEF InAmounts!ComparesFirstVersionOnly, InAmounts!LineItemTotal
  <2>1. /\ s[n].total = doc.total /\ s[n].payload = doc.payload
        /\ n \in 1..n /\ s[n] \in AmountsVersions
    BY <1>0 DEF AmountsInv, AmountsSubmitted
  <2>2. InAmounts!Total(s[n].rows) = doc.total
    BY <1>0, <2>1 DEF AmountsInv, AmountsSubmitted, InAmounts!AddUp
  <2>3. s[n].rows \in Seq(InAmounts!Amounts)
    BY <2>1, AmountsLists DEF AmountsVersions
  <2>4. PICK q \in Seq(InAmounts!Amounts) :
          /\ InAmounts!RowsCompared(s) = q \o s[n].rows
          /\ Len(q) = 0 <=> \A m \in 1..n - 1 : s[m].rows = <<>>
    BY <1>0, AmountsRows
  <2>5. /\ InAmounts!Total(q) \in Int /\ InAmounts!Total(s[n].rows) \in Int
        /\ InAmounts!Total(q \o s[n].rows) = InAmounts!Total(q) + InAmounts!Total(s[n].rows)
        /\ InAmounts!Total(q) = 0 <=> Len(q) = 0
    BY <2>3, AmountsTotal
  <2>6. InAmounts!Total(InAmounts!RowsCompared(s)) = InAmounts!Total(q) + doc.total
    BY <2>2, <2>4, <2>5
  <2> QED
    BY <2>2, <2>4, <2>5, <2>6
<1> QED
  BY <1>1, <1>2, <1>3, <1>4

(***************************************************************************)
(* The whole.  A step of the whole is one of the part whose turn it is and *)
(* leaves the variables of the others alone: the invariants of the parts   *)
(* are inductive together.                                                 *)
(***************************************************************************)
Inv ==
  /\ part \in Parts
  /\ SequenceInv /\ AnalysesInv /\ DraftsInv /\ OcrInv /\ RegistriesInv
  /\ StorageInv /\ UnitsInv /\ SchemaInv /\ SeedInv /\ RequestsInv
  /\ QueryInv /\ UploadsInv /\ LoginsInv /\ ReviewInv /\ ManualInv
  /\ CallsInv /\ ScopesInv /\ ListsInv /\ RetrievalInv /\ AmountsInv

(* A step of the whole, as each part sees it.                               *)
LEMMA PartsStep ==
  ASSUME [Next]_vars
  PROVE  /\ UNCHANGED part
         /\ InSequence!Next \/ UNCHANGED InSequence!vars
         /\ InAnalyses!Next \/ UNCHANGED InAnalyses!vars
         /\ InDrafts!Next \/ UNCHANGED InDrafts!vars
         /\ InOcr!Next \/ UNCHANGED InOcr!vars
         /\ InRegistries!Next \/ UNCHANGED InRegistries!vars
         /\ InStorage!Next \/ UNCHANGED InStorage!vars
         /\ InUnits!Next \/ UNCHANGED InUnits!vars
         /\ InSchema!Next \/ UNCHANGED InSchema!vars
         /\ InSeed!Next \/ UNCHANGED InSeed!vars
         /\ InHttp!Next \/ UNCHANGED InHttp!vars
         /\ InQuery!Next \/ UNCHANGED InQuery!vars
         /\ InFiles!Next \/ UNCHANGED InFiles!vars
         /\ InAuth!Next \/ UNCHANGED InAuth!vars
         /\ InReview!Next \/ UNCHANGED InReview!vars
         /\ InManual!Next \/ UNCHANGED InManual!vars
         /\ InCalls!Next \/ UNCHANGED InCalls!vars
         /\ InAccess!Next \/ UNCHANGED InAccess!vars
         /\ InLists!Next \/ UNCHANGED InLists!vars
         /\ InRetrieval!Next \/ UNCHANGED InRetrieval!vars
         /\ InAmounts!Next \/ UNCHANGED InAmounts!vars
<1>1. /\ UNCHANGED part
      /\ InSequence!Next \/ UNCHANGED sequenceVars
      /\ InAnalyses!Next \/ UNCHANGED analysesVars
      /\ InDrafts!Next \/ UNCHANGED draftsVars
      /\ InOcr!Next \/ UNCHANGED ocrVars
      /\ InRegistries!Next \/ UNCHANGED registriesVars
      /\ InStorage!Next \/ UNCHANGED storageVars
      /\ InUnits!Next \/ UNCHANGED unitsVars
      /\ InSchema!Next \/ UNCHANGED schemaVars
      /\ InSeed!Next \/ UNCHANGED seedVars
      /\ InHttp!Next \/ UNCHANGED requestsVars
      /\ InQuery!Next \/ UNCHANGED queryVars
      /\ InFiles!Next \/ UNCHANGED filesVars
      /\ InAuth!Next \/ UNCHANGED authVars
      /\ InReview!Next \/ UNCHANGED reviewVars
      /\ InManual!Next \/ UNCHANGED manualVars
      /\ InCalls!Next \/ UNCHANGED callsVars
      /\ InAccess!Next \/ UNCHANGED accessVars
      /\ InLists!Next \/ UNCHANGED listsVars
      /\ InRetrieval!Next \/ UNCHANGED retrievalVars
      /\ InAmounts!Next \/ UNCHANGED amountsVars
  BY DEF Next, vars
<1>2. UNCHANGED sequenceVars => UNCHANGED InSequence!vars
  BY DEF sequenceVars, InSequence!vars
<1>3. UNCHANGED analysesVars => UNCHANGED InAnalyses!vars
  BY DEF analysesVars, InAnalyses!vars
<1>4. UNCHANGED draftsVars => UNCHANGED InDrafts!vars
  BY DEF draftsVars, InDrafts!vars
<1>5. UNCHANGED ocrVars => UNCHANGED InOcr!vars
  BY DEF ocrVars, InOcr!vars
<1>6. UNCHANGED registriesVars => UNCHANGED InRegistries!vars
  BY DEF registriesVars, InRegistries!vars
<1>7. UNCHANGED storageVars => UNCHANGED InStorage!vars
  BY DEF storageVars, InStorage!vars
<1>8. UNCHANGED unitsVars => UNCHANGED InUnits!vars
  BY DEF unitsVars, InUnits!vars
<1>9. UNCHANGED schemaVars => UNCHANGED InSchema!vars
  BY DEF schemaVars, InSchema!vars
<1>10. UNCHANGED seedVars => UNCHANGED InSeed!vars
  BY DEF seedVars, InSeed!vars
<1>11. UNCHANGED requestsVars => UNCHANGED InHttp!vars
  BY DEF requestsVars, InHttp!vars
<1>12. UNCHANGED queryVars => UNCHANGED InQuery!vars
  BY DEF queryVars, InQuery!vars
<1>13. UNCHANGED filesVars => UNCHANGED InFiles!vars
  BY DEF filesVars, InFiles!vars
<1>14. UNCHANGED authVars => UNCHANGED InAuth!vars
  BY DEF authVars, InAuth!vars
<1>15. UNCHANGED reviewVars => UNCHANGED InReview!vars
  BY DEF reviewVars, InReview!vars
<1>16. UNCHANGED manualVars => UNCHANGED InManual!vars
  BY DEF manualVars, InManual!vars
<1>17. UNCHANGED callsVars => UNCHANGED InCalls!vars
  BY DEF callsVars, InCalls!vars
<1>18. UNCHANGED accessVars => UNCHANGED InAccess!vars
  BY DEF accessVars, InAccess!vars
<1>19. UNCHANGED listsVars => UNCHANGED InLists!vars
  BY DEF listsVars, InLists!vars
<1>20. UNCHANGED retrievalVars => UNCHANGED InRetrieval!vars
  BY DEF retrievalVars, InRetrieval!vars
<1>21. UNCHANGED amountsVars => UNCHANGED InAmounts!vars
  BY DEF amountsVars, InAmounts!vars
<1> QED
  BY <1>1, <1>2, <1>3, <1>4, <1>5, <1>6, <1>7, <1>8, <1>9, <1>10, <1>11, <1>12, <1>13,
  <1>14, <1>15, <1>16, <1>17, <1>18, <1>19, <1>20, <1>21

(* The invariants of all parts hold at the start.                           *)
LEMMA InitInv == Init => Inv
BY SequenceInit, AnalysesInit, DraftsInit, OcrInit, RegistriesInit, StorageInit,
  UnitsInit, SchemaInit, SeedInit, RequestsInit, QueryInit, UploadsInit, LoginsInit,
  ReviewInit, ManualInit, CallsInit, ScopesInit, ListsInit, RetrievalInit, AmountsInit
DEF Init, Inv

(* Every step keeps them.                                                   *)
LEMMA NextInv == Inv /\ [Next]_vars => Inv'
<1> SUFFICES ASSUME Inv, [Next]_vars PROVE Inv'
  OBVIOUS
<1>1. (part \in Parts)'
  BY PartsStep DEF Inv
<1>2. SequenceInv' /\ AnalysesInv' /\ DraftsInv'
  BY PartsStep, SequenceNext, AnalysesNext, DraftsNext DEF Inv
<1>3. OcrInv' /\ RegistriesInv' /\ StorageInv'
  BY PartsStep, OcrNext, RegistriesNext, StorageNext DEF Inv
<1>4. UnitsInv' /\ SchemaInv' /\ SeedInv'
  BY PartsStep, UnitsNext, SchemaNext, SeedNext DEF Inv
<1>5. RequestsInv' /\ QueryInv' /\ UploadsInv'
  BY PartsStep, RequestsNext, QueryNext, UploadsNext DEF Inv
<1>6. LoginsInv' /\ ReviewInv' /\ ManualInv'
  BY PartsStep, LoginsNext, ReviewNext, ManualNext DEF Inv
<1>7. CallsInv' /\ ScopesInv' /\ ListsInv'
  BY PartsStep, CallsNext, ScopesNext, ListsNext DEF Inv
<1>8. RetrievalInv' /\ AmountsInv'
  BY PartsStep, RetrievalNext, AmountsNext DEF Inv
<1> QED
  BY <1>1, <1>2, <1>3, <1>4, <1>5, <1>6, <1>7, <1>8 DEF Inv

(* The invariant of every part, at every state of the whole.                *)
THEOREM Invariance == Spec => []Inv
BY InitInv, NextInv, PTL DEF Spec

(* A behaviour of the whole is one of each of its parts: what is proved or  *)
(* checked of a part alone holds of it in the whole.                        *)
THEOREM PartsBehave ==
  Spec => /\ InSequence!Spec
          /\ InAnalyses!Spec
          /\ InDrafts!Spec
          /\ InOcr!Spec
          /\ InRegistries!Spec
          /\ InStorage!Spec
          /\ InUnits!Spec
          /\ InSchema!Spec
          /\ InSeed!Spec
          /\ InHttp!Spec
          /\ InQuery!Spec
          /\ InFiles!Spec
          /\ InAuth!Spec
          /\ InReview!Spec
          /\ InManual!Spec
          /\ InCalls!Spec
          /\ InAccess!Spec
          /\ InLists!Spec
          /\ InRetrieval!Spec
          /\ InAmounts!Spec
<1>1. [Next]_vars =>
        /\ [InSequence!Next]_InSequence!vars
        /\ [InAnalyses!Next]_InAnalyses!vars
        /\ [InDrafts!Next]_InDrafts!vars
        /\ [InOcr!Next]_InOcr!vars
        /\ [InRegistries!Next]_InRegistries!vars
        /\ [InStorage!Next]_InStorage!vars
        /\ [InUnits!Next]_InUnits!vars
        /\ [InSchema!Next]_InSchema!vars
        /\ [InSeed!Next]_InSeed!vars
        /\ [InHttp!Next]_InHttp!vars
        /\ [InQuery!Next]_InQuery!vars
        /\ [InFiles!Next]_InFiles!vars
        /\ [InAuth!Next]_InAuth!vars
        /\ [InReview!Next]_InReview!vars
        /\ [InManual!Next]_InManual!vars
        /\ [InCalls!Next]_InCalls!vars
        /\ [InAccess!Next]_InAccess!vars
        /\ [InLists!Next]_InLists!vars
        /\ [InRetrieval!Next]_InRetrieval!vars
        /\ [InAmounts!Next]_InAmounts!vars
  BY PartsStep
<1>2. Init =>
        /\ InSequence!Init /\ InAnalyses!Init /\ InDrafts!Init /\ InOcr!Init
        /\ InRegistries!Init /\ InStorage!Init /\ InUnits!Init /\ InSchema!Init
        /\ InSeed!Init /\ InHttp!Init /\ InQuery!Init /\ InFiles!Init
        /\ InAuth!Init /\ InReview!Init /\ InManual!Init /\ InCalls!Init
        /\ InAccess!Init /\ InLists!Init /\ InRetrieval!Init /\ InAmounts!Init
  BY DEF Init
<1> QED
  BY <1>1, <1>2, PTL
  DEF Spec, InSequence!Spec, InAnalyses!Spec, InDrafts!Spec, InOcr!Spec, InRegistries!Spec,
    InStorage!Spec, InUnits!Spec, InSchema!Spec, InSeed!Spec, InHttp!Spec,
    InQuery!Spec, InFiles!Spec, InAuth!Spec, InReview!Spec, InManual!Spec,
    InCalls!Spec, InAccess!Spec, InLists!Spec, InRetrieval!Spec, InAmounts!Spec

(* The tables are those of the revision, and an upgrade can go on from      *)
(* there; there is all of the demonstration data or none, and the script    *)
(* fails only where a key is somebody else's.                               *)
THEOREM DatabaseKept == Spec => []DatabaseWhole
<1>1. Inv => DatabaseWhole
  BY SchemaIsWhole, SchemaNeverStuck, SeedTold DEF Inv, SeedInv, DatabaseWhole
<1> QED
  BY <1>1, Invariance, PTL

(* What a probe reports was so while it looked; an error names its request  *)
(* in the header of the answer or in its body, and that of a query names    *)
(* what is at fault.                                                        *)
THEOREM AnswersTold == Spec => []AnswersTrue
<1>1. Inv => AnswersTrue
  BY QuerySucceeds DEF Inv, RequestsInv, QueryInv, AnswersTrue
<1> QED
  BY <1>1, Invariance, PTL

(* A temporary file has a thread, or the disk has failed; what was          *)
(* registered is found for good; a stored file has a record, or a process   *)
(* has died; a session is closed, or somebody has replaced it.              *)
THEOREM FilesKept == Spec => []FilesAccounted
<1>1. Inv => FilesAccounted
  BY OcrAccounted, RegistriesKept, StorageFit DEF Inv, UnitsInv, FilesAccounted
<1> QED
  BY <1>1, Invariance, PTL

(* An evaluation alone gives no level of risk; the level is that of what    *)
(* persons have confirmed, the rest is told to be open; of the decisions on *)
(* one record the last one stands.                                          *)
THEOREM EvidenceTold == Spec => []EvidenceDecides
<1>1. Inv => InCalls!NothingDecidedAlone
  BY DEF Inv, CallsInv
<1>2. Inv => InReview!LevelIsConfirmed /\ InReview!ManualKept
  BY ReviewDecides DEF Inv
<1>3. Inv => InManual!LastOneStands /\ InManual!DecisionsDoNotCount
  BY ManualStands DEF Inv
<1>4. Inv => EvidenceDecides
  BY <1>1, <1>2, <1>3 DEF EvidenceDecides
<1> QED
  BY <1>4, Invariance, PTL

(* An approved sequence has an approval of every node in its round, a key   *)
(* one record, a retry its event, a document its number, its version and    *)
(* one final report, a record of a file its object; nobody tries a password *)
(* more often than the limit says.                                          *)
THEOREM MemoryKept == Spec => []MemoryConsistent
<1>1. Inv => InSequence!ApprovedByAll /\ InSequence!OneRecordPerResponse
  BY SequenceMet DEF Inv
<1>2. Inv => InAnalyses!RetriesCounted /\ InAnalyses!EventsNumbered
  BY AnalysesCounted DEF Inv
<1>3. Inv => InDrafts!NumbersDiffer /\ InDrafts!SubmittedOnce /\ InDrafts!OneFinal
  BY DraftsMet DEF Inv
<1>4. Inv => InFiles!OnceAndBounded /\ InFiles!ObjectPerRecord
  BY UploadsMet DEF Inv
<1>5. Inv => InAuth!AttemptsLimited
  BY LoginsLimited DEF Inv
<1>6. Inv => MemoryConsistent
  BY <1>1, <1>2, <1>3, <1>4, <1>5 DEF MemoryConsistent
<1> QED
  BY <1>6, Invariance, PTL

(* What no step does: store findings of an analysis that is older than what *)
(* their evaluation saw, change the facts of a finding in a review, move an *)
(* approval on that has ended, accept a refused token again before its last *)
(* second, or take a rebuilt database below its revision.                   *)
THEOREM NoOtherStep == Spec => StepsAllowed
<1>1. ASSUME Inv, [Next]_vars
      PROVE  [\A n \in DOMAIN findings' \ DOMAIN findings :
                \/ findings'[n].task = tasks
                \/ \E r \in Requests :
                     evaluationReq[r] # InReview!Idle /\ evaluationReq'[r] = InReview!Idle
                       /\ evaluationReq[r].seen < tasks]_InReview!vars
  BY <1>1, PartsStep, ReviewBinds DEF Inv
<1>2. ASSUME Inv, [Next]_vars
      PROVE  [\A n \in DOMAIN findings :
                /\ n \in DOMAIN findings'
                /\ findings'[n].rule = findings[n].rule /\ findings'[n].level = findings[n].level
                /\ findings'[n].task = findings[n].task]_InReview!vars
  BY <1>2, PartsStep, ReviewKeepsFacts DEF Inv
<1>3. ASSUME Inv, [Next]_vars
      PROVE  [outcome \notin {"approved", "rejected"}]_InSequence!vars
  BY <1>3, PartsStep, SequenceEnds DEF Inv
<1>4. ASSUME Inv, [Next]_vars
      PROVE  [\A t \in DOMAIN tokens :
                ~InAuth!Accepted(t) /\ InAuth!Accepted(t)' =>
                  tokens[t].exp - authClock' < Second]_InAuth!vars
  BY <1>4, PartsStep, LoginsRefused DEF Inv
<1>5. ASSUME Inv, [Next]_vars
      PROVE  [(revision >= 4 \/ (revision = 3 /\ tables = {})) => revision' >= 3]_InSchema!vars
  BY <1>5, PartsStep, SchemaGoesUp DEF Inv
<1>6. Spec => InReview!BoundToLatest
  BY <1>1, Invariance, PTL DEF Spec, InReview!BoundToLatest
<1>7. Spec => InReview!ReviewLeavesFacts
  BY <1>2, Invariance, PTL DEF Spec, InReview!ReviewLeavesFacts
<1>8. Spec => InSequence!EndedStays
  BY <1>3, Invariance, PTL DEF Spec, InSequence!EndedStays
<1>9. Spec => InAuth!RefusedForGood
  BY <1>4, Invariance, PTL DEF Spec, InAuth!RefusedForGood
<1>10. Spec => InSchema!RebuiltGoesUp
  BY <1>5, Invariance, PTL DEF Spec, InSchema!RebuiltGoesUp
<1> QED
  BY <1>6, <1>7, <1>8, <1>9, <1>10 DEF StepsAllowed

(* What is answered is ranked and logged; the pages of the log miss no row, *)
(* those of the tasks and documents as many as have left the list; fusing   *)
(* agrees with the lists that it fuses.                                     *)
THEOREM PagesTold == Spec => []PagesMissNothing
<1>1. Inv =>
        InRetrieval!RankedByScore /\ InRetrieval!AnsweredIsLogged /\ InRetrieval!PagesMissNothing
  BY RetrievalMet DEF Inv
<1>2. Inv => InLists!MissedAsDecided
  BY ListsMet DEF Inv
<1>3. Inv => InCalls!FusedAgrees
  BY DEF Inv, CallsInv
<1>4. Inv => PagesMissNothing
  BY <1>1, <1>2, <1>3 DEF PagesMissNothing
<1> QED
  BY <1>4, Invariance, PTL

(* The filter of a query and the check of a row agree, but for one case;    *)
(* more roles allow more, but for that of an administrator; what a list     *)
(* shows can be opened.                                                     *)
THEOREM ScopesTold == Spec => []ListedIsAccessible
<1>1. Inv => InAccess!ListedIsAccessible /\ InAccess!OnlyAdminTakesAway
  BY ScopesMet DEF Inv
<1>2. Inv => InLists!ShownOpens
  BY ListsMet DEF Inv
<1>3. Inv => ListedIsAccessible
  BY <1>1, <1>2 DEF ListedIsAccessible
<1> QED
  BY <1>3, Invariance, PTL

(* A submitted version adds up, in the one list of lines it has, or has a   *)
(* payload that nothing compares; only a first version is compared rightly; *)
(* a payload is accepted by the model of its own type, and a comparison     *)
(* agrees with its difference.                                              *)
THEOREM AmountsTold == Spec => []SubmittedAddsUp
<1>1. Inv => /\ InAmounts!SubmittedAddsUp
             /\ InAmounts!OneListOfLines
             /\ InAmounts!ComparesFirstVersionOnly
  BY AmountsMet DEF Inv
<1>2. Inv => InCalls!AcceptedFits /\ InCalls!DifferenceReads
  BY DEF Inv, CallsInv
<1>3. Inv => SubmittedAddsUp
  BY <1>1, <1>2 DEF SubmittedAddsUp
<1> QED
  BY <1>3, Invariance, PTL

(* The variables of every part keep their types.                            *)
THEOREM TypeCorrect == Spec => []TypeOK
<1>1. Inv => /\ part \in Parts
             /\ InCalls!TypeOK /\ InRegistries!TypeOK /\ InHttp!TypeOK /\ InQuery!TypeOK
             /\ InSequence!TypeOK /\ InAnalyses!TypeOK /\ InSchema!TypeOK
  BY DEF Inv, CallsInv, RegistriesInv, RequestsInv, QueryInv, SequenceInv, AnalysesInv, SchemaInv
<1>2. Inv => /\ InReview!TypeOK /\ InDrafts!TypeOK /\ InFiles!TypeOK
             /\ InAuth!TypeOK /\ InManual!TypeOK
  BY ReviewTyped, DraftsMet, UploadsMet, LoginsLimited, ManualStands DEF Inv
<1>3. Inv => /\ InRetrieval!TypeOK /\ InAccess!TypeOK /\ InAmounts!TypeOK
             /\ InLists!TypeOK
  BY RetrievalMet, ScopesMet, AmountsMet, ListsMet DEF Inv
<1>4. Inv => /\ InOcr!TypeOK /\ InSeed!TypeOK /\ InStorage!TypeOK /\ InUnits!TypeOK
  BY OcrAccounted, SeedTold, StorageFit, UnitsTyped DEF Inv
<1>5. Inv => TypeOK
  BY <1>1, <1>2, <1>3, <1>4 DEF TypeOK
<1> QED
  BY <1>5, Invariance, PTL
=============================================================================
