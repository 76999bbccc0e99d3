----------------------- MODULE DocumentNumberingProofs -----------------------
(* Proofs about DocumentNumbering, for any documents, types and dates.      *)
EXTENDS DocumentNumbering, FiniteSetTheorems, TLAPS

USE DEF Existing

(* What a request that has counted is about to write.                       *)
WantTyped ==
  \A w \in Workers :
    pc[w] = "write" => want[w].row \in Rows /\ want[w].target \in Docs \cup {NoDoc}

Inv ==
  /\ TypeOK
  /\ WantTyped
  /\ WantedIdentify
  /\ NumbersIdentify

LEMMA AlikeFinite ==
  ASSUME NEW type, NEW date
  PROVE  /\ IsFiniteSet(Alike(type, date))
         /\ Cardinality(Alike(type, date)) \in Nat
<1>1. Alike(type, date) \subseteq Docs
  BY DEF Alike
<1> QED
  BY <1>1, DocsAssumption, FS_Subset, FS_CardinalityType

(* The number that is computed is a number of the type that will be written. *)
LEMMA NextNumberTyped ==
  ASSUME NEW type \in Types, NEW date \in Dates, NEW self, IsFiniteSet(self)
  PROVE  /\ NextNumber(type, date, self) \in Numbers
         /\ NextNumber(type, date, self).prefix = type
<1>1. Cardinality(Alike(type, date) \cup self) \in Nat
  BY AlikeFinite, FS_Union, FS_CardinalityType
<1> QED
  BY <1>1 DEF NextNumber, Numbers

(* What the number of a new row says.                                       *)
LEMMA NextNumberNames ==
  ASSUME NEW no, NEW type, NEW date, no = NextNumber(type, date, {})
  PROVE  /\ no.prefix = type /\ no.date = date
         /\ no.seq = Cardinality(Alike(type, date)) + 1
<1>1. Alike(type, date) \cup {} = Alike(type, date)
  OBVIOUS
<1> QED
  BY <1>1 DEF NextNumber

LEMMA InitInv == Init => Inv
<1> SUFFICES ASSUME Init PROVE Inv
  OBVIOUS
<1>1. TypeOK
  <2>1. Idle \in [target: Docs \cup {NoDoc}, row: Rows \cup {NoDoc}]
    BY DEF Idle
  <2> QED
    BY <2>1 DEF Init, TypeOK
<1>2. WantTyped /\ WantedIdentify /\ NumbersIdentify
  BY DEF Init, WantTyped, NumbersIdentify, WantedIdentify
<1> QED
  BY <1>1, <1>2 DEF Inv

(* Counting computes a number for the very type that will be written.       *)
LEMMA CountPreservesInv ==
  ASSUME Inv, NEW w \in Workers, NEW target \in Docs \cup {NoDoc},
         NEW type \in Types, NEW date \in Dates, NEW self, IsFiniteSet(self),
         Count(w, target, type, date, self)
  PROVE  Inv'
<1> DEFINE r == [type |-> type, date |-> date, no |-> NextNumber(type, date, self)]
<1>1. /\ pc' = [pc EXCEPT ![w] = "write"]
      /\ want' = [want EXCEPT ![w] = [target |-> target, row |-> r]]
      /\ doc' = doc
      /\ updated' = (updated \/ target # NoDoc)
  BY DEF Count
<1>2. r.no.prefix = r.type /\ r \in Rows
  BY NextNumberTyped DEF Rows
<1> HIDE DEF r
<1>3. WantedIdentify' /\ WantTyped'
  BY <1>1, <1>2 DEF Inv, TypeOK, WantedIdentify, WantTyped
<1>4. NumbersIdentify'
  BY <1>1 DEF Inv, NumbersIdentify
<1>5. TypeOK'
  BY <1>1, <1>2 DEF Inv, TypeOK
<1> QED
  BY <1>3, <1>4, <1>5 DEF Inv

(* A row is written only under a number that no other row of its type has;  *)
(* rows of other types have other prefixes.                                 *)
LEMMA CommitPreservesInv ==
  ASSUME Inv, NEW w \in Workers, Commit(w)
  PROVE  Inv'
<1> DEFINE r == want[w].row
<1>1. PICK d \in Docs :
        /\ IF want[w].target = NoDoc THEN doc[d] = NoDoc ELSE d = want[w].target
        /\ doc' = [doc EXCEPT ![d] = r]
  BY DEF Commit
<1>2. /\ pc[w] = "write" /\ r.no.prefix = r.type /\ r \in Rows
      /\ \A e \in Existing \ {d} : doc[e].type = r.type => doc[e].no # r.no
  BY <1>1, DocsAssumption DEF Commit, Taken, Inv, WantedIdentify, WantTyped
<1>3. /\ doc'[d] = r
      /\ \A e \in Docs \ {d} : doc'[e] = doc[e]
  BY <1>1 DEF Inv, TypeOK
<1> HIDE DEF r
<1>4. \A e \in Existing \ {d} : doc[e].no # r.no
  BY <1>2 DEF Inv, NumbersIdentify
<1>5. NumbersIdentify'
  BY <1>2, <1>3, <1>4 DEF Inv, NumbersIdentify
<1>6. pc' = [pc EXCEPT ![w] = "idle"] /\ want' = [want EXCEPT ![w] = Idle] /\ updated' = updated
  BY DEF Commit, Released
<1>7. WantedIdentify' /\ WantTyped'
  BY <1>6 DEF Inv, TypeOK, WantedIdentify, WantTyped
<1>8. TypeOK'
  BY <1>1, <1>2, <1>6 DEF Inv, TypeOK, Idle
<1> QED
  BY <1>5, <1>7, <1>8 DEF Inv

LEMMA NextPreservesInv == Inv /\ [Next]_vars => Inv'
<1> SUFFICES ASSUME Inv, [Next]_vars PROVE Inv'
  OBVIOUS
<1>1. CASE UNCHANGED vars
  BY <1>1 DEF vars, Inv, TypeOK, NumbersIdentify, WantedIdentify, WantTyped
<1>2. ASSUME NEW w \in Workers, CreateOrCopy(w)
      PROVE  Inv'
  <2>1. ASSUME NEW type \in Types, NEW date \in Dates, CreateDraft(w, type, date)
        PROVE  Inv'
    BY <2>1, FS_EmptySet, CountPreservesInv DEF CreateDraft
  <2>2. ASSUME NEW d \in Docs, CopyDocument(w, d)
        PROVE  Inv'
    <3>1. doc[d].type \in Types /\ doc[d].date \in Dates
      BY <2>2 DEF CopyDocument, Inv, TypeOK, Rows
    <3> QED
      BY <2>2, <3>1, FS_EmptySet, CountPreservesInv DEF CopyDocument
  <2> QED
    BY <1>2, <2>1, <2>2 DEF CreateOrCopy
<1>3. ASSUME NEW w \in Workers, NEW d \in Docs, NEW type \in Types, NEW date \in Dates,
             ChangeType(w, d, type, date)
      PROVE  Inv'
  BY <1>3, FS_Singleton, CountPreservesInv DEF ChangeType
<1>4. ASSUME NEW w \in Workers, NEW d \in Docs, NEW date \in Dates, ChangeDate(w, d, date)
      PROVE  Inv'
  <2> DEFINE r == [doc[d] EXCEPT !.date = date]
  <2>1. doc' = [doc EXCEPT ![d] = r] /\ d \in Existing /\ UNCHANGED <<pc, want>> /\ updated' = TRUE
    BY <1>4 DEF ChangeDate
  <2>2. r.type = doc[d].type /\ r.no = doc[d].no /\ r \in Rows
    BY <2>1 DEF Inv, TypeOK, Rows
  <2> HIDE DEF r
  <2>3. NumbersIdentify'
    BY <2>1, <2>2 DEF Inv, TypeOK, NumbersIdentify
  <2>4. TypeOK'
    BY <2>1, <2>2 DEF Inv, TypeOK
  <2> QED
    BY <2>1, <2>3, <2>4 DEF Inv, WantedIdentify, WantTyped
<1>5. ASSUME NEW w \in Workers, Commit(w) \/ Rollback(w)
      PROVE  Inv'
  <2>1. CASE Rollback(w)
    BY <2>1 DEF Rollback, Released, Inv, TypeOK, Idle, NumbersIdentify, WantedIdentify, WantTyped
  <2> QED
    BY <1>5, <2>1, CommitPreservesInv
<1> QED
  BY <1>1, <1>2, <1>3, <1>4, <1>5 DEF Next, Patch

(* The rows, and the rows that requests are about to write, are documents   *)
(* with numbers from 1 on, whatever has been counted.                       *)
THEOREM TypeCorrect == Spec => []TypeOK
<1>1. Inv => TypeOK
  BY DEF Inv
<1> QED
  BY <1>1, InitInv, NextPreservesInv, PTL DEF Spec

(* Document numbers are unique and name the type of their document, under   *)
(* every interleaving of creations, copies and updates.                     *)
THEOREM NumbersUnique == Spec => []NumbersIdentify
<1>1. Inv => NumbersIdentify
  BY DEF Inv
<1> QED
  BY <1>1, InitInv, NextPreservesInv, PTL DEF Spec

(***************************************************************************)
(* Before the first update, counting is enough.                            *)
(***************************************************************************)

(* Who has counted is about to insert a new row under the next number of   *)
(* its type and date, alone with this type and date.                       *)
WantsNext ==
  \A w \in Workers : pc[w] = "write" =>
    /\ want[w].target = NoDoc
    /\ want[w].row.no = NextNumber(want[w].row.type, want[w].row.date, {})

CountedAlone ==
  \A v, w \in Workers :
    /\ pc[v] = "write" /\ pc[w] = "write"
    /\ want[v].row.type = want[w].row.type /\ want[v].row.date = want[w].row.date
    => v = w

NumbersDated == \A d \in Existing : doc[d].no.date = doc[d].date

Fresh == WantsNext /\ CountedAlone /\ NumbersDated /\ Gapless

Dense == ~updated => Fresh

LEMMA InitDense == Init => Dense
<1> SUFFICES ASSUME Init PROVE Fresh
  BY DEF Dense
<1>1. \A type \in Types, date \in Dates : Alike(type, date) = {}
  BY DEF Init, Alike
<1>2. Gapless
  BY <1>1, FS_EmptySet DEF Gapless
<1> QED
  BY <1>2 DEF Init, Fresh, WantsNext, CountedAlone, NumbersDated

LEMMA CountPreservesDense ==
  ASSUME Inv, Dense, NEW w \in Workers, NEW type \in Types, NEW date \in Dates,
         Count(w, NoDoc, type, date, {})
  PROVE  Dense'
<1> SUFFICES ASSUME ~updated PROVE Fresh'
  BY DEF Dense, Count
<1> DEFINE r == [type |-> type, date |-> date, no |-> NextNumber(type, date, {})]
<1>1. /\ pc' = [pc EXCEPT ![w] = "write"]
      /\ want' = [want EXCEPT ![w] = [target |-> NoDoc, row |-> r]]
      /\ doc' = doc /\ updated' = FALSE
      /\ LockFree(type, date)
  BY DEF Count
<1>2. /\ r.type = type /\ r.date = date /\ r.no = NextNumber(type, date, {})
  OBVIOUS
<1> HIDE DEF r
<1>3. \A t, a : NextNumber(t, a, {})' = NextNumber(t, a, {}) /\ Alike(t, a)' = Alike(t, a)
  BY <1>1 DEF NextNumber, Alike
<1>4. WantsNext'
  BY <1>1, <1>2, <1>3 DEF Dense, Fresh, WantsNext, Inv, TypeOK
<1>5. \A v \in Workers : pc[v] = "write" => want[v].row.type # type \/ want[v].row.date # date
  <2> SUFFICES ASSUME NEW v \in Workers, pc[v] = "write"
               PROVE  want[v].row.type # type \/ want[v].row.date # date
    OBVIOUS
  <2>1. PICK q : q = want[v].row
    OBVIOUS
  <2>2. q.no = NextNumber(q.type, q.date, {})
    BY <2>1 DEF Dense, Fresh, WantsNext
  <2>3. q.no.prefix = q.type /\ q.no.date = q.date
    BY <2>2, NextNumberNames
  <2> QED
    BY <1>1, <2>1, <2>3 DEF LockFree
<1>6. CountedAlone'
  BY <1>1, <1>2, <1>5 DEF Dense, Fresh, CountedAlone, Inv, TypeOK
<1>7. NumbersDated' /\ Gapless'
  BY <1>1, <1>3 DEF Dense, Fresh, NumbersDated, Gapless
<1> QED
  BY <1>4, <1>6, <1>7 DEF Fresh

LEMMA CommitPreservesDense ==
  ASSUME Inv, Dense, NEW w \in Workers, Commit(w)
  PROVE  Dense'
<1> SUFFICES ASSUME ~updated PROVE Fresh'
  BY DEF Dense, Commit, Released
<1> PICK r : r = want[w].row
  OBVIOUS
<1> DEFINE same == Alike(r.type, r.date)
           n == Cardinality(same)
<1>1. /\ pc[w] = "write" /\ want[w].target = NoDoc
      /\ r \in Rows /\ r.no = NextNumber(r.type, r.date, {})
  BY DEF Commit, Dense, Fresh, WantsNext, Inv, WantTyped
<1>2. PICK d \in Docs : doc[d] = NoDoc /\ doc' = [doc EXCEPT ![d] = r]
  BY <1>1 DEF Commit
<1>3. /\ doc'[d] = r /\ r # NoDoc
      /\ \A e \in Docs \ {d} : doc'[e] = doc[e]
  BY <1>1, <1>2, DocsAssumption DEF Inv, TypeOK
<1>4. /\ r.type \in Types /\ r.date \in Dates
      /\ r.no.date = r.date /\ r.no.seq = n + 1
  BY <1>1, NextNumberNames DEF Rows
<1>5. pc' = [pc EXCEPT ![w] = "idle"] /\ want' = [want EXCEPT ![w] = Idle]
  BY DEF Commit, Released
<1>6. /\ Alike(r.type, r.date)' = same \cup {d}
      /\ d \notin same
  BY <1>2, <1>3 DEF Alike
<1>7. \A t, a : t # r.type \/ a # r.date => Alike(t, a)' = Alike(t, a)
  BY <1>2, <1>3 DEF Alike
<1>8. n \in Nat /\ Cardinality(Alike(r.type, r.date)') = n + 1
  BY <1>6, AlikeFinite, FS_AddElement
<1>9. ASSUME NEW t \in Types, NEW a \in Dates
      PROVE  {doc'[e].no.seq : e \in Alike(t, a)'} = 1..Cardinality(Alike(t, a)')
  <2>1. CASE t # r.type \/ a # r.date
    <3>1. \A e \in Alike(t, a) : doc'[e] = doc[e]
      BY <1>2, <1>3 DEF Alike
    <3> QED
      BY <2>1, <3>1, <1>7 DEF Dense, Fresh, Gapless
  <2>2. CASE t = r.type /\ a = r.date
    <3>1. {doc[e].no.seq : e \in same} = 1..n
      BY <1>4 DEF Dense, Fresh, Gapless
    <3>2. \A e \in same : doc'[e] = doc[e]
      BY <1>3, <1>6 DEF Alike
    <3> HIDE DEF n, same
    <3>3. {doc'[e].no.seq : e \in same \cup {d}} = {doc[e].no.seq : e \in same} \cup {n + 1}
      BY <1>3, <1>4, <3>2
    <3>4. (1..n) \cup {n + 1} = 1..(n + 1)
      BY <1>8
    <3> QED
      BY <2>2, <1>6, <1>8, <3>1, <3>3, <3>4
  <2> QED
    BY <2>1, <2>2
<1>10. Gapless'
  BY <1>9 DEF Gapless
<1>11. NumbersDated'
  BY <1>2, <1>3, <1>4 DEF Dense, Fresh, NumbersDated
<1>12. CountedAlone'
  BY <1>5 DEF Dense, Fresh, CountedAlone, Inv, TypeOK
<1>13. WantsNext'
  <2> SUFFICES ASSUME NEW v \in Workers, pc'[v] = "write"
               PROVE  /\ want'[v].target = NoDoc
                      /\ want'[v].row.no = NextNumber(want[v].row.type, want[v].row.date, {})'
    BY DEF WantsNext
  <2>1. v # w /\ pc[v] = "write" /\ want'[v] = want[v]
    BY <1>5 DEF Inv, TypeOK
  <2>2. want[v].row.type # r.type \/ want[v].row.date # r.date
    BY <1>1, <2>1 DEF Dense, Fresh, CountedAlone
  <2> QED
    BY <1>7, <2>1, <2>2 DEF Dense, Fresh, WantsNext, NextNumber
<1> QED
  BY <1>10, <1>11, <1>12, <1>13 DEF Fresh

LEMMA NextPreservesDense == Inv /\ Dense /\ [Next]_vars => Dense'
<1> SUFFICES ASSUME Inv, Dense, [Next]_vars PROVE Dense'
  OBVIOUS
<1>1. CASE UNCHANGED vars
  BY <1>1 DEF vars, Dense, Fresh, WantsNext, CountedAlone, NumbersDated, Gapless, NextNumber, Alike
<1>2. ASSUME NEW w \in Workers, CreateOrCopy(w)
      PROVE  Dense'
  <2>1. ASSUME NEW type \in Types, NEW date \in Dates, CreateDraft(w, type, date)
        PROVE  Dense'
    BY <2>1, CountPreservesDense DEF CreateDraft
  <2>2. ASSUME NEW d \in Docs, CopyDocument(w, d)
        PROVE  Dense'
    <3>1. doc[d].type \in Types /\ doc[d].date \in Dates
      BY <2>2 DEF CopyDocument, Inv, TypeOK, Rows
    <3> QED
      BY <2>2, <3>1, CountPreservesDense DEF CopyDocument
  <2> QED
    BY <1>2, <2>1, <2>2 DEF CreateOrCopy
<1>3. ASSUME NEW w \in Workers, Patch(w)
      PROVE  Dense'
  <2>1. updated'
    BY <1>3, DocsAssumption DEF Patch, ChangeType, ChangeDate, Count
  <2> QED
    BY <2>1 DEF Dense
<1>4. ASSUME NEW w \in Workers, Commit(w) \/ Rollback(w)
      PROVE  Dense'
  <2>1. CASE Rollback(w)
    <3>1. /\ pc' = [pc EXCEPT ![w] = "idle"] /\ want' = [want EXCEPT ![w] = Idle]
          /\ doc' = doc /\ updated' = updated
      BY <2>1 DEF Rollback, Released
    <3>2. \A t, a : NextNumber(t, a, {})' = NextNumber(t, a, {}) /\ Alike(t, a)' = Alike(t, a)
      BY <3>1 DEF NextNumber, Alike
    <3>3. ~updated => WantsNext' /\ CountedAlone'
      BY <3>1, <3>2 DEF Dense, Fresh, WantsNext, CountedAlone, Inv, TypeOK
    <3>4. ~updated => NumbersDated' /\ Gapless'
      BY <3>1, <3>2 DEF Dense, Fresh, NumbersDated, Gapless
    <3> QED
      BY <3>1, <3>3, <3>4 DEF Dense, Fresh
  <2> QED
    BY <1>4, <2>1, CommitPreservesDense
<1> QED
  BY <1>1, <1>2, <1>3, <1>4 DEF Next

LEMMA Invariance == Spec => [](Inv /\ Dense)
BY InitInv, InitDense, NextPreservesInv, NextPreservesDense, PTL DEF Spec

(* Without updates of type or date, the documents of a type and date are    *)
(* numbered 1, 2, ..., whatever requests run at once or roll back.          *)
THEOREM NumbersGapless == Spec => []Gapless
<1>1. Dense => Gapless
  BY DEF Dense, Fresh, Gapless
<1> QED
  BY <1>1, Invariance, PTL

(* Without updates, the advisory lock alone keeps concurrent requests from  *)
(* computing a number twice: the unique constraint never refuses one.       *)
THEOREM NumbersFree == Spec => []NoCollision
<1>1. Inv /\ Dense => NoCollision
  <2> SUFFICES ASSUME Inv, ~updated, Fresh, NEW w \in Workers, pc[w] = "write",
                      NEW d \in Existing, doc[d].type = want[w].row.type,
                      doc[d].no = want[w].row.no
               PROVE  FALSE
    BY DEF Dense, NoCollision, NeverTaken, Taken
  <2> DEFINE r == want[w].row
             n == Cardinality(Alike(r.type, r.date))
  <2>1. r \in Rows /\ r.no = NextNumber(r.type, r.date, {})
    BY DEF Inv, WantTyped, Fresh, WantsNext
  <2>2. r.type \in Types /\ r.date \in Dates /\ r.no.date = r.date /\ r.no.seq = n + 1
    BY <2>1, NextNumberNames DEF Rows
  <2>3. doc[d].date = r.date
    BY <2>2 DEF Fresh, NumbersDated
  <2>4. d \in Alike(r.type, r.date)
    BY <2>3 DEF Alike
  <2>5. doc[d].no.seq \in 1..n
    BY <2>2, <2>4 DEF Fresh, Gapless, Dense
  <2>6. n \in Nat
    BY AlikeFinite
  <2> QED
    BY <2>2, <2>5, <2>6
<1> QED
  BY <1>1, Invariance, PTL

(* Numbers are unique, and free as long as no type or date was updated.     *)
THEOREM NumberingSound == Spec => []NumberingInv
BY TypeCorrect, NumbersUnique, NumbersFree, PTL DEF NumberingInv
=============================================================================
