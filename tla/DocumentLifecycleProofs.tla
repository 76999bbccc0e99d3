----------------------- MODULE DocumentLifecycleProofs -----------------------
(* Proofs about DocumentLifecycle, for any number of requests, keys, lines  *)
(* and versions.                                                            *)
EXTENDS DocumentLifecycle, TLAPS

USE DEF LiveInstances, InFlight

(* The initial documents, drafted or seeded, satisfy the invariant. *)
LEMMA InitInv == Init => Inv
<1> SUFFICES ASSUME Init PROVE Inv
  OBVIOUS
<1> USE BoundsAssumption DEF Init
<1>1. NoLines \in Payloads /\ Empty \in Row
  BY DEF NoLines, Payloads, LineStates, Empty, Row, Statuses
<1>2. LiveInstances = {} \/ row.status = "pending_approval"
  BY DEF InitRow, Unused
<1>3. InFlight = {}
  OBVIOUS
<1>4. TypeOK
  <2>1. row \in Row
    BY <1>1 DEF InitRow, Row, Statuses, Payloads, LineStates
  <2>2. versions \subseteq Versions
    BY DEF InitRow, Versions, Payloads, LineStates
  <2>3. instance \in [Instances -> InstanceRows]
    BY DEF InitRow, InstanceRows, Unused
  <2>4. analysis \in [Keys -> 0..MaxVersion]
    BY DEF InitRow
  <2> QED
    BY <1>1, <2>1, <2>2, <2>3, <2>4 DEF TypeOK, Locations
<1>5. VersionNumbering
  <2>1. CASE row.current = 0 /\ versions = {}
    BY <2>1 DEF VersionNumbering
  <2>2. CASE row.current = 1 /\ \E v : v.no = 1 /\ versions = {v}
    <3>1. PICK v : v.no = 1 /\ versions = {v}
      BY <2>2
    <3>2. {u.no : u \in versions} = {1}
      BY <3>1
    <3> QED
      BY <2>2, <3>1, <3>2 DEF VersionNumbering
  <2>3. (row.current = 0 /\ versions = {}) \/ (row.current = 1 /\ \E v : v.no = 1 /\ versions = {v})
    <3> DEFINE v == [no |-> 1, lines |-> [l \in Lines |-> "anonymous"], key |-> NoKey]
    <3>1. v.no = 1
      OBVIOUS
    <3>2. (row.current = 0 /\ versions = {}) \/ (row.current = 1 /\ versions = {v})
      BY DEF InitRow
    <3> QED
      BY <3>1, <3>2
  <2> QED
    BY <2>1, <2>2, <2>3
<1>6. SessionsBounded
  BY DEF SessionsBounded
<1>7. OneReviewAtATime
  BY <1>3 DEF InitRow, OneReviewAtATime, Unused
<1>8. BusyExcludes
  BY <1>2, <1>3 DEF BusyExcludes, Busy, Editable
<1>9. OpenedInOrder
  BY <1>3 DEF InitRow, OpenedInOrder, Unused
<1>10. OneInstancePerVersion
  BY DEF InitRow, OneInstancePerVersion, Unused
<1>11. SnapshotsComplete
  BY LinesAssumption DEF InitRow, SnapshotsComplete, Complete
<1> QED
  BY <1>4, <1>5, <1>6, <1>7, <1>8, <1>9, <1>10, <1>11 DEF Inv

(* A request that ends without touching a table cannot disturb anything:    *)
(* this is every failure of a submission, and a crash.                      *)
LEMMA ReleasePreservesInv ==
  ASSUME Inv, NEW w \in Workers, Finished(w),
         UNCHANGED <<row, versions, instance>>,
         analysis' \in [Keys -> 0..MaxVersion]
  PROVE  Inv'
<1> USE DEF Inv, Finished
<1>1. TypeOK'
  BY BoundsAssumption DEF TypeOK, Locations, Empty, Row, Statuses, NoLines, Payloads, LineStates
<1>2. pc' = [pc EXCEPT ![w] = "idle"] /\ \A u \in Workers \ {w} : snap'[u] = snap[u] /\ key'[u] = key[u]
  BY DEF TypeOK
<1>3. InFlight' \subseteq InFlight /\ w \notin InFlight'
  BY DEF TypeOK
<1>4. VersionNumbering' /\ OneInstancePerVersion' /\ SnapshotsComplete'
  BY DEF VersionNumbering, OneInstancePerVersion, SnapshotsComplete
<1>5. SessionsBounded'
  BY <1>2 DEF TypeOK, SessionsBounded
<1>6. OneReviewAtATime'
  BY <1>2, <1>3 DEF OneReviewAtATime
<1>7. BusyExcludes'
  BY <1>2, <1>3 DEF TypeOK, BusyExcludes, Busy
<1>8. OpenedInOrder'
  BY <1>3 DEF OpenedInOrder
<1> QED
  BY <1>1, <1>4, <1>5, <1>6, <1>7, <1>8

(* A request that reads the row into its session, or learns its state,      *)
(* leaves the tables as they are.                                           *)
LEMMA ReadPreservesInv ==
  ASSUME Inv, NEW w \in Workers, pc[w] = "idle", pc'[w] \in {"patch", "write"},
         row.state < MaxState,
         pc' = [pc EXCEPT ![w] = pc'[w]],
         snap' = [snap EXCEPT ![w] = row],
         NEW lines \in Payloads, payload' = [payload EXCEPT ![w] = lines],
         UNCHANGED <<row, versions, instance, analysis, seen, key>>
  PROVE  Inv'
<1> USE DEF Inv
<1>1. TypeOK'
  BY DEF TypeOK, Locations
<1>2. InFlight' = InFlight /\ w \notin InFlight
  BY DEF TypeOK
<1>3. VersionNumbering' /\ OneInstancePerVersion' /\ SnapshotsComplete'
  BY DEF VersionNumbering, OneInstancePerVersion, SnapshotsComplete
<1>4. SessionsBounded'
  BY DEF TypeOK, SessionsBounded
<1>5. OneReviewAtATime' /\ BusyExcludes' /\ OpenedInOrder'
  BY <1>2 DEF TypeOK, OneReviewAtATime, BusyExcludes, Busy, OpenedInOrder
<1> QED
  BY <1>1, <1>3, <1>4, <1>5

LEMMA WriteRequestsPreserveInv ==
  ASSUME Inv, NEW w \in Workers,
         UpdateDraft(w) \/ AddLineItem(w) \/ UpdateLineItem(w) \/ DeleteLineItem(w)
  PROVE  Inv'
<1>1. PICK next \in {"patch", "write"}, lines \in Payloads : ReadForWrite(w, next, lines)
  <2>1. row.lines \in Payloads
    BY DEF Inv, TypeOK, Row
  <2>2. \A l \in Lines, s \in LineStates : [row.lines EXCEPT ![l] = s] \in Payloads
    BY <2>1 DEF Payloads
  <2>3. [Lines -> {"absent", "anonymous"}] \subseteq Payloads
    BY DEF Payloads, LineStates
  <2> QED
    BY <2>1, <2>2, <2>3
    DEF UpdateDraft, AddLineItem, UpdateLineItem, DeleteLineItem, LineStates
<1> QED
  BY <1>1, ReadPreservesInv DEF ReadForWrite, CanBegin, Inv, TypeOK

LEMMA SubmitPreservesInv ==
  ASSUME Inv, NEW w \in Workers, NEW k \in Keys, Submit(w, k)
  PROVE  Inv'
<1> USE DEF Inv, Submit, SubmitAccepted, CanBegin
<1>1. TypeOK'
  BY DEF TypeOK, Locations
<1>2. InFlight' = InFlight /\ w \notin InFlight
  BY DEF TypeOK
<1>3. ~Busy
  BY DEF BusyExcludes
<1>4. VersionNumbering' /\ OneInstancePerVersion' /\ SnapshotsComplete'
  BY DEF VersionNumbering, OneInstancePerVersion, SnapshotsComplete
<1>5. SessionsBounded'
  BY DEF TypeOK, Row, SessionsBounded
<1>6. OneReviewAtATime' /\ BusyExcludes' /\ OpenedInOrder'
  BY <1>2, <1>3 DEF TypeOK, OneReviewAtATime, BusyExcludes, Busy, OpenedInOrder
<1> QED
  BY <1>1, <1>4, <1>5, <1>6

(* Writing the lines and the state version touches neither the status nor   *)
(* the number of the current version.                                       *)
LEMMA CommitWritePreservesInv ==
  ASSUME Inv, NEW w \in Workers, CommitWrite(w)
  PROVE  Inv'
<1> USE DEF Inv, CommitWrite, Finished
<1>1. TypeOK'
  <2>1. row' \in Row
    <3>1. snap[w].state + 1 \in 1..MaxState
      BY BoundsAssumption DEF TypeOK, Row, SessionsBounded
    <3>2. Flushed(snap[w].lines, payload[w], row.lines) \in Payloads
      BY DEF TypeOK, Row, Flushed
    <3> QED
      BY <3>1, <3>2 DEF TypeOK, Row
  <2>2. NoLines \in Payloads /\ Empty \in Row
    BY BoundsAssumption DEF NoLines, Payloads, LineStates, Empty, Row, Statuses
  <2> QED
    BY <2>1, <2>2, BoundsAssumption DEF TypeOK, Locations
<1>2. row'.current = row.current /\ row'.status = row.status
  BY DEF TypeOK, Row
<1>3. InFlight' = InFlight /\ w \notin InFlight
  BY DEF TypeOK
<1>4. VersionNumbering' /\ OneInstancePerVersion' /\ SnapshotsComplete'
  BY <1>2 DEF VersionNumbering, OneInstancePerVersion, SnapshotsComplete
<1>5. SessionsBounded'
  BY <1>2 DEF TypeOK, SessionsBounded
<1>6. OneReviewAtATime' /\ BusyExcludes' /\ OpenedInOrder'
  BY <1>2, <1>3 DEF TypeOK, OneReviewAtATime, BusyExcludes, Busy, OpenedInOrder
<1> QED
  BY <1>1, <1>4, <1>5, <1>6

(* The version committed is the next one: the number computed from the row  *)
(* read is free only when no other submission has committed since.  Hence   *)
(* nothing is in flight or under review, and every other submission still   *)
(* to commit now holds an older row.                                        *)
LEMMA CommitVersionPreservesInv ==
  ASSUME Inv, NEW w \in Workers, CommitVersion(w)
  PROVE  Inv'
<1> USE DEF Inv
<1> DEFINE no == snap[w].current + 1
           v  == [no |-> no, lines |-> snap[w].lines, key |-> key[w]]
<1>1. /\ pc[w] = "submit"
      /\ \A u \in versions : u.no # no
      /\ versions' = versions \cup {v}
      /\ row' = [row EXCEPT !.status = "pending_review", !.current = no,
                            !.state = snap[w].state + 1]
      /\ pc' = [pc EXCEPT ![w] = "analysis"]
      /\ UNCHANGED <<instance, analysis, seen, snap, payload, key>>
  BY DEF CommitVersion, VersionTaken
<1>2. /\ snap[w] \in Row /\ row \in Row /\ snap[w].state < MaxState
      /\ snap[w].current \in Nat /\ snap[w].current < MaxVersion /\ key[w] \in Keys
      /\ snap[w].current <= row.current /\ Complete(snap[w].lines)
  BY <1>1, BoundsAssumption DEF TypeOK, Row, SessionsBounded
<1>3. snap[w].current = row.current
  <2>1. no \notin 1..row.current
    BY <1>1 DEF VersionNumbering
  <2> QED
    BY <1>2, <2>1, BoundsAssumption DEF Row
<1>4. ~Busy
  BY <1>1, <1>2, <1>3, BoundsAssumption DEF BusyExcludes, Row
<1>5. row'.current = row.current + 1 /\ row'.status = "pending_review"
  BY <1>1, <1>2, <1>3 DEF Row
<1>6. v \in Versions
  BY <1>2, BoundsAssumption DEF Versions, Row
<1>7. TypeOK'
  <2>1. row' \in Row
    <3>1. snap[w].state + 1 \in 1..MaxState /\ no \in 0..MaxVersion
      BY <1>2, BoundsAssumption DEF Row
    <3> QED
      BY <1>1, <1>2, <3>1 DEF Row, Statuses
  <2> QED
    BY <1>1, <1>6, <2>1 DEF TypeOK, Locations
<1>8. VersionNumbering'
  <2>1. {u.no : u \in versions'} = {u.no : u \in versions} \cup {no}
    <3>1. v.no = no
      OBVIOUS
    <3> HIDE DEF v
    <3> QED
      BY <1>1, <3>1
  <2>2. (1..row.current) \cup {no} = 1..row'.current
    BY <1>2, <1>3, <1>5, BoundsAssumption DEF Row
  <2>3. \A t, u \in versions' : t.no = u.no => t = u
    BY <1>1 DEF VersionNumbering
  <2> QED
    BY <2>1, <2>2, <2>3 DEF VersionNumbering
<1>9. SessionsBounded'
  BY <1>1, <1>2, <1>5, BoundsAssumption DEF TypeOK, Row, SessionsBounded
<1>10. InFlight' = {w} /\ LiveInstances' = {}
  BY <1>1, <1>4 DEF Busy, TypeOK
<1>11. OneReviewAtATime'
  BY <1>1, <1>3, <1>5, <1>10 DEF OneReviewAtATime
<1>12. BusyExcludes'
  <2>1. \A u \in Workers : pc'[u] = "submit" => snap'[u].current < row'.current
    BY <1>1, <1>2, <1>5, BoundsAssumption DEF TypeOK, Row, SessionsBounded
  <2> QED
    BY <1>5, <2>1 DEF BusyExcludes, Editable
<1>13. OpenedInOrder'
  BY <1>1, <1>2, <1>5, BoundsAssumption DEF OpenedInOrder, TypeOK, InstanceRows, Row
<1>14. OneInstancePerVersion' /\ SnapshotsComplete'
  BY <1>1, <1>2 DEF OneInstancePerVersion, SnapshotsComplete
<1> QED
  BY <1>7, <1>8, <1>9, <1>11, <1>12, <1>13, <1>14

LEMMA StartAnalysisPreservesInv ==
  ASSUME Inv, NEW w \in Workers, StartAnalysis(w)
  PROVE  Inv'
<1> USE DEF Inv, StartAnalysis
<1>1. TypeOK'
  <2>1. snap[w].current + 1 \in 0..MaxVersion
    BY BoundsAssumption DEF TypeOK, SessionsBounded, Row
  <2> QED
    BY <2>1 DEF TypeOK, Locations, SessionsBounded
<1>2. InFlight' = InFlight
  BY DEF TypeOK
<1>3. VersionNumbering' /\ OneInstancePerVersion' /\ SnapshotsComplete'
  BY DEF VersionNumbering, OneInstancePerVersion, SnapshotsComplete
<1>4. SessionsBounded'
  BY DEF TypeOK, SessionsBounded
<1>5. OneReviewAtATime' /\ BusyExcludes' /\ OpenedInOrder'
  BY <1>2 DEF TypeOK, OneReviewAtATime, BusyExcludes, Busy, OpenedInOrder
<1> QED
  BY <1>1, <1>3, <1>4, <1>5

(* The version in flight becomes the version under review.                  *)
LEMMA CreateInstancePreservesInv ==
  ASSUME Inv, NEW w \in Workers, CreateInstance(w)
  PROVE  Inv'
<1> USE DEF Inv
<1>1. PICK i \in Instances :
        /\ instance[i] = Unused
        /\ instance' = [instance EXCEPT ![i] = [status |-> "complete",
                                               version |-> snap[w].current + 1]]
  BY DEF CreateInstance
<1>2. pc[w] = "instance" /\ Finished(w) /\ UNCHANGED <<row, versions, analysis>>
  BY DEF CreateInstance
<1>3. /\ snap[w].current + 1 = row.current
      /\ row.current \in 1..MaxVersion
      /\ LiveInstances = {}
      /\ InFlight = {w}
  BY <1>2, BoundsAssumption DEF OneReviewAtATime, TypeOK, Row, SessionsBounded
<1>4. /\ \A j \in Instances \ {i} : instance'[j] = instance[j]
      /\ instance'[i] = [status |-> "complete", version |-> row.current]
  BY <1>1, <1>3 DEF TypeOK
<1>5. LiveInstances' = {i} /\ InFlight' = {}
  BY <1>2, <1>3, <1>4 DEF Finished, TypeOK
<1>6. TypeOK'
  <2>1. instance' \in [Instances -> InstanceRows]
    BY <1>1, <1>3 DEF TypeOK, InstanceRows
  <2>2. NoLines \in Payloads /\ Empty \in Row
    BY BoundsAssumption DEF NoLines, Payloads, LineStates, Empty, Row, Statuses
  <2> QED
    BY <1>2, <2>1, <2>2, BoundsAssumption DEF Finished, TypeOK, Locations
<1>7. VersionNumbering' /\ SnapshotsComplete'
  BY <1>2 DEF VersionNumbering, SnapshotsComplete
<1>8. SessionsBounded'
  BY <1>2 DEF Finished, TypeOK, SessionsBounded
<1>9. OneReviewAtATime'
  BY <1>2, <1>4, <1>5 DEF OneReviewAtATime
<1>10. BusyExcludes'
  BY <1>2, <1>3 DEF Finished, TypeOK, BusyExcludes, Busy
<1>11. OpenedInOrder'
  BY <1>2, <1>3, <1>4, <1>5 DEF OpenedInOrder
<1>12. OneInstancePerVersion'
  BY <1>2, <1>3, <1>4, BoundsAssumption
  DEF OpenedInOrder, OneInstancePerVersion, TypeOK, InstanceRows
<1> QED
  BY <1>6, <1>7, <1>8, <1>9, <1>10, <1>11, <1>12

(* No status that a request of the applicant sets can be edited or          *)
(* submitted again.                                                         *)
LEMMA ChangeStatusPreservesInv ==
  ASSUME Inv, NEW w \in Workers, NEW target \in {"withdrawn", "voided"},
         ChangeStatus(w, target)
  PROVE  Inv'
<1> USE DEF Inv, ChangeStatus, CanBegin, localVars
<1>1. row.state + 1 \in 1..MaxState
  BY BoundsAssumption DEF TypeOK, Row
<1>2. TypeOK'
  BY <1>1 DEF TypeOK, Row, Statuses
<1>3. row'.current = row.current /\ row'.status = target
  BY DEF TypeOK, Row
<1>4. VersionNumbering' /\ OneInstancePerVersion' /\ SnapshotsComplete'
  BY <1>3 DEF VersionNumbering, OneInstancePerVersion, SnapshotsComplete
<1>5. SessionsBounded' /\ OneReviewAtATime' /\ OpenedInOrder'
  BY <1>3 DEF SessionsBounded, OneReviewAtATime, OpenedInOrder
<1>6. BusyExcludes'
  BY <1>3 DEF BusyExcludes, Busy, Editable
<1> QED
  BY <1>2, <1>4, <1>5, <1>6

(* A decision either goes on, and the document stays out of the applicant's *)
(* hands, or it ends the only review there is.                              *)
LEMMA DecidePreservesInv ==
  ASSUME Inv, NEW i \in LiveInstances, NEW outcome \in {"complete", "finished"},
         NEW status \in {"pending_approval", "approved", "returned", "rejected"},
         Decide(i, status, outcome), outcome = "complete" => status = "pending_approval"
  PROVE  Inv'
<1> USE DEF Inv, Decide, localVars
<1>1. row.state + 1 \in 1..MaxState
  BY BoundsAssumption DEF TypeOK, Row
<1>2. TypeOK'
  BY <1>1 DEF TypeOK, Row, Statuses, InstanceRows
<1>3. row'.current = row.current /\ row'.status = status
  BY DEF TypeOK, Row
<1>4. /\ \A j \in Instances : instance'[j].version = instance[j].version
      /\ \A j \in Instances \ {i} : instance'[j] = instance[j]
      /\ instance'[i].status = outcome
  BY DEF TypeOK, InstanceRows
<1>5. InFlight' = {} /\ LiveInstances' = IF outcome = "finished" THEN {} ELSE {i}
  BY <1>4 DEF OneReviewAtATime
<1>6. VersionNumbering' /\ SnapshotsComplete'
  BY <1>3 DEF VersionNumbering, SnapshotsComplete
<1>7. SessionsBounded' /\ OneReviewAtATime'
  BY <1>3, <1>4, <1>5 DEF SessionsBounded, OneReviewAtATime
<1>8. BusyExcludes'
  BY <1>3, <1>5 DEF BusyExcludes, Busy, Editable
<1>9. OpenedInOrder' /\ OneInstancePerVersion'
  BY <1>3, <1>4, <1>5 DEF OpenedInOrder, OneInstancePerVersion
<1> QED
  BY <1>2, <1>6, <1>7, <1>8, <1>9

LEMMA GetPreservesInv ==
  ASSUME Inv, NEW w \in Workers, Get(w)
  PROVE  Inv'
<1> USE DEF Inv, Get
<1>1. TypeOK'
  BY BoundsAssumption DEF TypeOK, Row
<1> QED
  BY <1>1 DEF VersionNumbering, SessionsBounded, OneReviewAtATime, BusyExcludes, Busy,
              OpenedInOrder, OneInstancePerVersion, SnapshotsComplete

LEMMA NextPreservesInv == Inv /\ [Next]_vars => Inv'
<1> SUFFICES ASSUME Inv, [Next]_vars PROVE Inv'
  OBVIOUS
<1>1. CASE UNCHANGED vars
  BY <1>1 DEF vars, Inv, TypeOK, VersionNumbering, SessionsBounded, OneReviewAtATime,
              BusyExcludes, Busy, OpenedInOrder, OneInstancePerVersion, SnapshotsComplete
<1>2. ASSUME NEW w \in Workers, Request(w)
      PROVE  Inv'
  BY <1>2, GetPreservesInv, WriteRequestsPreserveInv, SubmitPreservesInv,
     ChangeStatusPreservesInv DEF Request
<1>3. ASSUME NEW w \in Workers, WorkerStep(w) \/ Crash(w)
      PROVE  Inv'
  <2>1. CASE CommitWrite(w) \/ CommitVersion(w) \/ StartAnalysis(w) \/ CreateInstance(w)
    BY <2>1, CommitWritePreservesInv, CommitVersionPreservesInv,
       StartAnalysisPreservesInv, CreateInstancePreservesInv
  <2>2. CASE CommitVersionFails(w) \/ StartAnalysisFails(w) \/ NoInstance(w) \/ Crash(w)
    BY <2>2, ReleasePreservesInv
    DEF CommitVersionFails, StartAnalysisFails, NoInstance, Crash, Inv, TypeOK
  <2>3. CASE EnqueueFails(w)
    <3>1. snap[w].current + 1 \in 0..MaxVersion
      BY <2>3, BoundsAssumption DEF EnqueueFails, Inv, TypeOK, SessionsBounded, Row
    <3>2. analysis' \in [Keys -> 0..MaxVersion]
      BY <2>3, <3>1 DEF EnqueueFails, Inv, TypeOK
    <3> QED
      BY <2>3, <3>2, ReleasePreservesInv DEF EnqueueFails
  <2> QED
    BY <1>3, <2>1, <2>2, <2>3 DEF WorkerStep
<1>4. ASSUME NEW i \in Instances, ApproveNode(i) \/ ApproveLast(i) \/ SendBack(i)
      PROVE  Inv'
  BY <1>4, DecidePreservesInv DEF ApproveNode, ApproveLast, SendBack
<1> QED
  BY <1>1, <1>2, <1>3, <1>4 DEF Next

(* However submissions, edits, decisions and crashes interleave, the rows  *)
(* agree with each other: the inductive invariant.                          *)
THEOREM Invariance == Spec => []Inv
  BY InitInv, NextPreservesInv, PTL DEF Spec

(* Types are kept, whatever the interleaving of requests and decisions.     *)
THEOREM TypeCorrect == Spec => []TypeOK
  BY Invariance, PTL DEF Inv

(* Versions are numbered 1 .. current_version without a gap or a repeat.    *)
THEOREM VersionsNumbered == Spec => []VersionNumbering
  BY Invariance, PTL DEF Inv

(* An instance that can be decided is of the latest version, is the only    *)
(* one, and the document cannot be edited meanwhile.                        *)
THEOREM LiveInstancesCurrent == Spec => []LiveInstanceIsCurrent
<1>1. Inv => LiveInstanceIsCurrent
  BY DEF Inv, OneReviewAtATime, BusyExcludes, Busy, LiveInstanceIsCurrent
<1> QED
  BY <1>1, Invariance, PTL

(* No version is put into approval twice.                                   *)
THEOREM VersionsReviewedOnce == Spec => []OneInstancePerVersion
  BY Invariance, PTL DEF Inv

(* Every version has a line.                                                *)
THEOREM VersionsComplete == Spec => []SnapshotsComplete
  BY Invariance, PTL DEF Inv

(***************************************************************************)
(* Refinement: committing a version appends it, creating its instance opens *)
(* its review, ending the instance closes it, and every other step is       *)
(* invisible to the ledger.                                                 *)
(***************************************************************************)
(* What the mapping yields when the invariant holds. *)
LEMMA ReviewingValue ==
  ASSUME Inv
  PROVE  /\ LiveInstances = {} => Reviewing = 0
         /\ \A i \in LiveInstances : Reviewing = row.current
<1>1. LiveInstances = {} => UnderReview = {}
  BY DEF UnderReview
<1>2. \A i \in LiveInstances : UnderReview = {row.current}
  BY DEF UnderReview, Inv, OneReviewAtATime
<1> QED
  BY <1>1, <1>2 DEF Reviewing

LEMMA LedgerInit == Init => Ledger!Init
<1> SUFFICES ASSUME Init PROVE Ledger!Init
  OBVIOUS
<1>1. Inv
  BY InitInv
<1>2. CASE row.current = 0 /\ \A i \in Instances : instance[i] = Unused
  <2>1. Reviewed = {} /\ LiveInstances = {}
    BY <1>2 DEF Reviewed, Unused
  <2>2. Reviewing = 0
    BY <1>1, <2>1, ReviewingValue
  <2> QED
    BY <1>2, <2>1, <2>2 DEF Ledger!Init
<1>3. CASE row.current = 1 /\ \E i \in Instances :
             instance = [j \in Instances |->
                           IF j = i THEN [status |-> "partial", version |-> 1] ELSE Unused]
  <2>1. PICK i \in Instances :
          instance = [j \in Instances |->
                        IF j = i THEN [status |-> "partial", version |-> 1] ELSE Unused]
    BY <1>3
  <2>2. i \in LiveInstances
    BY <2>1
  <2>3. Reviewing = 1
    BY <1>1, <1>3, <2>2, ReviewingValue
  <2>4. Reviewed = {1}
    BY <2>1 DEF Reviewed, Unused
  <2> QED
    BY <1>3, <2>3, <2>4 DEF Ledger!Init
<1> QED
  BY <1>2, <1>3 DEF Init, InitRow

(* A step that keeps the versions and the instances is not seen.            *)
LEMMA QuietStep ==
  ASSUME row'.current = row.current, UNCHANGED instance
  PROVE  UNCHANGED Ledger!ledger
BY DEF Ledger!ledger, Reviewing, UnderReview, Reviewed

LEMMA AppendStep ==
  ASSUME Inv, Inv', NEW w \in Workers, CommitVersion(w)
  PROVE  Ledger!Append
<1>1. LiveInstances' = {} /\ LiveInstances = {}
  <2>1. pc'[w] = "analysis"
    BY DEF CommitVersion, Inv, TypeOK
  <2>2. LiveInstances' = {}
    BY <2>1 DEF Inv, OneReviewAtATime
  <2> QED
    BY <2>2 DEF CommitVersion
<1>2. Reviewing = 0 /\ Reviewing' = 0 /\ Reviewed' = Reviewed
  BY <1>1 DEF Reviewing, UnderReview, Reviewed, CommitVersion
<1>3. row'.current = row.current + 1
  <2>1. row'.current = snap[w].current + 1 /\ pc'[w] = "analysis" /\ snap' = snap
    BY DEF CommitVersion, Inv, TypeOK, Row
  <2>2. snap[w].current + 1 \notin 1..row.current
    BY DEF CommitVersion, VersionTaken, Inv, VersionNumbering
  <2>3. snap[w].current <= row.current /\ snap[w].current \in Nat /\ row.current \in Nat
    BY BoundsAssumption DEF CommitVersion, Inv, TypeOK, Row, SessionsBounded
  <2> QED
    BY <2>1, <2>2, <2>3
<1> QED
  BY <1>2, <1>3 DEF Ledger!Append

LEMMA OpenReviewStep ==
  ASSUME Inv, Inv', NEW w \in Workers, CreateInstance(w)
  PROVE  Ledger!OpenReview
<1>1. PICK i \in Instances :
        /\ instance[i] = Unused
        /\ instance' = [instance EXCEPT ![i] = [status |-> "complete",
                                               version |-> snap[w].current + 1]]
  BY DEF CreateInstance
<1>2. /\ w \in InFlight
      /\ row.current = snap[w].current + 1
      /\ LiveInstances = {}
      /\ row' = row
  BY DEF CreateInstance, Inv, OneReviewAtATime
<1>3. /\ instance'[i] = [status |-> "complete", version |-> row.current]
      /\ \A j \in Instances \ {i} : instance'[j] = instance[j]
  BY <1>1, <1>2 DEF Inv, TypeOK
<1>4. UnderReview = {} /\ UnderReview' = {row.current}
  BY <1>2, <1>3 DEF UnderReview
<1>5. Reviewing = 0 /\ Reviewing' = row.current
  BY <1>4 DEF Reviewing
<1>6. Reviewed' = Reviewed \cup {row.current}
  BY <1>1, <1>3 DEF Reviewed, Unused
<1>7. row.current > 0
  BY <1>2, BoundsAssumption DEF Inv, TypeOK, Row
<1>8. row.current \notin Reviewed
  <2>1. \A j \in Instances : instance[j].status # "unused" => instance[j].version < row.current
    BY <1>2 DEF Inv, OpenedInOrder
  <2>2. row.current \in Nat
    BY BoundsAssumption DEF Inv, TypeOK, Row
  <2> QED
    BY <2>1, <2>2 DEF Reviewed
<1> QED
  BY <1>2, <1>5, <1>6, <1>7, <1>8 DEF Ledger!OpenReview

LEMMA DecisionStep ==
  ASSUME Inv, Inv', NEW i \in LiveInstances, NEW outcome \in {"complete", "finished"},
         NEW status, Decide(i, status, outcome)
  PROVE  Ledger!CloseReview \/ UNCHANGED Ledger!ledger
<1>1. row'.current = row.current
  BY DEF Decide, Inv, TypeOK, Row
<1>2. /\ \A j \in Instances : instance'[j].version = instance[j].version
      /\ \A j \in Instances \ {i} : instance'[j] = instance[j]
      /\ instance'[i].status = outcome
  BY DEF Decide, Inv, TypeOK, InstanceRows
<1>3. Reviewed' = Reviewed
  BY <1>2 DEF Reviewed
<1>4. Reviewing = row.current /\ row.current > 0
  BY ReviewingValue DEF Inv, OneReviewAtATime, OpenedInOrder
<1>5. CASE outcome = "finished"
  <2>1. LiveInstances' = {}
    BY <1>2, <1>5 DEF Inv, OneReviewAtATime
  <2>2. Reviewing' = 0
    BY <2>1 DEF Reviewing, UnderReview
  <2> QED
    BY <1>1, <1>3, <1>4, <2>2 DEF Ledger!CloseReview
<1>6. CASE outcome = "complete"
  <2>1. LiveInstances' = LiveInstances
    BY <1>2, <1>6
  <2>2. UnderReview' = UnderReview
    BY <1>2, <2>1 DEF UnderReview
  <2> QED
    BY <1>1, <1>3, <2>2 DEF Ledger!ledger, Reviewing
<1> QED
  BY <1>5, <1>6

LEMMA LedgerStep == Inv /\ Inv' /\ [Next]_vars => [Ledger!Next]_(Ledger!ledger)
<1> SUFFICES ASSUME Inv, Inv', [Next]_vars
             PROVE  Ledger!Next \/ UNCHANGED Ledger!ledger
  OBVIOUS
<1>1. CASE UNCHANGED vars
  BY <1>1, QuietStep DEF vars
<1>2. ASSUME NEW w \in Workers, Request(w)
      PROVE  UNCHANGED Ledger!ledger
  BY <1>2, QuietStep
  DEF Request, Get, UpdateDraft, AddLineItem, UpdateLineItem, DeleteLineItem, ReadForWrite,
      Submit, ChangeStatus, Inv, TypeOK, Row
<1>3. ASSUME NEW w \in Workers, WorkerStep(w) \/ Crash(w)
      PROVE  Ledger!Next \/ UNCHANGED Ledger!ledger
  <2>1. CASE CommitVersion(w)
    BY <2>1, AppendStep DEF Ledger!Next
  <2>2. CASE CreateInstance(w)
    BY <2>2, OpenReviewStep DEF Ledger!Next
  <2>3. CASE \/ CommitWrite(w) \/ CommitVersionFails(w) \/ StartAnalysis(w)
             \/ StartAnalysisFails(w) \/ EnqueueFails(w) \/ NoInstance(w) \/ Crash(w)
    BY <2>3, QuietStep
    DEF CommitWrite, CommitVersionFails, StartAnalysis, StartAnalysisFails, EnqueueFails,
        NoInstance, Crash, Inv, TypeOK, Row
  <2> QED
    BY <1>3, <2>1, <2>2, <2>3 DEF WorkerStep
<1>4. ASSUME NEW i \in Instances, ApproveNode(i) \/ ApproveLast(i) \/ SendBack(i)
      PROVE  Ledger!Next \/ UNCHANGED Ledger!ledger
  BY <1>4, DecisionStep DEF ApproveNode, ApproveLast, SendBack, Ledger!Next
<1> QED
  BY <1>1, <1>2, <1>3, <1>4 DEF Next

(* The submission path implements the ledger of versions.                   *)
THEOREM LedgerImplemented == Spec => ImplementsLedger
  BY InitInv, LedgerInit, LedgerStep, Invariance, PTL DEF Spec, ImplementsLedger, Ledger!Spec

(***************************************************************************)
(* What is reviewed has been given to the analysis.                        *)
(***************************************************************************)
(* The task under the key of a version is of it, or of an earlier one that *)
(* was submitted under the same key.                                       *)
Analysed(v) ==
  /\ analysis[v.key] # 0
  /\ analysis[v.key] # v.no => \E u \in versions : u.key = v.key /\ u.no < v.no

UnusedEmpty == \A i \in Instances : instance[i].status = "unused" => instance[i] = Unused

(* A task under a key is of a version that was submitted under it.         *)
TasksOfVersions ==
  \A k \in Keys : analysis[k] # 0 => \E u \in versions : u.key = k /\ u.no = analysis[k]

(* A version in flight has the key of its request, and its task when the   *)
(* request is about to create its instance.                                *)
FlightAnalysed ==
  \A w \in InFlight, v \in versions :
    v.no = snap[w].current + 1 => v.key = key[w] /\ (pc[w] = "instance" => Analysed(v))

AnalysisFollows ==
  UnusedEmpty /\ TasksOfVersions /\ FlightAnalysed /\ ReviewIsAnalysed

LEMMA InitAnalysed == Init => AnalysisFollows
<1> SUFFICES ASSUME Init PROVE AnalysisFollows
  OBVIOUS
<1>1. InFlight = {} /\ \A v \in versions : v.key = NoKey
  BY DEF Init, InitRow
<1>2. UnusedEmpty /\ TasksOfVersions
  BY DEF Init, InitRow, Unused, UnusedEmpty, TasksOfVersions
<1> QED
  BY <1>1, <1>2 DEF AnalysisFollows, FlightAnalysed, ReviewIsAnalysed

(* Steps that leave versions, instances and tasks as they are, and put no  *)
(* other version into flight.                                              *)
Quiet ==
  /\ UNCHANGED <<versions, instance, analysis>>
  /\ \A w \in Workers : pc'[w] \in {"analysis", "instance"} =>
       pc'[w] = pc[w] /\ snap'[w] = snap[w] /\ key'[w] = key[w]

LEMMA QuietAnalysed ==
  ASSUME AnalysisFollows, Quiet
  PROVE  AnalysisFollows'
<1>1. \A v : Analysed(v)' <=> Analysed(v)
  BY DEF Quiet, Analysed
<1>2. UnusedEmpty' /\ TasksOfVersions' /\ ReviewIsAnalysed'
  BY DEF AnalysisFollows, Quiet, UnusedEmpty, TasksOfVersions, ReviewIsAnalysed
<1>3. FlightAnalysed'
  <2> SUFFICES ASSUME NEW w \in Workers, pc'[w] \in {"analysis", "instance"},
                      NEW v \in versions, v.no = snap'[w].current + 1
               PROVE  v.key = key'[w] /\ (pc'[w] = "instance" => Analysed(v))
    BY <1>1 DEF Quiet, FlightAnalysed
  <2> QED BY DEF AnalysisFollows, Quiet, FlightAnalysed
<1> QED BY <1>2, <1>3 DEF AnalysisFollows

(* A new version has a number that no instance and no task is of.          *)
LEMMA CommitVersionAnalysed ==
  ASSUME Inv, AnalysisFollows, NEW w \in Workers, CommitVersion(w)
  PROVE  AnalysisFollows'
<1> DEFINE no == snap[w].current + 1
           new == [no |-> no, lines |-> snap[w].lines, key |-> key[w]]
<1> USE DEF Inv
<1>1. versions' = versions \cup {new} /\ UNCHANGED <<instance, analysis, snap, key>>
      /\ pc' = [pc EXCEPT ![w] = "analysis"] /\ pc[w] = "submit"
  BY DEF CommitVersion
<1>2. no \in Nat /\ no > row.current /\ row.current \in Nat
  <2>1. snap[w].current \in 0..MaxVersion /\ row.current \in 0..MaxVersion
    BY DEF TypeOK, Row
  <2>2. no \notin 1..row.current
    BY DEF CommitVersion, VersionTaken, VersionNumbering
  <2> QED BY <2>1, <2>2, BoundsAssumption
<1> HIDE DEF no
<1>3. \A v \in versions : v.no \in 1..row.current /\ v.no # no
  BY <1>2 DEF VersionNumbering
<1>4. \A i \in Instances : instance[i].version # no
  <2> SUFFICES ASSUME NEW i \in Instances PROVE instance[i].version # no
    OBVIOUS
  <2>1. CASE instance[i].status = "unused"
    BY <1>2, <2>1 DEF AnalysisFollows, UnusedEmpty, Unused
  <2>2. CASE instance[i].status # "unused"
    BY <1>2, <2>2 DEF OpenedInOrder
  <2> QED BY <2>1, <2>2
<1>5. \A v \in versions : Analysed(v) => Analysed(v)'
  BY <1>1 DEF Analysed
<1>6. UnusedEmpty' /\ TasksOfVersions'
  BY <1>1 DEF AnalysisFollows, UnusedEmpty, TasksOfVersions
<1>7. ReviewIsAnalysed'
  <2> SUFFICES ASSUME NEW i \in Instances, NEW v \in versions',
                      instance'[i].version = v.no, v.key # NoKey
               PROVE  Analysed(v)'
    BY DEF ReviewIsAnalysed, Analysed
  <2>1. v \in versions
    BY <1>1, <1>4
  <2>2. Analysed(v)
    BY <1>1, <2>1 DEF AnalysisFollows, ReviewIsAnalysed, Analysed
  <2> QED BY <1>5, <2>1, <2>2
<1>8. FlightAnalysed'
  <2> SUFFICES ASSUME NEW u \in Workers, pc'[u] \in {"analysis", "instance"},
                      NEW v \in versions', v.no = snap'[u].current + 1
               PROVE  v.key = key'[u] /\ (pc'[u] = "instance" => Analysed(v)')
    BY DEF FlightAnalysed
  <2>1. CASE u = w
    <3>1. v.no = no
      BY <1>1, <2>1 DEF no
    <3>2. v = new
      BY <1>1, <1>3, <3>1
    <3> QED BY <1>1, <2>1, <3>2 DEF TypeOK
  <2>2. CASE u # w
    <3>1. pc[u] = pc'[u] /\ snap[u].current + 1 = row.current
      BY <1>1, <2>2 DEF TypeOK, OneReviewAtATime
    <3>2. v \in versions
      BY <1>1, <1>2, <3>1
    <3>3. v.key = key[u] /\ (pc[u] = "instance" => Analysed(v))
      BY <1>1, <3>1, <3>2 DEF AnalysisFollows, FlightAnalysed
    <3> QED BY <1>1, <1>5, <3>1, <3>2, <3>3
  <2> QED BY <2>1, <2>2
<1> QED BY <1>6, <1>7, <1>8 DEF AnalysisFollows

(* The task of a version in flight is inserted, if its key has none yet.   *)
LEMMA TaskInserted ==
  ASSUME Inv, AnalysisFollows, NEW w \in InFlight,
         UNCHANGED <<versions, instance>>,
         analysis' = [analysis EXCEPT ![key[w]] = IF @ = 0 THEN snap[w].current + 1 ELSE @]
  PROVE  /\ UnusedEmpty' /\ TasksOfVersions' /\ ReviewIsAnalysed'
         /\ \A v \in versions : Analysed(v) => Analysed(v)'
         /\ \A v \in versions : v.no = snap[w].current + 1 => Analysed(v)'
<1> DEFINE no == snap[w].current + 1
           k == key[w]
<1> USE DEF Inv
<1>1. k \in Keys /\ no = row.current /\ row.current \in 0..MaxVersion
  BY DEF SessionsBounded, OneReviewAtATime, TypeOK, Row
<1>2. no \in 1..row.current
  <2>1. snap[w].current \in 0..MaxVersion
    BY DEF TypeOK, Row
  <2> QED BY <1>1, <2>1, BoundsAssumption
<1>3. PICK v \in versions : v.no = no
  BY <1>2 DEF VersionNumbering
<1>4. v.key = k /\ \A u \in versions : u.no = no => u = v
  BY <1>3 DEF AnalysisFollows, FlightAnalysed, VersionNumbering
<1> HIDE DEF no, k
<1>5. analysis \in [Keys -> 0..MaxVersion]
  BY DEF TypeOK
<1>6. /\ \A h \in Keys \ {k} : analysis'[h] = analysis[h]
      /\ analysis'[k] = IF analysis[k] = 0 THEN no ELSE analysis[k]
  BY <1>1, <1>5 DEF no, k
<1>7. no # 0
  BY <1>2
<1>8. \A u \in versions : Analysed(u) => Analysed(u)'
  <2> SUFFICES ASSUME NEW u \in versions, Analysed(u) PROVE Analysed(u)'
    OBVIOUS
  <2>1. analysis'[u.key] = analysis[u.key]
    <3>1. u.key \in Keys \cup {NoKey}
      BY DEF TypeOK, Versions
    <3>2. CASE u.key \in Keys
      BY <1>6, <3>2 DEF Analysed
    <3>3. CASE u.key = NoKey
      BY <1>1, <1>5, <3>3, NoKeyAssumption DEF k
    <3> QED BY <3>1, <3>2, <3>3
  <2> QED BY <2>1 DEF Analysed
<1>9. TasksOfVersions'
  <2> SUFFICES ASSUME NEW h \in Keys, analysis'[h] # 0
               PROVE  \E u \in versions : u.key = h /\ u.no = analysis'[h]
    BY DEF TasksOfVersions
  <2>1. CASE analysis'[h] = analysis[h]
    BY <2>1 DEF AnalysisFollows, TasksOfVersions
  <2>2. CASE h = k /\ analysis'[h] = no
    BY <1>3, <1>4, <2>2
  <2> QED BY <1>6, <2>1, <2>2
<1>10. Analysed(v)'
  <2>1. CASE analysis[k] = 0
    BY <1>3, <1>4, <1>6, <1>7, <2>1 DEF Analysed
  <2>2. CASE analysis[k] # 0
    <3>1. PICK u \in versions : u.key = k /\ u.no = analysis[k]
      BY <1>1, <2>2 DEF AnalysisFollows, TasksOfVersions
    <3>2. u.no \in 1..row.current
      BY DEF VersionNumbering
    <3>3. analysis'[k] = u.no /\ (u.no # no => u.no < no)
      BY <1>1, <1>6, <2>2, <3>1, <3>2
    <3> QED BY <1>3, <1>4, <2>2, <1>6, <3>1, <3>3 DEF Analysed
  <2> QED BY <2>1, <2>2
<1>11. ReviewIsAnalysed'
  BY <1>8 DEF AnalysisFollows, ReviewIsAnalysed, Analysed
<1>12. UnusedEmpty'
  BY DEF AnalysisFollows, UnusedEmpty
<1> QED
  BY <1>4, <1>8, <1>9, <1>10, <1>11, <1>12 DEF no

LEMMA StartAnalysisAnalysed ==
  ASSUME Inv, AnalysisFollows, NEW w \in Workers, StartAnalysis(w) \/ EnqueueFails(w)
  PROVE  AnalysisFollows'
<1>1. w \in InFlight /\ UNCHANGED <<versions, instance>>
  BY DEF StartAnalysis, EnqueueFails
<1>2. analysis' = [analysis EXCEPT ![key[w]] = IF @ = 0 THEN snap[w].current + 1 ELSE @]
  <2>1. CASE StartAnalysis(w)
    BY <2>1 DEF StartAnalysis
  <2>2. CASE EnqueueFails(w)
    BY <2>2 DEF EnqueueFails
  <2> QED BY <2>1, <2>2
<1>3. /\ UnusedEmpty' /\ TasksOfVersions' /\ ReviewIsAnalysed'
      /\ \A v \in versions : Analysed(v) => Analysed(v)'
      /\ \A v \in versions : v.no = snap[w].current + 1 => Analysed(v)'
  BY <1>1, <1>2, TaskInserted
<1>4. FlightAnalysed'
  <2> SUFFICES ASSUME NEW u \in Workers, pc'[u] \in {"analysis", "instance"},
                      NEW v \in versions, v.no = snap'[u].current + 1
               PROVE  v.key = key'[u] /\ (pc'[u] = "instance" => Analysed(v)')
    BY <1>1 DEF FlightAnalysed
  <2>1. pc[u] \in {"analysis", "instance"} /\ snap'[u] = snap[u] /\ key'[u] = key[u]
        /\ (u # w => pc'[u] = pc[u])
    BY DEF StartAnalysis, EnqueueFails, Finished, Inv, TypeOK
  <2>2. v.key = key[u] /\ (pc[u] = "instance" => Analysed(v))
    BY <2>1 DEF AnalysisFollows, FlightAnalysed
  <2> QED BY <1>3, <2>1, <2>2
<1> QED BY <1>3, <1>4 DEF AnalysisFollows

LEMMA CreateInstanceAnalysed ==
  ASSUME Inv, AnalysisFollows, NEW w \in Workers, CreateInstance(w)
  PROVE  AnalysisFollows'
<1>1. UNCHANGED <<versions, analysis>> /\ pc[w] = "instance" /\ Finished(w)
  BY DEF CreateInstance
<1>2. PICK i \in Instances :
        instance' = [instance EXCEPT ![i] = [status |-> "complete", version |-> snap[w].current + 1]]
  BY DEF CreateInstance
<1>3. \A v \in versions : v.no = snap[w].current + 1 => Analysed(v)
  BY <1>1 DEF AnalysisFollows, FlightAnalysed
<1>4. \A v : Analysed(v)' <=> Analysed(v)
  BY <1>1 DEF Analysed
<1>5. ReviewIsAnalysed'
  <2> SUFFICES ASSUME NEW j \in Instances, NEW v \in versions,
                      instance'[j].version = v.no, v.key # NoKey
               PROVE  Analysed(v)
    BY <1>1, <1>4 DEF ReviewIsAnalysed, Analysed
  <2>1. CASE j = i
    BY <1>2, <1>3, <2>1 DEF Inv, TypeOK
  <2>2. CASE j # i
    BY <1>2, <2>2 DEF AnalysisFollows, ReviewIsAnalysed, Analysed, Inv, TypeOK
  <2> QED BY <2>1, <2>2
<1>6. UnusedEmpty' /\ TasksOfVersions'
  BY <1>1, <1>2 DEF AnalysisFollows, UnusedEmpty, TasksOfVersions, Inv, TypeOK
<1>7. FlightAnalysed'
  <2> SUFFICES ASSUME NEW u \in Workers, pc'[u] \in {"analysis", "instance"},
                      NEW v \in versions, v.no = snap'[u].current + 1
               PROVE  v.key = key'[u] /\ (pc'[u] = "instance" => Analysed(v))
    BY <1>1, <1>4 DEF FlightAnalysed
  <2>1. u # w /\ pc'[u] = pc[u] /\ snap'[u] = snap[u] /\ key'[u] = key[u]
    BY <1>1 DEF Finished, Inv, TypeOK
  <2> QED BY <2>1 DEF AnalysisFollows, FlightAnalysed
<1> QED BY <1>5, <1>6, <1>7 DEF AnalysisFollows

LEMMA DecideAnalysed ==
  ASSUME Inv, AnalysisFollows, NEW i \in Instances,
         ApproveNode(i) \/ ApproveLast(i) \/ SendBack(i)
  PROVE  AnalysisFollows'
<1>1. UNCHANGED <<versions, analysis, pc, snap, key>>
  BY DEF ApproveNode, ApproveLast, SendBack, Decide, localVars
<1>2. PICK outcome \in {"finished", "complete"} : instance' = [instance EXCEPT ![i].status = outcome]
  BY DEF ApproveNode, ApproveLast, SendBack, Decide
<1>3. \A j \in Instances : /\ instance'[j].version = instance[j].version
                           /\ instance'[j].status = "unused" => instance'[j] = instance[j]
  BY <1>2 DEF Inv, TypeOK, InstanceRows
<1>4. \A v : Analysed(v)' <=> Analysed(v)
  BY <1>1 DEF Analysed
<1>5. ReviewIsAnalysed'
  <2> SUFFICES ASSUME NEW j \in Instances, NEW v \in versions,
                      instance'[j].version = v.no, v.key # NoKey
               PROVE  Analysed(v)
    BY <1>1, <1>4 DEF ReviewIsAnalysed, Analysed
  <2>1. instance[j].version = v.no
    BY <1>3
  <2> QED BY <2>1 DEF AnalysisFollows, ReviewIsAnalysed, Analysed
<1>6. UnusedEmpty'
  <2> SUFFICES ASSUME NEW j \in Instances, instance'[j].status = "unused"
               PROVE  instance'[j] = Unused
    BY DEF UnusedEmpty
  <2>1. instance'[j] = instance[j]
    BY <1>3
  <2> QED BY <2>1 DEF AnalysisFollows, UnusedEmpty
<1>7. TasksOfVersions' /\ FlightAnalysed'
  BY <1>1, <1>4 DEF AnalysisFollows, TasksOfVersions, FlightAnalysed
<1> QED
  BY <1>5, <1>6, <1>7 DEF AnalysisFollows

LEMMA NextAnalysed == Inv /\ AnalysisFollows /\ [Next]_vars => AnalysisFollows'
<1> SUFFICES ASSUME Inv, AnalysisFollows, [Next]_vars PROVE AnalysisFollows'
  OBVIOUS
<1>1. ASSUME NEW w \in Workers, Get(w) \/ UpdateDraft(w) \/ AddLineItem(w) \/ UpdateLineItem(w) \/ DeleteLineItem(w)
      PROVE  Quiet
  BY <1>1 DEF Get, UpdateDraft, AddLineItem, UpdateLineItem, DeleteLineItem, ReadForWrite, Quiet, Inv, TypeOK
<1>2. ASSUME NEW w \in Workers, NEW k \in Keys, Submit(w, k)
      PROVE  Quiet
  BY <1>2 DEF Submit, Quiet, Inv, TypeOK
<1>3. ASSUME NEW w \in Workers,
             CommitWrite(w) \/ CommitVersionFails(w) \/ StartAnalysisFails(w) \/ NoInstance(w) \/ Crash(w)
      PROVE  Finished(w) /\ UNCHANGED <<versions, instance, analysis>>
  BY <1>3 DEF CommitWrite, CommitVersionFails, StartAnalysisFails, NoInstance, Crash
<1>4. ASSUME NEW w \in Workers, Finished(w), UNCHANGED <<versions, instance, analysis>>
      PROVE  Quiet
  BY <1>4 DEF Finished, Quiet, Inv, TypeOK
<1>5. ASSUME NEW w \in Workers, ChangeStatus(w, "withdrawn") \/ ChangeStatus(w, "voided")
      PROVE  Quiet
  BY <1>5 DEF ChangeStatus, localVars, Quiet
<1>6. ASSUME UNCHANGED vars
      PROVE  Quiet
  <2>1. UNCHANGED <<versions, instance, analysis, pc, snap, key>>
    BY <1>6 DEF vars
  <2> QED BY <2>1 DEF Quiet
<1>7. CASE \E w \in Workers : Request(w)
  BY <1>1, <1>2, <1>5, <1>7, QuietAnalysed DEF Request
<1>8. CASE \E w \in Workers : WorkerStep(w) \/ Crash(w)
  <2> PICK w \in Workers : WorkerStep(w) \/ Crash(w)
    BY <1>8
  <2>1. CASE CommitVersion(w)
    BY <2>1, CommitVersionAnalysed
  <2>2. CASE StartAnalysis(w) \/ EnqueueFails(w)
    BY <2>2, StartAnalysisAnalysed
  <2>3. CASE CreateInstance(w)
    BY <2>3, CreateInstanceAnalysed
  <2>4. CASE CommitWrite(w) \/ CommitVersionFails(w) \/ StartAnalysisFails(w) \/ NoInstance(w) \/ Crash(w)
    BY <1>3, <1>4, <2>4, QuietAnalysed
  <2> QED BY <2>1, <2>2, <2>3, <2>4 DEF WorkerStep
<1>9. CASE \E i \in Instances : ApproveNode(i) \/ ApproveLast(i) \/ SendBack(i)
  BY <1>9, DecideAnalysed
<1> QED
  BY <1>6, <1>7, <1>8, <1>9, QuietAnalysed DEF Next

(* A version that is decided on has an analysis task under the key of its  *)
(* submission (submit_document, start, create_instance_for_document).      *)
THEOREM ReviewsAnalysed == Spec => []ReviewIsAnalysed
<1>1. AnalysisFollows => ReviewIsAnalysed
  BY DEF AnalysisFollows
<1> QED
  BY <1>1, InitAnalysed, NextAnalysed, Invariance, PTL DEF Spec

(* A submission that stopped before its instance was created leaves a      *)
(* document that nothing but a withdrawal moves (change_status, submit).   *)
THEOREM StrandedStay == Spec => StrandedOnlyWithdrawn
<1> DEFINE Stays == row.status = "pending_review" /\ LiveInstances = {}
                      => row'.status \in {"pending_review", "withdrawn"}
<1>1. Inv /\ [Next]_vars => [Stays]_vars
  <2> SUFFICES ASSUME Inv, Next, row.status = "pending_review", LiveInstances = {}
               PROVE  row'.status \in {"pending_review", "withdrawn"}
    OBVIOUS
  <2>1. row.status \notin Editable /\ row \in Row
    BY DEF Editable, Inv, TypeOK
  <2>2. ASSUME NEW w \in Workers, CommitWrite(w) \/ CommitVersion(w)
        PROVE  row'.status = "pending_review"
    BY <2>1, <2>2 DEF CommitWrite, CommitVersion, Row
  <2>3. ASSUME NEW w \in Workers, ChangeStatus(w, "withdrawn")
        PROVE  row'.status = "withdrawn"
    BY <2>1, <2>3 DEF ChangeStatus, Row
  <2>4. ASSUME NEW w \in Workers, ChangeStatus(w, "voided")
        PROVE  FALSE
    <3>1. Allowed("voided") = {"draft", "returned", "rejected", "approved"}
      BY Zenon DEF Allowed
    <3> QED BY <2>4, <3>1 DEF ChangeStatus
  <2>5. ASSUME NEW i \in Instances, ApproveNode(i) \/ ApproveLast(i) \/ SendBack(i)
        PROVE  FALSE
    BY <2>5 DEF ApproveNode, ApproveLast, SendBack
  <2>6. CASE UNCHANGED row
    BY <2>6
  <2>7. ASSUME NEW w \in Workers,
               Get(w) \/ UpdateDraft(w) \/ AddLineItem(w) \/ UpdateLineItem(w) \/ DeleteLineItem(w)
               \/ (\E k \in Keys : Submit(w, k))
        PROVE  UNCHANGED row
    BY <2>7 DEF Get, UpdateDraft, AddLineItem, UpdateLineItem, DeleteLineItem, ReadForWrite, Submit
  <2>8. ASSUME NEW w \in Workers,
               CommitVersionFails(w) \/ StartAnalysis(w) \/ StartAnalysisFails(w) \/ EnqueueFails(w)
               \/ CreateInstance(w) \/ NoInstance(w) \/ Crash(w)
        PROVE  UNCHANGED row
    BY <2>8 DEF CommitVersionFails, StartAnalysis, StartAnalysisFails, EnqueueFails, CreateInstance,
                NoInstance, Crash
  <2> QED
    BY <2>2, <2>3, <2>4, <2>5, <2>6, <2>7, <2>8 DEF Next, Request, WorkerStep
<1> QED
  BY <1>1, Invariance, PTL DEF Spec, StrandedOnlyWithdrawn
(***************************************************************************)
(* One request at a time.  Nothing locks the row between the read and the  *)
(* write of a request, but meanwhile there is no review that an approver   *)
(* could decide: the row is still the one that was read.                   *)
(***************************************************************************)
OneAtATime == \A u, w \in Workers : u = w

ReadIsCurrent ==
  /\ \A w \in Workers : pc[w] \in {"patch", "write", "submit"} =>
       /\ snap[w] = row /\ row.status \in Editable
       /\ pc[w] \in {"patch", "submit"} => row.state = seen[w]
  /\ ReviewedLinesFrozen

(* Nobody has read anything at the start, and no document waits.            *)
LEMMA InitCurrent == Init => ReadIsCurrent
BY DEF Init, InitRow, ReadIsCurrent, ReviewedLinesFrozen

(* A step of the only request, or of an approver, keeps it.                 *)
LEMMA NextCurrent ==
  ASSUME OneAtATime
  PROVE  Inv /\ ReadIsCurrent /\ [Next]_vars => ReadIsCurrent'
<1> SUFFICES ASSUME Inv, ReadIsCurrent, [Next]_vars PROVE ReadIsCurrent'
  OBVIOUS
<1> USE DEF OneAtATime
<1>0. /\ row \in Row /\ pc \in [Workers -> Locations] /\ seen \in [Workers -> 0..MaxState]
      /\ snap \in [Workers -> Row] /\ \A v \in versions : v.no \in 1..row.current
  BY DEF Inv, TypeOK, VersionNumbering
<1>1. ASSUME NEW w \in Workers, Get(w)
      PROVE  ReadIsCurrent'
  BY <1>0, <1>1 DEF Get, ReadIsCurrent, ReviewedLinesFrozen
<1>2. ASSUME NEW w \in Workers,
             UpdateDraft(w) \/ AddLineItem(w) \/ UpdateLineItem(w) \/ DeleteLineItem(w)
      PROVE  ReadIsCurrent'
  <2>1. /\ UNCHANGED <<row, versions, seen>> /\ row.status \in Editable
        /\ snap'[w] = row /\ pc'[w] \in {"patch", "write"}
        /\ pc'[w] = "patch" => row.state = seen[w]
    BY <1>0, <1>2
    DEF UpdateDraft, AddLineItem, UpdateLineItem, DeleteLineItem, ReadForWrite, StateMatches
  <2> QED
    BY <2>1 DEF ReadIsCurrent, ReviewedLinesFrozen
<1>3. ASSUME NEW w \in Workers, NEW k \in Keys, Submit(w, k)
      PROVE  ReadIsCurrent'
  <2>1. /\ UNCHANGED <<row, versions, seen>> /\ row.status \in Editable
        /\ snap'[w] = row /\ row.state = seen[w]
    BY <1>0, <1>3 DEF Submit, SubmitAccepted, StateMatches
  <2> QED
    BY <2>1 DEF ReadIsCurrent, ReviewedLinesFrozen
<1>4. ASSUME NEW w \in Workers, pc'[w] \notin {"patch", "write", "submit"},
             ReviewedLinesFrozen'
      PROVE  ReadIsCurrent'
  BY <1>4 DEF ReadIsCurrent
<1>5. ASSUME NEW w \in Workers, CommitWrite(w)
      PROVE  ReadIsCurrent'
  <2>1. row'.status \in Editable /\ pc'[w] = "idle"
    BY <1>0, <1>5 DEF CommitWrite, Finished, ReadIsCurrent, Row
  <2> QED
    BY <1>4, <2>1 DEF ReviewedLinesFrozen, Editable
<1>6. ASSUME NEW w \in Workers, CommitVersion(w)
      PROVE  ReadIsCurrent'
  <2> DEFINE made == [no |-> snap[w].current + 1, lines |-> snap[w].lines, key |-> key[w]]
  <2>1. /\ pc'[w] = "analysis" /\ snap[w] = row
        /\ versions' = versions \cup {made}
        /\ row'.current = row.current + 1 /\ row'.lines = row.lines
    BY <1>0, <1>6 DEF CommitVersion, ReadIsCurrent, Row
  <2>2. made.lines = row.lines
    BY <2>1
  <2>3. \A v \in versions : v.no # row'.current
    BY <1>0, <2>1 DEF Row
  <2> QED
    BY <1>4, <2>1, <2>2, <2>3 DEF ReviewedLinesFrozen
<1>7. ASSUME NEW w \in Workers,
             StartAnalysis(w) \/ CommitVersionFails(w) \/ StartAnalysisFails(w) \/ EnqueueFails(w)
             \/ CreateInstance(w) \/ NoInstance(w) \/ Crash(w)
      PROVE  ReadIsCurrent'
  <2>1. pc'[w] \in {"idle", "instance"} /\ UNCHANGED <<row, versions>>
    BY <1>0, <1>7
    DEF StartAnalysis, CommitVersionFails, StartAnalysisFails, EnqueueFails, CreateInstance,
        NoInstance, Crash, Finished
  <2> QED
    BY <1>4, <2>1 DEF ReadIsCurrent, ReviewedLinesFrozen
<1>8. ASSUME NEW w \in Workers, ChangeStatus(w, "withdrawn") \/ ChangeStatus(w, "voided")
      PROVE  ReadIsCurrent'
  <2>1. pc[w] = "idle" /\ UNCHANGED pc /\ row'.status \in {"withdrawn", "voided"}
    BY <1>0, <1>8 DEF ChangeStatus, CanBegin, localVars, Row
  <2> QED
    BY <1>4, <2>1 DEF ReviewedLinesFrozen
<1>9. ASSUME NEW i \in Instances, ApproveNode(i) \/ ApproveLast(i) \/ SendBack(i)
      PROVE  ReadIsCurrent'
  <2>1. /\ i \in LiveInstances /\ UNCHANGED pc
        /\ row'.status \in {"pending_approval", "approved", "returned", "rejected"}
    BY <1>0, <1>9 DEF ApproveNode, ApproveLast, SendBack, Decide, localVars, Row
  <2>2. row.status \notin Editable
    BY <2>1 DEF Inv, BusyExcludes, Busy
  <2>3. \A w \in Workers : pc[w] \notin {"patch", "write", "submit"}
    BY <2>2 DEF ReadIsCurrent
  <2> QED
    BY <2>1, <2>3 DEF ReadIsCurrent, ReviewedLinesFrozen
<1>10. CASE UNCHANGED vars
  BY <1>10 DEF vars, ReadIsCurrent, ReviewedLinesFrozen
<1>11. CASE \E w \in Workers : Request(w)
  BY <1>1, <1>2, <1>3, <1>8, <1>11 DEF Request
<1>12. CASE \E w \in Workers : WorkerStep(w) \/ Crash(w)
  BY <1>5, <1>6, <1>7, <1>12 DEF WorkerStep
<1> QED
  BY <1>9, <1>10, <1>11, <1>12 DEF Next

(* With one request at a time, the lines of a document that waits for       *)
(* review are those of the version under review, however it was edited,     *)
(* submitted and sent back before.                                          *)
THEOREM LinesFrozen ==
  ASSUME OneAtATime
  PROVE  Spec => []ReviewedLinesFrozen
<1>1. ReadIsCurrent => ReviewedLinesFrozen
  BY DEF ReadIsCurrent
<1> QED
  BY <1>1, InitCurrent, NextCurrent, Invariance, PTL DEF Spec

(* With one request at a time, an update or a submission is committed only  *)
(* on the state its client has seen (update_draft, submit), although the    *)
(* decisions of approvers interleave.                                       *)
THEOREM LockOptimistic ==
  ASSUME OneAtATime
  PROVE  Spec => OptimisticLock
<1> DEFINE Seen == \A w \in Workers :
                     pc[w] \in {"patch", "submit"} /\ row' # row /\ pc'[w] # pc[w]
                       => row.state = seen[w]
<1>1. ReadIsCurrent /\ [Next]_vars => [Seen]_vars
  BY DEF ReadIsCurrent
<1> QED
  BY <1>1, InitCurrent, NextCurrent, Invariance, PTL DEF Spec, OptimisticLock
=============================================================================
