---------------------------- MODULE VersionLedger ----------------------------
(***************************************************************************)
(* What the submission path promises about a document: versions are only   *)
(* ever appended, one at a time, and never while one is under review; the  *)
(* version put under review is the latest one, and it is reviewed once.    *)
(***************************************************************************)
EXTENDS Naturals

VARIABLES
  count,        \* number of versions
  reviewing,    \* the version under review, or 0
  reviewed      \* the versions ever put under review

ledger == <<count, reviewing, reviewed>>

Init ==
  \/ count = 0 /\ reviewing = 0 /\ reviewed = {}
  \/ count = 1 /\ reviewing = 1 /\ reviewed = {1}

Append ==
  /\ reviewing = 0
  /\ count' = count + 1
  /\ UNCHANGED <<reviewing, reviewed>>

OpenReview ==
  /\ reviewing = 0
  /\ count > 0
  /\ count \notin reviewed
  /\ reviewing' = count
  /\ reviewed' = reviewed \cup {count}
  /\ UNCHANGED count

CloseReview ==
  /\ reviewing > 0
  /\ reviewing' = 0
  /\ UNCHANGED <<count, reviewed>>

Next == Append \/ OpenReview \/ CloseReview

Spec == Init /\ [][Next]_ledger
=============================================================================
