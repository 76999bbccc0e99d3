------------------------- MODULE SequentialApproval -------------------------
(***************************************************************************)
(* What sequential approval promises: in every round the nodes approve one *)
(* after the other, the last one approves the document, any of them can    *)
(* end the round, and a returned document starts a new one at the first    *)
(* node.                                                                   *)
(***************************************************************************)
EXTENDS Naturals

CONSTANT NodeCount

VARIABLES
  round,        \* number of the current round
  approved,     \* nodes that have approved in it
  outcome       \* "open", or how the round ended

approval == <<round, approved, outcome>>

Init == round = 1 /\ approved = {} /\ outcome = "open"

ApproveNext ==
  /\ outcome = "open"
  /\ \E n \in 1..NodeCount :
       /\ approved = 1..(n - 1)
       /\ approved' = 1..n
       /\ outcome' = IF n = NodeCount THEN "approved" ELSE "open"
  /\ UNCHANGED round

SendBack ==
  /\ outcome = "open"
  /\ outcome' \in {"returned", "rejected"}
  /\ UNCHANGED <<round, approved>>

StartOver ==
  /\ outcome = "returned"
  /\ round' = round + 1
  /\ approved' = {}
  /\ outcome' = "open"

Next == ApproveNext \/ SendBack \/ StartOver

Spec == Init /\ [][Next]_approval
=============================================================================
