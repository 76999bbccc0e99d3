\* Two requests of the applicant at a time, with approvers and crashes.
SPECIFICATION Spec
CONSTANTS
  Workers = {w1, w2}
  Lines = {l1}
  Keys = {k1, k2}
  Instances = {i1, i2, i3}
  MaxState = 5
  MaxVersion = 2
  LookupOpensTxn = FALSE
  NoKey = NoKey
SYMMETRY Interchangeable
INVARIANTS
  Inv
  LiveInstanceIsCurrent
  ReviewIsAnalysed
PROPERTIES
  ImplementsLedger
  StrandedOnlyWithdrawn
