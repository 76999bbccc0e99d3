\* Duplicate requests and requests for later nodes, which lock rows in opposite orders.
SPECIFICATION FairSpec
CONSTANTS
  Workers = {w1, w2}
  Keys = {k1, k2}
  NodeCount = 2
  MaxInstances = 1
INVARIANTS
  ApprovalInv
  CachedTruthfully
PROPERTY RequestsEnd
