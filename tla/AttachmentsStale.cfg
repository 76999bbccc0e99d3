\* Three files, two requests and two workers; a parse is tried twice.
SPECIFICATION FairSpec
CONSTANTS
  Ids = {a1, a2, a3}
  Contents = {f1, f2, f3}
  Keys = {k1}
  Requests = {r1, r2}
  Workers = {w1, w2}
  MaxFiles = 1
  MaxRetries = 1
  Budgets <- MCBudgets
INVARIANTS
  AttachmentInv
  ObjectsOwned
  ParseTold
PROPERTY ParseEnds
CHECK_DEADLOCK FALSE
