\* Users and Celery retry one task, and workers crash.
SPECIFICATION FairSpec
CONSTANTS
  Clients = {c1, c2}
  Workers = {w1, w2}
  MaxRequests = 2
  MaxCrashes = 1
INVARIANTS
  AnalysisInv
  StrandedOnlyByFaults
PROPERTY RunsOut
CHECK_DEADLOCK FALSE
