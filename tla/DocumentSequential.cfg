\* One request of the applicant at a time, with the SQL analysis repository.
SPECIFICATION Spec
CONSTANTS
  Workers = {w1}
  Lines = {l1}
  Keys = {k1, k2}
  Instances = {i1, i2}
  MaxState = 6
  MaxVersion = 2
  LookupOpensTxn = TRUE
  NoKey = NoKey
INVARIANT ReviewedLinesFrozen
PROPERTY OptimisticLock
