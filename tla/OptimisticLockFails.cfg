\* Two updates of one state.
SPECIFICATION Spec
CONSTANTS
  Workers = {w1, w2}
  Lines = {l1}
  Keys = {k1, k2}
  Instances = {i1}
  MaxState = 3
  MaxVersion = 2
  LookupOpensTxn = FALSE
  NoKey = NoKey
PROPERTY OptimisticLock
