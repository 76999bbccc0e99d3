\* Late requests for an instance that a new submission has replaced.
SPECIFICATION Spec
CONSTANTS
  Workers = {w1, w2}
  Keys = {k1}
  NodeCount = 2
  MaxInstances = 2
INVARIANT DocumentFollowsTasks
PROPERTY ImplementsSequential
