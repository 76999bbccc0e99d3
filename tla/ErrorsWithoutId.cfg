\* A request that fails, and the id in what it is answered with.
SPECIFICATION Spec
CONSTANTS
  Dependencies = {d1, d2}
  Given = given
  Made = made
  MaxOutages = 1
  None = None
INVARIANT ErrorsCarryId
CHECK_DEADLOCK FALSE
