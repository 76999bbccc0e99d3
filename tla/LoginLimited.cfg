\* Three logins at once, two users behind one address.
SPECIFICATION FairSpec
CONSTANTS
  Requests = {r1, r2, r3}
  Users = {u1, u2}
  Ips = {i1}
  MaxAttempts = 2
INVARIANT LimiterInv
PROPERTY BlockEnds
CHECK_DEADLOCK FALSE
