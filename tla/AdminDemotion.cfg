SPECIFICATION Spec
CONSTANTS
  Users = {u1}
  Sids = {s1, s2}
  Requests = {r1, r2}
  None = None
  MaxAge = 4
  MaxIdle = 4
  Second = 2
  MaxGen = 1
SYMMETRY Interchangeable
INVARIANT DemotionRevokes
CHECK_DEADLOCK FALSE
