SPECIFICATION Spec
CONSTANTS
  Users = {u1}
  Sids = {s1, s2}
  Requests = {r1, r2}
  None = None
  MaxAge = 6
  MaxIdle = 4
  Second = 2
  MaxGen = 1
SYMMETRY Interchangeable
INVARIANTS DeadStaysDead AbsoluteExpiry
CHECK_DEADLOCK FALSE
