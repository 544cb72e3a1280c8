SPECIFICATION Spec
CONSTANTS
  Users = {u1}
  Sids = {s1, s2, s3}
  Requests = {r1, r2}
  None = None
  MaxAge = 3
  MaxIdle = 2
  Second = 1
  MaxGen = 1
SYMMETRY Interchangeable
INVARIANTS IndexCoversSessions ChangePurges
CHECK_DEADLOCK FALSE
