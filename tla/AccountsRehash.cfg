SPECIFICATION Spec
CONSTANTS
  Users = {u1, u2}
  Names = {n1}
  Requests = {r1, r2}
  None = None
  Root = Root
  AccessLife = 1
  MaxPw = 2
  Prefix <- SharedPrefix
SYMMETRY Interchangeable
INVARIANT PasswordHolds
