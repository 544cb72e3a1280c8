SPECIFICATION Spec
CONSTANTS
  Users = {u1, u2}
  Names = {n1}
  Requests = {r1, r2}
  None = None
  Root = Root
  AccessLife = 1
  MaxPw = 1
  Prefix <- SharedPrefix
SYMMETRY Interchangeable
INVARIANTS NamesUnique NothingUndone TokensFade NobodyPromotesSelf
