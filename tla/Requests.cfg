SPECIFICATION Spec
CONSTANTS
  Posts = {p1, p2}
  Users = {u1, u2}
  Requests = {r1, r2}
  None = None
  Features = {"blog", "catalog", "reports", "home", "health"}
SYMMETRY Interchangeable
INVARIANTS AnswerTellsTruth DeletedOnce LoggedAsAnswered ErrorsDocumented OnlyOwnersChange
CHECK_DEADLOCK FALSE
