SPECIFICATION Spec
CONSTANTS
  Ips = {ip1}
  Names = {n1}
  Requests = {r1, r2}
  None = None
  IpLimit = 3
  UserLimit = 2
  Second = 3
  Window = 6
INVARIANTS BurstBound RetryAfterHolds
PROPERTY BlockedOpens
