SPECIFICATION Spec
CONSTANTS
    Users = {u1}
    Fams = {f1}
    Jtis = {j1, j2, j3}
    Requests = {r1, r2}
    None = None
    Lifetime = 2
    Leeway = 1
    MaxPw = 0
SYMMETRY Interchangeable
INVARIANTS
    SingleLiveToken
    KilledStaysBlocked
PROPERTIES
    FamilyIsLine
