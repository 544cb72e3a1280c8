SPECIFICATION Spec
CONSTANTS
    Users = {u1}
    Fams = {f1, f2}
    Jtis = {j1, j2}
    Requests = {r1, r2}
    None = None
    Lifetime = 2
    Leeway = 0
    MaxPw = 1
SYMMETRY Interchangeable
INVARIANTS
    IndexCoversLive
    PasswordChangePurges
