\* Two goroutines, two users, two sessions, one code; every operation of the service.
SPECIFICATION Spec
CONSTANTS
    u1 = u1  u2 = u2  p1 = p1  p2 = p2  s1 = s1  s2 = s2  c1 = c1
    h1 = h1  h2 = h2  Null = Null
    Users = {u1, u2}
    Passwords = {p1, p2}
    Sessions = {s1, s2}
    Codes = {c1}
    Handlers = {h1, h2}
    Workload <- Operations
SYMMETRY MCSymmetry
INVARIANT TypeOK
INVARIANT RotationRevokes
INVARIANT ReplaysOverlap
INVARIANT VerifiedIsProven
INVARIANT EventsAreTrue
PROPERTY ImplementsAccounts
PROPERTY NewPasswordsAreProven
PROPERTY OwnersRevoke
