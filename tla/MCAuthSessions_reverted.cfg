\* A change of the password while a profile is edited; nothing fails.  When the only
\* session is open, a login waits for another for ever.
SPECIFICATION Spec
CONSTANTS
    u1 = u1  p1 = p1  p2 = p2  s1 = s1  c1 = c1  h1 = h1  h2 = h2  Null = Null
    Users = {u1}
    Passwords = {p1, p2}
    Sessions = {s1}
    Codes = {c1}
    Handlers = {h1, h2}
    Workload <- MCProfile
PROPERTY OnlyPasswordRequests
CHECK_DEADLOCK FALSE
