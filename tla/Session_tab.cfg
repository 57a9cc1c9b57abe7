SPECIFICATION Spec
CONSTANTS
    g = g
    p = p
    Users = {g, p}
    Passwords = {p}
    None = None
    Bounds <- Small
INVARIANTS
    SessionSafe
PROPERTIES
    VerifiedSessions
    SessionFollows
CHECK_DEADLOCK FALSE
