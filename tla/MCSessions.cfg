SPECIFICATION Spec
CONSTANTS
    None = None
    u1 = u1  u2 = u2  u3 = u3  e1 = e1  e2 = e2  c1 = c1  r1 = r1  r2 = r2
    Users = {u1, u2, u3}
    Emails = {e1, e2}
    Clients = {c1}
    Requests = {r1, r2}
    Passwords = {"own", "temp", "weak"}
    Weak = {"weak"}
    Temporary = "temp"
    Tokens = {"t1", "t2", "t3"}
    Links = {"l1", "l2"}
    TTL = 2
    Grace = 0
    LinkTTL = 1
    DeadGrace = 0
    Window = 2
    LoginLimit = 1
    CostRaised = FALSE
    MaxClock = 2
    MaxOps = 4
    MaxOutages = 1
SYMMETRY MCSymmetry
INVARIANT
    LoginBudget
PROPERTIES
    EndedStaysEnded
    OnlyRevocationSignsOut
    LinkSpentOnce
CHECK_DEADLOCK FALSE
