SPECIFICATION FairSpec
CONSTANTS
    Users = {u1, u2}
    Admins = {u1}
    Projects = {p1}
    RoleIds = {"owner", "viewer", "k1"}
    SystemRoles <- MCSystemRoles
    CustomNames = {"n1"}
    Permissions = {"grant", "revoke"}
    Requests = {r1, r2}
    TTL = 1
    MaxOps = 3
    MaxFaults = 1
    None = None
INVARIANT CacheFresh
PROPERTIES CurrentChecksHold CacheConverges
CHECK_DEADLOCK FALSE
