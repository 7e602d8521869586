SPECIFICATION FairSpec
CONSTANTS
    w1 = w1  w2 = w2  u1 = u1  u2 = u2
    c1 = c1  c2 = c2  c3 = c3  c4 = c4
    i1 = i1  i2 = i2
    j1 = j1  j2 = j2  j3 = j3  j4 = j4  j5 = j5
    Workers = {w1, w2}
    Users = {u1}
    JobIds = {j1, j2, j3, j4}
    ChangeSets = {c1, c2, c3}
    Items = {}
    Verdicts = {"pass"}
    Proposals <- MCOneProposal
    MaxAttempts = 3
    Rungs = 2
    MaxQueue = 1
    MaxTurns = 0
    MaxRequests = 1
    MaxFaults = 2
    HeartbeatMayFail = TRUE
PROPERTIES
    GenerationSettles
    LeaseHonoured
CHECK_DEADLOCK FALSE
