SPECIFICATION Spec
CONSTANTS
    w1 = w1  w2 = w2  u1 = u1  u2 = u2
    c1 = c1  c2 = c2  c3 = c3  c4 = c4
    i1 = i1  i2 = i2
    j1 = j1  j2 = j2  j3 = j3  j4 = j4  j5 = j5
    Workers = {w1}
    Users = {u1, u2}
    JobIds = {j1, j2}
    ChangeSets = {c1, c2}
    Items = {i1}
    Verdicts = {"pass"}
    Proposals <- MCProposals
    MaxAttempts = 2
    Rungs = 2
    MaxQueue = 0
    MaxTurns = 1
    MaxRequests = 1
    MaxFaults = 0
    HeartbeatMayFail = FALSE
SYMMETRY MCSymmetry
INVARIANTS
    ReviewHasProposal
    ModelTextWasReviewed
PROPERTIES
    ResultsAreTheTesters
CHECK_DEADLOCK FALSE
