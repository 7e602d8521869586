SPECIFICATION Spec
CONSTANTS
    w1 = w1  w2 = w2  u1 = u1  u2 = u2  c1 = c1  c2 = c2  i1 = i1
    k1 = k1  k2 = k2  j1 = j1  j2 = j2  j3 = j3
    None = None
    Workers = {w1, w2}
    Users = {u1, u2}
    JobIds = {j1, j2, j3}
    ChangeSets = {c1, c2}
    Records = {i1}
    Keys = {k1, k2}
    Proposals <- MCProposals
    Unusable <- MCUnusable
    MaxAttempts = 2
    Rungs = 1
    MaxQueue = 1
    MaxTurns = 1
    MaxRequests = 1
    MaxFaults = 1
SYMMETRY MCSymmetry
INVARIANT ReviewHasProposal
PROPERTIES LeaseHonoured GeneratingIsKept DecisionsTouchWhatTheyName
CHECK_DEADLOCK FALSE
