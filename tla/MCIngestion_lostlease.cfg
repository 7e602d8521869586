SPECIFICATION Spec
CONSTANTS
    w1 = w1 w2 = w2 c1 = c1 c2 = c2
    j1 = j1 j2 = j2 j3 = j3 j4 = j4 j5 = j5
    Workers <- MCWorkers
    Commits <- MCTwoCommits
    JobIds <- MCFiveIds
    ChunksOf <- MCChunksOf
    MaxAttempts = 3
    Rungs = 2
    MaxGen = 2
    MaxQueue = 1
    MaxRequests = 1
    MaxEvals = 0
    MaxFaults = 2
    HeartbeatMayFail = TRUE
SYMMETRY MCSymmetry
CHECK_DEADLOCK FALSE
INVARIANT ServedIndexComplete
PROPERTY LeaseHonoured
