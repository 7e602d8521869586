SPECIFICATION FairSpec
CONSTANTS
    w1 = w1 w2 = w2 c1 = c1 c2 = c2
    j1 = j1 j2 = j2 j3 = j3 j4 = j4 j5 = j5
    Workers <- MCWorkers
    Commits <- MCOneCommit
    JobIds <- MCFiveIds
    ChunksOf <- MCChunksOf
    MaxAttempts = 3
    Rungs = 2
    MaxGen = 4
    MaxQueue = 1
    MaxRequests = 1
    MaxEvals = 1
    MaxFaults = 1
    HeartbeatMayFail = FALSE
CHECK_DEADLOCK FALSE
INVARIANTS TypeOK BusyIsRecoverable
PROPERTY Settles
