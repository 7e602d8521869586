SPECIFICATION Spec
CONSTANTS
    w1 = w1  w2 = w2  s1 = s1  s2 = s2  r1 = r1
    j1 = j1  j2 = j2  j3 = j3  p1 = p1  p2 = p2  p3 = p3
    None = None
    Workers = {w1, w2}
    Build <- MCBuild
    Sets = {s1, s2}
    Native = {s1}
    Starts <- MCStarts
    Runs = {r1}
    Positions = {p1, p2, p3}
    JobIds = {j1, j2, j3}
    Width = 1
    ResultBatch = 2
    MaxAttempts = 2
    Rungs = 1
    StallAtStart = FALSE
    MaxQueue = 1
SYMMETRY MCSymmetry
INVARIANTS
    TranslationHasSource
    SetIsWhole
    RunAddsUp
    OneProvenance
PROPERTIES
    LeaseHonoured
CHECK_DEADLOCK FALSE
