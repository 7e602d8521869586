SPECIFICATION Spec
CONSTANTS
    None = None
    q1 = q1  q2 = q2
    Turns = {q1}
    Permits = 1
    MaxAttempts = 2
    HistoryTurns = 1
    MaxTokens = 1
    MaxGenerations = 2
    MaxFaults = 0
    MaxOthers = 0
    Breaks <- MCBreaks
    Library <- MCLibrary
    Scores = {0, 1, 2}
    MinScore = 1
    MaxChars = 11
    TopK = 4
INVARIANT
    OutcomeRecorded
CHECK_DEADLOCK FALSE
