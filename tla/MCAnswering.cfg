SPECIFICATION FairSpec
CONSTANTS
    None = None
    q1 = q1  q2 = q2
    Turns = {q1, q2}
    Permits = 1
    MaxAttempts = 2
    HistoryTurns = 1
    MaxTokens = 1
    MaxGenerations = 2
    MaxFaults = 1
    MaxOthers = 2
    Breaks <- MCBreaks
    Library <- MCLibrary
    Scores = {0, 1, 2}
    MinScore = 1
    MaxChars = 11
    TopK = 4
INVARIANTS
    EveryTurnSettles
    StreamKeepsItsContract
    EvidenceBelongsTogether
    HistoryIsThePast
    NotesGoWithTheTurn
    RetrievalIsSound
PROPERTIES
    EveryTurnEnds
CHECK_DEADLOCK FALSE
