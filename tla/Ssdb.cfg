SPECIFICATION Spec
CONSTANTS
    Nothing = Nothing
    HNames = {1, 2}
    ZNames = {1, 2}
    QNames = {1}
    Keys = {1, 2}
    Values = {1, 9}
    Text = 9
    Scores <- MCScores
    ScoreMin <- MCScoreMin
    ScoreMax = 1
    QMin = 5
    QInit = 7
    QMax = 9
    Capacity = 1
    CleanSlack = 0
    Chunk = 1
    ClearBatch = 1
    MaxEntries <- MCMaxEntries
    MaxLogs = 3
    MaxCleared = 2
    MaxErrors = 1
    Pairs <- MCPairs
    Indexes <- MCIndexes
    Bounds <- MCBounds
INVARIANTS CountersAgree 
PROPERTIES LogTellsChanges AnswersRight
VIEW StoreView
CHECK_DEADLOCK FALSE
