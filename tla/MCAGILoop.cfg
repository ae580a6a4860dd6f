\* The loop with a log in memory.
SPECIFICATION FairSpec
CONSTANTS
    MaxGoals = 2
    WindowSize = 2
    CriticMin = 2
    CompletionMin = 2
    CriticFloor = 60
    CompletionFloor = 30
    ClearWindow = 3
    Scores = {20, 90}
    Rules <- MCRules
    OperatorGoals <- MCOperatorGoals
    Tools = {}
    MaxActive = 1
    ReflectEvery = 2
    FileBacked = FALSE
INVARIANTS
    WellFormed
PROPERTIES
    ActsAreAllowed
    DriftIsSteady
    CurrentGoalsComplete
CHECK_DEADLOCK FALSE
