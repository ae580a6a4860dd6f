\* The loop and one process that records failures.
SPECIFICATION FairSpec
CONSTANTS
    Procs = {p1}
    Clusters = {validation}
    Kinds <- OnlyLessons
    InitCode <- MCCode
    Ranges <- MCRanges
    RunPatches <- MCRunPatches
    HasLibraries = TRUE
    MaxCommands = 3
    MaxCrashes = 0
    FailureThreshold = 2
    MinExamples = 1
PROPERTY FailuresTrain
CHECK_DEADLOCK FALSE
