\* Two processes, one of which may crash.
SPECIFICATION Spec
CONSTANTS
    Procs = {p1, p2}
    Clusters = {validation}
    Kinds <- MCKinds
    InitCode <- MCCode
    Ranges <- MCRanges
    RunPatches <- MCRunPatches
    HasLibraries = FALSE
    MaxCommands = 2
    MaxCrashes = 1
    FailureThreshold = 1
    MinExamples = 2
ACTION_CONSTRAINTS
    OverlapsContend
    LongMeetsShort
SYMMETRY MCSymmetry
INVARIANTS
    UpdatesSurvive
    EventsAreBacked
    ReferencesAreWhole
    PatchesAreExact
CHECK_DEADLOCK FALSE
