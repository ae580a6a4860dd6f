SPECIFICATION Spec

CONSTANTS
    r1 = r1
    r2 = r2
    Records = {r1, r2}
    Items <- MCItems
    HotDays = 0
    WarmDays = 1
    GraceDays = 1
    Day = 2
    Never = Never
    MaxTime = 5
    LastEvent = 1
    MaxCrashes = 1

INVARIANTS
    ArchivesComeFirst
PROPERTIES
    RetirementIsOrderly
    OldAreRetired
CHECK_DEADLOCK FALSE
