\* Two runs and every kind of change.
SPECIFICATION Spec
CONSTANTS
    Runs = {r1, r2}
    Paths <- MCPaths
    Patches = {"core", "typo", "bug"}
    Faults = {"cut"}
    PathOf <- MCPathOf
    Broken = {"typo"}
    Protected <- MCProtected
    Failing = {"typo", "bug", "cut"}
    MaxCalls = 4
SYMMETRY MCSymmetry
INVARIANTS
    VettedWorkspace
    PromotedPasses
    LostIsKeptInRun
CHECK_DEADLOCK FALSE
