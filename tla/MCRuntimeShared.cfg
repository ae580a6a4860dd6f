\* Two processes with the same event file open, each with its own stale list.
SPECIFICATION Spec
CONSTANTS
    p1 = p1
    p2 = p2
    a1 = a1
    a2 = a2
    f1 = f1
    old = old
    new = new
    ls = ls
    huge = huge
    rm = rm
    Procs = {p1, p2}
    Pids = {a1, a2}
    Paths = {f1}
    Contents = {old, new, ls, huge, rm}
    Oversized = {huge}
    Allowlisted = {ls}
    Requests <- MCRequests
    InitialFiles <- MCInitialFiles
    MaxShell = 1
    MaxHighRisk = 1
    MaxFaults = 1
    MaxRejects = 1
    Absent = Absent
    NoUndo = NoUndo
    Nobody = Nobody
    MaxLog = 8
CONSTRAINT ShortLog
SYMMETRY Symmetry
INVARIANTS
    RunsAreAuthorised
    RunsOncePerProcess
    LogIsHonest
CHECK_DEADLOCK FALSE
