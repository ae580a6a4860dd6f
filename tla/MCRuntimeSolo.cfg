\* One process that may crash, reopen the log, or lose a commit.
SPECIFICATION FairSpec
CONSTANTS
    p1 = p1
    a1 = a1
    a2 = a2
    f1 = f1
    old = old
    new = new
    ls = ls
    huge = huge
    rm = rm
    Procs = {p1}
    Pids = {a1, a2}
    Paths = {f1}
    Contents = {old, new, ls, huge, rm}
    Oversized = {huge}
    Allowlisted = {ls}
    Requests <- MCRequestsWide
    InitialFiles <- MCInitialFiles
    MaxShell = 1
    MaxHighRisk = 1
    MaxFaults = 1
    MaxRejects = 1
    Absent = Absent
    NoUndo = NoUndo
    Nobody = Nobody
    MaxLog = 99
INVARIANTS
    BudgetsHold
    ReceiptsTellFiles
PROPERTIES
    ApprovedIsReceipted
    ImplementsLifecycle
CHECK_DEADLOCK FALSE
