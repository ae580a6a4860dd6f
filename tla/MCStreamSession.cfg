\* A session whose operator injects, redirects, pauses, interrupts and closes.
SPECIFICATION FairStreamSpec
CONSTANTS
    MaxChunks = 3
    MaxInjects = 1
    MaxRedirects = 2
    MaxPauses = 1
    NoReceipt = NoReceipt
INVARIANTS
    ControlIsPrompt
    ReceiptsAreExact
PROPERTIES
    SessionEnds
CHECK_DEADLOCK FALSE
