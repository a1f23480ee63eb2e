\* Both commit modes: two callers, one other device, all faults.
SPECIFICATION Spec
CONSTANTS
    Modes = {"Sync", "Buffered"}
    Callers = {a, b}
    Writes = {w1, w2}
    ExtWrites = {x1}
    WRITE_RETRIES = 2
    MaxProbes = 1
    None = None
SYMMETRY MCSymmetry
INVARIANTS
    TypeOK
    PendingAccurate
    NoWriteForgotten
    TokenSound
    EntryJustified
    FlushIsBarrier
PROPERTIES
    UpdatesKeptUntilRejection
\* A dropped engine stops.
CHECK_DEADLOCK FALSE
