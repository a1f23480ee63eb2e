\* One caller, one other device, fair scheduling: the write buffer drains and the replica converges.
SPECIFICATION FairSpec
CONSTANTS
    Modes = {"Buffered"}
    Callers = {a}
    Writes = {w1, w2}
    ExtWrites = {x1}
    WRITE_RETRIES = 1
    MaxProbes = 1
    None = None
PROPERTIES
    PendingDrains
    FlushReturns
    Converges
\* A dropped engine stops.
CHECK_DEADLOCK FALSE
