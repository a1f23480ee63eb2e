\* Two processes that both find the lock of a crashed third stale: StaleCommitFails is lost.
SPECIFICATION Spec
CONSTANTS
    Procs = {p, q, r}
    Payloads = {d1, d2}
    Empty = Empty
    Torn = Torn
    None = None
    SlowHolders = FALSE
    MaxCrashes = 1
PROPERTIES
    StaleCommitFails
