\* Three processes, a crash, any of them reclaiming a lockfile it finds stale.
SPECIFICATION FairSpec
CONSTANTS
    Procs = {p, q, r}
    Payloads = {d1, d2}
    Empty = Empty
    Torn = Torn
    None = None
    SlowHolders = FALSE
    MaxCrashes = 1
INVARIANTS
    TypeOK
    MutualExclusion
    NeverTorn
PROPERTIES
    ImplementsConditionalStore
    PutEnds
