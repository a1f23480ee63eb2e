\* Two coroutines write the cache file after they have released the mutex.
SPECIFICATION Spec
CONSTANTS
    Jobs = {j1, j2}
    Commands = {"switch", "stop"}
    None = None
    Unset = Unset
    Torn = Torn
    MaxVersion = 2
    MaxKills = 1
    MaxOpens = 2
INVARIANTS
    CacheIsLast
CHECK_DEADLOCK FALSE
