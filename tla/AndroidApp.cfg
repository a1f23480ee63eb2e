\* Two coroutines at a time, another device, and a process that may be killed.
SPECIFICATION FairSpec
CONSTANTS
    Jobs = {j1, j2}
    Commands = {"switch", "stop"}
    None = None
    Unset = Unset
    Torn = Torn
    MaxVersion = 2
    MaxKills = 1
    MaxOpens = 2
INVARIANTS
    TypeOK
    NeverAhead
PROPERTIES
    FresherStays
    DisplayConverges
    NotificationFollows
CHECK_DEADLOCK FALSE
