\* Buffered commits against a store another device writes to: NoLostUpdate fails.
SPECIFICATION Spec
CONSTANTS
    Modes = {"Buffered"}
    Callers = {a}
    Writes = {w1, w2}
    ExtWrites = {x1}
    WRITE_RETRIES = 0
    MaxProbes = 1
    None = None
PROPERTIES
    NoLostUpdate
CHECK_DEADLOCK FALSE
