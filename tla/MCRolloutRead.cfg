SPECIFICATION Spec
CONSTANTS
    Callers = {c1, c2}
    Ops = {"append"}
    Meta = meta
    Old = old
    Nobody = nobody
    Capacity = 1
    MaxRuns = 1
    MaxOpens = 1
    MaxFaults = 1
INVARIANTS
    AckedReadable
CHECK_DEADLOCK FALSE
