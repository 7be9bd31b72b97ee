SPECIFICATION Spec
CONSTANTS
    Callers = {c1}
    Ops = {"append"}
    Meta = meta
    Old = old
    Nobody = nobody
    Capacity = 1
    MaxRuns = 1
    MaxOpens = 1
    MaxFaults = 0
INVARIANTS
    AckedReadable
CHECK_DEADLOCK FALSE
