SPECIFICATION Spec
CONSTANTS
    Callers = {c1, c2}
    Ops = {"append", "shutdown", "patch"}
    Meta = meta
    Old = old
    Nobody = nobody
    Capacity = 1
    MaxRuns = 1
    MaxOpens = 2
    MaxFaults = 2
SYMMETRY Symmetry
INVARIANTS
    AckedWritten
    WaitersServed
PROPERTIES
    ReadersKeepHistory
CHECK_DEADLOCK FALSE
