SPECIFICATION FairSpec
CONSTANTS
    Procs = {p1, p2, p3}
    NoProc = NoProc
    HalfRange = 2
    MaxIssued = 2
INVARIANTS
    SingleMark
    NoBypass
PROPERTY ParkedWaiterWakes
CHECK_DEADLOCK FALSE
