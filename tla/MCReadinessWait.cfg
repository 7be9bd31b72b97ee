SPECIFICATION FairSpec
CONSTANTS
    Procs = {p1, p2}
    NoProc = NoProc
    HalfRange = 2
    MaxIssued = 1
PROPERTY WaitReturns
CHECK_DEADLOCK FALSE
