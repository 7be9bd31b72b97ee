SPECIFICATION FairSpec
CONSTANTS
    Observers = {o1, o2}
    Initial = o1
    Terminators = {t1, t2}
    Impatient = {o1, o2}
    MaxItems = 1
    MaxCalls = 1
    None = None
CHECK_DEADLOCK FALSE
INVARIANT OneOutcome
INVARIANT ContentConserved
INVARIANT ObserverDrivesScript
INVARIANT NothingLeftOpen
PROPERTY TerminationAnswered
PROPERTY YieldAnswered
PROPERTY ShutdownCompletes
