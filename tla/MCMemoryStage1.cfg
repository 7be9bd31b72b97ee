SPECIFICATION Spec
CONSTANTS
    Workers = {w1, w2}
    Consolidators = {}
    Threads = {t1, t2}
    Pollutable = {}
    Deletable = {t1, t2}
    Resettable = FALSE
    LeaseSeconds = 1
    RetryDelay = 1
    Cooldown = 1
    Retries = 1
    MaxRunning = 1
    MaxTime = 1
    MaxTokens = 2
    MaxWatermark = 3
SYMMETRY Symmetry
INVARIANTS
    ExtractionExclusive
    RunningCapHolds
    OutputMatchesSuccess
    NothingResurrected
PROPERTY SuccessAdvances
CHECK_DEADLOCK FALSE
