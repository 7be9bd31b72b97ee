SPECIFICATION Spec
CONSTANTS
    Workers = {w1, w2}
    Consolidators = {w1, w2}
    Threads = {t1}
    Pollutable = {t1}
    Deletable = {}
    Resettable = TRUE
    LeaseSeconds = 1
    RetryDelay = 1
    Cooldown = 1
    Retries = 1
    MaxRunning = 1
    MaxTime = 1
    MaxTokens = 3
    MaxWatermark = 3
SYMMETRY Symmetry
INVARIANTS
    WatermarkCovers
    ConsolidationExclusive
    MarksOfLastRun
CHECK_DEADLOCK FALSE
