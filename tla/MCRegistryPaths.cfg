SPECIFICATION Spec
CONSTANTS
    Procs = {p1, p2, p3}
    Threads = {t1, t2}
    Stored = {t2}
    RootThread = rt
    Paths = {a, b}
    Root = root
    NoPath = nopath
    SpawnPaths = {a, b}
    Vacant = vacant
    Reserved = reserved
    Unborn = unborn
    n1 = n1
    Bases = {n1}
    Pools <- OneName
    StoredNicks <- SameName
    NoNick = nonick
    MaxThreads = 2
    Unlimited = FALSE
    MaxResets = 1
SYMMETRY Symmetry
INVARIANTS
    AgentsWithinLimit
    SlotsExact
    PathHeld
CHECK_DEADLOCK FALSE
