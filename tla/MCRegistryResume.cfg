SPECIFICATION Spec
CONSTANTS
    Procs = {p1}
    Threads = {t1, t2}
    Stored = {t2}
    RootThread = rt
    Paths = {a}
    Root = root
    NoPath = nopath
    SpawnPaths = {nopath}
    Vacant = vacant
    Reserved = reserved
    Unborn = unborn
    n1 = n1
    Bases = {n1}
    Pools <- OneName
    StoredNicks <- SameName
    NoNick = nonick
    MaxThreads = 2
    Unlimited = TRUE
    MaxResets = 1
INVARIANTS
    NicknamesUnique
CHECK_DEADLOCK FALSE
