SPECIFICATION Spec
CONSTANTS
    Procs = {p1, p2}
    Threads = {t1, t2, t3}
    Stored = {t3}
    RootThread = rt
    Paths = {a}
    Root = root
    NoPath = nopath
    SpawnPaths = {nopath}
    Vacant = vacant
    Reserved = reserved
    Unborn = unborn
    n1 = n1
    Bases = {n1}
    Pools <- OneName
    StoredNicks <- AnyStored
    NoNick = nonick
    MaxThreads = 2
    Unlimited = TRUE
    MaxResets = 2
SYMMETRY Symmetry
INVARIANTS
    SlotsCovered
    NicknamesDistinct
CHECK_DEADLOCK FALSE
