SPECIFICATION FairSpec
CONSTANTS
    w1 = w1
    w2 = w2
    r1 = r1
    r2 = r2
    free = free
    c1 = c1
    c2 = c2
    k1 = k1
    NoKey = NoKey
    Requests = {w1, r1, r2, free}
    Conns = {c1, c2}
    Keys = {k1}
    ConnOf <- MCConnOf
    KeyOf <- MCKeyOf
    SharedReads <- MCSharedReads
INVARIANTS
    CleanupQuiesces
PROPERTIES
    Serialized
    RequestsEnd
    ShutdownEnds
CHECK_DEADLOCK FALSE
