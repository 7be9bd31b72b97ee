SPECIFICATION Spec
CONSTANTS
    MaxOutputs = 2
    MaxRetained = 1
    MaxConnections = 2
    NoConnection = NoConnection
CHECK_DEADLOCK FALSE
INVARIANTS
    EventsInOrder
    CaughtUp
    UsedConnectionServed
    StdinOnce
