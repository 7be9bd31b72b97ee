SPECIFICATION Spec
CONSTANTS
    Inputs = {i1}
    Mails = {m1}
    Triggers = {m1}
    Injects = {x1}
    Starters = {"loop", "ext", "guardian"}
    MaxTurns = 2
    MaxStates = 8
    MaxCommands = 1
    MaxFollowUps = 1
INVARIANTS
    OneFate
CHECK_DEADLOCK FALSE
