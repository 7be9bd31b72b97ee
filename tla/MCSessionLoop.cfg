SPECIFICATION FairSpec
CONSTANTS
    Inputs = {i1}
    Mails = {m1}
    Triggers = {m1}
    Injects = {}
    Starters = {"loop"}
    MaxTurns = 3
    MaxStates = 12
    MaxCommands = 1
    MaxFollowUps = 1
INVARIANTS
    TerminalOnce
    SingleRunner
    NothingLost
PROPERTIES
    TurnEnds
    InputReachesHistory
CHECK_DEADLOCK FALSE
