CONSTANTS
    Operators = {o1}
    Profiles <- MCUnattested
    NTasks = 2
    Commands = {"archive", "preserve", "pause"}
    MaxCommands = 1
    MaxMoves = 1
    MaxPushes = 1
    MaxFailures = 0
SPECIFICATION FairSpec
CHECK_DEADLOCK FALSE
INVARIANTS
    HeadsKept
PROPERTIES
    DeliveryEnds
