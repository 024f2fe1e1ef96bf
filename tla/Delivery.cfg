CONSTANTS
    Operators = {o1, o2}
    Profiles <- MCAttested
    NTasks = 1
    Commands = {"stop", "drain", "pause"}
    MaxCommands = 1
    MaxMoves = 0
    MaxPushes = 0
    MaxFailures = 1
SPECIFICATION Spec
CHECK_DEADLOCK FALSE
SYMMETRY MCSymmetry
INVARIANTS
    TypeOK
    SignedPacketProven
    DeliveryConsistent
