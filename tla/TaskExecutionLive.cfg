CONSTANTS
    t1 = t1
    t2 = t2
    s1 = s1
    Tasks <- MCTwo
    Deps <- MCIndependent
    Contend = {}
    GithubTasks = {}
    ReviewReady = TRUE
    Operators = {"operator"}
    MaxMutable = 1
    MaxVerifiers = 1
    MaxTotal = 1
    Nobody = Nobody
    MaxCrashes = 0
    MaxExits = 0
    MaxCommands = 0
    Commands = {}
    GateOutlastsTtl = FALSE
    LateVerifierFailure = FALSE
SPECIFICATION MCSpec
CHECK_DEADLOCK FALSE
INVARIANTS
    SharedSlotRespected
PROPERTIES
    
    StopEnds
