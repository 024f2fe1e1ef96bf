CONSTANTS
    t1 = t1
    t2 = t2
    Tasks <- MCTwo
    Deps <- MCIndependent
    Contend <- MCContend
    GithubTasks = {}
    ReviewReady = TRUE
    Operators = {"operator"}
    MaxMutable = 2
    MaxVerifiers = 2
    MaxTotal = 2
    Nobody = Nobody
    MaxCrashes = 0
    MaxExits = 0
    MaxCommands = 1
    Commands = {"interrupt", "pause", "review"}
    GateOutlastsTtl = FALSE
    LateVerifierFailure = TRUE
SYMMETRY MCSymmetry
SPECIFICATION MCSpec
CHECK_DEADLOCK FALSE
INVARIANTS
    WritersExclude
    CandidateVerified
    DependentsWait
