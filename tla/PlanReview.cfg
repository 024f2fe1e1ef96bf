CONSTANTS
    Findings <- MCFindings
    Interviewed = TRUE
    Automatic = FALSE
    MaxRevisions = 2
    MaxBriefs = 2
    MaxCommands = 2
    MaxFailures = 1
    MaxInvalid = 1
    MaxWorlds = 1
SPECIFICATION MCSpec
INVARIANTS
    ApprovalEarned
    VerdictsHeeded
PROPERTY ReviewEnds
CHECK_DEADLOCK FALSE
