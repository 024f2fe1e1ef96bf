\* A run without blocking findings whose bindings change and whose
\* operator asks for changes once.
CONSTANTS
    Findings = {}
    Interviewed = FALSE
    Automatic = FALSE
    MaxRevisions = 2
    MaxBriefs = 0
    MaxCommands = 1
    MaxFailures = 0
    MaxInvalid = 0
    MaxWorlds = 1
SPECIFICATION Spec
INVARIANT CertifiedPlanReviewed
CHECK_DEADLOCK FALSE
