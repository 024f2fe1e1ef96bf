CONSTANTS
    Attempts = {"a1"}
    Validations = {"v1"}
    AttemptCodes = {"infra", "policy"}
    RunCodes = {"infra"}
    Moves = {"resumed"}
    Budget = 0
    TraceLimit = 0
    Tabs = {t1, t2}
    Keys = {"k1", "k2", "k3"}
    Editors = {"e1"}
    MaxReceipts = 2
    MaxSamples = 1
    MaxRequests = 2
    MaxEdits = 1
    MaxFaults = 1
SPECIFICATION MCSpec
SYMMETRY MCSymmetry
CHECK_DEADLOCK FALSE
INVARIANTS
    OutcomeCustody
    KnowledgeCustody
    EvidenceCustody
    EvaluationCustody
    OperatorCustody
    RecoveryCustody
    AdmissionCustody
