CONSTANTS
    Callers = {"pump", "user"}
    Accounts = {"A", "B"}
    First = "A"
    SinkSize = 2
    WriterSize = 1
    RestartLimit = 1
    MaxServers = 3
    MaxRequests = 1
    MaxNotes = 1
    MaxExits = 1
    MaxSwitches = 1
SPECIFICATION MCSpec
CHECK_DEADLOCK FALSE
INVARIANTS
    LinkCustody
    PendingAnswerable
    InvestigationCustody
PROPERTIES
    RuntimeServes
