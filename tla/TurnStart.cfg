CONSTANTS
    Turns = {t1}
    NoTurn = NoTurn
    MaxPolls = 1
    MaxCrashes = 1
    MaxExits = 1
    StopAllowed = TRUE
    AnswerNamesTurn = TRUE
SPECIFICATION Spec
CONSTRAINT OneDisturbance
CHECK_DEADLOCK FALSE
INVARIANTS
    TypeOK
    ResolvedOnce
    ContainmentIrreversible
    NoUntrackedTurn
    LeaseCoversTurn
    ReportsTruthful
PROPERTY ImplementsCustody
