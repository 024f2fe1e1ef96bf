CONSTANTS
    Turns = {t1}
    NoTurn = NoTurn
    MaxPolls = 1
    MaxCrashes = 1
    MaxExits = 0
    StopAllowed = FALSE
    AnswerNamesTurn = TRUE
SPECIFICATION MaintenanceFairSpec
CHECK_DEADLOCK FALSE
PROPERTY ReceiptResolved
