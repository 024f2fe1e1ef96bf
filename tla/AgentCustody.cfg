CONSTANTS
    Planned = {m1, m2}
    Texts = {x1, x2}
    TurnBudget = 2
    GoalBudget = 3
    MinTokens = 1
    Percents = {50}
    WireSize = 1
    MaxTurns = 2
    MaxUsage = 2
    MaxMessages = 2
    MaxFaults = 1
SPECIFICATION MCSpec
SYMMETRY MCSymmetry
CHECK_DEADLOCK FALSE
INVARIANTS
    GovernorCustody
    BudgetCustody
    ConsultationCurrent
    CandidateSound
    RunnerCustody
    AccountCustody
