SPECIFICATION FairSpec
CONSTANTS
    Flags = {f1, f2, f3}
    Threads = {t1, t2}
    Budgets <- MCBudgets
    MaxPowerLosses = 0
    Corrupt = Corrupt
INVARIANTS
    AnswersArePaid
    AcceptedOnce
    StatusConsistent
PROPERTIES
    ScoreboardSpec
    LockIsReleased
