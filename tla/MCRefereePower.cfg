SPECIFICATION Spec
CONSTANTS
    Flags = {f1, f2, f3}
    Threads = {t1, t2}
    Budgets <- PowerBudgets
    MaxPowerLosses = 1
    Corrupt = Corrupt
SYMMETRY Interchangeable
INVARIANTS
    TypeOK
    AnnouncedIsDurable
    AcceptancesArePaid
    IInv
CHECK_DEADLOCK FALSE
