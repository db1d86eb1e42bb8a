SPECIFICATION Spec
CONSTANTS
    Rows = {r1, r2}
    Askers = {a1}
    NumReloads = 2
    Budgets <- EditedPeriod
    LastDay = 2
    RefreshInterval = 3
    RetryInterval = 1
    SourceTimeout = 1
    MaxOverlapped = 1
    r1 = r1
    r2 = r2
    a1 = a1
INVARIANTS
    NeverMisses
