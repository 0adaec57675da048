SPECIFICATION Spec
CONSTANTS
    Tools = {t1}
    Args = {a1}
    HardLimit = 2
    Workers = 2
    MaxBatch = 2
    MaxCalls = 4
    MaxRuns = 2
INVARIANTS OnceInFlight NobodyWaitsInVain BudgetBounds ServedFromOwnRun
CHECK_DEADLOCK FALSE
