SPECIFICATION FairSpec
CONSTANTS
    Tasks = {t1}
    Procs = {p1}
    MaxStarts = 3
    MaxWorkers = 2
    PendingLimit = 1
INVARIANTS AtMostOnce NothingStranded
PROPERTIES CancelIsFinal ImplementsLedger EveryTaskEnds
\* Every task has ended and every start() is used up.
CHECK_DEADLOCK FALSE
