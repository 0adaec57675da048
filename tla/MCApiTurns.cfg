SPECIFICATION FairSpec
CONSTANTS
    t1 = t1
    t2 = t2
    Turns = {t1, t2}
    MaxWarms = 2
    QueueLimit = 1
INVARIANTS TurnTaskExact CancelStaysInTurn WorkIsExclusive
PROPERTIES RequestsEnd
\* Every request has been answered and every object is used up.
CHECK_DEADLOCK FALSE
