SPECIFICATION FairSpec
CONSTANTS
    Targets = {t1}
    NoTarget = NoTarget
    MaxFollowUps = 0
    Limits = {0, 1}
    MaxOverlap = 2
    MaxRaises = 1
    MaxEdits = 2
    MaxCrashes = 1
    MaxMishaps = 2
INVARIANTS FollowUpsBounded OpenedOnce ActiveHasWork
PROPERTIES OutcomeIsFinal AwaitedIsResolved
\* Every target may be resolved and every bound used up.
CHECK_DEADLOCK FALSE
