SPECIFICATION FairSpec
CONSTANTS
    Batches = {{m1}, {m2, m3}}
    Passes = {p1, p2}
    Dispatcher = dispatcher
    MaxDepth = 2
    MaxFailures = 1
    MaxCrashes = 1
INVARIANTS RetryKeepsMessages FiringIsWorkedOn
PROPERTY ChatIsReleased
CHECK_DEADLOCK FALSE
