SPECIFICATION Spec
CONSTANTS
    Batches = {{m1}, {m2}}
    Passes = {p1}
    Dispatcher = dispatcher
    MaxDepth = 2
    MaxFailures = 0
    MaxCrashes = 0
INVARIANT OwedIsKept
CHECK_DEADLOCK FALSE
