SPECIFICATION FairSpec
CONSTANTS
    Servers = {s1}
    Callers = {a}
    None = None
    MaxConns = 4
    MaxConnects = 1
    MaxBreaks = 1
    MaxExpiries = 1
    MaxRestarts = 1
    MaxDisconnects = 1
INVARIANTS ServedIsOpen LockedPathsLeakNothing
PROPERTIES ToolsBecomeReady BrokenIsDropped
\* Nothing need happen once the last server is gone.
CHECK_DEADLOCK FALSE
