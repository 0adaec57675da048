SPECIFICATION FairSessions
CONSTANTS
    Chats = {c1, c2}
    Workers = 2
    MaxSessions = 1
    MaxMessages = 3
    MaxFaults = 1
INVARIANTS OverlapOnlyWhenStray TurnsAreKept
PROPERTY InboxSettles
\* The process may be shut down.
CHECK_DEADLOCK FALSE
