SPECIFICATION FairSpec
CONSTANTS
    Messages = {m1, m2}
    MaxAttempts = 2
    MaxCrashes = 1
    MaxPostponed = 1
INVARIANTS AttemptsBounded SavedWhenQuiet
PROPERTIES CancelHolds MessagesSettle
